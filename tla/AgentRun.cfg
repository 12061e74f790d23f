SPECIFICATION Spec
CONSTANTS
    SteeringMode = "all"
    FollowUpMode = "one-at-a-time"
    Parallel = TRUE
    MaxCalls = 2
    MaxToolTurns = 1
    MaxTurns = 1
    MaxSent = 3
    MayThrow = TRUE
CHECK_DEADLOCK FALSE
INVARIANTS
    TypeOK
    OnceInOrder
    ContextMirrorsTranscript
    ResultsFollowCalls
    
PROPERTY
    AbortEnds
    
