SPECIFICATION Spec
CONSTANTS
    SteeringMode = "all"
    FollowUpMode = "all"
    Parallel = FALSE
    MaxCalls = 2
    MaxToolTurns = 1
    MaxTurns = 2
    MaxSent = 3
    MayThrow = FALSE
CHECK_DEADLOCK FALSE
INVARIANTS
    OnceInOrder
