SPECIFICATION Spec
CONSTANTS
    Requests = {r1, r2, r3}
    None = None
    Modes = {"initial", "queue"}
    MaxRetries = 2
    Compactor = FALSE
    MaxTurns = 1
    MaxAborts = 1
    MaxBash = 1
SYMMETRY Symmetry
CHECK_DEADLOCK FALSE
INVARIANTS
    TypeOK
    IsStreamingTruthful
    
PROPERTIES
    BashDeferred
    
