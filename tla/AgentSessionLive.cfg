SPECIFICATION FairSpec
CONSTANTS
    Requests = {r1, r2}
    None = None
    Modes = {"initial", "queue"}
    MaxRetries = 1
    Compactor = TRUE
    MaxTurns = 1
    MaxAborts = 1
    MaxBash = 0
CHECK_DEADLOCK FALSE
PROPERTIES
    RunSettles
    GuardReleased
    AbortReturns
