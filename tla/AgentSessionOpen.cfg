SPECIFICATION Spec
CONSTANTS
    Requests = {r1, r2}
    None = None
    Modes = {"initial", "behaviour", "queue", "custom"}
    MaxRetries = 1
    Compactor = TRUE
    MaxTurns = 0
    MaxAborts = 1
    MaxBash = 1
SYMMETRY Symmetry
CHECK_DEADLOCK FALSE
INVARIANTS
    BashFlushed
