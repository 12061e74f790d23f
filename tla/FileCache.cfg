\* One file, two overlapping callers: races of stat, read, store and writes.
CONSTANTS
    NoEntry = NoEntry
    Paths = {a}
    Callers = {c1, c2}
    BigFiles = {}
    Mountable = {}
    Capacity = 1
    TTL = 1
    MaxVer = 2
    MaxClock = 2
SYMMETRY Symmetry
SPECIFICATION Spec
INVARIANTS TypeOK NeverPoisoned FreshSinceCall StaleAtMostTTL DiffRunsForward
