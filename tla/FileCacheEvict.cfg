\* Two files, one slot: evictions with and without pins.
CONSTANTS
    NoEntry = NoEntry
    Paths = {a, b}
    Callers = {c1}
    BigFiles = {b}
    Mountable = {a, b}
    Capacity = 1
    TTL = 2
    MaxVer = 1
    MaxClock = 2
SPECIFICATION Spec
PROPERTY PinnedStays
