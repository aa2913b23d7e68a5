CONSTANTS
    LogCap = 7
    CacheMax = 3
    PipeCap = 2
    Lengths = {0, 1, 2, 4}
    MaxSends = 4
SPECIFICATION Spec
CHECK_DEADLOCK FALSE
INVARIANTS
    TypeOK
    LinesInOrder
PROPERTIES
    LoopComesBack
    Logged
