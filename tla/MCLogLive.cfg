CONSTANTS
    Proc = {p1, p2}
    Block = {b1, b2, b3}
    Value = {0}
    NotCached = NotCached
    NoBlock = NoBlock
    MAXOPBLOCKS = 2
    LOGSIZE = 4
    LogDiskSize = 4
    OpBlocks = 1
    MaxCrash = 1
SPECIFICATION FairSpec
INVARIANT NoPanic
PROPERTIES NoLostWakeup 
