CONSTANTS
    Proc = {p1, p2}
    Block = {b1, b2}
    Value = {0, 1}
    NotCached = NotCached
    NoBlock = NoBlock
    MAXOPBLOCKS = 2
    LOGSIZE = 4
    LogDiskSize = 6
    OpBlocks = 2
    MaxCrash = 2
SPECIFICATION Spec
SYMMETRY Sym
INVARIANTS QuiescentDurable UninstalledPinned LogInv
PROPERTIES AtomicDiskSpec WriteAhead
