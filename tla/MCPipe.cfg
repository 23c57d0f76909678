CONSTANTS
    Proc = {p1, p2}
    Byte = {0, 1}
    NoProc = NoProc
    PIPESIZE = 2
    UINT = 4
    MaxN = 3
SPECIFICATION Spec
SYMMETRY Sym
INVARIANTS PipeInv SleepersJustified
PROPERTY FifoSpec
CHECK_DEADLOCK FALSE
