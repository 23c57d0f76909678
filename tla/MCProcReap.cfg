CONSTANTS
    NPROC = 3
    MaxPid = 3
SPECIFICATION Spec
INVARIANT ReapedByWait
CHECK_DEADLOCK FALSE
