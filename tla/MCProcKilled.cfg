CONSTANTS
    NPROC = 3
    MaxPid = 3
SPECIFICATION Spec
INVARIANT KilledExits
CHECK_DEADLOCK FALSE
