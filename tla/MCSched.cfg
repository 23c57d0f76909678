CONSTANTS
    NCPU = 3
    NPROC = 2
SPECIFICATION Spec
INVARIANT OneCpuPerProcess
CHECK_DEADLOCK FALSE
