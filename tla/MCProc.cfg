CONSTANTS
    NPROC = 4
    MaxPid = 4
SPECIFICATION FairSpec
INVARIANTS UniquePids ParentAlive NoLostExit ProcInv
PROPERTY WaitReturns
CHECK_DEADLOCK FALSE
