CONSTANTS
    N = 3
    MaxKill = 2
SPECIFICATION FairSpec
INVARIANTS MutualExclusion NoLostWakeup SchedLocks LockInv
PROPERTIES SleeperWakes LockProgress
