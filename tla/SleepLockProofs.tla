-------------------------- MODULE SleepLockProofs ---------------------------
(***************************************************************************)
(* Proofs about SleepLock, for any number of processes.                    *)
(***************************************************************************)
EXTENDS SleepLock, TLAPS

\* initsleeplock() and a table of idle processes satisfy the invariant.
LEMMA InitInv == Init => LockInv
<1> SUFFICES ASSUME Init PROVE LockInv
  OBVIOUS
<1> USE NAssumption DEF Init, Proc, None
<1>1. TypeOK
  <2>1. 1 \in 1 .. N + 1 /\ 0 \in 0 .. MaxKill
    OBVIOUS
  <2>2. scan \in [Proc -> 1 .. N + 1]
    BY <2>1
  <2>3. pc \in [Proc -> Stages] /\ state \in [Proc -> {"RUNNING", "SLEEPING", "RUNNABLE"}]
    BY DEF Stages
  <2>4. plock \in [Proc -> Proc \cup {None}] /\ chan \in [Proc -> BOOLEAN]
    OBVIOUS
  <2> QED
    BY <2>1, <2>2, <2>3, <2>4 DEF TypeOK
<1>2. SpinOK /\ PlockOK /\ StateOK
  BY DEF SpinOK, HasSpin, PlockOK, StateOK
<1>3. MutualExclusion /\ PendingOK
  BY DEF MutualExclusion, Holds, PendingOK
<1> QED
  BY <1>1, <1>2, <1>3 DEF LockInv

\* Every step of acquiresleep(), releasesleep() and kill() keeps the types.
LEMMA TypeStep == TypeOK /\ [Next]_vars => TypeOK'
<1> SUFFICES ASSUME TypeOK, [Next]_vars PROVE TypeOK'
  OBVIOUS
<1> USE NAssumption DEF TypeOK, Proc, None, Stages, InSleep
<1>1. ASSUME NEW p \in Proc, Call(p) PROVE TypeOK'
  BY <1>1 DEF Call, Goto
<1>2. ASSUME NEW p \in Proc, NEW from, NEW to \in {"test", "clear"}, AcquireSpin(p, from, to)
      PROVE TypeOK'
  BY <1>2 DEF AcquireSpin, Goto
<1>3. ASSUME NEW p \in Proc, TestHeld(p) PROVE TypeOK'
  BY <1>3 DEF TestHeld, Goto
<1>4. ASSUME NEW p \in Proc, TestFree(p) PROVE TypeOK'
  BY <1>4 DEF TestFree, Goto
<1>5. ASSUME NEW p \in Proc, SleepLockProc(p) PROVE TypeOK'
  BY <1>5 DEF SleepLockProc, Goto
<1>6. ASSUME NEW p \in Proc, SleepRelease(p) PROVE TypeOK'
  BY <1>6 DEF SleepRelease, Goto
<1>7. ASSUME NEW p \in Proc, SleepSched(p) PROVE TypeOK'
  BY <1>7 DEF SleepSched, Goto
<1>8. ASSUME NEW p \in Proc, Dispatch(p) PROVE TypeOK'
  BY <1>8 DEF Dispatch, Goto
<1>9. ASSUME NEW p \in Proc, StartRelease(p) PROVE TypeOK'
  BY <1>9 DEF StartRelease, Goto
<1>10. ASSUME NEW p \in Proc, Unlock(p) PROVE TypeOK'
  <2>1. scan' \in [Proc -> 1 .. N + 1]
    <3>1. 1 \in 1 .. N + 1
      OBVIOUS
    <3> QED
      BY <1>10, <3>1 DEF Unlock
  <2> QED
    BY <1>10, <2>1 DEF Unlock, Goto
<1>11. ASSUME NEW p \in Proc, WakeupSlot(p) PROVE TypeOK'
  <2>1. scan[p] \in Proc /\ scan[p] + 1 \in 1 .. N + 1
    BY <1>11 DEF WakeupSlot
  <2>2. scan' \in [Proc -> 1 .. N + 1]
    BY <1>11, <2>1 DEF WakeupSlot
  <2>3. state' \in [Proc -> {"RUNNING", "SLEEPING", "RUNNABLE"}]
    BY <1>11, <2>1 DEF WakeupSlot
  <2> QED
    BY <1>11, <2>2, <2>3 DEF WakeupSlot
<1>12. ASSUME NEW p \in Proc, ReleaseDone(p) PROVE TypeOK'
  BY <1>12 DEF ReleaseDone, Goto
<1>13. ASSUME NEW p \in Proc, Kill(p) PROVE TypeOK'
  BY <1>13 DEF Kill
<1>14. CASE UNCHANGED vars
  BY <1>14 DEF vars
<1> QED
  BY <1>1, <1>2, <1>3, <1>4, <1>5, <1>6, <1>7, <1>8, <1>9, <1>10, <1>11, <1>12, <1>13, <1>14
     DEF Next, Step

\* The rest of the invariant, without the types.
Rest ==
    /\ SpinOK /\ PlockOK /\ StateOK /\ MutualExclusion /\ PendingOK
    /\ \A p \in Proc : pc[p] = "wake" => ~locked

\* Every step keeps the rest: who holds which spinlock, and who sleeps why.
LEMMA RestStep == LockInv /\ [Next]_vars => Rest'
<1> SUFFICES ASSUME LockInv, [Next]_vars PROVE Rest'
  OBVIOUS
<1> USE NAssumption DEF LockInv, TypeOK, Rest, Proc, None, Stages, InSleep, SpinOK, HasSpin,
     PlockOK, StateOK, MutualExclusion, Holds, PendingOK
<1>1. ASSUME NEW p \in Proc, Call(p) PROVE Rest'
  BY <1>1 DEF Call, Goto
<1>2. ASSUME NEW p \in Proc, AcquireSpin(p, "acquire", "test") PROVE Rest'
  BY <1>2 DEF AcquireSpin, Goto
<1>2a. ASSUME NEW p \in Proc, AcquireSpin(p, "s_back", "test") PROVE Rest'
  BY <1>2a DEF AcquireSpin, Goto
<1>2b. ASSUME NEW p \in Proc, AcquireSpin(p, "release", "clear") PROVE Rest'
  BY <1>2b DEF AcquireSpin, Goto
<1>3. ASSUME NEW p \in Proc, TestHeld(p) PROVE Rest'
  BY <1>3 DEF TestHeld, Goto
<1>4. ASSUME NEW p \in Proc, TestFree(p) PROVE Rest'
  BY <1>4 DEF TestFree, Goto
<1>5. ASSUME NEW p \in Proc, SleepLockProc(p) PROVE Rest'
  BY <1>5 DEF SleepLockProc, Goto
<1>6. ASSUME NEW p \in Proc, SleepRelease(p) PROVE Rest'
  BY <1>6 DEF SleepRelease, Goto
<1>7. ASSUME NEW p \in Proc, SleepSched(p) PROVE Rest'
  BY <1>7 DEF SleepSched, Goto
<1>8. ASSUME NEW p \in Proc, Dispatch(p) PROVE Rest'
  BY <1>8 DEF Dispatch, Goto
<1>9. ASSUME NEW p \in Proc, StartRelease(p) PROVE Rest'
  BY <1>9 DEF StartRelease, Goto
<1>10. ASSUME NEW p \in Proc, Unlock(p) PROVE Rest'
  BY <1>10 DEF Unlock, Goto
<1>11. ASSUME NEW p \in Proc, WakeupSlot(p) PROVE Rest'
  BY <1>11 DEF WakeupSlot
<1>12. ASSUME NEW p \in Proc, ReleaseDone(p) PROVE Rest'
  BY <1>12 DEF ReleaseDone, Goto
<1>13. ASSUME NEW p \in Proc, Kill(p) PROVE Rest'
  BY <1>13 DEF Kill
<1>14. CASE UNCHANGED vars
  BY <1>14 DEF vars
<1> QED
  BY <1>1, <1>2, <1>2a, <1>2b, <1>3, <1>4, <1>5, <1>6, <1>7, <1>8, <1>9, <1>10, <1>11, <1>12,
     <1>13, <1>14 DEF Next, Step

\* The invariant of acquiresleep(), releasesleep(), sleep() and wakeup().
THEOREM LockInvariant == Spec => []LockInv
<1>1. LockInv /\ [Next]_vars => LockInv'
  BY TypeStep, RestStep DEF LockInv, Rest
<1> QED
  BY InitInv, <1>1, PTL DEF Spec

\* The sleep lock excludes and lk->pid names its holder (sleeplock.c).
THEOREM MutualExclusionCorrect == Spec => []MutualExclusion
<1>1. LockInv => MutualExclusion
  BY DEF LockInv
<1> QED
  BY LockInvariant, <1>1, PTL

\* sleep() misses no wakeup() of releasesleep() (proc.c:615-620).
THEOREM NoLostWakeupCorrect == Spec => []NoLostWakeup
<1>1. LockInv => NoLostWakeup
  BY DEF LockInv, PendingOK, NoLostWakeup
<1> QED
  BY LockInvariant, <1>1, PTL

\* sched() is entered with p->lock and without lk->lk (proc.c:561-564).
THEOREM SchedLocksCorrect == Spec => []SchedLocks
<1>1. LockInv => SchedLocks
  BY DEF LockInv, SpinOK, HasSpin, PlockOK, SchedLocks
<1> QED
  BY LockInvariant, <1>1, PTL
=============================================================================
