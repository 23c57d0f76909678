----------------------------- MODULE SleepLock ------------------------------
(***************************************************************************)
(* Sleep locks (kernel/sleeplock.c) over sleep() and wakeup()              *)
(* (kernel/proc.c), at the grain of the spinlocks they take: lk->lk, which *)
(* protects the sleep lock, and every process's p->lock, which protects    *)
(* its state and channel.  A step is what a process does between two       *)
(* operations on a spinlock.                                               *)
(*                                                                         *)
(* Dispatch stands for the scheduler as sleep() expects it: it takes       *)
(* p->lock, runs a RUNNABLE process and leaves the lock for it to release. *)
(***************************************************************************)
EXTENDS Naturals

CONSTANTS
    N,        \* processes are the slots 1 .. N of the table, in scan order
    MaxKill   \* bound: calls of kill() in a behaviour

ASSUME NAssumption == N \in Nat /\ MaxKill \in Nat

Proc == 1 .. N
None == 0

VARIABLES
    spin,    \* the holder of lk->lk, or None
    plock,   \* plock[p]: the holder of p->lock, or None
    state,   \* state[p]: RUNNING, SLEEPING or RUNNABLE
    chan,    \* chan[p]: p->chan is the sleep lock
    locked,  \* lk->locked
    pid,     \* lk->pid
    pc,      \* pc[p]: where p is
    scan,    \* scan[p]: the slot that p's wakeup() looks at next
    kills    \* number of calls of kill() so far

vars == <<spin, plock, state, chan, locked, pid, pc, scan, kills>>

(***************************************************************************)
(* out      outside the lock            acquire  acquiring lk->lk          *)
(* test     while(lk->locked)           s_plock  sleep(): acquire p->lock  *)
(* s_spin   sleep(): release lk->lk     s_sched  sleep(): set state, sched *)
(* s_off    switched out by sched()     s_back   sleep(): reacquire lk->lk *)
(* in       holds the sleep lock        release  acquiring lk->lk          *)
(* clear    releasesleep(): unlock      wake     releasesleep(): wakeup()  *)
(***************************************************************************)
InSleep == {"s_plock", "s_spin", "s_sched", "s_off", "s_back"}
Stages == {"out", "acquire", "test", "in", "release", "clear", "wake"} \cup InSleep

Goto(p, s) == pc' = [pc EXCEPT ![p] = s]

Init ==
    /\ spin = None
    /\ plock = [p \in Proc |-> None]
    /\ state = [p \in Proc |-> "RUNNING"]
    /\ chan = [p \in Proc |-> FALSE]
    /\ locked = FALSE
    /\ pid = None
    /\ pc = [p \in Proc |-> "out"]
    /\ scan = [p \in Proc |-> 1]
    /\ kills = 0
-----------------------------------------------------------------------------
(***************************************************************************)
(* acquiresleep()                                                          *)
(***************************************************************************)
Call(p) ==
    /\ pc[p] = "out"
    /\ Goto(p, "acquire")
    /\ UNCHANGED <<spin, plock, state, chan, locked, pid, scan, kills>>

AcquireSpin(p, from, to) ==
    /\ pc[p] = from
    /\ spin = None
    /\ spin' = p
    /\ Goto(p, to)
    /\ UNCHANGED <<plock, state, chan, locked, pid, scan, kills>>

TestHeld(p) ==
    /\ pc[p] = "test"
    /\ locked
    /\ Goto(p, "s_plock")
    /\ UNCHANGED <<spin, plock, state, chan, locked, pid, scan, kills>>

\* Mutant of TestFree: "if" instead of "while" around sleep().
TestFreeOnce(p) ==
    /\ pc[p] = "test"
    /\ locked' = TRUE
    /\ pid' = p
    /\ spin' = None
    /\ Goto(p, "in")
    /\ UNCHANGED <<plock, state, chan, scan, kills>>

TestFree(p) ==
    /\ pc[p] = "test"
    /\ ~locked
    /\ locked' = TRUE
    /\ pid' = p
    /\ spin' = None
    /\ Goto(p, "in")
    /\ UNCHANGED <<plock, state, chan, scan, kills>>

(***************************************************************************)
(* sleep(lk, &lk->lk)                                                      *)
(***************************************************************************)
\* Mutant of SleepLockProc: lk->lk is released before p->lock is taken.
SleepUnlockFirst(p) ==
    /\ pc[p] = "s_plock"
    /\ spin' = None
    /\ Goto(p, "s_spin")
    /\ UNCHANGED <<plock, state, chan, locked, pid, scan, kills>>

SleepLockProc(p) ==
    /\ pc[p] = "s_plock"
    /\ plock[p] = None
    /\ plock' = [plock EXCEPT ![p] = p]
    /\ Goto(p, "s_spin")
    /\ UNCHANGED <<spin, state, chan, locked, pid, scan, kills>>

\* Mutant of SleepRelease: the caller's lock is kept.
SleepKeepLock(p) ==
    /\ pc[p] = "s_spin"
    /\ Goto(p, "s_sched")
    /\ UNCHANGED <<spin, plock, state, chan, locked, pid, scan, kills>>

SleepRelease(p) ==
    /\ pc[p] = "s_spin"
    /\ spin' = None
    /\ Goto(p, "s_sched")
    /\ UNCHANGED <<plock, state, chan, locked, pid, scan, kills>>

\* Mutant of SleepSched: p->chan is not set.
SleepNoChan(p) ==
    /\ pc[p] = "s_sched"
    /\ state' = [state EXCEPT ![p] = "SLEEPING"]
    /\ plock' = [plock EXCEPT ![p] = None]
    /\ Goto(p, "s_off")
    /\ UNCHANGED <<spin, chan, locked, pid, scan, kills>>

\* Set the channel and the state, and sched(): the scheduler this switches
\* to releases p->lock.
SleepSched(p) ==
    /\ pc[p] = "s_sched"
    /\ chan' = [chan EXCEPT ![p] = TRUE]
    /\ state' = [state EXCEPT ![p] = "SLEEPING"]
    /\ plock' = [plock EXCEPT ![p] = None]
    /\ Goto(p, "s_off")
    /\ UNCHANGED <<spin, locked, pid, scan, kills>>

\* The scheduler takes p->lock and switches to p, which returns from sched(),
\* tidies up and releases p->lock.
Dispatch(p) ==
    /\ pc[p] = "s_off"
    /\ state[p] = "RUNNABLE"
    /\ plock[p] = None
    /\ state' = [state EXCEPT ![p] = "RUNNING"]
    /\ chan' = [chan EXCEPT ![p] = FALSE]
    /\ Goto(p, "s_back")
    /\ UNCHANGED <<spin, plock, locked, pid, scan, kills>>

(***************************************************************************)
(* releasesleep(), with the scan of wakeup(lk)                             *)
(***************************************************************************)
StartRelease(p) ==
    /\ pc[p] = "in"
    /\ Goto(p, "release")
    /\ UNCHANGED <<spin, plock, state, chan, locked, pid, scan, kills>>

Unlock(p) ==
    /\ pc[p] = "clear"
    /\ locked' = FALSE
    /\ pid' = None
    /\ scan' = [scan EXCEPT ![p] = 1]
    /\ Goto(p, "wake")
    /\ UNCHANGED <<spin, plock, state, chan, kills>>

\* Mutant of WakeupSlot: the scan leaves out the last slot.
WakeupSkipsLast(p) ==
    /\ pc[p] = "wake"
    /\ scan[p] <= N
    /\ LET q == scan[p] IN
       state' = IF q # p /\ q < N /\ state[q] = "SLEEPING" /\ chan[q]
                THEN [state EXCEPT ![q] = "RUNNABLE"]
                ELSE state
    /\ scan' = [scan EXCEPT ![p] = @ + 1]
    /\ UNCHANGED <<spin, plock, chan, locked, pid, pc, kills>>

\* One iteration of wakeup(): the slot's lock is held for the whole of it.
WakeupSlot(p) ==
    /\ pc[p] = "wake"
    /\ scan[p] <= N
    /\ LET q == scan[p] IN
       /\ q # p => plock[q] = None
       /\ state' = IF q # p /\ state[q] = "SLEEPING" /\ chan[q]
                   THEN [state EXCEPT ![q] = "RUNNABLE"]
                   ELSE state
    /\ scan' = [scan EXCEPT ![p] = @ + 1]
    /\ UNCHANGED <<spin, plock, chan, locked, pid, pc, kills>>

\* Mutant of ReleaseDone: lk->lk is not released.
ReleaseKeepsSpin(p) ==
    /\ pc[p] = "wake"
    /\ scan[p] > N
    /\ Goto(p, "out")
    /\ UNCHANGED <<spin, plock, state, chan, locked, pid, scan, kills>>

ReleaseDone(p) ==
    /\ pc[p] = "wake"
    /\ scan[p] > N
    /\ spin' = None
    /\ Goto(p, "out")
    /\ UNCHANGED <<plock, state, chan, locked, pid, scan, kills>>

\* kill(): wakes its victim whatever the victim sleeps on.
Kill(p) ==
    /\ kills < MaxKill
    /\ plock[p] = None
    /\ kills' = kills + 1
    /\ state' = IF state[p] = "SLEEPING" THEN [state EXCEPT ![p] = "RUNNABLE"] ELSE state
    /\ UNCHANGED <<spin, plock, chan, locked, pid, pc, scan>>
-----------------------------------------------------------------------------
\* The steps a process takes once it is inside the lock's code.
Step(p) ==
    \/ AcquireSpin(p, "acquire", "test") \/ TestHeld(p) \/ TestFree(p)
    \/ SleepLockProc(p) \/ SleepRelease(p) \/ SleepSched(p) \/ Dispatch(p)
    \/ AcquireSpin(p, "s_back", "test")
    \/ StartRelease(p) \/ AcquireSpin(p, "release", "clear") \/ Unlock(p)
    \/ WakeupSlot(p) \/ ReleaseDone(p)

Next == \E p \in Proc : Call(p) \/ Step(p) \/ Kill(p)

Spec == Init /\ [][Next]_vars

\* Every process keeps running, a RUNNABLE one is dispatched, and a holder
\* of the lock releases it in the end.  Nobody is obliged to take it.
FairSpec == Spec /\ \A p \in Proc : WF_vars(Step(p))
-----------------------------------------------------------------------------
TypeOK ==
    /\ spin \in Proc \cup {None}
    /\ plock \in [Proc -> Proc \cup {None}]
    /\ state \in [Proc -> {"RUNNING", "SLEEPING", "RUNNABLE"}]
    /\ chan \in [Proc -> BOOLEAN]
    /\ locked \in BOOLEAN
    /\ pid \in Proc \cup {None}
    /\ pc \in [Proc -> Stages]
    /\ scan \in [Proc -> 1 .. N + 1]
    /\ kills \in 0 .. MaxKill

Holds(p) == pc[p] \in {"in", "release", "clear"}

\* The sleep lock excludes, and lk->pid names its holder, so that
\* holdingsleep() is right for everyone (sleeplock.c:21-52).
MutualExclusion ==
    /\ \A p \in Proc : Holds(p) => locked /\ pid = p
    /\ locked => \E p \in Proc : Holds(p)

\* No wakeup is lost between the test of lk->locked and the sleep: when the
\* lock is free, a sleeper is still ahead of the scan of a releasesleep()
\* (proc.c:615-620).
NoLostWakeup ==
    \A q \in Proc : state[q] = "SLEEPING" /\ ~locked =>
        \E p \in Proc : pc[p] = "wake" /\ scan[p] <= q

\* sched() is entered with p->lock and without lk->lk: "sched locks" and
\* "sched p->lock" cannot happen (proc.c:561-564).
SchedLocks ==
    \A p \in Proc : pc[p] = "s_sched" => plock[p] = p /\ spin # p

\* A sleeper is woken as long as holders release the lock.
SleeperWakes ==
    \A p \in Proc : state[p] = "SLEEPING" ~> state[p] # "SLEEPING"

\* When the lock is wanted it is, sooner or later, held.
LockProgress ==
    (\E p \in Proc : pc[p] \in {"acquire", "test"} \cup InSleep) ~> locked
-----------------------------------------------------------------------------
(***************************************************************************)
(* The inductive invariant: who holds which spinlock, and what a sleeper   *)
(* relies on.                                                              *)
(***************************************************************************)
HasSpin(p) == pc[p] \in {"test", "s_plock", "s_spin", "clear", "wake"}

SpinOK == \A p \in Proc : spin = p <=> HasSpin(p)

PlockOK ==
    \A p \in Proc :
        plock[p] = IF pc[p] \in {"s_spin", "s_sched"} THEN p ELSE None

StateOK ==
    \A p \in Proc :
        /\ pc[p] # "s_off" => state[p] = "RUNNING"
        /\ pc[p] = "s_off" => state[p] # "RUNNING" /\ chan[p]

\* A process on its way into sleep() has seen the lock held, and whoever
\* released it since has not yet passed it in the scan.
PendingOK ==
    /\ \A q \in Proc : pc[q] \in {"s_plock", "s_spin"} => locked
    /\ \A q \in Proc : (pc[q] = "s_sched" \/ state[q] = "SLEEPING") /\ ~locked =>
           \E p \in Proc \ {q} : pc[p] = "wake" /\ scan[p] <= q

LockInv ==
    /\ TypeOK /\ SpinOK /\ PlockOK /\ StateOK /\ MutualExclusion /\ PendingOK
    /\ \A p \in Proc : pc[p] = "wake" => ~locked
=============================================================================
