-------------------------------- MODULE Proc --------------------------------
(***************************************************************************)
(* The life of processes (kernel/proc.c): fork(), exit(), wait() and       *)
(* kill() over the process table, with wait_lock.                          *)
(*                                                                         *)
(* RUNNABLE stands for the source's RUNNABLE and RUNNING: when a process   *)
(* runs is left to the scheduler, which is taken to run RUNNABLE processes *)
(* and no others.  The only sleep modelled is the one in wait().           *)
(***************************************************************************)
EXTENDS Naturals

CONSTANTS
    NPROC,    \* size of the process table
    MaxPid    \* bound: pids handed out

ASSUME TableAssumption == NPROC \in Nat \ {0} /\ MaxPid \in Nat \ {0}

Slot == 1 .. NPROC
None == 0
initproc == 1   \* userinit() takes the first slot

VARIABLES
    state,      \* state[s], parent[s], pid[s], killed[s]: struct proc
    parent,
    pid,
    killed,
    nextpid,    \* the next pid allocpid() returns
    waitlock,   \* the process that holds wait_lock, or None
    pc,         \* pc[s]: where the process in slot s is
    np,         \* np[s]: the slot that fork() of s is filling, or None
    collected,  \* the pids that a wait() has returned
    panicked    \* the message of the panic() that stopped the kernel, or "no"

vars == <<state, parent, pid, killed, nextpid, waitlock, pc, np, collected, panicked>>

States == {"UNUSED", "USED", "SLEEPING", "RUNNABLE", "ZOMBIE"}

(***************************************************************************)
(* user       in user space               fork_parent  fork(): set parent  *)
(* fork_run   fork(): make it RUNNABLE    wait         wait(): scan        *)
(* wait_sleep wait(): found nothing, holds wait_lock                       *)
(* asleep     wait(): inside sleep()                                       *)
(***************************************************************************)
Stages == {"user", "fork_parent", "fork_run", "wait", "wait_sleep", "asleep"}

Children(s) == {c \in Slot : parent[c] = s}
ZombieChildren(s) == {c \in Children(s) : state[c] = "ZOMBIE"}

\* The slot that a scan of the table for a member of S stops at.
First(c, S) == c \in S /\ \A d \in S : c <= d

\* A process that can take a step of its own.
Live(s) == panicked = "no" /\ state[s] = "RUNNABLE"

Goto(s, stage) == pc' = [pc EXCEPT ![s] = stage]

\* userinit() has made the first process.
Init ==
    /\ state = [s \in Slot |-> IF s = initproc THEN "RUNNABLE" ELSE "UNUSED"]
    /\ parent = [s \in Slot |-> None]
    /\ pid = [s \in Slot |-> IF s = initproc THEN 1 ELSE 0]
    /\ killed = [s \in Slot |-> FALSE]
    /\ nextpid = 2
    /\ waitlock = None
    /\ pc = [s \in Slot |-> "user"]
    /\ np = [s \in Slot |-> None]
    /\ collected = {}
    /\ panicked = "no"
-----------------------------------------------------------------------------
(***************************************************************************)
(* fork().  usertrap() lets a killed process begin no system call.         *)
(***************************************************************************)
Unused == {s \in Slot : state[s] = "UNUSED"}

CanFork(s) ==
    /\ Live(s) /\ pc[s] = "user" /\ ~killed[s]
    /\ nextpid <= MaxPid

\* Mutant of ForkAlloc: allocpid() does not move on.
ForkSamePid(s) ==
    /\ CanFork(s)
    /\ \E c \in Slot :
       /\ First(c, Unused)
       /\ pid' = [pid EXCEPT ![c] = nextpid]
       /\ state' = [state EXCEPT ![c] = "USED"]
       /\ np' = [np EXCEPT ![s] = c]
    /\ Goto(s, "fork_parent")
    /\ UNCHANGED <<parent, killed, nextpid, waitlock, collected, panicked>>

\* allocproc() and the copies made while fork() holds np->lock.
ForkAlloc(s) ==
    /\ CanFork(s)
    /\ \E c \in Slot :
       /\ First(c, Unused)
       /\ pid' = [pid EXCEPT ![c] = nextpid]
       /\ state' = [state EXCEPT ![c] = "USED"]
       /\ np' = [np EXCEPT ![s] = c]
    /\ nextpid' = nextpid + 1
    /\ Goto(s, "fork_parent")
    /\ UNCHANGED <<parent, killed, waitlock, collected, panicked>>

\* No memory for the trap frame, the page table or the user pages:
\* freeproc() and -1.
ForkNoMemory(s) ==
    /\ CanFork(s)
    /\ \E c \in Slot :
       /\ First(c, Unused)
       /\ pid' = [pid EXCEPT ![c] = 0]
       /\ parent' = [parent EXCEPT ![c] = None]
       /\ killed' = [killed EXCEPT ![c] = FALSE]
    /\ nextpid' = nextpid + 1
    /\ UNCHANGED <<state, waitlock, pc, np, collected, panicked>>

\* Mutant of ForkParent: np->parent is not set.
ForkNoParent(s) ==
    /\ Live(s) /\ pc[s] = "fork_parent"
    /\ waitlock = None
    /\ Goto(s, "fork_run")
    /\ UNCHANGED <<state, parent, pid, killed, nextpid, waitlock, np, collected, panicked>>

ForkParent(s) ==
    /\ Live(s) /\ pc[s] = "fork_parent"
    /\ waitlock = None
    /\ parent' = [parent EXCEPT ![np[s]] = s]
    /\ Goto(s, "fork_run")
    /\ UNCHANGED <<state, pid, killed, nextpid, waitlock, np, collected, panicked>>

ForkRun(s) ==
    /\ Live(s) /\ pc[s] = "fork_run"
    /\ state' = [state EXCEPT ![np[s]] = "RUNNABLE"]
    /\ np' = [np EXCEPT ![s] = None]
    /\ Goto(s, "user")
    /\ UNCHANGED <<parent, pid, killed, nextpid, waitlock, collected, panicked>>

(***************************************************************************)
(* exit().  wait_lock is held from reparent() to the change of state, so   *)
(* nobody who looks at parents or children sees anything in between.       *)
(***************************************************************************)
\* Mutant of Reparent: only running children are handed to init.
ReparentRunning(s) ==
    [c \in Slot |-> IF parent[c] = s /\ state[c] # "ZOMBIE" THEN initproc ELSE parent[c]]

Reparent(s) == [c \in Slot |-> IF parent[c] = s THEN initproc ELSE parent[c]]

\* The states after wakeup(w) for every w in W.
Wakeup(W) ==
    [w \in Slot |-> IF w \in W /\ pc[w] = "asleep" /\ state[w] = "SLEEPING"
                    THEN "RUNNABLE" ELSE state[w]]

\* Mutant of Woken: init is not told of the children it inherits.
WokenParentOnly(s) == {parent[s]}

\* Whom exit() of s wakes: its parent, and init if it inherits a child.
Woken(s) == {parent[s]} \cup (IF Children(s) # {} THEN {initproc} ELSE {})

\* Mutant of Exit: wakeup(p->parent) is left out.
ExitSilent(s) ==
    /\ Live(s) /\ pc[s] = "user" /\ ~killed[s]
    /\ s # initproc
    /\ waitlock = None
    /\ parent' = Reparent(s)
    /\ state' = [state EXCEPT ![s] = "ZOMBIE"]
    /\ UNCHANGED <<pid, killed, nextpid, waitlock, pc, np, collected, panicked>>

Exit(s) ==
    /\ Live(s) /\ pc[s] = "user" /\ ~killed[s]
    /\ s # initproc
    /\ waitlock = None
    /\ parent' = Reparent(s)
    /\ state' = [Wakeup(Woken(s)) EXCEPT ![s] = "ZOMBIE"]
    /\ UNCHANGED <<pid, killed, nextpid, waitlock, pc, np, collected, panicked>>

\* usertrap() calls exit(-1, 0) for a killed process: strncpy() reads
\* address 0, which the kernel's page table does not map, and kerneltrap()
\* panics with wait_lock held.  For init exit() panics at once.
ExitKilled(s) ==
    /\ Live(s) /\ pc[s] = "user" /\ killed[s]
    /\ panicked' = IF s = initproc THEN "init exiting" ELSE "kerneltrap"
    /\ IF s = initproc
       THEN UNCHANGED <<parent, state, waitlock>>
       ELSE /\ waitlock = None
            /\ waitlock' = s
            /\ parent' = Reparent(s)
            /\ state' = Wakeup(Woken(s))
    /\ UNCHANGED <<pid, killed, nextpid, pc, np, collected>>

(***************************************************************************)
(* wait()                                                                  *)
(***************************************************************************)
WaitCall(s) ==
    /\ Live(s) /\ pc[s] = "user" /\ ~killed[s]
    /\ Goto(s, "wait")
    /\ UNCHANGED <<state, parent, pid, killed, nextpid, waitlock, np, collected, panicked>>

\* The scan takes wait_lock and finds an exited child: its pid is returned,
\* and nothing else happens to it.
WaitFound(s) ==
    /\ Live(s) /\ pc[s] = "wait"
    /\ waitlock = None
    /\ \E c \in Slot :
       /\ First(c, ZombieChildren(s))
       /\ collected' = collected \cup {pid[c]}
    /\ Goto(s, "user")
    /\ UNCHANGED <<state, parent, pid, killed, nextpid, waitlock, np, panicked>>

\* -1: no children, killed, or the status cannot be copied out.
WaitFails(s) ==
    /\ Live(s) /\ pc[s] = "wait"
    /\ waitlock = None
    /\ Children(s) = {} \/ ZombieChildren(s) # {} \/ killed[s]
    /\ Goto(s, "user")
    /\ UNCHANGED <<state, parent, pid, killed, nextpid, waitlock, np, collected, panicked>>

WaitNone(s) ==
    /\ Live(s) /\ pc[s] = "wait"
    /\ waitlock = None
    /\ Children(s) # {} /\ ZombieChildren(s) = {} /\ ~killed[s]
    /\ waitlock' = s
    /\ Goto(s, "wait_sleep")
    /\ UNCHANGED <<state, parent, pid, killed, nextpid, np, collected, panicked>>

\* sleep(p, &wait_lock): a kill() since the test of p->killed goes unseen.
WaitSleep(s) ==
    /\ Live(s) /\ pc[s] = "wait_sleep"
    /\ waitlock' = None
    /\ state' = [state EXCEPT ![s] = "SLEEPING"]
    /\ Goto(s, "asleep")
    /\ UNCHANGED <<parent, pid, killed, nextpid, np, collected, panicked>>

\* Made RUNNABLE and run again: sleep() returns, wait() scans again.
WaitWoken(s) ==
    /\ Live(s) /\ pc[s] = "asleep"
    /\ Goto(s, "wait")
    /\ UNCHANGED <<state, parent, pid, killed, nextpid, waitlock, np, collected, panicked>>

(***************************************************************************)
(* kill(n): the first slot with that pid; free slots have pid 0.           *)
(***************************************************************************)
Kill(n) ==
    /\ panicked = "no"
    /\ \E v \in Slot :
       /\ First(v, {s \in Slot : pid[s] = n})
       /\ killed' = [killed EXCEPT ![v] = TRUE]
       /\ state' = IF state[v] = "SLEEPING" THEN [state EXCEPT ![v] = "RUNNABLE"] ELSE state
    /\ UNCHANGED <<parent, pid, nextpid, waitlock, pc, np, collected, panicked>>
-----------------------------------------------------------------------------
\* What a process does once it is inside the kernel.
Proceed(s) ==
    \/ ForkParent(s) \/ ForkRun(s) \/ WaitFound(s) \/ WaitFails(s) \/ WaitNone(s)
    \/ WaitSleep(s) \/ WaitWoken(s)

Next ==
    \/ \E s \in Slot :
           \/ ForkAlloc(s) \/ ForkNoMemory(s) \/ Exit(s) \/ ExitKilled(s)
           \/ WaitCall(s) \/ Proceed(s)
    \/ \E n \in 0 .. MaxPid : Kill(n)

Spec == Init /\ [][Next]_vars

\* A process inside the kernel keeps running.
FairSpec == Spec /\ \A s \in Slot : WF_vars(Proceed(s))
-----------------------------------------------------------------------------
TypeOK ==
    /\ state \in [Slot -> States]
    /\ parent \in [Slot -> Slot \cup {None}]
    /\ pid \in [Slot -> 0 .. MaxPid]
    /\ killed \in [Slot -> BOOLEAN]
    /\ nextpid \in 1 .. MaxPid + 1
    /\ waitlock \in Slot \cup {None}
    /\ pc \in [Slot -> Stages]
    /\ np \in [Slot -> Slot \cup {None}]
    /\ collected \subseteq 1 .. MaxPid
    /\ panicked \in {"no", "init exiting", "kerneltrap"}

\* No two processes have the same pid (allocpid(), proc.c:96-107), so that
\* kill() and wait() mean one process; a free slot has none.
UniquePids ==
    \A s, t \in Slot :
        /\ state[s] # "UNUSED" /\ state[t] # "UNUSED" /\ pid[s] = pid[t] => s = t
        /\ state[s] = "UNUSED" <=> pid[s] = 0

\* Nobody's parent has exited: exit() hands every child, also one that a
\* fork() is still making, to init first (proc.c:358-369, 397).
ParentAlive ==
    \A s \in Slot : parent[s] # None => state[parent[s]] \in {"RUNNABLE", "SLEEPING"}

\* No exit is missed: a process asleep in wait(), or about to be, has no
\* exited child (proc.c:393-411, 465), inherited ones included.
NoLostExit ==
    \A s \in Slot :
        state[s] = "SLEEPING" \/ pc[s] = "wait_sleep" => ZombieChildren(s) = {}

\* Nobody sleeps in wait() for a child that does not exist (proc.c:458).
SleeperHasChild == \A s \in Slot : state[s] = "SLEEPING" => Children(s) # {}

\* A process in wait() that has an exited child returns (proc.c:419-468).
WaitReturns ==
    \A s \in Slot :
        pc[s] \in {"wait", "wait_sleep", "asleep"} /\ ZombieChildren(s) # {} ~>
            pc[s] = "user" \/ panicked # "no"

\* "An exited process remains in the zombie state until its parent calls
\* wait()" (proc.c:371-373): one that wait() has returned is a zombie no more.
ReapedByWait == \A s \in Slot : state[s] = "ZOMBIE" => pid[s] \notin collected

\* kill()'s victim exits when it returns to user space (proc.c:658-660).
\* The kernel does not stop on its way (init itself may not be killed).
KilledExits == panicked # "kerneltrap"
-----------------------------------------------------------------------------
(***************************************************************************)
(* The inductive invariant.                                                *)
(***************************************************************************)
\* fork() of s fills a slot of its own, which no other process can name.
ForkOK ==
    \A s \in Slot :
        /\ pc[s] \in {"fork_parent", "fork_run"} <=> np[s] # None
        /\ np[s] # None => state[s] = "RUNNABLE" /\ state[np[s]] = "USED"
        /\ \A t \in Slot : np[s] # None /\ np[s] = np[t] => s = t
        /\ state[s] = "USED" => \E t \in Slot : np[t] = s
        /\ pc[s] = "fork_parent" => parent[np[s]] = None
        /\ pc[s] = "fork_run" => parent[np[s]] = s

\* Only a live process is inside a call, and only wait() sleeps.
StageOK ==
    \A s \in Slot :
        /\ pc[s] # "user" => state[s] \in {"RUNNABLE", "SLEEPING"}
        /\ state[s] = "SLEEPING" => pc[s] = "asleep"
        /\ state[s] = "UNUSED" => parent[s] = None
        /\ pc[s] = "wait_sleep" => waitlock = s
        /\ waitlock = s /\ panicked = "no" => pc[s] = "wait_sleep"
        /\ pc[s] \in {"wait_sleep", "asleep"} => Children(s) # {}

PidOK == \A s \in Slot : pid[s] < nextpid

ProcInv ==
    /\ TypeOK /\ UniquePids /\ PidOK /\ ForkOK /\ StageOK /\ ParentAlive /\ NoLostExit
    /\ state[initproc] \in {"RUNNABLE", "SLEEPING"}
=============================================================================
