------------------------------- MODULE Sched --------------------------------
(***************************************************************************)
(* The scheduler (kernel/proc.c) from boot, on several CPUs.               *)
(*                                                                         *)
(* After the scan p is &proc[NPROC], not the chosen process, and           *)
(* p->state = RUNNING and release(&p->lock) go to whatever the build puts  *)
(* behind the table.  In kernel/kernel.sym that is tickslock (proc[NPROC]'s*)
(* lock) and then bcache.lock, whose word "locked" is where p->state is.   *)
(* A process's first steps are forkret(), then fsinit() for the first one  *)
(* through, which needs bcache.lock, and user space for everyone else.     *)
(***************************************************************************)
EXTENDS Naturals

CONSTANTS
    NCPU,    \* harts
    NPROC    \* size of the process table

Cpu == 1 .. NCPU
Slot == 1 .. NPROC
None == 0
RUNNING == 4   \* its number in enum procstate

VARIABLES
    state,      \* state[s]: p->state
    plock,      \* plock[s]: the CPU that holds p->lock, or None
    cproc,      \* cproc[c]: c->proc, or None
    toRun,      \* toRun[c]: the scan's choice so far, or None
    idx,        \* idx[c]: the slot the scan looks at next
    stage,      \* stage[c]: what CPU c is doing
    first,      \* forkret()'s static variable
    bcacheWord  \* bcache.lock.locked

vars == <<state, plock, cproc, toRun, idx, stage, first, bcacheWord>>

(***************************************************************************)
(* scan     scheduler(): looking for toRun    lock  acquire(&toRun->lock)  *)
(* forkret  forkret(): release p->lock        test  forkret(): if(first)   *)
(* clear    forkret(): first = 0              bget  waits for bcache.lock  *)
(* user     in user space                     back  back from swtch()      *)
(* panic    stopped                                                        *)
(***************************************************************************)
Stages == {"scan", "lock", "forkret", "test", "clear", "bget", "user", "back", "panic"}

Goto(c, s) == stage' = [stage EXCEPT ![c] = s]

\* main() has run userinit(); every other CPU waited for it.
Init ==
    /\ state = [s \in Slot |-> IF s = 1 THEN "RUNNABLE" ELSE "UNUSED"]
    /\ plock = [s \in Slot |-> None]
    /\ cproc = [c \in Cpu |-> None]
    /\ toRun = [c \in Cpu |-> None]
    /\ idx = [c \in Cpu |-> 1]
    /\ stage = [c \in Cpu |-> "scan"]
    /\ first = TRUE
    /\ bcacheWord = 0
-----------------------------------------------------------------------------
\* One slot of the scan, which takes no lock.  All accumulators are still 0
\* at boot, so the first RUNNABLE or RUNNING slot is the minimum.
Scan(c) ==
    /\ stage[c] = "scan"
    /\ idx[c] <= NPROC
    /\ toRun' = IF toRun[c] = None /\ state[idx[c]] \in {"RUNNABLE", "RUNNING"}
                THEN [toRun EXCEPT ![c] = idx[c]] ELSE toRun
    /\ idx' = [idx EXCEPT ![c] = @ + 1]
    /\ UNCHANGED <<state, plock, cproc, stage, first, bcacheWord>>

ScanEnd(c) ==
    /\ stage[c] = "scan"
    /\ idx[c] > NPROC
    /\ idx' = [idx EXCEPT ![c] = 1]
    /\ Goto(c, IF toRun[c] = None THEN "scan" ELSE "lock")
    /\ UNCHANGED <<state, plock, cproc, toRun, first, bcacheWord>>

\* acquire(&toRun->lock), p->state = RUNNING and swtch().
Dispatch(c) ==
    /\ stage[c] = "lock"
    /\ plock[toRun[c]] = None
    /\ plock' = [plock EXCEPT ![toRun[c]] = c]
    /\ bcacheWord' = RUNNING
    /\ cproc' = [cproc EXCEPT ![c] = toRun[c]]
    /\ Goto(c, "forkret")
    /\ UNCHANGED <<state, toRun, idx, first>>

ForkretRelease(c) ==
    /\ stage[c] = "forkret"
    /\ plock' = [plock EXCEPT ![cproc[c]] = None]
    /\ Goto(c, "test")
    /\ UNCHANGED <<state, cproc, toRun, idx, first, bcacheWord>>

ForkretTest(c) ==
    /\ stage[c] = "test"
    /\ Goto(c, IF first THEN "clear" ELSE "user")
    /\ UNCHANGED <<state, plock, cproc, toRun, idx, first, bcacheWord>>

ForkretClear(c) ==
    /\ stage[c] = "clear"
    /\ first' = FALSE
    /\ Goto(c, "bget")
    /\ UNCHANGED <<state, plock, cproc, toRun, idx, bcacheWord>>

\* The first system call, exec("/init"), reads the disk.  acquire() in
\* bget() then waits for a word 0 that nobody is left to store.
Syscall(c) ==
    /\ stage[c] = "user"
    /\ Goto(c, "bget")
    /\ UNCHANGED <<state, plock, cproc, toRun, idx, first, bcacheWord>>

\* A timer interrupt in user space: yield() and sched().
Yield(c) ==
    /\ stage[c] = "user"
    /\ plock[cproc[c]] = None
    /\ plock' = [plock EXCEPT ![cproc[c]] = c]
    /\ state' = [state EXCEPT ![cproc[c]] = "RUNNABLE"]
    /\ Goto(c, "back")
    /\ UNCHANGED <<cproc, toRun, idx, first, bcacheWord>>

\* release(&p->lock) of a lock, tickslock, that this CPU does not hold.
Back(c) ==
    /\ stage[c] = "back"
    /\ cproc' = [cproc EXCEPT ![c] = None]
    /\ Goto(c, "panic")
    /\ UNCHANGED <<state, plock, toRun, idx, first, bcacheWord>>

Next ==
    \E c \in Cpu :
        \/ Scan(c) \/ ScanEnd(c) \/ Dispatch(c)
        \/ ForkretRelease(c) \/ ForkretTest(c) \/ ForkretClear(c)
        \/ Syscall(c) \/ Yield(c) \/ Back(c)

Spec == Init /\ [][Next]_vars
-----------------------------------------------------------------------------
\* "The process running on this cpu, or null" (proc.h:23), which scheduler()
\* takes "to run" until it "transfers control via swtch back": no two CPUs
\* run the same process, on the same kernel stack.
OneCpuPerProcess ==
    \A c, d \in Cpu : cproc[c] = cproc[d] /\ cproc[c] # None => c = d
=============================================================================
