----------------------------- MODULE AtomicDisk -----------------------------
(***************************************************************************)
(* What the logging layer of the file system promises its callers: a disk  *)
(* on which the updates of a group of system calls take effect all at once *)
(* or not at all.  A commit happens only while no system call is active,   *)
(* so the durable state never contains part of a system call's updates,    *)
(* and a crash falls back to the last commit.                              *)
(***************************************************************************)
CONSTANTS
    Proc,   \* the processes that make file-system calls
    Block,  \* the home locations of the disk
    Value   \* what a block may hold

VARIABLES
    committed,  \* what a crash leaves: the durable contents
    current,    \* what a read returns: committed plus the updates so far
    active      \* the processes between begin_op() and end_op()

vars == <<committed, current, active>>

Init ==
    /\ committed \in [Block -> Value]
    /\ current = committed
    /\ active = {}

Begin(p) ==
    /\ p \notin active
    /\ active' = active \cup {p}
    /\ UNCHANGED <<committed, current>>

Write(p, b, v) ==
    /\ p \in active
    /\ current' = [current EXCEPT ![b] = v]
    /\ UNCHANGED <<committed, active>>

End(p) ==
    /\ p \in active
    /\ active' = active \ {p}
    /\ UNCHANGED <<committed, current>>

Commit ==
    /\ active = {}
    /\ committed' = current
    /\ UNCHANGED <<current, active>>

Crash ==
    /\ current' = committed
    /\ active' = {}
    /\ UNCHANGED committed

Next ==
    \/ \E p \in Proc : Begin(p) \/ End(p)
    \/ \E p \in Proc, b \in Block, v \in Value : Write(p, b, v)
    \/ Commit
    \/ Crash

Spec == Init /\ [][Next]_vars
=============================================================================
