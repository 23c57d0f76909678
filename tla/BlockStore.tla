----------------------------- MODULE BlockStore -----------------------------
(***************************************************************************)
(* What the buffer cache promises: every block has one current content and *)
(* at most one process at a time that uses it; only that process changes   *)
(* it, and reading, caching, recycling and writing back change nothing.    *)
(***************************************************************************)
CONSTANTS Proc, Block, Value, None

VARIABLES
    content,  \* content[k]: what the user of block k sees
    user      \* user[k]: the process that uses block k, or None

Init ==
    /\ content \in [Block -> Value]
    /\ user = [k \in Block |-> None]

Take(p, k) ==
    /\ user[k] = None
    /\ user' = [user EXCEPT ![k] = p]
    /\ UNCHANGED content

Change(p, k, v) ==
    /\ user[k] = p
    /\ content' = [content EXCEPT ![k] = v]
    /\ UNCHANGED user

Leave(p, k) ==
    /\ user[k] = p
    /\ user' = [user EXCEPT ![k] = None]
    /\ UNCHANGED content

Next ==
    \E p \in Proc, k \in Block :
        Take(p, k) \/ Leave(p, k) \/ \E v \in Value : Change(p, k, v)

Spec == Init /\ [][Next]_<<content, user>>
=============================================================================
