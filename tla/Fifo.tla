-------------------------------- MODULE Fifo --------------------------------
(***************************************************************************)
(* What a pipe promises: a first-in first-out queue of bytes, at most      *)
(* Capacity of them, whoever writes and reads.                             *)
(***************************************************************************)
EXTENDS Naturals, Sequences

CONSTANTS Byte, Capacity

VARIABLE queue

Init == queue = <<>>

Put(b) == Len(queue) < Capacity /\ queue' = Append(queue, b)

Get == queue # <<>> /\ queue' = Tail(queue)

Next == Get \/ \E b \in Byte : Put(b)

Spec == Init /\ [][Next]_queue
=============================================================================
