------------------------------ MODULE MCBcache ------------------------------
(***************************************************************************)
(* Small instances of Bcache for TLC.                                      *)
(***************************************************************************)
EXTENDS Bcache, TLC

\* Processes and blocks are interchangeable, and so are buffers, since the
\* list starts in any order.
Sym == Permutations(Proc) \cup Permutations(Block) \cup Permutations(Buf)
=============================================================================
