------------------------------- MODULE MCLog --------------------------------
(***************************************************************************)
(* Small instances of Log for TLC.                                         *)
(***************************************************************************)
EXTENDS Log, TLC

\* Processes are interchangeable.
Sym == Permutations(Proc)
=============================================================================
