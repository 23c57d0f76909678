----------------------------- MODULE MCConsole -----------------------------
(***************************************************************************)
(* Small instance of Console for TLC.                                      *)
(***************************************************************************)
EXTENDS Console, TLC

Sym == Permutations(Reader)
=============================================================================
