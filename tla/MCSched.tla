------------------------------ MODULE MCSched -------------------------------
(***************************************************************************)
(* Small instances of Sched for TLC.                                       *)
(***************************************************************************)
EXTENDS Sched
=============================================================================
