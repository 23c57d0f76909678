---------------------------- MODULE MCSleepLock -----------------------------
(***************************************************************************)
(* Small instances of SleepLock for TLC.                                   *)
(***************************************************************************)
EXTENDS SleepLock
=============================================================================
