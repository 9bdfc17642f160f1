---------------------------- MODULE MC_Watchdog ----------------------------
(* The watchdog with three process numbers. *)
EXTENDS Watchdog
=============================================================================
