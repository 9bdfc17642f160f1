------------------------- MODULE MC_LoggedWatchdog --------------------------
(* LoggedWatchdog for TLC: process numbers are model values. *)
EXTENDS LoggedWatchdog
=============================================================================
