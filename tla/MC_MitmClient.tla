--------------------------- MODULE MC_MitmClient ---------------------------
(* MitmClient for TLC: all constants are numbers, strings and Booleans.      *)
EXTENDS MitmClient
=============================================================================
