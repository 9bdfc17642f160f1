---------------------------- MODULE MC_PortPool ----------------------------
(* PortPool for TLC: sessions are interchangeable.                          *)
EXTENDS PortPool, TLC

Symmetry == Permutations(Sessions)
=============================================================================
