---------------------------- MODULE MC_EpollLoop ----------------------------
(* EpollLoop for TLC: the three address spaces are sets of model values that  *)
(* no definition tells apart.                                                *)
EXTENDS EpollLoop, TLC

Symmetry == Permutations(Fds) \cup Permutations(Ctxs) \cup Permutations(Clients)
=============================================================================
