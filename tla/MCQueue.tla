------------------------------ MODULE MCQueue ------------------------------
(***************************************************************************)
(* Queue for TLC.                                                          *)
(***************************************************************************)
EXTENDS Queue

Symmetry == Permutations(Threads) \cup Permutations(Tasks)
=============================================================================
