---------------------------- MODULE MCSchedular ----------------------------
(***************************************************************************)
(* Schedular for TLC.                                                      *)
(***************************************************************************)
EXTENDS Schedular, TLC

Symmetry == Permutations(Threads) \cup Permutations(Tasks)
=============================================================================
