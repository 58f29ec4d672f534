---------------------------- MODULE MCTreeStack ----------------------------
(***************************************************************************)
(* TreeStack for TLC.                                                      *)
(***************************************************************************)
EXTENDS TreeStack, TLC

Symmetry == Permutations(Tasks)
=============================================================================
