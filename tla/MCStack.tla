------------------------------ MODULE MCStack ------------------------------
(***************************************************************************)
(* Instances of Stack for TLC.                                             *)
(***************************************************************************)
EXTENDS Stack, TLC

\* Contexts are only compared with each other.
Symmetry == Permutations(Ctxs) \cup Permutations(Futs)
=============================================================================
