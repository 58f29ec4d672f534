--------------------------- MODULE MCAtomicWaker ---------------------------
(***************************************************************************)
(* AtomicWaker for TLC.                                                    *)
(***************************************************************************)
EXTENDS AtomicWaker, TLC

Symmetry == Permutations(Regs) \cup Permutations(Wakers) \cup Permutations(Handles)
=============================================================================
