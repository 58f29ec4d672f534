-------------------------- MODULE MCStackAllocator --------------------------
(***************************************************************************)
(* StackAllocator on a machine with words of two bytes, so that alignments *)
(* below, at and above a word occur with small addresses.  The bases let   *)
(* blocks touch each other and start at odd multiples of the largest       *)
(* alignment.                                                              *)
(***************************************************************************)
EXTENDS StackAllocator

MCLayouts == {[size |-> 0, align |-> 1], [size |-> 1, align |-> 1],
              [size |-> 4, align |-> 2], [size |-> 8, align |-> 8]}
MCBases == {2, 10, 26, 68, 132}
MCPowers == {8, 16, 32, 64, 128}
=============================================================================
