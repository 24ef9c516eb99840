----------------------------- MODULE MCFreeList -----------------------------
(* FreeList on a few blocks, which are interchangeable. *)
EXTENDS FreeList, TLC

Symmetry == Permutations(Nodes)
=============================================================================
