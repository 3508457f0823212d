----------------------------- MODULE MCSecAlloc -----------------------------
(* SecAlloc for TLC: handles are interchangeable. *)
EXTENDS SecAllocProps, TLC

HandleSymmetry == Permutations(Handles)
=============================================================================
