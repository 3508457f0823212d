--------------------------- MODULE MCZeroizeAlloc ---------------------------
(***************************************************************************)
(* ZeroizeAlloc for TLC, and as an Allocator: the blocks are the client's, *)
(* the contents of a block are the bytes of the heap it covers.            *)
(***************************************************************************)
EXTENDS ZeroizeAllocProps, TLC

contents ==
  [h \in Handles |-> [i \in 0 .. (blocks[h].len - 1) |-> heap[blocks[h].addr + i]]]

Contract == INSTANCE AllocatorContract WITH
  Fresh <- {Zero, Junk}, contents <- contents

(***************************************************************************)
(* With only blocks and contents visible, each call takes effect at once:  *)
(* a deallocation when it is called, a resize when its data has moved, and *)
(* the steps that follow change nothing a client sees                      *)
(* (src/zeroizing_alloc.rs:98, :147).                                      *)
(***************************************************************************)
ImplementsAllocator == Contract!ContractSpec

HandleSymmetry == Permutations(Handles)
=============================================================================
