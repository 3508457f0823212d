-------------------------- MODULE SecAllocContract --------------------------
(***************************************************************************)
(* SecStackSinglePageAlloc as an Allocator: the blocks are the client's,   *)
(* and the contents of a block are the bytes of the page it covers.  Every *)
(* byte of it that is new is zero, whether zeroes were asked for or not.   *)
(***************************************************************************)
EXTENDS MCSecAlloc

contents ==
  [h \in Handles |-> [i \in 0 .. (blocks[h].len - 1) |-> mem[blocks[h].addr + i]]]

Contract == INSTANCE AllocatorContract WITH Fresh <- {Zero}, contents <- contents

ImplementsAllocator == Contract!ContractSpec
=============================================================================
