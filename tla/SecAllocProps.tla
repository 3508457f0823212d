--------------------------- MODULE SecAllocProps ---------------------------
(***************************************************************************)
(* What SecStackSinglePageAlloc promises (src/sec_alloc.rs): its own       *)
(* comments and debug assertions, the Allocator contract its callers rely  *)
(* on, and the zeroization it exists for.                                  *)
(***************************************************************************)
EXTENDS SecAlloc, FiniteSets

Phases == {"absent", "live", "aborted", "panicked", "refused"}

Block == [addr  : 0 .. UsizeSpan - 1, size : Nat,
          align : Nat \ {0},          len  : 0 .. PageSize]

(***************************************************************************)
(* The fields have the types of the struct, and every byte of the page,    *)
(* no other, can be written.  In particular the counter and the offset     *)
(* never wrap below 0 or pass the end of the page (src/sec_alloc.rs:83).   *)
(***************************************************************************)
TypeOK ==
  /\ phase \in Phases
  /\ page_ptr \in PageAddrs \cup {0}
  /\ bytes \in 0 .. PageSize
  /\ stack_offset \in 0 .. PageSize
  /\ mem \in [Mapped -> {Zero} \cup (Handles \X Nat)]
  /\ blocks \in [Handles -> Block]
  /\ call \in [op : Ops, ok : BOOLEAN]

(* The blocks that occupy memory of the page. *)
PageBacked(b) == b.len > 0

Covered(bs) == UNION {Bytes(bs[h]) : h \in Handles}

(***************************************************************************)
(* No two blocks share a byte, whatever was freed, shrunk, grown or moved  *)
(* before: what makes copy_nonoverlapping in realloc_shrink and            *)
(* realloc_grow sound (src/sec_alloc.rs:255) and every block exclusive.    *)
(***************************************************************************)
Disjoint ==
  \A g, h \in Handles :
    g # h => Bytes(blocks[g]) \cap Bytes(blocks[h]) = {}

(***************************************************************************)
(* Every block lies below the top of the stack, so resetting or rewinding  *)
(* the stack never frees a block in use (src/sec_alloc.rs:461, :468), and  *)
(* the debug preconditions on ptr hold (src/sec_alloc.rs:432).             *)
(***************************************************************************)
BelowTop ==
  \A h \in Handles : PageBacked(blocks[h]) =>
    /\ page_ptr <= blocks[h].addr
    /\ blocks[h].addr + blocks[h].len <= page_ptr + stack_offset

(***************************************************************************)
(* The counter self.bytes is exactly the number of bytes in blocks.  So 0  *)
(* means no block is left: the condition of the reset in deallocate        *)
(* (src/sec_alloc.rs:461) and of the leak check in drop (:127).            *)
(***************************************************************************)
BytesExact == bytes = Cardinality(Covered(blocks))

(***************************************************************************)
(* A byte of the page that is not zero is the client's own, at its index   *)
(* in the block it was written to: nothing remains outside the blocks, in  *)
(* the gaps left by alignment, frees, shrinks and moves, and no block      *)
(* shows what another one held (src/sec_alloc.rs:311, :450, :541).         *)
(***************************************************************************)
DataInPlace ==
  \A a \in Mapped : mem[a] # Zero =>
    \E h \in Handles :
      a \in Bytes(blocks[h]) /\ mem[a] = Data(h, a - blocks[h].addr)

(***************************************************************************)
(* Every pointer held satisfies the layout it was last asked for: its      *)
(* alignment, also after a shrink or grow that changed it                  *)
(* (src/sec_alloc.rs:514, :601), and its size.                             *)
(***************************************************************************)
LayoutHonoured ==
  \A h \in Handles :
    /\ blocks[h].addr % blocks[h].align = 0
    /\ blocks[h].size <= blocks[h].len

(***************************************************************************)
(* The assertions the tests make after every call (src/sec_alloc.rs:94),   *)
(* on paths no test takes.                                                 *)
(***************************************************************************)
consistency_check ==
  /\ stack_offset % 8 = 0
  /\ bytes <= stack_offset
  /\ bytes % 8 = 0

(***************************************************************************)
(* "Allocation functions return errors when the requested allocation does  *)
(* not fit what is left of the backing page" (src/sec_alloc.rs:57), and    *)
(* only then: a request is granted iff some address from the top of the    *)
(* stack on has the alignment and the room, and it gets the lowest one,    *)
(* even where aligning up wraps the address space (:375).                  *)
(***************************************************************************)
RefusedOnlyWhenFull ==
  phase = "live" => \A l \in Layouts : l.size > 0 =>
    LET top  == page_ptr + stack_offset
        end  == page_ptr + PageSize
        room == {p \in top .. end : /\ p % l.align = 0
                                    /\ p % 8 = 0
                                    /\ p + Rounded(l.size) <= end}
    IN /\ CanAllocate(l) <=> room # {}
       /\ CanAllocate(l) => AllocPtr(l) \in room /\ \A p \in room : AllocPtr(l) <= p

(***************************************************************************)
(* "Memory can only be reused once all allocations are deallocated"        *)
(* (src/sec_alloc.rs:64), and then it is, all of it: with no block on the  *)
(* page the allocator grants whatever a new one would.                     *)
(***************************************************************************)
FullPageWhenEmpty ==
  phase = "live" /\ (\A h \in Handles : ~PageBacked(blocks[h])) =>
    \A l \in Layouts :
      Rounded(l.size) <= PageSize /\ page_ptr % l.align = 0 => CanAllocate(l)

(***************************************************************************)
(* The checks of drop end the process exactly when the client leaked       *)
(* memory of the page: the one that the page is zeroized, which follows    *)
(* the leak check (src/sec_alloc.rs:130), never fires by itself.  Any      *)
(* other drop gets as far as Page::drop, and returns unless the system     *)
(* refuses to unmap the page (src/internals/mem/unix.rs:108).              *)
(***************************************************************************)
DropReportsLeaks ==
  [][phase = "live" /\ phase' # "live" =>
       (phase' \in {"aborted", "panicked"} <=>
          \E h \in Handles : PageBacked(blocks[h]))]_vars

(***************************************************************************)
(* ptr_is_last_allocation "returns true iff ptr points to the final        *)
(* allocation on the memory page" (src/sec_alloc.rs:185), given the whole  *)
(* length of the block: no other block lies above it.                      *)
(***************************************************************************)
LastAllocationRecognised ==
  \A h \in Handles : PageBacked(blocks[h]) =>
    (ptr_is_last_allocation(blocks[h].addr, blocks[h].len) <=>
       \A g \in Handles : PageBacked(blocks[g]) => blocks[g].addr <= blocks[h].addr)

-----------------------------------------------------------------------------
(***************************************************************************)
(* The inductive invariant.  Besides the properties above: blocks are      *)
(* whole words at word boundaries and as long as their layout rounds to,   *)
(* so that a fitting layout leads back to the same length; and without a   *)
(* page there is nothing.                                                  *)
(***************************************************************************)
WholeWords ==
  \A h \in Handles :
    /\ blocks[h].len % 8 = 0
    /\ PageBacked(blocks[h]) <=> blocks[h].size > 0
    /\ PageBacked(blocks[h]) => /\ blocks[h].addr % 8 = 0
                                /\ blocks[h].len = Rounded(blocks[h].size)

PageWhenLive ==
  /\ phase = "live" => page_ptr # 0
  /\ phase = "absent" => page_ptr = 0
  /\ page_ptr = 0 => blocks = [h \in Handles |-> NoBlock] /\ stack_offset = 0

IInv ==
  /\ TypeOK
  /\ PageWhenLive
  /\ WholeWords
  /\ Disjoint
  /\ BelowTop
  /\ BytesExact
  /\ DataInPlace
  /\ LayoutHonoured
  /\ consistency_check
=============================================================================
