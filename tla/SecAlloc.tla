------------------------------ MODULE SecAlloc ------------------------------
(***************************************************************************)
(* SecStackSinglePageAlloc (src/sec_alloc.rs): a bump allocator on one     *)
(* locked page of memory that zeroizes what is given back to it.           *)
(*                                                                         *)
(* The state is that of the struct (bytes, stack_offset, the page) plus    *)
(* what surrounds it: the bytes of the page, the blocks the client holds   *)
(* and the outcome of the last call.  One action is one call of a method;  *)
(* the struct holds Cells and a raw pointer, so it is neither Sync nor     *)
(* Send and calls never overlap.  The client honours the contract of the   *)
(* unsafe methods: it passes a block it holds, an old layout that fits it, *)
(* and a new layout that is not smaller (grow) or larger (shrink).         *)
(***************************************************************************)
EXTENDS Util

CONSTANTS
  Handles,          \* names the client gives to the blocks it holds
  Zero,             \* the zero byte
  PageSize,         \* bytes in a page
  PageAddrs,        \* addresses at which the system may map a page
  DebugAssertions,  \* cfg!(debug_assertions)
  Std               \* cfg!(feature = "std")

(***************************************************************************)
(* Pages hold whole 8 byte words, start at non-null word boundaries and do *)
(* not reach beyond the address space.                                     *)
(***************************************************************************)
ASSUME SecAllocAssumption ==
  /\ PageSize \in Nat \ {0} /\ PageSize % 8 = 0
  /\ \A p \in PageAddrs :
        p \in Nat \ {0} /\ p % 8 = 0 /\ p + PageSize <= UsizeSpan
  /\ Zero \notin Handles \X Nat
  /\ DebugAssertions \in BOOLEAN /\ Std \in BOOLEAN

VARIABLES
  phase,         \* "absent" (no allocator), "live", or how it all ended:
                 \* "aborted" or "panicked" by the checks of drop, or
                 \* "refused", a panic over a page that cannot be unmapped
  page_ptr,      \* self.page.page_ptr, 0 when there is no page
  bytes,         \* self.bytes
  stack_offset,  \* self.stack_offset
  mem,           \* the mapped bytes, by address
  blocks,        \* the block behind each handle
  call           \* the last call and whether it succeeded

vars == <<phase, page_ptr, bytes, stack_offset, mem, blocks, call>>

Ops == {"new", "drop", "write", "allocate", "deallocate", "shrink",
        "realloc_shrink", "grow", "realloc_grow"}

(***************************************************************************)
(* A block is the pointer and length of the slice the allocator returned,  *)
(* with the layout it was last asked for.  No real pointer is null.        *)
(***************************************************************************)
NoBlock == [addr |-> 0, size |-> 0, align |-> 1, len |-> 0]

IsLive(h) == blocks[h].addr # 0

Bytes(b) == b.addr .. (b.addr + b.len - 1)

(* The addresses of the page, if there is one. *)
Mapped == IF page_ptr = 0 THEN {} ELSE page_ptr .. (page_ptr + PageSize - 1)

(* The byte a client stores at index i of the block it calls h. *)
Data(h, i) == <<h, i>>

(***************************************************************************)
(* Sizes of the layouts that fit the block of h: from the size it was last *)
(* requested with to the length that was returned.                         *)
(***************************************************************************)
FittingSizes(h) == {s \in Sizes : blocks[h].size <= s /\ s <= blocks[h].len}

(* Mutant: sizes are not rounded. *)
Rounded_Not(size) == size

(* Allocation sizes are multiples of 8. *)
Rounded(size) == align_up_usize(size, 8)

(***************************************************************************)
(* Memory after zeroize_mem, and after copy_nonoverlapping.                *)
(***************************************************************************)
Zeroized(m, ptr, len) ==
  [a \in DOMAIN m |-> IF a \in ptr .. (ptr + len - 1) THEN Zero ELSE m[a]]

Copied(m, src, dst, len) ==
  [a \in DOMAIN m |-> IF a \in dst .. (dst + len - 1) THEN m[a - dst + src]
                                                      ELSE m[a]]

-----------------------------------------------------------------------------
(***************************************************************************)
(* allocate_zeroed.  An aligned request is placed at the first address of  *)
(* its alignment at or after the top of the stack, 0 if that wraps.        *)
(***************************************************************************)
AllocPtr(layout) ==
  IF layout.align <= 8
  THEN page_ptr + stack_offset
  ELSE align_up_usize(page_ptr + stack_offset, layout.align)

(* Mutant: the room behind the aligned address is not checked. *)
Fits_BeforeAligning(layout) ==
  LET size == Rounded(layout.size)
  IN size # 0 /\ size <= PageSize - stack_offset

(* Mutant: a block may not end at the end of the page. *)
Fits_Strictly(layout) ==
  LET size == Rounded(layout.size)
      off  == large_offset_from(AllocPtr(layout), page_ptr)
  IN size # 0 /\ AllocPtr(layout) # 0 /\ off < PageSize /\ size < PageSize - off

(* None of the early returns of AllocError is taken. *)
Fits(layout) ==
  LET size == Rounded(layout.size)
      ptr  == AllocPtr(layout)
      off  == large_offset_from(ptr, page_ptr)
  IN /\ size # 0
     /\ size <= PageSize - stack_offset
     /\ layout.align > 8 => ptr # 0 /\ off < PageSize /\ size <= PageSize - off

CanAllocate(layout) == layout.size = 0 \/ Fits(layout)

(* A zero-sized request is granted with a dangling pointer. *)
allocate_zerosized(align) ==
  [addr |-> align, size |-> 0, align |-> align, len |-> 0]

(* The block granted, and bytes and stack_offset after granting it. *)
Granted(layout) ==
  IF layout.size = 0
  THEN allocate_zerosized(layout.align)
  ELSE [addr |-> AllocPtr(layout), size |-> layout.size,
        align |-> layout.align, len |-> Rounded(layout.size)]

(* Mutant: the counter takes the size asked for. *)
BytesGranted_Unrounded(layout) == bytes + layout.size

BytesGranted(layout) == bytes + Granted(layout).len

OffsetGranted(layout) ==
  IF layout.size = 0
  THEN stack_offset
  ELSE large_offset_from(AllocPtr(layout), page_ptr) + Rounded(layout.size)

(* Mutants: the stack is rewound to any block freed, never reset, never rewound. *)
RewoundOffset_Always(b, o, start, end) == IF b = 0 THEN 0 ELSE start
RewoundOffset_NoReset(b, o, start, end) == IF end = o THEN start ELSE o
RewoundOffset_ResetOnly(b, o, start, end) == IF b = 0 THEN 0 ELSE o

(***************************************************************************)
(* deallocate(ptr, layout) when self.bytes is b, self.stack_offset is o    *)
(* and memory is m.  The stack is reset with the last block, and rewound   *)
(* past the block when the block is the top of the stack.                  *)
(***************************************************************************)
RewoundOffset(b, o, start, end) ==
  IF b = 0 THEN 0 ELSE IF end = o THEN start ELSE o

(* Mutant: the counter drops by the size the layout names. *)
DeallocateFrom_CountsSize(b, o, m, ptr, size) ==
  LET len   == IF size = 0 THEN 0 ELSE Rounded(size)
      start == large_offset_from(ptr, page_ptr)
  IN /\ mem' = Zeroized(m, ptr, len)
     /\ bytes' = b - size
     /\ stack_offset' =
          IF size = 0 THEN o ELSE RewoundOffset(b - size, o, start, start + len)

(* Mutant: only the bytes the layout names are zeroized. *)
DeallocateFrom_WipesSize(b, o, m, ptr, size) ==
  LET len   == IF size = 0 THEN 0 ELSE Rounded(size)
      start == large_offset_from(ptr, page_ptr)
  IN /\ mem' = Zeroized(m, ptr, size)
     /\ bytes' = b - len
     /\ stack_offset' =
          IF size = 0 THEN o ELSE RewoundOffset(b - len, o, start, start + len)

DeallocateFrom(b, o, m, ptr, size) ==
  LET len   == IF size = 0 THEN 0 ELSE Rounded(size)
      start == large_offset_from(ptr, page_ptr)
  IN /\ mem' = Zeroized(m, ptr, len)
     /\ bytes' = b - len
     /\ stack_offset' =
          IF size = 0 THEN o ELSE RewoundOffset(b - len, o, start, start + len)

(* Mutant: the end of the block is compared with the other cell. *)
ptr_is_last_allocation_by_bytes(ptr, rounded_size) ==
  large_offset_from(ptr, page_ptr) + rounded_size = bytes

ptr_is_last_allocation(ptr, rounded_size) ==
  large_offset_from(ptr, page_ptr) + rounded_size = stack_offset

(***************************************************************************)
(* How calls end: the client keeps the new block under h, or nothing       *)
(* changes but the error it sees.                                          *)
(***************************************************************************)
Succeeds(op, h, block) ==
  /\ blocks' = [blocks EXCEPT ![h] = block]
  /\ call' = [op |-> op, ok |-> TRUE]
  /\ UNCHANGED <<phase, page_ptr>>

Fails(op) ==
  /\ call' = [op |-> op, ok |-> FALSE]
  /\ UNCHANGED <<phase, page_ptr, bytes, stack_offset, mem, blocks>>

(* Mutant: the old block is wiped before it is copied, so zeros are copied. *)
Reallocate_WipesFirst(op, h, old_size, layout, copied) ==
  \/ /\ CanAllocate(layout)
     /\ DeallocateFrom(BytesGranted(layout), OffsetGranted(layout), mem,
                       blocks[h].addr, old_size)
     /\ Succeeds(op, h, Granted(layout))
  \/ /\ ~CanAllocate(layout)
     /\ Fails(op)

(***************************************************************************)
(* The part realloc_shrink and realloc_grow share: a new block, a copy of  *)
(* the first `copied` bytes, and only then the release of the old block.   *)
(***************************************************************************)
Reallocate(op, h, old_size, layout, copied) ==
  \/ /\ CanAllocate(layout)
     /\ DeallocateFrom(BytesGranted(layout), OffsetGranted(layout),
                       Copied(mem, blocks[h].addr, Granted(layout).addr, copied),
                       blocks[h].addr, old_size)
     /\ Succeeds(op, h, Granted(layout))
  \/ /\ ~CanAllocate(layout)
     /\ Fails(op)

(* A grant with nothing to copy or release. *)
Allocate(op, h, layout) ==
  \/ /\ CanAllocate(layout)
     /\ bytes' = BytesGranted(layout)
     /\ stack_offset' = OffsetGranted(layout)
     /\ mem' = mem
     /\ Succeeds(op, h, Granted(layout))
  \/ /\ ~CanAllocate(layout)
     /\ Fails(op)

-----------------------------------------------------------------------------
Init ==
  /\ phase = "absent"
  /\ page_ptr = 0
  /\ bytes = 0
  /\ stack_offset = 0
  /\ mem = [a \in Mapped |-> Zero]
  /\ blocks = [h \in Handles |-> NoBlock]
  /\ call = [op |-> "drop", ok |-> TRUE]

(***************************************************************************)
(* new(): a fresh page is all zeros; mapping or locking it may fail.  Then *)
(* Page::drop unmaps what was mapped, and panics if that is refused.       *)
(***************************************************************************)
New ==
  /\ phase = "absent"
  /\ \/ /\ phase' = "live"
        /\ page_ptr' \in PageAddrs
        /\ mem' = [a \in Mapped' |-> Zero]
        /\ bytes' = 0
        /\ stack_offset' = 0
        /\ call' = [op |-> "new", ok |-> TRUE]
        /\ UNCHANGED blocks
     \/ Fails("new")
     \/ /\ phase' = "refused"
        /\ call' = [op |-> "new", ok |-> FALSE]
        /\ UNCHANGED <<page_ptr, bytes, stack_offset, mem, blocks>>

(* The client fills the whole slice it was given. *)
Write(h) ==
  /\ phase = "live"
  /\ blocks[h].len > 0
  /\ mem' = [a \in DOMAIN mem |-> IF a \in Bytes(blocks[h])
                                  THEN Data(h, a - blocks[h].addr)
                                  ELSE mem[a]]
  /\ call' = [op |-> "write", ok |-> TRUE]
  /\ UNCHANGED <<phase, page_ptr, bytes, stack_offset, blocks>>

(* allocate() is the same call. *)
AllocateZeroed(h, layout) ==
  /\ phase = "live"
  /\ ~IsLive(h)
  /\ Allocate("allocate", h, layout)

Deallocate(h, size) ==
  /\ phase = "live"
  /\ IsLive(h)
  /\ DeallocateFrom(bytes, stack_offset, mem, blocks[h].addr, size)
  /\ Succeeds("deallocate", h, NoBlock)

ReallocShrink(h, old_size, layout) ==
  /\ phase = "live"
  /\ IsLive(h)
  /\ layout.size <= old_size
  /\ Reallocate("realloc_shrink", h, old_size, layout, layout.size)

ReallocGrow(h, old_size, layout) ==
  /\ phase = "live"
  /\ IsLive(h)
  /\ layout.size >= old_size
  /\ Reallocate("realloc_grow", h, old_size, layout, old_size)

(* Mutant: the block is cut but the top of the stack stays where it is. *)
ShrinkInPlace_KeepsTop(h, old_size, layout) ==
  LET ptr           == blocks[h].addr
      new_rounded   == Rounded(layout.size)
      size_decrease == Rounded(old_size) - new_rounded
  IN /\ mem' = Zeroized(mem, ptr + new_rounded, size_decrease)
     /\ bytes' = bytes - size_decrease
     /\ UNCHANGED stack_offset
     /\ Succeeds("shrink", h, [addr |-> ptr, size |-> layout.size,
                               align |-> layout.align, len |-> new_rounded])

(***************************************************************************)
(* shrink: to nothing, in place, or into a new block when the pointer does *)
(* not have the alignment now asked for.                                   *)
(***************************************************************************)
ShrinkInPlace(h, old_size, layout) ==
  LET ptr           == blocks[h].addr
      rounded_size  == Rounded(old_size)
      new_rounded   == Rounded(layout.size)
      size_decrease == rounded_size - new_rounded
  IN /\ mem' = Zeroized(mem, ptr + new_rounded, size_decrease)
     /\ bytes' = bytes - size_decrease
     /\ stack_offset' = IF ptr_is_last_allocation(ptr, rounded_size)
                        THEN stack_offset - size_decrease
                        ELSE stack_offset
     /\ Succeeds("shrink", h, [addr |-> ptr, size |-> layout.size,
                               align |-> layout.align, len |-> new_rounded])

Shrink(h, old_size, layout) ==
  /\ phase = "live"
  /\ IsLive(h)
  /\ layout.size <= old_size
  /\ \/ /\ layout.size = 0
        /\ DeallocateFrom(bytes, stack_offset, mem, blocks[h].addr, old_size)
        /\ Succeeds("shrink", h, allocate_zerosized(layout.align))
     \/ /\ layout.size # 0
        /\ is_aligned_ptr(blocks[h].addr, layout.align)
        /\ ShrinkInPlace(h, old_size, layout)
     \/ /\ layout.size # 0
        /\ ~is_aligned_ptr(blocks[h].addr, layout.align)
        /\ Reallocate("shrink", h, old_size, layout, layout.size)

(* Mutant: the block that grows is counted among those it has to leave room for. *)
RoomToGrow_Beside(ptr, new_rounded) ==
  new_rounded # 0 /\ new_rounded <= PageSize - stack_offset

(* No early return of AllocError is taken when a block grows in place. *)
RoomToGrow(ptr, new_rounded) ==
  /\ new_rounded # 0
  /\ new_rounded <= PageSize - large_offset_from(ptr, page_ptr)

(***************************************************************************)
(* grow_zeroed (grow is the same call): from nothing, in place when the    *)
(* block is aligned and on top of the stack, or into a new block.          *)
(***************************************************************************)
GrowInPlace(h, old_size, layout) ==
  LET ptr           == blocks[h].addr
      new_rounded   == Rounded(layout.size)
      size_increase == new_rounded - Rounded(old_size)
  IN \/ /\ RoomToGrow(ptr, new_rounded)
        /\ bytes' = bytes + size_increase
        /\ stack_offset' = stack_offset + size_increase
        /\ mem' = mem
        /\ Succeeds("grow", h, [addr |-> ptr, size |-> layout.size,
                                align |-> layout.align, len |-> new_rounded])
     \/ /\ ~RoomToGrow(ptr, new_rounded)
        /\ Fails("grow")

GrowZeroed(h, old_size, layout) ==
  LET in_place == /\ is_aligned_ptr(blocks[h].addr, layout.align)
                  /\ ptr_is_last_allocation(blocks[h].addr, Rounded(old_size))
  IN /\ phase = "live"
     /\ IsLive(h)
     /\ layout.size >= old_size
     /\ \/ /\ old_size = 0
           /\ Allocate("grow", h, layout)
        \/ /\ old_size # 0
           /\ in_place
           /\ GrowInPlace(h, old_size, layout)
        \/ /\ old_size # 0
           /\ ~in_place
           /\ Reallocate("grow", h, old_size, layout, old_size)

(***************************************************************************)
(* drop.  With debug assertions the allocator first checks that nothing is *)
(* allocated and that the page is all zeros: the process aborts if not, or *)
(* without std panics, which releases the page while unwinding.            *)
(***************************************************************************)
(* Mutant: memory that was never written to is not missed. *)
DropCheck_WrittenOnly == \A a \in DOMAIN mem : mem[a] = Zero

DropCheck == bytes = 0 /\ \A a \in DOMAIN mem : mem[a] = Zero

(***************************************************************************)
(* Page::drop, by which the process ends up in phase `released`.  When the *)
(* system refuses to unmap the page, the unwrap panics and everything is   *)
(* left as it was, in phase `refused`.                                     *)
(***************************************************************************)
ReleasePage(released, refused) ==
  \/ /\ phase' = released
     /\ page_ptr' = 0
     /\ bytes' = 0
     /\ stack_offset' = 0
     /\ mem' = [a \in Mapped' |-> Zero]
     /\ blocks' = [h \in Handles |-> NoBlock]
  \/ /\ phase' = refused
     /\ UNCHANGED <<page_ptr, bytes, stack_offset, mem, blocks>>

(* An abort releases nothing, and a second panic while one unwinds aborts. *)
Drop ==
  /\ phase = "live"
  /\ \/ /\ DebugAssertions => DropCheck
        /\ ReleasePage("absent", "refused")
     \/ /\ DebugAssertions /\ Std /\ ~DropCheck
        /\ phase' = "aborted"
        /\ UNCHANGED <<page_ptr, bytes, stack_offset, mem, blocks>>
     \/ /\ DebugAssertions /\ ~Std /\ ~DropCheck
        /\ ReleasePage("panicked", "aborted")
  /\ call' = [op |-> "drop", ok |-> phase' = "absent"]

Next ==
  \/ New
  \/ Drop
  \/ \E h \in Handles :
       \/ Write(h)
       \/ \E layout \in Layouts : AllocateZeroed(h, layout)
       \/ \E size \in FittingSizes(h) :
            \/ Deallocate(h, size)
            \/ \E layout \in Layouts :
                 \/ ReallocShrink(h, size, layout)
                 \/ Shrink(h, size, layout)
                 \/ ReallocGrow(h, size, layout)
                 \/ GrowZeroed(h, size, layout)

Spec == Init /\ [][Next]_vars
=============================================================================
