-------------------------- MODULE SecAllocProvenance --------------------------
(***************************************************************************)
(* The pointers of SecStackSinglePageAlloc (src/sec_alloc.rs).  A pointer  *)
(* may be used for the memory it was derived for only: the page, for those *)
(* derived from the page pointer; less, for one that a client has passed   *)
(* through a reference or Box ("the pointer we got from the caller might   *)
(* have provenance for only layout.size() bytes", src/sec_alloc.rs:445).   *)
(*                                                                         *)
(* SecAlloc with the unsafe accesses each call makes.  What the bytes hold *)
(* plays no part here, so clients write nothing.                           *)
(***************************************************************************)
EXTENDS SecAlloc

VARIABLES
  prov,     \* by handle: the bytes the client's pointer to the block is good for
  known,    \* by handle: how long the client takes the block to be
  accesses  \* of the last call: the bytes accessed, and those the pointer was good for

pvars == <<vars, prov, known, accesses>>

Run(addr, n) == addr .. (addr + n - 1)

(* An access through the client's pointer to h, and one through the page's. *)
ByClient(h, addr, n) == [bytes |-> Run(addr, n), prov |-> prov[h]]
ByPage(addr, n)      == [bytes |-> Run(addr, n), prov |-> Mapped]

PInit ==
  /\ Init
  /\ prov = [h \in Handles |-> {}]
  /\ known = [h \in Handles |-> 0]
  /\ accesses = {}

(* The layouts that fit what the client still knows of the block. *)
NamedSizes(h) == {s \in FittingSizes(h) : s <= known[h]}

(* The client makes a reference to the part of the block it means to use. *)
Narrow(h) ==
  /\ phase = "live"
  /\ \E size \in NamedSizes(h) :
       /\ prov' = [prov EXCEPT ![h] = @ \cap Run(blocks[h].addr, size)]
       /\ known' = [known EXCEPT ![h] = size]
  /\ accesses' = {}
  /\ UNCHANGED vars

PNewOrDrop ==
  /\ New \/ Drop
  /\ prov' = [h \in Handles |-> IF blocks'[h] = blocks[h] THEN prov[h] ELSE {}]
  /\ known' = [h \in Handles |-> IF blocks'[h] = blocks[h] THEN known[h] ELSE 0]
  /\ accesses' = {}

(* The client takes the slice it is returned to be as long as it says. *)
Learn(h) == known' = IF call'.ok THEN [known EXCEPT ![h] = blocks'[h].len] ELSE known

(* Blocks are cut from the page by its own pointer, zero-sized ones from nothing. *)
Cut(h) ==
  prov' = IF call'.ok
          THEN [prov EXCEPT ![h] = IF blocks'[h].size = 0 THEN {} ELSE Mapped]
          ELSE prov

PAllocateZeroed(h, layout) ==
  /\ AllocateZeroed(h, layout)
  /\ Cut(h)
  /\ accesses' = {}

(* Mutant: the client's pointer is used as it is. *)
Release_ByClient(h, size) ==
  IF size = 0 THEN {} ELSE {ByClient(h, blocks[h].addr, Rounded(size))}

(* with_addr: the page pointer is moved to the block. *)
Release(h, size) ==
  IF size = 0 THEN {} ELSE {ByPage(blocks[h].addr, Rounded(size))}

PDeallocate(h, size) ==
  /\ Deallocate(h, size)
  /\ prov' = [prov EXCEPT ![h] = {}]
  /\ accesses' = Release(h, size)

(* copy_nonoverlapping from the client's pointer to the block just cut. *)
Moves(h, old_size, layout, copied) ==
  /\ Cut(h)
  /\ accesses' = IF call'.ok
                 THEN {ByClient(h, blocks[h].addr, copied),
                       ByPage(Granted(layout).addr, copied)} \cup Release(h, old_size)
                 ELSE {}

PReallocShrink(h, old_size, layout) ==
  /\ ReallocShrink(h, old_size, layout)
  /\ Moves(h, old_size, layout, layout.size)

PReallocGrow(h, old_size, layout) ==
  /\ ReallocGrow(h, old_size, layout)
  /\ Moves(h, old_size, layout, old_size)

(* Mutant: the wiped end is taken from the end of the old block. *)
ShrunkEnd_Beyond(h, old_size, size) ==
  ByClient(h, blocks[h].addr + Rounded(old_size), Rounded(old_size) - Rounded(size))

(* new_alloc_end is derived from the client's pointer. *)
ShrunkEnd(h, old_size, size) ==
  ByClient(h, blocks[h].addr + Rounded(size), Rounded(old_size) - Rounded(size))

(* In place, the slice returned is made of the pointer passed in. *)
PShrink(h, old_size, layout) ==
  /\ Shrink(h, old_size, layout)
  /\ \/ /\ layout.size = 0
        /\ prov' = [prov EXCEPT ![h] = {}]
        /\ accesses' = Release(h, old_size)
     \/ /\ layout.size # 0 /\ is_aligned_ptr(blocks[h].addr, layout.align)
        /\ prov' = prov
        /\ accesses' = {ShrunkEnd(h, old_size, layout.size)}
     \/ /\ layout.size # 0 /\ ~is_aligned_ptr(blocks[h].addr, layout.align)
        /\ Moves(h, old_size, layout, layout.size)

PGrowZeroed(h, old_size, layout) ==
  /\ GrowZeroed(h, old_size, layout)
  /\ \/ /\ old_size = 0
        /\ Cut(h) /\ accesses' = {}
     \/ /\ old_size # 0
        /\ is_aligned_ptr(blocks[h].addr, layout.align)
        /\ ptr_is_last_allocation(blocks[h].addr, Rounded(old_size))
        /\ prov' = prov /\ accesses' = {}
     \/ /\ old_size # 0
        /\ ~(/\ is_aligned_ptr(blocks[h].addr, layout.align)
             /\ ptr_is_last_allocation(blocks[h].addr, Rounded(old_size)))
        /\ Moves(h, old_size, layout, old_size)

PNext ==
  \/ PNewOrDrop
  \/ \E h \in Handles :
       \/ Narrow(h)
       \/ \E layout \in Layouts : PAllocateZeroed(h, layout) /\ Learn(h)
       \/ \E size \in NamedSizes(h) :
            \/ PDeallocate(h, size) /\ Learn(h)
            \/ \E layout \in Layouts :
                 /\ \/ PReallocShrink(h, size, layout)
                    \/ PShrink(h, size, layout)
                    \/ PReallocGrow(h, size, layout)
                    \/ PGrowZeroed(h, size, layout)
                 /\ Learn(h)

PSpec == PInit /\ [][PNext]_pvars

-----------------------------------------------------------------------------
(***************************************************************************)
(* Every comment that an access is sound, of a pointer that is good for    *)
(* the page as the one given out was: no call reaches outside the page,    *)
(* wherever moves and resizes in place, of this block and of others that   *)
(* are narrowed, have left it (src/sec_alloc.rs:255, :451, :542).          *)
(***************************************************************************)
GivenPointersSuffice ==
  \A x \in accesses : x.prov = Mapped => x.bytes \subseteq Mapped

InProvenance == \A x \in accesses : x.bytes \subseteq x.prov

(***************************************************************************)
(* "We reconstruct the pointer with our full page provenance, so that ptr  *)
(* is valid for rounded_req_size byte writes" (src/sec_alloc.rs:446): a    *)
(* deallocation is sound, whatever pointer it is passed and whatever the   *)
(* block has been through.                                                 *)
(***************************************************************************)
DeallocatesInProvenance == call.op = "deallocate" => InProvenance

(***************************************************************************)
(* "new_alloc_end is valid for writes of rounded_size - new_rounded_size   *)
(* bytes" (src/sec_alloc.rs:542).                                          *)
(***************************************************************************)
ShrinksInProvenance == call.op = "shrink" => InProvenance
=============================================================================
