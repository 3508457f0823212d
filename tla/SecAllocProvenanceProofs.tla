---------------------- MODULE SecAllocProvenanceProofs ----------------------
(***************************************************************************)
(* The unsafe accesses of SecStackSinglePageAlloc stay in the page, and a  *)
(* deallocation makes only such as the page pointer is good for, for every *)
(* page and every number of blocks.                                        *)
(*                                                                         *)
(* A step of PSpec is one of Spec as far as the allocator's own state is   *)
(* concerned, so IInv holds: it says which bytes a block has, and that     *)
(* they are in the page.  Each call is then shown to access only bytes of  *)
(* the block it is passed and of the one it grants.                        *)
(***************************************************************************)
EXTENDS SecAllocProvenance, SecAllocProofs

PInv == IInv /\ GivenPointersSuffice /\ DeallocatesInProvenance

Within(A) == \A x \in A : x.bytes \subseteq Mapped

-----------------------------------------------------------------------------
LEMMA NamedFits ==
  ASSUME NEW h, NEW s \in NamedSizes(h)
  PROVE  s \in FittingSizes(h)
  BY DEF NamedSizes

LEMMA BlockBytes ==
  ASSUME IInv, phase = "live", NEW h \in Handles, NEW p \in Nat, NEW n \in Nat,
         blocks[h].addr <= p, p + n <= blocks[h].addr + blocks[h].len
  PROVE  Run(p, n) \subseteq Mapped
  <1>1. Bytes(blocks[h]) \subseteq Mapped
    BY BlocksGood, BlockInPage, Setting
  <1>2. blocks[h].addr \in Nat /\ blocks[h].len \in Nat
    BY Setting, BlockFields
  <1>3. Run(p, n) \subseteq Bytes(blocks[h])
    BY <1>2 DEF Run, Bytes
  <1>4. QED BY <1>1, <1>3

(* A release wipes the block, through a pointer to the page. *)
LEMMA ReleaseWithin ==
  ASSUME IInv, phase = "live", NEW h \in Handles, NEW s \in FittingSizes(h)
  PROVE  \A x \in Release(h, s) : x.bytes \subseteq Mapped /\ x.prov = Mapped
  <1>1. Rounded(s) = blocks[h].len /\ blocks[h].addr \in Nat /\ blocks[h].len \in Nat
    BY Fitting, Setting, BlockFields
  <1>2. Run(blocks[h].addr, Rounded(s)) \subseteq Mapped
    BY <1>1, BlockBytes
  <1>3. QED BY <1>2 DEF Release, ByPage

(* A move reads the front of the old block and writes the front of the new one. *)
LEMMA MovesWithin ==
  ASSUME IInv, phase = "live", NEW h \in Handles, NEW s \in FittingSizes(h),
         NEW l \in Layouts, NEW n \in Nat, n <= s, n <= l.size, CanAllocate(l)
  PROVE  Within({ByClient(h, blocks[h].addr, n), ByPage(Granted(l).addr, n)}
                  \cup Release(h, s))
  <1>1. /\ s \in Nat /\ s <= blocks[h].len
        /\ blocks[h].addr \in Nat /\ blocks[h].len \in Nat
    BY Fitting, Setting, BlockFields
  <1>2. blocks[h].addr <= blocks[h].addr
        /\ blocks[h].addr + n <= blocks[h].addr + blocks[h].len
    BY <1>1
  <1>3. Run(blocks[h].addr, n) \subseteq Mapped
    BY <1>1, <1>2, BlockBytes
  <1>4. Run(Granted(l).addr, n) \subseteq Mapped
    <2> DEFINE nb == Granted(l)
    <2>1. /\ GoodBlock(nb) /\ nb.size = l.size /\ nb.size <= nb.len
          /\ Under(nb, OffsetGranted(l))
          /\ OffsetGranted(l) \in Nat /\ OffsetGranted(l) <= PageSize
      BY Grant DEF GoodBlock
    <2>2. Bytes(nb) \subseteq Mapped
      BY <2>1, BlockInPage
    <2> HIDE DEF nb
    <2>3. nb.addr \in Nat /\ nb.len \in Nat /\ nb.size \in Nat
      BY <2>1, BlockFields DEF GoodBlock
    <2>4. n <= nb.len
      BY <2>1, <2>3
    <2>5. Run(nb.addr, n) \subseteq Bytes(nb)
      BY <2>3, <2>4 DEF Run, Bytes
    <2>6. QED BY <2>2, <2>5 DEF nb
  <1>5. QED BY <1>3, <1>4, ReleaseWithin DEF Within, ByClient, ByPage

LEMMA MovesStep ==
  ASSUME IInv, phase = "live", NEW h \in Handles, NEW s \in FittingSizes(h),
         NEW l \in Layouts, NEW n \in Nat, n <= s, n <= l.size, NEW op,
         Reallocate(op, h, s, l, n), Moves(h, s, l, n)
  PROVE  Within(accesses') /\ page_ptr' = page_ptr /\ call'.op = op
  <1>1. CASE CanAllocate(l)
    <2>1. call' = [op |-> op, ok |-> TRUE] /\ page_ptr' = page_ptr
      BY <1>1 DEF Reallocate, Succeeds
    <2>2. accesses' = {ByClient(h, blocks[h].addr, n), ByPage(Granted(l).addr, n)}
                        \cup Release(h, s)
      BY <2>1 DEF Moves
    <2>3. QED BY <1>1, <2>1, <2>2, MovesWithin
  <1>2. CASE ~CanAllocate(l)
    <2>1. call' = [op |-> op, ok |-> FALSE] /\ page_ptr' = page_ptr
      BY <1>2 DEF Reallocate, Fails
    <2>2. accesses' = {}
      BY <2>1 DEF Moves
    <2>3. QED BY <2>1, <2>2 DEF Within
  <1>3. QED BY <1>1, <1>2

(* What is shown of a step: its accesses are in the page. *)
LEMMA WithinStep ==
  ASSUME Within(accesses'), page_ptr' = page_ptr, call'.op # "deallocate"
  PROVE  (GivenPointersSuffice /\ DeallocatesInProvenance)'
  BY DEF Within, GivenPointersSuffice, DeallocatesInProvenance, Mapped

LEMMA NoAccess ==
  ASSUME accesses' = {}
  PROVE  (GivenPointersSuffice /\ DeallocatesInProvenance)'
  BY DEF GivenPointersSuffice, DeallocatesInProvenance, InProvenance

-----------------------------------------------------------------------------
LEMMA DeallocateAccess ==
  ASSUME IInv, NEW h \in Handles, NEW s \in FittingSizes(h), PDeallocate(h, s)
  PROVE  (GivenPointersSuffice /\ DeallocatesInProvenance)'
  <1>1. phase = "live" /\ page_ptr' = page_ptr /\ accesses' = Release(h, s)
    BY DEF PDeallocate, Deallocate, Succeeds
  <1>2. \A x \in accesses' : x.bytes \subseteq Mapped' /\ x.prov = Mapped'
    BY <1>1, ReleaseWithin DEF Mapped
  <1>3. QED BY <1>2 DEF GivenPointersSuffice, DeallocatesInProvenance, InProvenance

LEMMA ReallocAccess ==
  ASSUME IInv, NEW h \in Handles, NEW s \in FittingSizes(h), NEW l \in Layouts,
         PReallocShrink(h, s, l) \/ PReallocGrow(h, s, l)
  PROVE  (GivenPointersSuffice /\ DeallocatesInProvenance)'
  <1>1. phase = "live"
    BY DEF PReallocShrink, PReallocGrow, ReallocShrink, ReallocGrow
  <1>2. s \in Nat /\ l.size \in Nat /\ s <= s /\ l.size <= l.size
    BY <1>1, Fitting, LayoutFacts
  <1>3. CASE PReallocShrink(h, s, l)
    <2>1. /\ Reallocate("realloc_shrink", h, s, l, l.size) /\ l.size <= s
          /\ Moves(h, s, l, l.size)
      BY <1>3 DEF PReallocShrink, ReallocShrink
    <2>2. Within(accesses') /\ page_ptr' = page_ptr /\ call'.op = "realloc_shrink"
      BY <1>1, <1>2, <2>1, MovesStep
    <2>3. QED BY <2>2, WithinStep
  <1>4. CASE PReallocGrow(h, s, l)
    <2>1. /\ Reallocate("realloc_grow", h, s, l, s) /\ s <= l.size
          /\ Moves(h, s, l, s)
      BY <1>2, <1>4 DEF PReallocGrow, ReallocGrow
    <2>2. Within(accesses') /\ page_ptr' = page_ptr /\ call'.op = "realloc_grow"
      BY <1>1, <1>2, <2>1, MovesStep
    <2>3. QED BY <2>2, WithinStep
  <1>5. QED BY <1>3, <1>4

LEMMA ShrinkAccess ==
  ASSUME IInv, NEW h \in Handles, NEW s \in FittingSizes(h), NEW l \in Layouts,
         PShrink(h, s, l)
  PROVE  (GivenPointersSuffice /\ DeallocatesInProvenance)'
  <1>1. phase = "live" /\ l.size <= s /\ Shrink(h, s, l)
    BY DEF PShrink, Shrink
  <1>2. /\ s \in Nat /\ s + 7 < UsizeSpan /\ Rounded(s) = blocks[h].len
        /\ l.size \in Nat /\ l.size + 7 < UsizeSpan
    BY <1>1, Fitting, LayoutFacts
  <1>3. CASE l.size = 0
    <2>1. accesses' = Release(h, s)
      BY <1>3 DEF PShrink
    <2>2. page_ptr' = page_ptr /\ call' = [op |-> "shrink", ok |-> TRUE]
      BY <1>1, <1>3 DEF Shrink, Succeeds
    <2>3. Within(accesses')
      BY <1>1, <2>1, ReleaseWithin DEF Within
    <2>4. QED BY <2>2, <2>3, WithinStep
  <1>4. CASE l.size # 0 /\ is_aligned_ptr(blocks[h].addr, l.align)
    <2> DEFINE r == Rounded(l.size)
    <2>1. accesses' = {ShrunkEnd(h, s, l.size)}
      BY <1>4 DEF PShrink
    <2>2. page_ptr' = page_ptr /\ call' = [op |-> "shrink", ok |-> TRUE]
      BY <1>1, <1>4 DEF Shrink, ShrinkInPlace, Succeeds
    <2>3. r \in Nat /\ r <= blocks[h].len
      BY <1>1, <1>2, RoundedFacts, RoundUp8Monotone DEF Rounded
    <2>4. blocks[h].addr \in Nat /\ blocks[h].len \in Nat
      BY <1>1, Setting, BlockFields
    <2>5. ShrunkEnd(h, s, l.size).bytes = Run(blocks[h].addr + r, blocks[h].len - r)
      BY <1>2 DEF ShrunkEnd, ByClient
    <2> HIDE DEF r
    <2>6. /\ blocks[h].addr + r \in Nat /\ blocks[h].len - r \in Nat
          /\ blocks[h].addr <= blocks[h].addr + r
          /\ (blocks[h].addr + r) + (blocks[h].len - r) <= blocks[h].addr + blocks[h].len
      BY <2>3, <2>4
    <2>7. Run(blocks[h].addr + r, blocks[h].len - r) \subseteq Mapped
      BY <1>1, <2>6, BlockBytes
    <2>8. Within(accesses')
      BY <2>1, <2>5, <2>7 DEF Within
    <2>9. QED BY <2>2, <2>8, WithinStep
  <1>5. CASE l.size # 0 /\ ~is_aligned_ptr(blocks[h].addr, l.align)
    <2>1. Reallocate("shrink", h, s, l, l.size) /\ Moves(h, s, l, l.size)
      BY <1>1, <1>5 DEF PShrink, Shrink
    <2>2. l.size <= l.size
      BY <1>2
    <2>3. Within(accesses') /\ page_ptr' = page_ptr /\ call'.op = "shrink"
      BY <1>1, <1>2, <2>1, <2>2, MovesStep
    <2>4. QED BY <2>3, WithinStep
  <1>6. QED BY <1>3, <1>4, <1>5

LEMMA GrowAccess ==
  ASSUME IInv, NEW h \in Handles, NEW s \in FittingSizes(h), NEW l \in Layouts,
         PGrowZeroed(h, s, l)
  PROVE  (GivenPointersSuffice /\ DeallocatesInProvenance)'
  <1> DEFINE in_place == /\ is_aligned_ptr(blocks[h].addr, l.align)
                         /\ ptr_is_last_allocation(blocks[h].addr, Rounded(s))
  <1>1. phase = "live" /\ s <= l.size /\ GrowZeroed(h, s, l)
    <2>1. phase = "live" /\ l.size >= s /\ GrowZeroed(h, s, l)
      BY DEF PGrowZeroed, GrowZeroed
    <2>2. s \in Nat /\ l.size \in Nat
      BY <2>1, Fitting, LayoutFacts
    <2>3. QED BY <2>1, <2>2
  <1>2. CASE s = 0 \/ in_place
    <2>1. accesses' = {}
      BY <1>2 DEF PGrowZeroed
    <2>2. QED BY <2>1, NoAccess
  <1>3. CASE s # 0 /\ ~in_place
    <2>1. Reallocate("grow", h, s, l, s) /\ Moves(h, s, l, s)
      BY <1>1, <1>3 DEF PGrowZeroed, GrowZeroed
    <2>2. s \in Nat /\ s <= s
      BY <1>1, Fitting
    <2>3. Within(accesses') /\ page_ptr' = page_ptr /\ call'.op = "grow"
      BY <1>1, <2>1, <2>2, MovesStep
    <2>4. QED BY <2>3, WithinStep
  <1>4. QED BY <1>2, <1>3

-----------------------------------------------------------------------------
(* The allocator takes the steps it would take anyway. *)
LEMMA PNextIsNext ==
  ASSUME [PNext]_pvars
  PROVE  [Next]_vars
  <1>1. CASE PNewOrDrop
    BY <1>1 DEF PNewOrDrop, Next
  <1>2. ASSUME NEW h \in Handles, Narrow(h)
        PROVE  [Next]_vars
    BY <1>2 DEF Narrow
  <1>3. ASSUME NEW h \in Handles, NEW l \in Layouts, PAllocateZeroed(h, l)
        PROVE  [Next]_vars
    BY <1>3 DEF PAllocateZeroed, Next
  <1>4. ASSUME NEW h \in Handles, NEW s \in NamedSizes(h), PDeallocate(h, s)
        PROVE  [Next]_vars
    BY <1>4, NamedFits DEF PDeallocate, Next
  <1>5. ASSUME NEW h \in Handles, NEW s \in NamedSizes(h), NEW l \in Layouts,
               \/ PReallocShrink(h, s, l) \/ PShrink(h, s, l)
               \/ PReallocGrow(h, s, l) \/ PGrowZeroed(h, s, l)
        PROVE  [Next]_vars
    <2>1. s \in FittingSizes(h)
      BY <1>5, NamedFits
    <2>2. \/ ReallocShrink(h, s, l) \/ Shrink(h, s, l)
          \/ ReallocGrow(h, s, l) \/ GrowZeroed(h, s, l)
      BY <1>5 DEF PReallocShrink, PShrink, PReallocGrow, PGrowZeroed
    <2>3. QED BY <1>5, <2>1, <2>2 DEF Next
  <1>6. CASE UNCHANGED pvars
    BY <1>6 DEF pvars
  <1>7. QED BY <1>1, <1>2, <1>3, <1>4, <1>5, <1>6 DEF PNext

LEMMA NextPInv ==
  ASSUME PInv, [PNext]_pvars
  PROVE  PInv'
  <1>1. IInv /\ IInv'
    BY PNextIsNext, NextIInv DEF PInv
  <1>2. (GivenPointersSuffice /\ DeallocatesInProvenance)'
    <2>1. CASE PNewOrDrop
      BY <2>1, NoAccess DEF PNewOrDrop
    <2>2. ASSUME NEW h \in Handles, Narrow(h)
          PROVE  (GivenPointersSuffice /\ DeallocatesInProvenance)'
      BY <2>2, NoAccess DEF Narrow
    <2>3. ASSUME NEW h \in Handles, NEW l \in Layouts, PAllocateZeroed(h, l)
          PROVE  (GivenPointersSuffice /\ DeallocatesInProvenance)'
      BY <2>3, NoAccess DEF PAllocateZeroed
    <2>4. ASSUME NEW h \in Handles, NEW s \in NamedSizes(h), PDeallocate(h, s)
          PROVE  (GivenPointersSuffice /\ DeallocatesInProvenance)'
      BY <1>1, <2>4, NamedFits, DeallocateAccess
    <2>5. ASSUME NEW h \in Handles, NEW s \in NamedSizes(h), NEW l \in Layouts,
                 \/ PReallocShrink(h, s, l) \/ PShrink(h, s, l)
                 \/ PReallocGrow(h, s, l) \/ PGrowZeroed(h, s, l)
          PROVE  (GivenPointersSuffice /\ DeallocatesInProvenance)'
      BY <1>1, <2>5, NamedFits, ReallocAccess, ShrinkAccess, GrowAccess
    <2>6. CASE UNCHANGED pvars
      BY <2>6
      DEF pvars, vars, PInv, GivenPointersSuffice, DeallocatesInProvenance,
          InProvenance, Mapped
    <2>7. QED BY <2>1, <2>2, <2>3, <2>4, <2>5, <2>6 DEF PNext
  <1>3. QED BY <1>1, <1>2 DEF PInv

LEMMA InitPInv == PInit => PInv
  BY InitIInv
  DEF PInit, PInv, GivenPointersSuffice, DeallocatesInProvenance, InProvenance

(***************************************************************************)
(* Accesses through a pointer that is good for the whole page stay in the  *)
(* page (src/sec_alloc.rs:255, :451, :542).                                *)
(***************************************************************************)
THEOREM AccessesInPage == PSpec => []GivenPointersSuffice
  <1>1. PInv => GivenPointersSuffice
    BY DEF PInv
  <1>2. QED BY <1>1, InitPInv, NextPInv, PTL DEF PSpec

(***************************************************************************)
(* A deallocation is sound whatever pointer it is passed: it uses its own  *)
(* (src/sec_alloc.rs:446).                                                 *)
(***************************************************************************)
THEOREM DeallocationsSound == PSpec => []DeallocatesInProvenance
  <1>1. PInv => DeallocatesInProvenance
    BY DEF PInv
  <1>2. QED BY <1>1, InitPInv, NextPInv, PTL DEF PSpec
=============================================================================
