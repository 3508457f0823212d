------------------------- MODULE SecAllocLifoProofs -------------------------
(***************************************************************************)
(* A client that treats SecStackSinglePageAlloc as a stack loses no memory *)
(* to fragmentation, on a page of any size at any page boundary.           *)
(*                                                                         *)
(* LInv is inductive.  It says of the blocks that they ascend the page in  *)
(* the order they were created in; with a counter as high as the stack     *)
(* (NoFragmentation) they leave no gap, so the last one that has any bytes *)
(* is on top (LastOnTop).  Hence a deallocation rewinds the stack, and a   *)
(* resize stays in place or fails.                                         *)
(***************************************************************************)
EXTENDS SecAllocLifo, SecAllocProofs, SequenceTheorems

LInv == IInv /\ HeldInOrder /\ Ascending /\ NoFragmentation

-----------------------------------------------------------------------------
(* The blocks of the stack. *)

LEMMA LastHeld ==
  ASSUME LInv, order # <<>>
  PROVE  /\ Len(order) \in DOMAIN order /\ DOMAIN order = 1 .. Len(order)
         /\ Len(order) \in Nat /\ Len(order) >= 1
         /\ Last(order) = order[Len(order)]
         /\ Last(order) \in Handles /\ IsLive(Last(order))
  <1>1. order \in Seq(Handles)
    BY DEF LInv, HeldInOrder
  <1>2. DOMAIN order = 1 .. Len(order) /\ Len(order) \in Nat /\ Len(order) # 0
    BY <1>1, EmptySeq, LenProperties
  <1>3. Len(order) \in DOMAIN order
    BY <1>2
  <1>4. order[Len(order)] \in Handles
    BY <1>1, <1>3, ElementOfSeq
  <1>5. QED BY <1>2, <1>3, <1>4 DEF LInv, HeldInOrder, Last

(* A block with bytes has a place in the order. *)
LEMMA BackedHeld ==
  ASSUME LInv, phase = "live", NEW g \in Handles, PageBacked(blocks[g])
  PROVE  \E i \in DOMAIN order : order[i] = g
  <1>1. page_ptr \in Nat /\ page_ptr >= 8 /\ blocks[g].addr \in Nat
        /\ page_ptr <= blocks[g].addr
    BY BlocksGood, Setting DEF LInv, GoodBlock, Block
  <1>2. IsLive(g)
    BY <1>1 DEF IsLive
  <1>3. QED BY <1>2 DEF LInv, HeldInOrder

(* The blocks cover the stack. *)
LEMMA NoGap ==
  ASSUME LInv, phase = "live"
  PROVE  Covered(blocks) = page_ptr .. (page_ptr + stack_offset - 1)
  <1> DEFINE T == page_ptr .. (page_ptr + stack_offset - 1)
  <1>1. IInv /\ bytes = stack_offset
    BY DEF LInv, NoFragmentation
  <1>2. /\ page_ptr \in Nat /\ stack_offset \in Nat /\ stack_offset <= PageSize
    BY <1>1, Setting
  <1>3. IsFiniteSet(T) /\ Cardinality(T) = stack_offset
    BY <1>2, RunCard
  <1>4. Covered(blocks) \subseteq T
    <2>1. \A g \in Handles : Bytes(blocks[g]) \subseteq T
      BY <1>1, <1>2, BlocksGood, BlockInPage
    <2>2. QED BY <2>1 DEF Covered
  <1>5. Cardinality(Covered(blocks)) = stack_offset
    BY <1>1 DEF IInv, BytesExact
  <1> HIDE DEF T
  <1>6. Covered(blocks) = T
    BY <1>3, <1>4, <1>5, FS_Subset
  <1>7. QED BY <1>6 DEF T

(***************************************************************************)
(* The last block ends at the top of the stack: the byte below the top is  *)
(* in some block, and none ends above the last.                            *)
(***************************************************************************)
LEMMA LastOnTop ==
  ASSUME LInv, phase = "live", order # <<>>, PageBacked(blocks[Last(order)])
  PROVE  /\ page_ptr <= blocks[Last(order)].addr
         /\ blocks[Last(order)].addr + blocks[Last(order)].len
              = page_ptr + stack_offset
         /\ ptr_is_last_allocation(blocks[Last(order)].addr, blocks[Last(order)].len)
  <1> DEFINE h == Last(order)
             a == page_ptr + stack_offset - 1
             b == blocks[h]
  <1>0. IInv
    BY DEF LInv
  <1>1. h \in Handles /\ h = order[Len(order)] /\ DOMAIN order = 1 .. Len(order)
        /\ Len(order) \in Nat /\ Len(order) >= 1
    BY LastHeld
  <1>2. page_ptr \in Nat /\ stack_offset \in Nat /\ blocks \in [Handles -> Block]
    BY <1>0, Setting
  <1>3. /\ b.addr \in Nat /\ b.len \in Nat /\ b.len > 0 /\ page_ptr <= b.addr
        /\ b.addr + b.len <= page_ptr + stack_offset
    BY <1>0, <1>1, <1>2, BlocksGood, BlockFields DEF GoodBlock, Under, PageBacked
  <1>4. a \in Covered(blocks)
    BY <1>2, <1>3, NoGap
  <1>5. PICK g \in Handles : a \in Bytes(blocks[g])
    BY <1>4 DEF Covered
  <1> HIDE DEF h
  <1>6. /\ blocks[g].addr \in Nat /\ blocks[g].len \in Nat /\ blocks[g].len > 0
        /\ page_ptr + stack_offset <= blocks[g].addr + blocks[g].len
    BY <1>2, <1>5, BlockFields DEF Bytes
  <1>7. g = h
    <2>1. PICK i \in DOMAIN order : order[i] = g
      BY <1>6, BackedHeld DEF PageBacked
    <2>2. i < Len(order) => blocks[g].addr + blocks[g].len <= b.addr
      BY <1>1, <1>3, <1>6, <2>1 DEF LInv, Ascending
    <2>3. i = Len(order)
      BY <1>1, <1>2, <1>3, <1>6, <2>1, <2>2
    <2>4. QED BY <1>1, <2>1, <2>3
  <1>8. b.addr + b.len = page_ptr + stack_offset
    BY <1>2, <1>3, <1>6, <1>7
  <1>9. ptr_is_last_allocation(b.addr, b.len)
    BY <1>2, <1>3, <1>8 DEF ptr_is_last_allocation, large_offset_from
  <1>10. QED BY <1>3, <1>8, <1>9 DEF h

(* With at most one block held, its bytes are all there are. *)
LEMMA NoneHeld ==
  ASSUME LInv, phase = "live", order = <<>>
  PROVE  bytes = 0 /\ stack_offset = 0
  <1>1. \A g \in Handles : ~PageBacked(blocks[g])
    BY BackedHeld
  <1>2. \A g \in Handles : Bytes(blocks[g]) = {}
    <2>1. blocks \in [Handles -> Block]
      BY Setting DEF LInv
    <2>2. QED BY <1>1, <2>1, BlockFields DEF Bytes, PageBacked
  <1>3. Covered(blocks) = {}
    BY <1>2 DEF Covered
  <1>4. QED BY <1>3, FS_EmptySet DEF LInv, IInv, BytesExact, NoFragmentation

LEMMA OneHeld ==
  ASSUME LInv, phase = "live", Len(order) = 1
  PROVE  stack_offset = blocks[Last(order)].len
  <1> DEFINE h == Last(order)
  <1>0. IInv /\ stack_offset = bytes /\ bytes \in Nat
    BY Setting DEF LInv, NoFragmentation
  <1>1. order # <<>>
    BY EmptySeq DEF LInv, HeldInOrder
  <1>2. h \in Handles /\ h = order[1] /\ DOMAIN order = 1 .. 1
    BY <1>1, LastHeld
  <1> HIDE DEF h
  <1>3. ASSUME NEW g \in Handles \ {h}
        PROVE  Bytes(blocks[g]) = {}
    <2>1. ~PageBacked(blocks[g])
      BY <1>2, BackedHeld
    <2>2. blocks[g] \in Block
      BY <1>0, Setting
    <2>3. QED BY <2>1, <2>2, BlockFields DEF Bytes, PageBacked
  <1>4. Rest(h) = {}
    BY <1>3 DEF Rest
  <1>5. bytes - blocks[h].len = 0 /\ blocks[h].len \in Nat
    BY <1>0, <1>2, <1>4, RestCard, FS_EmptySet, Setting, BlockFields
  <1>6. QED BY <1>0, <1>5 DEF h

-----------------------------------------------------------------------------
(* What is granted and released at the top of the stack. *)

(* An address within the page that is aligned to more than a page is its first. *)
LEMMA AlignedInPage ==
  ASSUME LInv, phase = "live", NEW a \in Aligns, NEW q \in Nat, q % a = 0,
         page_ptr <= q, q < page_ptr + PageSize, a % PageSize = 0
  PROVE  q = page_ptr
  <1>1. page_ptr \in Nat /\ PageSize \in Nat \ {0} /\ page_ptr % PageSize = 0
    <2>1. page_ptr \in PageAddrs
      BY DEF LInv, IInv, TypeOK, PageWhenLive
    <2>2. QED BY <2>1, PageBoundaries, SecAllocAssumption
  <1>2. a \in Nat \ {0}
    BY UtilAssumption
  <1>3. q % PageSize = 0
    BY <1>1, <1>2, MultipleOfMultiple
  <1>4. q <= page_ptr
    BY <1>1, <1>3, MultiplesApart
  <1>5. QED BY <1>1, <1>4

LEMMA PageAligned ==
  ASSUME LInv, phase = "live", NEW a \in Aligns, a % PageSize # 0
  PROVE  page_ptr % a = 0
  <1>1. page_ptr \in Nat /\ PageSize \in Nat \ {0} /\ page_ptr % PageSize = 0
    <2>1. page_ptr \in PageAddrs
      BY DEF LInv, IInv, TypeOK, PageWhenLive
    <2>2. QED BY <2>1, PageBoundaries, SecAllocAssumption
  <1>2. a \in Nat \ {0} /\ PageSize % a = 0
    BY PageBoundaries, UtilAssumption
  <1>3. QED BY <1>1, <1>2, MultipleOfMultiple

(* No bytes are skipped for the alignment. *)
LEMMA GrantedAtTop ==
  ASSUME LInv, phase = "live", NEW l \in Layouts, CanAllocate(l),
         l.align <= 8 \/ stack_offset = 0
  PROVE  OffsetGranted(l) = stack_offset + Granted(l).len
  <1>0. IInv
    BY DEF LInv
  <1>1. /\ l.size \in Nat /\ l.align \in Nat \ {0} /\ l.align \in Aligns
        /\ l.size + 7 < UsizeSpan /\ l.align < UsizeSpan
    BY LayoutFacts DEF Layouts
  <1>2. /\ page_ptr \in Nat /\ page_ptr >= 8 /\ PageSize \in Nat \ {0}
        /\ page_ptr + PageSize <= UsizeSpan /\ UsizeSpan \in Nat
        /\ stack_offset \in Nat
    BY <1>0, Setting, SecAllocAssumption
  <1>3. CASE l.size = 0
    BY <1>2, <1>3 DEF OffsetGranted, Granted, allocate_zerosized
  <1>4. CASE l.size # 0
    <2> DEFINE q == AllocPtr(l)
               r == Rounded(l.size)
    <2>1. /\ q \in Nat /\ page_ptr + stack_offset <= q /\ q % l.align = 0
          /\ q + r <= page_ptr + PageSize
      BY <1>0, <1>1, <1>4, RoomGranted
    <2>2. r \in Nat /\ r # 0
      BY <1>1, <1>4, RoundedFacts
    <2>3. OffsetGranted(l) = q - page_ptr + r /\ Granted(l).len = r
      BY <1>4 DEF OffsetGranted, Granted, large_offset_from
    <2>4. q = page_ptr + stack_offset
      <3>1. CASE l.align <= 8
        BY <3>1 DEF AllocPtr
      <3>2. CASE l.align > 8 /\ l.align % PageSize = 0
        <4>1. stack_offset = 0 /\ q < page_ptr + PageSize /\ page_ptr <= q
          BY <1>1, <1>2, <2>1, <2>2, <3>2
        <4> HIDE DEF q, r
        <4>2. q = page_ptr
          BY <1>1, <2>1, <3>2, <4>1, AlignedInPage
        <4>3. QED BY <1>2, <4>1, <4>2
      <3>3. CASE l.align > 8 /\ l.align % PageSize # 0
        <4>1. stack_offset = 0 /\ page_ptr % l.align = 0
          BY <1>1, <3>3, PageAligned
        <4>2. q = align_up_usize(page_ptr, l.align)
          BY <1>1, <1>2, <3>3, <4>1 DEF AllocPtr
        <4>3. UsizeSpan % l.align = 0 /\ l.align <= UsizeSpan
              /\ page_ptr < UsizeSpan /\ page_ptr # 0
          BY <1>1, <1>2, PowersOfTwo
        <4> HIDE DEF q, r
        <4>4. q <= page_ptr
          BY <1>1, <1>2, <4>1, <4>2, <4>3, AlignUpLeast
        <4>5. QED BY <1>2, <2>1, <4>1, <4>4
      <3>4. QED BY <1>1, <1>2, <3>1, <3>2, <3>3
    <2> HIDE DEF q, r
    <2>5. QED BY <1>2, <2>2, <2>3, <2>4
  <1>5. QED BY <1>3, <1>4

(***************************************************************************)
(* A last block that does not have the alignment now asked for is the only *)
(* one, at the start of the page, and no other address will do either.     *)
(***************************************************************************)
LEMMA NoOtherPlace ==
  ASSUME LInv, phase = "live", order # <<>>, PageBacked(blocks[Last(order)]),
         NEW l \in Layouts, l.size > 0, AlignedByAdvice(l, Len(order)),
         ~is_aligned_ptr(blocks[Last(order)].addr, l.align)
  PROVE  ~CanAllocate(l)
  <1> DEFINE b == blocks[Last(order)]
  <1>0. IInv
    BY DEF LInv
  <1>1. /\ l.size \in Nat /\ l.align \in Nat \ {0} /\ l.align \in Aligns
        /\ l.size + 7 < UsizeSpan
        /\ l.align \in {1, 2, 4} \/ l.align % 8 = 0
    BY LayoutFacts DEF Layouts
  <1>2. /\ page_ptr \in Nat /\ PageSize \in Nat \ {0} /\ stack_offset \in Nat
    BY <1>0, Setting, SecAllocAssumption
  <1>3. b.addr \in Nat /\ b.addr % 8 = 0 /\ b.len \in Nat /\ b.len > 0
    BY <1>0, LastHeld, BlocksGood, BlockFields DEF GoodBlock, PageBacked
  <1>4. b.addr % l.align # 0
    BY DEF is_aligned_ptr
  <1>5. l.align > 8
    <2> HIDE DEF b
    <2>1. CASE l.align \in {1, 2, 4}
      BY <1>3, <1>4, <2>1
    <2>2. CASE l.align % 8 = 0
      <3>1. l.align # 8
        BY <1>3, <1>4
      <3>2. QED BY <1>1, <2>2, <3>1
    <2>3. QED BY <1>1, <2>1, <2>2
  <1>6. Len(order) = 1
    BY <1>1, <1>5, LastHeld DEF AlignedByAdvice
  <1>7. stack_offset = b.len /\ b.addr + b.len = page_ptr + stack_offset
    BY <1>6, OneHeld, LastOnTop
  <1> HIDE DEF b
  <1>8. b.addr = page_ptr /\ stack_offset > 0
    BY <1>2, <1>3, <1>7
  <1>9. l.align % PageSize = 0
    BY <1>1, <1>4, <1>8, PageAligned
  <1>10. ASSUME CanAllocate(l) PROVE FALSE
    <2>1. /\ AllocPtr(l) \in Nat /\ page_ptr + stack_offset <= AllocPtr(l)
          /\ AllocPtr(l) % l.align = 0
          /\ AllocPtr(l) + Rounded(l.size) <= page_ptr + PageSize
      BY <1>0, <1>10, RoomGranted
    <2>2. Rounded(l.size) \in Nat /\ Rounded(l.size) # 0
      BY <1>1, RoundedFacts
    <2>3. page_ptr <= AllocPtr(l) /\ AllocPtr(l) < page_ptr + PageSize
      BY <1>2, <2>1, <2>2
    <2>4. AllocPtr(l) = page_ptr
      BY <1>1, <1>9, <2>1, <2>3, AlignedInPage
    <2>5. QED BY <1>2, <1>8, <2>1, <2>4
  <1>11. QED BY <1>10

(* The last block takes its bytes with it. *)
LEMMA ReleasedAtTop ==
  ASSUME LInv, phase = "live", order # <<>>, NEW s \in FittingSizes(Last(order)),
         DeallocateFrom(bytes, stack_offset, mem, blocks[Last(order)].addr, s)
  PROVE  NoFragmentation'
  <1> DEFINE b == blocks[Last(order)]
  <1>0. IInv /\ stack_offset = bytes
    BY DEF LInv, NoFragmentation
  <1>1. /\ page_ptr \in Nat /\ stack_offset \in Nat /\ b.addr \in Nat /\ b.len \in Nat
    BY <1>0, LastHeld, Setting, BlockFields
  <1>2. s \in Nat /\ Rounded(s) = b.len /\ (s = 0 <=> b.len = 0)
    BY <1>0, LastHeld, Fitting
  <1>3. CASE s = 0
    BY <1>0, <1>1, <1>3 DEF DeallocateFrom, NoFragmentation
  <1>4. CASE s # 0
    <2>1. /\ bytes' = bytes - b.len
          /\ stack_offset' = RewoundOffset(bytes - b.len, stack_offset,
                                b.addr - page_ptr, b.addr - page_ptr + b.len)
      BY <1>2, <1>4 DEF DeallocateFrom, large_offset_from
    <2>2. b.addr + b.len = page_ptr + stack_offset
      BY <1>1, <1>2, <1>4, LastOnTop DEF PageBacked
    <2> HIDE DEF b
    <2>3. QED BY <1>0, <1>1, <2>1, <2>2 DEF RewoundOffset, NoFragmentation
  <1>5. QED BY <1>3, <1>4

-----------------------------------------------------------------------------
(* The calls of the client. *)

(***************************************************************************)
(* The block of h is replaced by nb, which is the last and, if it has any  *)
(* bytes, above the others.                                                *)
(***************************************************************************)
LEMMA AscendingStep ==
  ASSUME LInv, NEW h \in Handles, NEW nb, blocks' = [blocks EXCEPT ![h] = nb],
         blocks \in [Handles -> Block],
         \A i \in DOMAIN order' :
           \/ order'[i] = h /\ \A j \in DOMAIN order' : ~(i < j)
           \/ order'[i] \in Handles \ {h} /\ i \in DOMAIN order /\ order'[i] = order[i],
         \A g \in Handles \ {h} :
           blocks[g].len > 0 /\ nb.len > 0 => blocks[g].addr + blocks[g].len <= nb.addr
  PROVE  Ascending'
  <1>1. blocks'[h] = nb /\ \A g \in Handles \ {h} : blocks'[g] = blocks[g]
    OBVIOUS
  <1> SUFFICES ASSUME NEW i \in DOMAIN order', NEW j \in DOMAIN order', i < j,
                      blocks'[order'[i]].len > 0, blocks'[order'[j]].len > 0
               PROVE  blocks'[order'[i]].addr + blocks'[order'[i]].len
                        <= blocks'[order'[j]].addr
    BY DEF Ascending
  <1>2. /\ order'[i] \in Handles \ {h} /\ i \in DOMAIN order /\ order'[i] = order[i]
        /\ blocks'[order'[i]] = blocks[order[i]]
    BY <1>1
  <1>3. CASE order'[j] = h
    BY <1>1, <1>2, <1>3
  <1>4. CASE order'[j] # h
    <2>1. j \in DOMAIN order /\ order'[j] = order[j] /\ blocks'[order'[j]] = blocks[order[j]]
      BY <1>1, <1>4
    <2>2. QED BY <1>2, <2>1 DEF LInv, Ascending
  <1>5. QED BY <1>3, <1>4

(* Every block ends at or below the top, so what is granted is above it. *)
LEMMA AboveOthers ==
  ASSUME LInv, phase = "live", NEW p \in Nat, page_ptr + stack_offset <= p,
         NEW g \in Handles, blocks[g].len > 0
  PROVE  blocks[g].addr + blocks[g].len <= p
  <1>1. /\ page_ptr \in Nat /\ stack_offset \in Nat
        /\ blocks[g].addr \in Nat /\ blocks[g].len \in Nat
    BY Setting, BlockFields DEF LInv
  <1>2. blocks[g].addr + blocks[g].len <= page_ptr + stack_offset
    BY BlocksGood DEF LInv, Under, PageBacked
  <1>3. QED BY <1>1, <1>2

(* The last block lies above the others. *)
LEMMA LastAboveOthers ==
  ASSUME LInv, phase = "live", order # <<>>, blocks[Last(order)].len > 0,
         NEW g \in Handles \ {Last(order)}, blocks[g].len > 0
  PROVE  blocks[g].addr + blocks[g].len <= blocks[Last(order)].addr
  <1>1. PICK i \in DOMAIN order : order[i] = g
    BY BackedHeld DEF PageBacked
  <1>2. i < Len(order) /\ Len(order) \in DOMAIN order
    BY <1>1, LastHeld
  <1>3. QED BY <1>1, <1>2, LastHeld DEF LInv, Ascending

LEMMA SameStep ==
  ASSUME LInv, order' = order, blocks' = blocks, bytes' = bytes,
         stack_offset' = stack_offset
  PROVE  (HeldInOrder /\ Ascending /\ NoFragmentation)'
  BY DEF LInv, HeldInOrder, Ascending, NoFragmentation, IsLive

(* A grant, for the last position in the order. *)
LEMMA GrantStep ==
  ASSUME LInv, phase = "live", NEW l \in Layouts, CanAllocate(l),
         l.align <= 8 \/ stack_offset = 0,
         bytes' = BytesGranted(l), stack_offset' = OffsetGranted(l)
  PROVE  /\ NoFragmentation'
         /\ Granted(l).addr # 0
         /\ \A g \in Handles : blocks[g].len > 0 /\ Granted(l).len > 0 =>
              blocks[g].addr + blocks[g].len <= Granted(l).addr
  <1>0. IInv /\ stack_offset = bytes
    BY DEF LInv, NoFragmentation
  <1>1. OffsetGranted(l) = stack_offset + Granted(l).len
    BY GrantedAtTop
  <1>2. NoFragmentation'
    BY <1>0, <1>1 DEF NoFragmentation, BytesGranted
  <1>3. /\ Granted(l).addr # 0 /\ Granted(l) \in Block
        /\ Granted(l).len > 0 => page_ptr + stack_offset <= Granted(l).addr
    BY <1>0, Grant DEF GoodBlock, PageBacked
  <1>4. QED BY <1>2, <1>3, BlockFields, AboveOthers

LEMMA PushStep ==
  ASSUME LInv, NEW h \in Handles, NEW l \in Layouts, LifoAllocate(h, l)
  PROVE  (HeldInOrder /\ Ascending /\ NoFragmentation)'
  <1>0. /\ phase = "live" /\ ~IsLive(h) /\ Allocate("allocate", h, l)
        /\ AlignedByAdvice(l, Len(order) + 1) /\ blocks \in [Handles -> Block]
        /\ order \in Seq(Handles)
    BY Setting DEF LifoAllocate, AllocateZeroed, LInv, HeldInOrder
  <1>1. CASE ~CanAllocate(l)
    <2>1. Fails("allocate")
      BY <1>0, <1>1 DEF Allocate
    <2>2. /\ blocks' = blocks /\ bytes' = bytes /\ stack_offset' = stack_offset
          /\ call' = [op |-> "allocate", ok |-> FALSE]
      BY <2>1 DEF Fails
    <2>3. order' = order
      BY <2>2 DEF LifoAllocate
    <2>4. QED BY <2>2, <2>3, SameStep
  <1>2. CASE CanAllocate(l)
    <2> DEFINE nb == Granted(l)
    <2>1. /\ bytes' = BytesGranted(l) /\ stack_offset' = OffsetGranted(l)
          /\ blocks' = [blocks EXCEPT ![h] = nb]
          /\ call' = [op |-> "allocate", ok |-> TRUE]
      BY <1>0, <1>2 DEF Allocate, Succeeds
    <2>2. order' = Append(order, h)
      BY <2>1 DEF LifoAllocate
    <2>3. l.align <= 8 \/ stack_offset = 0
      <3>1. CASE order = <<>>
        BY <1>0, <3>1, NoneHeld
      <3>2. CASE order # <<>>
        BY <1>0, <3>2, LastHeld DEF AlignedByAdvice
      <3>3. QED BY <3>1, <3>2
    <2>4. /\ NoFragmentation' /\ nb.addr # 0
          /\ \A g \in Handles : blocks[g].len > 0 /\ nb.len > 0 =>
               blocks[g].addr + blocks[g].len <= nb.addr
      BY <1>0, <1>2, <2>1, <2>3, GrantStep
    <2>5. /\ order' \in Seq(Handles)
          /\ Len(order) \in Nat /\ Len(order') = Len(order) + 1
          /\ DOMAIN order = 1 .. Len(order)
          /\ DOMAIN order' = 1 .. (Len(order) + 1)
          /\ order'[Len(order) + 1] = h
          /\ \A i \in DOMAIN order : order'[i] = order[i] /\ order[i] \in Handles
      BY <1>0, <2>2, AppendProperties, LenProperties, ElementOfSeq
    <2>6. \A i \in DOMAIN order : order[i] # h
      BY <1>0 DEF LInv, HeldInOrder
    <2> HIDE DEF nb
    <2>7. blocks'[h] = nb /\ \A g \in Handles \ {h} : blocks'[g] = blocks[g]
      BY <1>0, <2>1
    <2>8. HeldInOrder'
      <3>1. \A i, j \in DOMAIN order' : order'[i] = order'[j] => i = j
        <4>1. \A i \in DOMAIN order' : i \in DOMAIN order \/ i = Len(order) + 1
          BY <2>5
        <4>2. QED BY <2>5, <2>6, <4>1 DEF LInv, HeldInOrder
      <3>2. ASSUME NEW g \in Handles
            PROVE  IsLive(g)' <=> \E i \in DOMAIN order' : order'[i] = g
        <4>1. CASE g = h
          <5>1. IsLive(g)'
            BY <2>4, <2>7, <4>1 DEF IsLive
          <5>2. Len(order) + 1 \in DOMAIN order' /\ order'[Len(order) + 1] = g
            BY <2>5, <4>1
          <5>3. QED BY <5>1, <5>2
        <4>2. CASE g # h
          <5>1. IsLive(g)' <=> IsLive(g)
            BY <2>7, <4>2 DEF IsLive
          <5>2. (\E i \in DOMAIN order' : order'[i] = g)
                  <=> \E i \in DOMAIN order : order[i] = g
            BY <2>5, <4>2
          <5>3. QED BY <5>1, <5>2 DEF LInv, HeldInOrder
        <4>3. QED BY <4>1, <4>2
      <3>3. QED BY <2>5, <3>1, <3>2 DEF HeldInOrder
    <2>9. Ascending'
      <3>1. \A i \in DOMAIN order' :
              \/ order'[i] = h /\ \A j \in DOMAIN order' : ~(i < j)
              \/ order'[i] \in Handles \ {h} /\ i \in DOMAIN order /\ order'[i] = order[i]
        BY <2>5, <2>6
      <3>2. QED BY <1>0, <2>1, <2>4, <3>1, AscendingStep
    <2>10. QED BY <2>4, <2>8, <2>9
  <1>3. QED BY <1>1, <1>2

(* A sequence without its last element. *)
LEMMA FrontOfSeq ==
  ASSUME NEW S, NEW s \in Seq(S), s # <<>>
  PROVE  /\ Front(s) \in Seq(S) /\ Len(Front(s)) = Len(s) - 1
         /\ \A i \in 1 .. (Len(s) - 1) :
              i \in 1 .. Len(s) /\ i # Len(s) /\ Front(s)[i] = s[i]
  <1>1. /\ Len(s) \in Nat /\ Len(s) # 0
        /\ \A i \in 1 .. Len(s) : s[i] \in S
    BY EmptySeq, LenProperties, ElementOfSeq
  <1>2. PICK n \in Nat : n = Len(s) - 1
    BY <1>1
  <1>3. /\ n - 1 + 1 = n
        /\ \A i \in 1 .. n : i \in 1 .. Len(s) /\ i # Len(s) /\ 1 + i - 1 = i
    BY <1>1, <1>2
  <1>4. Front(s) = SubSeq(s, 1, n)
    BY <1>2 DEF Front
  <1>5. /\ SubSeq(s, 1, n) \in Seq(S)
        /\ Len(SubSeq(s, 1, n)) = IF 1 <= n THEN n - 1 + 1 ELSE 0
        /\ \A i \in 1 .. n - 1 + 1 : SubSeq(s, 1, n)[i] = s[1 + i - 1]
    BY <1>1, <1>3, SubSeqProperties
  <1>6. Len(SubSeq(s, 1, n)) = n /\ \A i \in 1 .. n : SubSeq(s, 1, n)[i] = s[i]
    BY <1>3, <1>5
  <1>7. QED BY <1>2, <1>3, <1>4, <1>5, <1>6

LEMMA PopStep ==
  ASSUME LInv, LifoDeallocate
  PROVE  (HeldInOrder /\ Ascending /\ NoFragmentation)'
  <1> DEFINE h == Last(order)
  <1>1. PICK s \in FittingSizes(h) : Deallocate(h, s)
    BY DEF LifoDeallocate
  <1>2. /\ phase = "live" /\ order # <<>> /\ order' = Front(order)
        /\ DeallocateFrom(bytes, stack_offset, mem, blocks[h].addr, s)
        /\ blocks' = [blocks EXCEPT ![h] = NoBlock]
        /\ blocks \in [Handles -> Block] /\ order \in Seq(Handles)
    BY <1>1, Setting DEF LifoDeallocate, Deallocate, Succeeds, LInv, HeldInOrder
  <1>3. NoFragmentation'
    BY <1>2, ReleasedAtTop
  <1>4. /\ DOMAIN order = 1 .. Len(order)
        /\ h \in Handles /\ order[Len(order)] = h
    BY <1>2, LastHeld
  <1>5. /\ order' \in Seq(Handles) /\ DOMAIN order' = 1 .. (Len(order) - 1)
        /\ \A i \in DOMAIN order' :
             i \in DOMAIN order /\ order'[i] = order[i] /\ order'[i] \in Handles \ {h}
    <2>1. /\ order' \in Seq(Handles) /\ Len(order') = Len(order) - 1
          /\ \A i \in 1 .. (Len(order) - 1) :
               i \in 1 .. Len(order) /\ i # Len(order) /\ order'[i] = order[i]
      BY <1>2, FrontOfSeq
    <2>2. DOMAIN order' = 1 .. (Len(order) - 1)
      BY <2>1, LenProperties
    <2>3. ASSUME NEW i \in 1 .. (Len(order) - 1)
          PROVE  order[i] \in Handles /\ order[i] # order[Len(order)]
      <3>1. Len(order) \in DOMAIN order
        BY <1>2, LastHeld
      <3>2. i \in 1 .. Len(order) /\ i # Len(order)
        BY <2>1
      <3>3. i \in DOMAIN order
        <4>1. DOMAIN order = 1 .. Len(order)
          BY <1>4
        <4>2. QED BY <3>2, <4>1, Zenon
      <3>4. order[i] \in Handles
        BY <1>2, <3>2, ElementOfSeq
      <3>5. order[i] # order[Len(order)]
        BY <3>1, <3>2, <3>3 DEF LInv, HeldInOrder
      <3>6. QED BY <3>4, <3>5
    <2>4. ASSUME NEW i \in DOMAIN order'
          PROVE  i \in DOMAIN order /\ order'[i] = order[i] /\ order'[i] \in Handles \ {h}
      <3>1. /\ i \in 1 .. Len(order) /\ order'[i] = order[i]
            /\ order[i] \in Handles /\ order[i] # order[Len(order)]
        BY <2>1, <2>2, <2>3
      <3>2. DOMAIN order = 1 .. Len(order) /\ order[Len(order)] = h
        BY <1>4
      <3>3. QED BY <3>1, <3>2, Zenon
    <2>5. QED BY <2>1, <2>2, <2>4
  <1> HIDE DEF h
  <1>6. blocks'[h] = NoBlock /\ \A g \in Handles \ {h} : blocks'[g] = blocks[g]
    BY <1>2, <1>4
  <1>7. HeldInOrder'
    <2>1. \A i, j \in DOMAIN order' : order'[i] = order'[j] => i = j
      BY <1>5 DEF LInv, HeldInOrder
    <2>2. ASSUME NEW g \in Handles
          PROVE  IsLive(g)' <=> \E i \in DOMAIN order' : order'[i] = g
      <3>1. CASE g = h
        BY <1>5, <1>6, <3>1 DEF IsLive, NoBlock
      <3>2. CASE g # h
        <4>1. IsLive(g)' <=> \E i \in DOMAIN order : order[i] = g
          BY <1>6, <3>2 DEF IsLive, LInv, HeldInOrder
        <4>2. \A i \in DOMAIN order : order[i] = g => i \in DOMAIN order'
          BY <1>4, <1>5, <3>2
        <4>3. QED BY <1>5, <4>1, <4>2
      <3>3. QED BY <3>1, <3>2
    <2>3. QED BY <1>5, <2>1, <2>2 DEF HeldInOrder
  <1>8. Ascending'
    <2>1. ~(NoBlock.len > 0)
      BY DEF NoBlock
    <2>2. QED BY <1>2, <1>4, <1>5, <2>1, AscendingStep
  <1>9. QED BY <1>3, <1>7, <1>8

(* A resize of the last block stays in its place, goes to the top, or fails. *)
LEMMA ResizeFacts ==
  ASSUME LInv, phase = "live", order # <<>>, NEW s \in FittingSizes(Last(order)),
         NEW l \in Layouts, AlignedByAdvice(l, Len(order)),
         Shrink(Last(order), s, l) \/ GrowZeroed(Last(order), s, l)
  PROVE  \/ blocks' = blocks /\ bytes' = bytes /\ stack_offset' = stack_offset
         \/ /\ NoFragmentation'
            /\ \E nb : /\ blocks' = [blocks EXCEPT ![Last(order)] = nb] /\ nb.addr # 0
                       /\ \A g \in Handles \ {Last(order)} :
                            blocks[g].len > 0 /\ nb.len > 0 =>
                              blocks[g].addr + blocks[g].len <= nb.addr
  <1> DEFINE h == Last(order)
  <1>0. IInv /\ stack_offset = bytes /\ bytes \in Nat
    BY Setting DEF LInv, NoFragmentation
  <1>1. h \in Handles /\ blocks[h].addr # 0
    BY LastHeld DEF IsLive
  <1>2. /\ s \in Nat /\ Rounded(s) = blocks[h].len /\ (s = 0 <=> blocks[h].len = 0)
    BY <1>0, <1>1, Fitting
  <1>3. blocks[h].addr \in Nat /\ blocks[h].len \in Nat
    BY <1>0, <1>1, Setting, BlockFields
  <1>4. l.size \in Nat /\ l.size + 7 < UsizeSpan /\ l.align \in Nat \ {0}
    BY LayoutFacts
  <1>5. s # 0 => /\ PageBacked(blocks[h])
                 /\ ptr_is_last_allocation(blocks[h].addr, Rounded(s))
                 /\ \A g \in Handles \ {h} : blocks[g].len > 0 =>
                      blocks[g].addr + blocks[g].len <= blocks[h].addr
    <2>1. s # 0 => PageBacked(blocks[h])
      BY <1>2, <1>3 DEF PageBacked
    <2>2. QED BY <1>2, <2>1, LastOnTop, LastAboveOthers DEF PageBacked
  <1>6. CASE Shrink(h, s, l)
    <2>1. l.size <= s
      BY <1>6 DEF Shrink
    <2>2. CASE l.size = 0
      <3> DEFINE nb == allocate_zerosized(l.align)
      <3>1. /\ DeallocateFrom(bytes, stack_offset, mem, blocks[h].addr, s)
            /\ blocks' = [blocks EXCEPT ![h] = nb]
        BY <1>6, <2>2 DEF Shrink, Succeeds
      <3>2. nb.addr # 0 /\ ~(nb.len > 0)
        BY <1>4 DEF allocate_zerosized
      <3>3. NoFragmentation'
        BY <3>1, ReleasedAtTop
      <3> HIDE DEF nb
      <3>4. QED BY <3>1, <3>2, <3>3
    <2>3. CASE l.size # 0 /\ is_aligned_ptr(blocks[h].addr, l.align)
      <3>1. ShrinkInPlace(h, s, l) /\ s # 0
        BY <1>2, <1>4, <1>6, <2>1, <2>3 DEF Shrink
      <3> DEFINE nb == [addr |-> blocks[h].addr, size |-> l.size,
                        align |-> l.align, len |-> Rounded(l.size)]
      <3>2. NoFragmentation' /\ blocks' = [blocks EXCEPT ![h] = nb]
        BY <1>0, <1>5, <3>1 DEF ShrinkInPlace, Succeeds, NoFragmentation
      <3>3. nb.addr = blocks[h].addr
        OBVIOUS
      <3> HIDE DEF nb
      <3>4. QED BY <1>1, <1>5, <3>1, <3>2, <3>3
    <2>4. CASE l.size # 0 /\ ~is_aligned_ptr(blocks[h].addr, l.align)
      <3>1. Reallocate("shrink", h, s, l, l.size)
        BY <1>6, <2>4 DEF Shrink
      <3>2. ~CanAllocate(l)
        BY <1>2, <1>4, <1>5, <2>1, <2>4, NoOtherPlace
      <3>3. QED BY <3>1, <3>2 DEF Reallocate, Fails
    <2>5. QED BY <2>2, <2>3, <2>4
  <1>7. CASE GrowZeroed(h, s, l)
    <2>1. l.size >= s
      BY <1>7 DEF GrowZeroed
    <2>2. CASE s = 0
      <3>1. Allocate("grow", h, l)
        BY <1>7, <2>2 DEF GrowZeroed
      <3>2. CASE ~CanAllocate(l)
        BY <3>1, <3>2 DEF Allocate, Fails
      <3>3. CASE CanAllocate(l)
        <4>1. /\ bytes' = BytesGranted(l) /\ stack_offset' = OffsetGranted(l)
              /\ blocks' = [blocks EXCEPT ![h] = Granted(l)]
          BY <3>1, <3>3 DEF Allocate, Succeeds
        <4>2. l.align <= 8 \/ stack_offset = 0
          <5>1. Len(order) = 1 => stack_offset = 0
            BY <1>2, <2>2, OneHeld
          <5>2. l.align > 8 => Len(order) = 1
            BY <1>4, LastHeld DEF AlignedByAdvice
          <5>3. QED BY <1>4, <5>1, <5>2
        <4>3. QED BY <3>3, <4>1, <4>2, GrantStep
      <3>4. QED BY <3>2, <3>3
    <2>3. CASE s # 0 /\ is_aligned_ptr(blocks[h].addr, l.align)
      <3>1. GrowInPlace(h, s, l)
        BY <1>5, <1>7, <2>3 DEF GrowZeroed
      <3> DEFINE nb == [addr |-> blocks[h].addr, size |-> l.size,
                        align |-> l.align, len |-> Rounded(l.size)]
      <3>2. CASE Fails("grow")
        BY <3>2 DEF Fails
      <3>3. CASE ~Fails("grow")
        <4>1. NoFragmentation' /\ blocks' = [blocks EXCEPT ![h] = nb]
          BY <1>0, <3>1, <3>3 DEF GrowInPlace, Succeeds, NoFragmentation
        <4>2. nb.addr = blocks[h].addr
          OBVIOUS
        <4> HIDE DEF nb
        <4>3. QED BY <1>1, <1>5, <2>3, <4>1, <4>2
      <3>4. QED BY <3>2, <3>3
    <2>4. CASE s # 0 /\ ~is_aligned_ptr(blocks[h].addr, l.align)
      <3>1. Reallocate("grow", h, s, l, s)
        BY <1>7, <2>4 DEF GrowZeroed
      <3>2. ~CanAllocate(l)
        BY <1>2, <1>4, <1>5, <2>1, <2>4, NoOtherPlace
      <3>3. QED BY <3>1, <3>2 DEF Reallocate, Fails
    <2>5. QED BY <2>2, <2>3, <2>4
  <1>8. QED BY <1>6, <1>7

LEMMA ResizeStep ==
  ASSUME LInv, NEW l \in Layouts, LifoResize(l)
  PROVE  (HeldInOrder /\ Ascending /\ NoFragmentation)'
  <1> DEFINE h == Last(order)
  <1>1. PICK s \in FittingSizes(h) : Shrink(h, s, l) \/ GrowZeroed(h, s, l)
    BY DEF LifoResize
  <1>2. /\ phase = "live" /\ order # <<>> /\ order' = order
        /\ AlignedByAdvice(l, Len(order)) /\ blocks \in [Handles -> Block]
    BY <1>1, Setting DEF LifoResize, Shrink, GrowZeroed, LInv
  <1>3. /\ h \in Handles /\ IsLive(h) /\ h = order[Len(order)]
        /\ Len(order) \in Nat /\ DOMAIN order = 1 .. Len(order)
    BY <1>2, LastHeld
  <1>4. CASE blocks' = blocks /\ bytes' = bytes /\ stack_offset' = stack_offset
    BY <1>2, <1>4, SameStep
  <1>5. CASE ~(blocks' = blocks /\ bytes' = bytes /\ stack_offset' = stack_offset)
    <2>1. NoFragmentation' /\
          \E nb : /\ blocks' = [blocks EXCEPT ![h] = nb] /\ nb.addr # 0
                  /\ \A g \in Handles \ {h} :
                       blocks[g].len > 0 /\ nb.len > 0 =>
                         blocks[g].addr + blocks[g].len <= nb.addr
      BY <1>1, <1>2, <1>5, ResizeFacts
    <2>2. PICK nb : /\ blocks' = [blocks EXCEPT ![h] = nb] /\ nb.addr # 0
                    /\ \A g \in Handles \ {h} :
                         blocks[g].len > 0 /\ nb.len > 0 =>
                           blocks[g].addr + blocks[g].len <= nb.addr
      BY <2>1
    <2> HIDE DEF h
    <2>3. \A g \in Handles : IsLive(g)' <=> IsLive(g)
      BY <1>2, <1>3, <2>2 DEF IsLive
    <2>4. HeldInOrder'
      BY <1>2, <2>3 DEF LInv, HeldInOrder
    <2>5. \A i \in DOMAIN order : order[i] = h => i = Len(order)
      BY <1>3 DEF LInv, HeldInOrder
    <2>6. \A i \in DOMAIN order' :
            \/ order'[i] = h /\ \A j \in DOMAIN order' : ~(i < j)
            \/ order'[i] \in Handles \ {h} /\ i \in DOMAIN order /\ order'[i] = order[i]
      BY <1>2, <1>3, <2>5, ElementOfSeq DEF LInv, HeldInOrder
    <2>7. Ascending'
      BY <1>2, <1>3, <2>2, <2>6, AscendingStep
    <2>8. QED BY <2>1, <2>4, <2>7
  <1>6. QED BY <1>4, <1>5

(* A new or released page has no blocks. *)
LEMMA NothingHeld ==
  ASSUME order' = <<>>, blocks' = [h \in Handles |-> NoBlock],
         bytes' = 0, stack_offset' = 0
  PROVE  (HeldInOrder /\ Ascending /\ NoFragmentation)'
  <1>1. order' \in Seq(Handles) /\ DOMAIN order' = {}
    BY EmptySeq
  <1>2. \A h \in Handles : ~IsLive(h)'
    BY DEF IsLive, NoBlock
  <1>3. QED BY <1>1, <1>2 DEF HeldInOrder, Ascending, NoFragmentation

(* A drop releases the page and everything on it, or nothing. *)
LEMMA DropResult ==
  ASSUME LInv, LifoDrop
  PROVE  /\ call'.op = "drop"
         /\ page_ptr' = 0 => /\ order' = <<>> /\ blocks' = [h \in Handles |-> NoBlock]
                             /\ bytes' = 0 /\ stack_offset' = 0
         /\ page_ptr' # 0 => /\ order' = order /\ blocks' = blocks
                             /\ bytes' = bytes /\ stack_offset' = stack_offset
  <1>1. call'.op = "drop"
    BY DEF LifoDrop, Drop
  <1>2. page_ptr # 0
    BY DEF LifoDrop, Drop, LInv, IInv, PageWhenLive
  <1>3. \/ /\ page_ptr' = 0 /\ blocks' = [h \in Handles |-> NoBlock]
           /\ bytes' = 0 /\ stack_offset' = 0
        \/ UNCHANGED <<page_ptr, bytes, stack_offset, blocks>>
    BY DEF LifoDrop, Drop, ReleasePage
  <1>4. QED BY <1>1, <1>2, <1>3 DEF LifoDrop

LEMMA NewOrDropStep ==
  ASSUME LInv, LifoNew \/ LifoDrop
  PROVE  (HeldInOrder /\ Ascending /\ NoFragmentation)'
  <1>1. CASE LifoDrop
    <2>1. CASE page_ptr' = 0
      BY <1>1, <2>1, DropResult, NothingHeld
    <2>2. CASE page_ptr' # 0
      BY <1>1, <2>2, DropResult, SameStep
    <2>3. QED BY <2>1, <2>2
  <1>2. CASE LifoNew /\ Fails("new")
    BY <1>2, SameStep DEF LifoNew, Fails
  <1>3. CASE LifoNew /\ ~Fails("new")
    <2>1. /\ order' = order /\ blocks' = blocks /\ phase = "absent"
          /\ bytes' \in {0, bytes} /\ stack_offset' \in {0, stack_offset}
      BY <1>3 DEF LifoNew, New
    <2>2. stack_offset = 0
      BY <2>1 DEF LInv, IInv, PageWhenLive
    <2>3. bytes = 0
      BY <2>2 DEF LInv, NoFragmentation
    <2>4. QED BY <2>1, <2>2, <2>3, SameStep
  <1>4. QED BY <1>1, <1>2, <1>3

-----------------------------------------------------------------------------
LEMMA InitLInv == LifoInit => LInv
  <1> SUFFICES ASSUME LifoInit PROVE LInv
    OBVIOUS
  <1>1. IInv
    BY InitIInv DEF LifoInit
  <1>2. order \in Seq(Handles) /\ DOMAIN order = {}
    BY EmptySeq DEF LifoInit
  <1>3. \A h \in Handles : ~IsLive(h)
    BY DEF LifoInit, Init, IsLive, NoBlock
  <1>4. NoFragmentation
    BY DEF LifoInit, Init, NoFragmentation
  <1>5. QED BY <1>1, <1>2, <1>3, <1>4 DEF LInv, HeldInOrder, Ascending

(* The client of LifoNext is one of those of Next. *)
LEMMA LifoIsNext ==
  ASSUME LInv, LifoNext
  PROVE  Next
  <1>1. CASE LifoNew \/ LifoDrop \/ LifoWrite
    BY <1>1 DEF LifoNew, LifoDrop, LifoWrite, Next
  <1>2. CASE LifoDeallocate
    <2>1. order # <<>>
      BY <1>2 DEF LifoDeallocate
    <2>2. QED BY <1>2, <2>1, LastHeld DEF LifoDeallocate, Next
  <1>3. ASSUME NEW l \in Layouts, LifoResize(l)
        PROVE  Next
    <2>1. order # <<>>
      BY <1>3 DEF LifoResize
    <2>2. QED BY <1>3, <2>1, LastHeld DEF LifoResize, Next
  <1>4. ASSUME NEW l \in Layouts, NEW h \in Handles, LifoAllocate(h, l)
        PROVE  Next
    BY <1>4 DEF LifoAllocate, Next
  <1>5. QED BY <1>1, <1>2, <1>3, <1>4 DEF LifoNext

LEMMA NextLInv ==
  ASSUME LInv, [LifoNext]_lifo_vars
  PROVE  LInv'
  <1>1. IInv'
    <2>1. [Next]_vars
      BY LifoIsNext DEF lifo_vars
    <2>2. QED BY <2>1, NextIInv DEF LInv
  <1>2. (HeldInOrder /\ Ascending /\ NoFragmentation)'
    <2>1. CASE UNCHANGED lifo_vars
      BY <2>1, SameStep DEF lifo_vars, vars
    <2>2. CASE LifoNew \/ LifoDrop
      BY <2>2, NewOrDropStep
    <2>3. CASE LifoWrite
      BY <2>3, SameStep DEF LifoWrite, Write
    <2>4. CASE LifoDeallocate
      BY <2>4, PopStep
    <2>5. ASSUME NEW l \in Layouts, LifoResize(l)
          PROVE  (HeldInOrder /\ Ascending /\ NoFragmentation)'
      BY <2>5, ResizeStep
    <2>6. ASSUME NEW l \in Layouts, NEW h \in Handles, LifoAllocate(h, l)
          PROVE  (HeldInOrder /\ Ascending /\ NoFragmentation)'
      BY <2>6, PushStep
    <2>7. QED BY <2>1, <2>2, <2>3, <2>4, <2>5, <2>6 DEF LifoNext
  <1>3. QED BY <1>1, <1>2 DEF LInv

(***************************************************************************)
(* A client that only deallocates, shrinks or grows the last created       *)
(* allocation, and aligns only the first to more than a word, fragments    *)
(* nothing (src/sec_alloc.rs:38, :63): every byte below the top of the     *)
(* stack is in a block.                                                    *)
(***************************************************************************)
THEOREM NothingFragmented == LifoSpec => []NoFragmentation
  <1>1. LInv => NoFragmentation
    BY DEF LInv
  <1>2. QED BY <1>1, InitLInv, NextLInv, PTL DEF LifoSpec

-----------------------------------------------------------------------------
(* Where blocks are after a step: h keeps its place if only it changes so. *)
LEMMA StaysUnder ==
  ASSUME NEW nb, NEW g \in Handles, blocks \in [Handles -> Block],
         blocks' = [blocks EXCEPT ![g] = nb],
         blocks[g].len > 0 /\ nb.len > 0 => nb.addr = blocks[g].addr
  PROVE  \A h \in Handles : StaysInPlace(h)
  <1>1. blocks'[g] = nb /\ \A h \in Handles \ {g} : blocks'[h] = blocks[h]
    OBVIOUS
  <1>2. StaysInPlace(g)
    BY <1>1 DEF StaysInPlace
  <1>3. \A h \in Handles \ {g} : StaysInPlace(h)
    BY <1>1 DEF StaysInPlace
  <1>4. QED BY <1>2, <1>3

LEMMA AllStay ==
  ASSUME blocks' = blocks
  PROVE  \A h \in Handles : StaysInPlace(h)
  BY DEF StaysInPlace

(* A block that a resize has to move has nowhere to go (NoOtherPlace). *)
LEMMA ResizeStays ==
  ASSUME LInv, NEW l \in Layouts, LifoResize(l)
  PROVE  \A h \in Handles : StaysInPlace(h)
  <1> DEFINE h == Last(order)
  <1>1. PICK s \in FittingSizes(h) : Shrink(h, s, l) \/ GrowZeroed(h, s, l)
    BY DEF LifoResize
  <1>2. /\ phase = "live" /\ order # <<>> /\ AlignedByAdvice(l, Len(order))
        /\ blocks \in [Handles -> Block]
    BY <1>1, Setting DEF LifoResize, Shrink, GrowZeroed, LInv
  <1>3. h \in Handles /\ blocks[h].addr \in Nat /\ blocks[h].len \in Nat
    BY <1>2, LastHeld, Setting, BlockFields DEF LInv
  <1>4. s \in Nat /\ Rounded(s) = blocks[h].len /\ (s = 0 <=> blocks[h].len = 0)
    BY <1>2, <1>3, Fitting DEF LInv
  <1>5. l.size \in Nat
    BY LayoutFacts
  <1>6. s # 0 => PageBacked(blocks[h]) /\ ptr_is_last_allocation(blocks[h].addr, Rounded(s))
    <2>1. s # 0 => PageBacked(blocks[h])
      BY <1>3, <1>4 DEF PageBacked
    <2>2. QED BY <1>2, <1>4, <2>1, LastOnTop
  <1>7. ASSUME s # 0, l.size > 0, ~is_aligned_ptr(blocks[h].addr, l.align)
        PROVE  ~CanAllocate(l)
    BY <1>2, <1>6, <1>7, NoOtherPlace
  <1> HIDE DEF h
  <1>8. CASE Shrink(h, s, l)
    <2>1. l.size <= s
      BY <1>8 DEF Shrink
    <2>2. CASE l.size = 0
      <3>1. blocks' = [blocks EXCEPT ![h] = allocate_zerosized(l.align)]
        BY <1>8, <2>2 DEF Shrink, Succeeds
      <3>2. ~(allocate_zerosized(l.align).len > 0)
        BY DEF allocate_zerosized
      <3>3. QED BY <1>2, <1>3, <3>1, <3>2, StaysUnder
    <2>3. CASE l.size # 0 /\ is_aligned_ptr(blocks[h].addr, l.align)
      <3> DEFINE nb == [addr |-> blocks[h].addr, size |-> l.size,
                        align |-> l.align, len |-> Rounded(l.size)]
      <3>1. blocks' = [blocks EXCEPT ![h] = nb] /\ nb.addr = blocks[h].addr
        BY <1>8, <2>3 DEF Shrink, ShrinkInPlace, Succeeds
      <3> HIDE DEF nb
      <3>2. QED BY <1>2, <1>3, <3>1, StaysUnder
    <2>4. CASE l.size # 0 /\ ~is_aligned_ptr(blocks[h].addr, l.align)
      <3>1. Reallocate("shrink", h, s, l, l.size)
        BY <1>8, <2>4 DEF Shrink
      <3>2. ~CanAllocate(l)
        BY <1>4, <1>5, <1>7, <2>1, <2>4
      <3>3. QED BY <3>1, <3>2, AllStay DEF Reallocate, Fails
    <2>5. QED BY <2>2, <2>3, <2>4
  <1>9. CASE GrowZeroed(h, s, l)
    <2>1. l.size >= s
      BY <1>9 DEF GrowZeroed
    <2>2. CASE s = 0
      <3>1. Allocate("grow", h, l) /\ ~(blocks[h].len > 0)
        BY <1>4, <1>9, <2>2 DEF GrowZeroed
      <3>2. blocks' = blocks \/ blocks' = [blocks EXCEPT ![h] = Granted(l)]
        BY <3>1 DEF Allocate, Succeeds, Fails
      <3>3. QED BY <1>2, <1>3, <3>1, <3>2, StaysUnder, AllStay
    <2>3. CASE s # 0 /\ is_aligned_ptr(blocks[h].addr, l.align)
      <3> DEFINE nb == [addr |-> blocks[h].addr, size |-> l.size,
                        align |-> l.align, len |-> Rounded(l.size)]
      <3>1. GrowInPlace(h, s, l)
        BY <1>6, <1>9, <2>3 DEF GrowZeroed
      <3>2. blocks' = blocks \/ blocks' = [blocks EXCEPT ![h] = nb]
        BY <3>1 DEF GrowInPlace, Succeeds, Fails
      <3>3. nb.addr = blocks[h].addr
        OBVIOUS
      <3> HIDE DEF nb
      <3>4. QED BY <1>2, <1>3, <3>2, <3>3, StaysUnder, AllStay
    <2>4. CASE s # 0 /\ ~is_aligned_ptr(blocks[h].addr, l.align)
      <3>1. Reallocate("grow", h, s, l, s)
        BY <1>9, <2>4 DEF GrowZeroed
      <3>2. ~CanAllocate(l)
        BY <1>4, <1>5, <1>7, <2>1, <2>4
      <3>3. QED BY <3>1, <3>2, AllStay DEF Reallocate, Fails
    <2>5. QED BY <2>2, <2>3, <2>4
  <1>10. QED BY <1>1, <1>8, <1>9

LEMMA StepStays ==
  ASSUME LInv, [LifoNext]_lifo_vars
  PROVE  \A h \in Handles : StaysInPlace(h)
  <1>0. blocks \in [Handles -> Block]
    BY DEF LInv, IInv, TypeOK
  <1>1. CASE UNCHANGED lifo_vars \/ LifoNew \/ LifoWrite
    <2>1. UNCHANGED lifo_vars => blocks' = blocks
      BY DEF lifo_vars, vars
    <2>2. LifoNew => blocks' = blocks
      BY DEF LifoNew, New, Fails
    <2>3. LifoWrite => blocks' = blocks
      BY DEF LifoWrite, Write
    <2>4. QED BY <1>1, <2>1, <2>2, <2>3, AllStay
  <1>2. CASE LifoDrop
    <2>1. blocks' = blocks \/ \A h \in Handles : blocks'[h].len = 0
      BY <1>2 DEF LifoDrop, Drop, ReleasePage, NoBlock
    <2>2. QED BY <2>1, AllStay DEF StaysInPlace
  <1>3. CASE LifoDeallocate
    <2>1. order # <<>> /\ Last(order) \in Handles
      BY <1>3, LastHeld DEF LifoDeallocate
    <2>2. blocks' = [blocks EXCEPT ![Last(order)] = NoBlock] /\ ~(NoBlock.len > 0)
      BY <1>3 DEF LifoDeallocate, Deallocate, Succeeds, NoBlock
    <2>3. QED BY <1>0, <2>1, <2>2, StaysUnder
  <1>4. ASSUME NEW l \in Layouts, LifoResize(l)
        PROVE  \A h \in Handles : StaysInPlace(h)
    BY <1>4, ResizeStays
  <1>5. ASSUME NEW l \in Layouts, NEW g \in Handles, LifoAllocate(g, l)
        PROVE  \A h \in Handles : StaysInPlace(h)
    <2>1. ~(blocks[g].len > 0)
      <3>1. phase = "live" /\ ~IsLive(g)
        BY <1>5 DEF LifoAllocate, AllocateZeroed
      <3>2. ~\E i \in DOMAIN order : order[i] = g
        BY <3>1 DEF LInv, HeldInOrder
      <3>3. QED BY <3>1, <3>2, BackedHeld DEF PageBacked
    <2>2. blocks' = blocks \/ blocks' = [blocks EXCEPT ![g] = Granted(l)]
      BY <1>5 DEF LifoAllocate, AllocateZeroed, Allocate, Succeeds, Fails
    <2>3. QED BY <1>0, <2>1, <2>2, StaysUnder, AllStay
  <1>6. QED BY <1>1, <1>2, <1>3, <1>4, <1>5 DEF LifoNext

(***************************************************************************)
(* Whatever such a client does, its data is not copied: its blocks are     *)
(* resized in place or not at all (src/sec_alloc.rs:513, :605).            *)
(***************************************************************************)
THEOREM NothingCopied == LifoSpec => NothingMoves
  <1>1. LInv /\ [LifoNext]_lifo_vars => [\A h \in Handles : StaysInPlace(h)]_lifo_vars
    BY StepStays
  <1>2. QED BY <1>1, InitLInv, NextLInv, PTL DEF LifoSpec, NothingMoves

-----------------------------------------------------------------------------
(***************************************************************************)
(* The page as a stack: BoundedStack with the rounded sizes of the blocks. *)
(* Nothing aligned to more than a page is asked for: whether a page has    *)
(* such an address is up to mmap and not a question of room.               *)
(***************************************************************************)

LEMMA SizesFacts ==
  ASSUME LInv
  PROVE  /\ sizes \in Seq(Nat) /\ Len(sizes) = Len(order) /\ Len(order) \in Nat
         /\ DOMAIN order = 1 .. Len(order)
         /\ \A i \in 1 .. Len(order) : sizes[i] = blocks[order[i]].len
         /\ order = <<>> <=> sizes = <<>>
  <1>1. order \in Seq(Handles) /\ blocks \in [Handles -> Block]
    BY DEF LInv, IInv, TypeOK, HeldInOrder
  <1>2. Len(order) \in Nat /\ DOMAIN order = 1 .. Len(order)
    BY <1>1, LenProperties
  <1>3. ASSUME NEW i \in 1 .. Len(order)
        PROVE  blocks[order[i]].len \in Nat
    BY <1>1, <1>2, <1>3, ElementOfSeq, BlockFields
  <1>4. sizes \in Seq(Nat) /\ Len(sizes) = Len(order)
    BY <1>2, <1>3 DEF sizes
  <1>5. \A i \in 1 .. Len(order) : sizes[i] = blocks[order[i]].len
    BY DEF sizes
  <1>6. order = <<>> <=> Len(order) = 0
    BY <1>1, EmptySeq
  <1>7. sizes = <<>> <=> Len(sizes) = 0
    BY <1>4, EmptySeq
  <1>8. QED BY <1>2, <1>4, <1>5, <1>6, <1>7

(* A block of length n on top of others, whose sizes are those of rest. *)
LEMMA OnTopOf ==
  ASSUME NEW rest \in Seq(Nat), NEW n \in Nat, Len(order') = Len(rest) + 1,
         \A i \in 1 .. Len(rest) : blocks'[order'[i]].len = rest[i],
         blocks'[order'[Len(rest) + 1]].len = n
  PROVE  sizes' = Append(rest, n)
  <1>1. /\ Len(rest) \in Nat
        /\ Append(rest, n) \in Seq(Nat) /\ Len(Append(rest, n)) = Len(rest) + 1
        /\ \A i \in 1 .. Len(rest) : Append(rest, n)[i] = rest[i]
        /\ Append(rest, n)[Len(rest) + 1] = n
    BY LenProperties, AppendProperties
  <1>2. \A i \in 1 .. Len(rest) + 1 : i \in 1 .. Len(rest) \/ i = Len(rest) + 1
    BY <1>1
  <1>3. \A i \in 1 .. Len(rest) + 1 : blocks'[order'[i]].len = Append(rest, n)[i]
    BY <1>1, <1>2
  <1>4. sizes' = [i \in 1 .. Len(rest) + 1 |-> blocks'[order'[i]].len]
    BY DEF sizes
  <1>5. Append(rest, n) = [i \in 1 .. Len(rest) + 1 |-> Append(rest, n)[i]]
    BY <1>1, LenProperties
  <1>6. QED BY <1>3, <1>4, <1>5

(* What is below the last block. *)
LEMMA FrontFacts ==
  ASSUME LInv, order # <<>>
  PROVE  /\ Front(sizes) \in Seq(Nat) /\ Len(Front(sizes)) = Len(order) - 1
         /\ \A i \in 1 .. (Len(order) - 1) :
              /\ i \in DOMAIN order /\ order[i] \in Handles \ {Last(order)}
              /\ Front(sizes)[i] = blocks[order[i]].len
         /\ Last(sizes) = blocks[Last(order)].len
  <1>1. /\ sizes \in Seq(Nat) /\ sizes # <<>>
        /\ Len(sizes) = Len(order) /\ DOMAIN order = 1 .. Len(order)
        /\ \A i \in 1 .. Len(order) : sizes[i] = blocks[order[i]].len
        /\ order \in Seq(Handles)
    BY SizesFacts DEF LInv, HeldInOrder
  <1>2. Len(order) \in DOMAIN order /\ Last(order) = order[Len(order)]
    BY LastHeld
  <1>3. /\ Front(sizes) \in Seq(Nat) /\ Len(Front(sizes)) = Len(order) - 1
        /\ \A i \in 1 .. (Len(order) - 1) :
             i \in 1 .. Len(order) /\ i # Len(order) /\ Front(sizes)[i] = sizes[i]
    BY <1>1, FrontOfSeq
  <1>4. ASSUME NEW i \in 1 .. (Len(order) - 1)
        PROVE  order[i] \in Handles /\ order[i] # order[Len(order)]
    BY <1>1, <1>2, <1>3, ElementOfSeq DEF LInv, HeldInOrder
  <1>5. Last(sizes) = blocks[Last(order)].len
    BY <1>1, <1>2 DEF Last
  <1>6. QED BY <1>1, <1>2, <1>3, <1>4, <1>5

-----------------------------------------------------------------------------
(* The calls are those of the stack. *)

(***************************************************************************)
(* A request is granted exactly when what it rounds to fits behind the     *)
(* top, where its alignment lets it begin.                                 *)
(***************************************************************************)
LEMMA GrantedIffRoom ==
  ASSUME LInv, phase = "live", NEW l \in Layouts, PageSize % l.align = 0,
         l.align <= 8 \/ stack_offset = 0
  PROVE  /\ CanAllocate(l) <=> bytes + Rounded(l.size) <= PageSize
         /\ CanAllocate(l) => Granted(l).len = Rounded(l.size)
         /\ Rounded(l.size) \in Nat
  <1>0. IInv /\ stack_offset = bytes
    BY DEF LInv, NoFragmentation
  <1>1. /\ l.size \in Nat /\ l.size + 7 < UsizeSpan /\ l.align \in Nat \ {0}
        /\ l.align \in {1, 2, 4} \/ l.align % 8 = 0
    BY LayoutFacts
  <1>2. /\ page_ptr \in Nat /\ page_ptr % 8 = 0 /\ PageSize \in Nat
        /\ stack_offset \in Nat /\ stack_offset % 8 = 0 /\ stack_offset <= PageSize
    BY <1>0, Setting
  <1>3. Rounded(l.size) \in Nat /\ (l.size = 0 => Rounded(l.size) = 0)
    BY <1>1, RoundedFacts
  <1>4. Granted(l).len = Rounded(l.size)
    BY <1>3 DEF Granted, allocate_zerosized
  <1>5. ASSUME CanAllocate(l)
        PROVE  bytes + Rounded(l.size) <= PageSize
    BY <1>0, <1>4, <1>5, Grant, GrantedAtTop
  <1>6. ASSUME l.size > 0, bytes + Rounded(l.size) <= PageSize
        PROVE  CanAllocate(l)
    <2> DEFINE p == page_ptr + stack_offset
    <2>1. p \in Nat /\ p + Rounded(l.size) <= page_ptr + PageSize
      BY <1>0, <1>2, <1>3, <1>6
    <2>2. p % l.align = 0
      <3>1. CASE l.align <= 8
        <4>1. l.align \in {1, 2, 4, 8}
          BY <1>1, <3>1
        <4>2. p % 8 = 0
          BY <1>2
        <4> HIDE DEF p
        <4>3. p % 1 = 0 /\ p % 2 = 0 /\ p % 4 = 0
          BY <2>1, <4>2
        <4>4. QED BY <4>1, <4>2, <4>3
      <3>2. CASE ~(l.align <= 8)
        <4>1. page_ptr \in PageAddrs
          BY <1>0 DEF IInv, TypeOK, PageWhenLive
        <4>2. page_ptr % PageSize = 0 /\ PageSize \in Nat \ {0}
          BY <4>1, PageBoundaries, SecAllocAssumption
        <4>3. page_ptr % l.align = 0
          BY <1>1, <1>2, <4>2, MultipleOfMultiple
        <4>4. p = page_ptr
          BY <1>1, <1>2, <3>2
        <4>5. QED BY <4>3, <4>4
      <3>3. QED BY <3>1, <3>2
    <2>3. page_ptr + stack_offset <= p
      BY <2>1
    <2> HIDE DEF p
    <2>4. QED BY <1>0, <1>6, <2>1, <2>2, <2>3, RoomFound
  <1>7. l.size = 0 => CanAllocate(l)
    BY DEF CanAllocate
  <1>8. QED BY <1>1, <1>3, <1>4, <1>5, <1>6, <1>7

(* What is neither granted nor released stays. *)
LEMMA SameSizes ==
  ASSUME order' = order, blocks' = blocks
  PROVE  sizes' = sizes
  BY DEF sizes

LEMMA PushServed ==
  ASSUME LInv, AlignedWithinPage, NEW h \in Handles, NEW l \in Layouts, LifoAllocate(h, l)
  PROVE  Stack!Push
  <1>1. /\ phase = "live" /\ ~IsLive(h) /\ Allocate("allocate", h, l)
        /\ AlignedByAdvice(l, Len(order) + 1) /\ asked' = Rounded(l.size)
        /\ order' = IF call'.ok THEN Append(order, h) ELSE order
        /\ blocks \in [Handles -> Block] /\ order \in Seq(Handles)
    BY Setting DEF LifoAllocate, AllocateZeroed, LInv, HeldInOrder
  <1>2. l.align <= 8 \/ stack_offset = 0
    <2>1. CASE order = <<>>
      BY <1>1, <2>1, NoneHeld
    <2>2. CASE order # <<>>
      BY <1>1, <2>2, LastHeld DEF AlignedByAdvice
    <2>3. QED BY <2>1, <2>2
  <1>3. PageSize % l.align = 0
    BY DEF AlignedWithinPage, Layouts
  <1>4. /\ CanAllocate(l) <=> bytes + Rounded(l.size) <= PageSize
        /\ CanAllocate(l) => Granted(l).len = Rounded(l.size)
        /\ Rounded(l.size) \in Nat
    BY <1>1, <1>2, <1>3, GrantedIffRoom
  <1>5. CASE ~CanAllocate(l)
    <2>1. Fails("allocate")
      BY <1>1, <1>5 DEF Allocate
    <2>2. /\ call'.op = "allocate" /\ ~call'.ok /\ blocks' = blocks /\ bytes' = bytes
      BY <2>1 DEF Fails
    <2>3. sizes' = sizes
      BY <1>1, <2>2, SameSizes
    <2>4. ~(bytes + asked' <= PageSize)
      BY <1>1, <1>4, <1>5
    <2>5. QED BY <2>2, <2>3, <2>4 DEF Stack!Push, Stack!Serve
  <1>6. CASE CanAllocate(l)
    <2> DEFINE nb == Granted(l)
    <2>1. /\ bytes' = bytes + nb.len /\ blocks' = [blocks EXCEPT ![h] = nb]
          /\ call' = [op |-> "allocate", ok |-> TRUE]
      BY <1>1, <1>6 DEF Allocate, Succeeds, BytesGranted
    <2>2. nb.len = asked' /\ asked' \in Nat /\ bytes + asked' <= PageSize
      BY <1>1, <1>4, <1>6
    <2>3. order' = Append(order, h)
      BY <1>1, <2>1
    <2>4. /\ sizes \in Seq(Nat) /\ Len(sizes) = Len(order)
          /\ DOMAIN order = 1 .. Len(order)
          /\ \A i \in 1 .. Len(order) : sizes[i] = blocks[order[i]].len
      BY SizesFacts
    <2>5. /\ Len(order') = Len(order) + 1 /\ order'[Len(order) + 1] = h
          /\ \A i \in 1 .. Len(order) : order'[i] = order[i]
      BY <1>1, <2>3, AppendProperties
    <2>6. \A i \in 1 .. Len(order) : order[i] \in Handles \ {h}
      BY <1>1, <2>4, ElementOfSeq DEF LInv, HeldInOrder
    <2> HIDE DEF nb
    <2>7. blocks'[h] = nb /\ \A g \in Handles \ {h} : blocks'[g] = blocks[g]
      BY <1>1, <2>1
    <2>8. /\ \A i \in 1 .. Len(sizes) : blocks'[order'[i]].len = sizes[i]
          /\ blocks'[order'[Len(sizes) + 1]].len = asked'
      BY <2>2, <2>4, <2>5, <2>6, <2>7
    <2>9. sizes' = Append(sizes, asked')
      <3>1. PICK n \in Nat : n = asked'
        BY <2>2
      <3>2. QED BY <2>4, <2>5, <2>8, <3>1, OnTopOf
    <2>10. QED BY <2>1, <2>2, <2>9 DEF Stack!Push, Stack!Serve
  <1>7. QED BY <1>5, <1>6

LEMMA PopServed ==
  ASSUME LInv, LifoDeallocate
  PROVE  Stack!Pop
  <1> DEFINE h == Last(order)
  <1>1. PICK s \in FittingSizes(h) : Deallocate(h, s)
    BY DEF LifoDeallocate
  <1>2. /\ phase = "live" /\ order # <<>> /\ order' = Front(order)
        /\ DeallocateFrom(bytes, stack_offset, mem, blocks[h].addr, s)
        /\ blocks' = [blocks EXCEPT ![h] = NoBlock]
        /\ call'.op = "deallocate"
        /\ blocks \in [Handles -> Block] /\ order \in Seq(Handles)
    BY <1>1, Setting DEF LifoDeallocate, Deallocate, Succeeds, LInv, HeldInOrder
  <1>3. h \in Handles /\ Len(order) \in Nat /\ Len(order) >= 1
    BY <1>2, LastHeld
  <1>4. bytes' = bytes - blocks[h].len
    <2>1. Rounded(s) = blocks[h].len /\ (s = 0 <=> blocks[h].len = 0)
      BY <1>2, <1>3, Fitting DEF LInv
    <2>2. bytes \in Nat
      BY <1>2, Setting DEF LInv
    <2>3. QED BY <1>2, <2>1, <2>2 DEF DeallocateFrom
  <1>5. /\ Front(sizes) \in Seq(Nat) /\ Len(Front(sizes)) = Len(order) - 1
        /\ \A i \in 1 .. (Len(order) - 1) :
             /\ i \in DOMAIN order /\ order[i] \in Handles \ {h}
             /\ Front(sizes)[i] = blocks[order[i]].len
        /\ Last(sizes) = blocks[h].len
    BY <1>2, FrontFacts
  <1>6. /\ Len(order') = Len(order) - 1
        /\ \A i \in 1 .. (Len(order) - 1) : order'[i] = order[i]
    BY <1>2, FrontOfSeq
  <1> HIDE DEF h
  <1>7. \A g \in Handles \ {h} : blocks'[g] = blocks[g]
    BY <1>2
  <1>8. sizes' = [i \in 1 .. (Len(order) - 1) |-> Front(sizes)[i]]
    <2>1. \A i \in 1 .. (Len(order) - 1) : blocks'[order'[i]].len = Front(sizes)[i]
      BY <1>5, <1>6, <1>7
    <2>2. sizes' = [i \in 1 .. (Len(order) - 1) |-> blocks'[order'[i]].len]
      BY <1>6 DEF sizes
    <2>3. QED BY <2>1, <2>2
  <1>9. Front(sizes) = [i \in 1 .. (Len(order) - 1) |-> Front(sizes)[i]]
    BY <1>5, LenProperties
  <1>10. sizes # <<>>
    BY <1>2, SizesFacts
  <1>11. QED
    BY <1>2, <1>4, <1>5, <1>8, <1>9, <1>10
    DEF Stack!Pop, Stack!Front, Stack!Last, Front, Last

(* Within a page the last block has every alignment the client may ask for. *)
LEMMA LastIsAligned ==
  ASSUME LInv, AlignedWithinPage, phase = "live", order # <<>>,
         PageBacked(blocks[Last(order)]), NEW l \in Layouts, AlignedByAdvice(l, Len(order))
  PROVE  is_aligned_ptr(blocks[Last(order)].addr, l.align)
  <1> DEFINE a == blocks[Last(order)].addr
  <1>0. IInv
    BY DEF LInv
  <1>1. l.align \in Nat \ {0} /\ (l.align \in {1, 2, 4} \/ l.align % 8 = 0)
        /\ l.align \in Aligns
    BY LayoutFacts DEF Layouts
  <1>2. a \in Nat /\ a % 8 = 0
    BY <1>0, LastHeld, BlocksGood, BlockFields DEF GoodBlock, PageBacked
  <1> HIDE DEF a
  <1>3. CASE l.align <= 8
    <2>1. l.align \in {1, 2, 4, 8}
      BY <1>1, <1>3
    <2>2. a % 1 = 0 /\ a % 2 = 0 /\ a % 4 = 0
      BY <1>2
    <2>3. a % l.align = 0
      BY <1>2, <2>1, <2>2
    <2>4. QED BY <2>3 DEF is_aligned_ptr, a
  <1>4. CASE ~(l.align <= 8)
    <2>1. Len(order) = 1
      BY <1>4, LastHeld DEF AlignedByAdvice
    <2>2. a + stack_offset = page_ptr + stack_offset
      BY <2>1, OneHeld, LastOnTop DEF a
    <2>3. page_ptr \in Nat /\ stack_offset \in Nat /\ PageSize \in Nat
      BY <1>0, Setting
    <2>4. a = page_ptr
      BY <1>2, <2>2, <2>3
    <2>5. page_ptr % PageSize = 0 /\ PageSize \in Nat \ {0}
      <3>1. page_ptr \in PageAddrs
        BY <1>0 DEF IInv, TypeOK, PageWhenLive
      <3>2. QED BY <3>1, PageBoundaries, SecAllocAssumption
    <2>6. page_ptr % l.align = 0
      BY <1>1, <2>3, <2>5, MultipleOfMultiple DEF AlignedWithinPage
    <2>7. QED BY <2>4, <2>6 DEF is_aligned_ptr, a
  <1>5. QED BY <1>1, <1>3, <1>4

(* A resize is granted exactly when the blocks below leave room for it. *)
LEMMA ResizedIffRoom ==
  ASSUME LInv, AlignedWithinPage, phase = "live", order # <<>>,
         NEW s \in FittingSizes(Last(order)), NEW l \in Layouts,
         AlignedByAdvice(l, Len(order)),
         Shrink(Last(order), s, l) \/ GrowZeroed(Last(order), s, l)
  PROVE  /\ Rounded(l.size) \in Nat
         /\ call'.op \in {"shrink", "grow"}
         /\ IF bytes - blocks[Last(order)].len + Rounded(l.size) <= PageSize
            THEN /\ call'.ok
                 /\ bytes' = bytes - blocks[Last(order)].len + Rounded(l.size)
                 /\ \E nb : /\ blocks' = [blocks EXCEPT ![Last(order)] = nb]
                            /\ nb.len = Rounded(l.size)
            ELSE ~call'.ok /\ bytes' = bytes /\ blocks' = blocks
  <1> DEFINE h == Last(order)
             len == blocks[h].len
             new == Rounded(l.size)
  <1>0. IInv /\ stack_offset = bytes
    BY DEF LInv, NoFragmentation
  <1>1. /\ bytes \in Nat /\ bytes <= PageSize /\ PageSize \in Nat /\ page_ptr \in Nat
    BY <1>0, Setting
  <1>2. h \in Handles /\ blocks[h].addr \in Nat /\ len \in Nat
    BY <1>0, LastHeld, Setting, BlockFields
  <1>3. s \in Nat /\ s + 7 < UsizeSpan /\ Rounded(s) = len /\ (s = 0 <=> len = 0)
    BY <1>0, <1>2, Fitting
  <1>4. /\ l.size \in Nat /\ l.size + 7 < UsizeSpan /\ l.align \in Nat \ {0}
        /\ PageSize % l.align = 0
    BY LayoutFacts DEF AlignedWithinPage, Layouts
  <1>5. new \in Nat /\ l.size <= new /\ (l.size = 0 => new = 0)
    BY <1>4, RoundedFacts
  <1>6. s # 0 => /\ is_aligned_ptr(blocks[h].addr, l.align)
                 /\ ptr_is_last_allocation(blocks[h].addr, Rounded(s))
                 /\ blocks[h].addr - page_ptr = bytes - len
    <2>1. s # 0 => PageBacked(blocks[h])
      BY <1>2, <1>3 DEF PageBacked
    <2>2. s # 0 => /\ ptr_is_last_allocation(blocks[h].addr, Rounded(s))
                   /\ blocks[h].addr + len = page_ptr + bytes
      BY <1>0, <1>3, <2>1, LastOnTop
    <2>3. s # 0 => is_aligned_ptr(blocks[h].addr, l.align)
      BY <2>1, LastIsAligned
    <2>4. s # 0 => blocks[h].addr - page_ptr = bytes - len
      <3> HIDE DEF h, len
      <3>1. QED BY <1>1, <1>2, <2>2
    <2> HIDE DEF h, len
    <2>5. QED BY <2>2, <2>3, <2>4
  <1>7. len <= bytes
    <2>1. CASE s = 0
      BY <1>1, <1>3, <2>1
    <2>2. CASE s # 0
      <3>1. page_ptr <= blocks[h].addr
        BY <1>2, <1>3, <2>2, LastOnTop DEF PageBacked
      <3> HIDE DEF h, len
      <3>2. QED BY <1>1, <1>2, <1>6, <2>2, <3>1
    <2>3. QED BY <2>1, <2>2
  <1>8. CASE Shrink(h, s, l)
    <2>1. l.size <= s
      BY <1>8 DEF Shrink
    <2>2. CASE l.size = 0
      <3> DEFINE nb == allocate_zerosized(l.align)
      <3>1. /\ DeallocateFrom(bytes, stack_offset, mem, blocks[h].addr, s)
            /\ blocks' = [blocks EXCEPT ![h] = nb]
            /\ call' = [op |-> "shrink", ok |-> TRUE]
        BY <1>8, <2>2 DEF Shrink, Succeeds
      <3>2. bytes' = bytes - len
        BY <1>1, <1>3, <3>1 DEF DeallocateFrom
      <3>3. nb.len = 0 /\ new = 0
        BY <1>5, <2>2 DEF allocate_zerosized
      <3> HIDE DEF nb
      <3>4. bytes - len + new = bytes - len /\ bytes - len <= PageSize
        BY <1>1, <1>2, <3>3
      <3>5. QED BY <1>5, <3>1, <3>2, <3>3, <3>4
    <2>3. CASE l.size # 0
      <3>1. ShrinkInPlace(h, s, l)
        BY <1>3, <1>4, <1>6, <1>8, <2>1, <2>3 DEF Shrink
      <3> DEFINE nb == [addr |-> blocks[h].addr, size |-> l.size,
                        align |-> l.align, len |-> new]
      <3>2. /\ bytes' = bytes - (Rounded(s) - new)
            /\ blocks' = [blocks EXCEPT ![h] = nb]
            /\ call' = [op |-> "shrink", ok |-> TRUE]
        BY <3>1 DEF ShrinkInPlace, Succeeds
      <3>3. new <= len
        <4>1. Rounded(l.size) <= Rounded(s)
          BY <1>3, <1>4, <2>1, RoundUp8Monotone DEF Rounded
        <4>2. QED BY <1>3, <4>1
      <3>4. nb.len = new
        OBVIOUS
      <3> HIDE DEF nb, new, len, h
      <3>5. bytes' = bytes - len + new /\ bytes - len + new <= PageSize
        BY <1>1, <1>2, <1>3, <1>5, <1>7, <3>2, <3>3
      <3>6. QED BY <1>5, <3>2, <3>4, <3>5 DEF new, len, h
    <2>4. QED BY <2>2, <2>3
  <1>9. CASE GrowZeroed(h, s, l)
    <2>1. l.size >= s
      BY <1>9 DEF GrowZeroed
    <2>2. CASE s = 0
      <3>1. Allocate("grow", h, l) /\ len = 0
        BY <1>3, <1>9, <2>2 DEF GrowZeroed
      <3>2. l.align <= 8 \/ stack_offset = 0
        <4>1. Len(order) = 1 => stack_offset = 0
          BY <3>1, OneHeld
        <4>2. l.align > 8 => Len(order) = 1
          BY <1>4, LastHeld DEF AlignedByAdvice
        <4>3. QED BY <1>4, <4>1, <4>2
      <3>3. /\ CanAllocate(l) <=> bytes + new <= PageSize
            /\ CanAllocate(l) => Granted(l).len = new
        BY <1>4, <3>2, GrantedIffRoom
      <3>4. CASE ~CanAllocate(l)
        <4>1. ~call'.ok /\ call'.op = "grow" /\ bytes' = bytes /\ blocks' = blocks
          BY <3>1, <3>4 DEF Allocate, Fails
        <4> HIDE DEF new
        <4>2. ~(bytes - len + new <= PageSize)
          BY <1>1, <1>5, <3>1, <3>3, <3>4
        <4>3. QED BY <1>5, <4>1, <4>2 DEF new
      <3>5. CASE CanAllocate(l)
        <4>1. /\ call'.ok /\ call'.op = "grow" /\ bytes' = bytes + Granted(l).len
              /\ blocks' = [blocks EXCEPT ![h] = Granted(l)]
          BY <3>1, <3>5 DEF Allocate, Succeeds, BytesGranted
        <4> HIDE DEF new
        <4>2. bytes - len + new <= PageSize /\ bytes' = bytes - len + new
          BY <1>1, <1>5, <3>1, <3>3, <3>5, <4>1
        <4>3. QED BY <1>5, <3>3, <3>5, <4>1, <4>2 DEF new
      <3>6. QED BY <3>4, <3>5
    <2>3. CASE s # 0
      <3> DEFINE nb == [addr |-> blocks[h].addr, size |-> l.size,
                        align |-> l.align, len |-> new]
                 room == RoomToGrow(blocks[h].addr, new)
      <3>1. GrowInPlace(h, s, l)
        BY <1>6, <1>9, <2>3 DEF GrowZeroed
      <3>2. room <=> bytes - len + new <= PageSize
        <4>1. new # 0
          BY <1>3, <1>4, <1>5, <2>1, <2>3
        <4>2. room <=> new <= PageSize - (bytes - len)
          BY <1>6, <2>3, <4>1 DEF RoomToGrow, large_offset_from
        <4> HIDE DEF new, room, len, h
        <4>3. QED BY <1>1, <1>2, <1>5, <4>2
      <3>3. CASE room
        <4>1. /\ bytes' = bytes + (new - Rounded(s))
              /\ blocks' = [blocks EXCEPT ![h] = nb] /\ nb.len = new
              /\ call' = [op |-> "grow", ok |-> TRUE]
          BY <3>1, <3>3 DEF GrowInPlace, Succeeds
        <4> HIDE DEF nb, new, room
        <4>2. bytes' = bytes - len + new
          BY <1>1, <1>2, <1>3, <1>5, <4>1
        <4>3. QED BY <1>5, <3>2, <3>3, <4>1, <4>2 DEF new
      <3>4. CASE ~room
        <4>1. ~call'.ok /\ call'.op = "grow" /\ bytes' = bytes /\ blocks' = blocks
          BY <3>1, <3>4 DEF GrowInPlace, Fails
        <4> HIDE DEF room
        <4>2. QED BY <1>5, <3>2, <3>4, <4>1
      <3>5. QED BY <3>3, <3>4
    <2>4. QED BY <2>2, <2>3
  <1>10. QED BY <1>8, <1>9

LEMMA ResizeServed ==
  ASSUME LInv, AlignedWithinPage, NEW l \in Layouts, LifoResize(l)
  PROVE  Stack!ResizeTop
  <1> DEFINE h == Last(order)
             len == blocks[h].len
  <1>1. PICK s \in FittingSizes(h) : Shrink(h, s, l) \/ GrowZeroed(h, s, l)
    BY DEF LifoResize
  <1>2. /\ phase = "live" /\ order # <<>> /\ order' = order
        /\ AlignedByAdvice(l, Len(order)) /\ asked' = Rounded(l.size)
        /\ blocks \in [Handles -> Block]
    BY <1>1, Setting DEF LifoResize, Shrink, GrowZeroed, LInv
  <1>3. /\ asked' \in Nat /\ call'.op \in {"shrink", "grow"}
        /\ IF bytes - len + asked' <= PageSize
           THEN /\ call'.ok /\ bytes' = bytes - len + asked'
                /\ \E nb : blocks' = [blocks EXCEPT ![h] = nb] /\ nb.len = asked'
           ELSE ~call'.ok /\ bytes' = bytes /\ blocks' = blocks
    BY <1>1, <1>2, ResizedIffRoom
  <1>4. /\ Front(sizes) \in Seq(Nat) /\ Len(Front(sizes)) = Len(order) - 1
        /\ \A i \in 1 .. (Len(order) - 1) :
             /\ i \in DOMAIN order /\ order[i] \in Handles \ {h}
             /\ Front(sizes)[i] = blocks[order[i]].len
        /\ Last(sizes) = len
    BY <1>2, FrontFacts
  <1>5. h \in Handles /\ h = order[Len(order)] /\ Len(order) \in Nat
    BY <1>2, LastHeld
  <1>6. sizes # <<>>
    BY <1>2, SizesFacts
  <1> HIDE DEF h, len
  <1>7. CASE bytes - len + asked' <= PageSize
    <2>1. PICK nb : blocks' = [blocks EXCEPT ![h] = nb] /\ nb.len = asked'
      BY <1>3, <1>7
    <2>2. blocks'[h] = nb /\ \A g \in Handles \ {h} : blocks'[g] = blocks[g]
      BY <1>2, <1>5, <2>1
    <2>3. Len(order') = Len(Front(sizes)) + 1 /\ Len(Front(sizes)) + 1 = Len(order)
      BY <1>2, <1>4, <1>5
    <2>4. \A i \in 1 .. Len(Front(sizes)) : blocks'[order'[i]].len = Front(sizes)[i]
      BY <1>2, <1>4, <2>2
    <2>5. blocks'[order'[Len(Front(sizes)) + 1]].len = asked'
      BY <1>2, <1>5, <2>1, <2>2, <2>3
    <2>6. sizes' = Append(Front(sizes), asked')
      <3>1. PICK n \in Nat : n = asked'
        BY <1>3
      <3>2. QED BY <1>4, <2>3, <2>4, <2>5, <3>1, OnTopOf
    <2>7. QED
      BY <1>3, <1>4, <1>6, <1>7, <2>6
      DEF Stack!ResizeTop, Stack!Serve, Stack!Front, Stack!Last, Front, Last
  <1>8. CASE ~(bytes - len + asked' <= PageSize)
    <2>1. sizes' = sizes
      BY <1>2, <1>3, <1>8, SameSizes
    <2>2. QED
      BY <1>3, <1>4, <1>6, <1>8, <2>1
      DEF Stack!ResizeTop, Stack!Serve, Stack!Front, Stack!Last, Front, Last
  <1>9. QED BY <1>7, <1>8

LEMMA NewOrDropServed ==
  ASSUME LInv, LifoNew \/ LifoDrop
  PROVE  Stack!Clear
  <1>1. CASE LifoDrop /\ page_ptr' = 0
    <2>1. order' = <<>> /\ bytes' = 0 /\ call'.op = "drop"
      BY <1>1, DropResult
    <2>2. sizes' = <<>>
      BY <2>1 DEF sizes
    <2>3. QED BY <2>1, <2>2 DEF Stack!Clear
  <1>2. CASE LifoDrop /\ page_ptr' # 0
    <2>1. order' = order /\ blocks' = blocks /\ bytes' = bytes /\ call'.op = "drop"
      BY <1>2, DropResult
    <2>2. sizes' = sizes
      BY <2>1, SameSizes
    <2>3. QED BY <2>1, <2>2 DEF Stack!Clear
  <1>3. CASE LifoNew
    <2>1. order' = order /\ blocks' = blocks /\ call'.op = "new" /\ phase = "absent"
          /\ (bytes' = 0 \/ bytes' = bytes)
      BY <1>3 DEF LifoNew, New, Fails
    <2>2. bytes = 0
      BY <2>1 DEF LInv, IInv, PageWhenLive, NoFragmentation
    <2>3. QED BY <2>1, <2>2, SameSizes DEF Stack!Clear
  <1>4. QED BY <1>1, <1>2, <1>3

LEMMA WriteServed ==
  ASSUME LifoWrite
  PROVE  Stack!Look
  <1>1. order' = order /\ blocks' = blocks /\ bytes' = bytes /\ call'.op = "write"
    BY DEF LifoWrite, Write
  <1>2. QED BY <1>1, SameSizes DEF Stack!Look

LEMMA InitServed == LifoInit => Stack!BInit
  BY DEF LifoInit, Init, sizes, Stack!BInit

LEMMA StepServed ==
  ASSUME LInv, AlignedWithinPage, [LifoNext]_lifo_vars
  PROVE  [Stack!BNext]_(Stack!bvars)
  <1>1. CASE UNCHANGED lifo_vars
    BY <1>1, SameSizes DEF lifo_vars, vars, Stack!bvars
  <1>2. CASE LifoNext
    BY <1>2, NewOrDropServed, WriteServed, PopServed, ResizeServed, PushServed
    DEF LifoNext, Stack!BNext
  <1>3. QED BY <1>1, <1>2

(***************************************************************************)
(* To a client that treats it as a stack, and asks for no alignment above  *)
(* a page, the allocator is one of PageSize bytes: it refuses a request    *)
(* only when the blocks held, rounded to words, leave too little for it    *)
(* (src/sec_alloc.rs:38, :57, :63).                                        *)
(***************************************************************************)
THEOREM ImplementsBoundedStack ==
  ASSUME AlignedWithinPage
  PROVE  LifoSpec => ImplementsStack
  <1>1. LInv /\ [LifoNext]_lifo_vars => [Stack!BNext]_(Stack!bvars)
    BY StepServed
  <1>2. QED
    BY <1>1, InitLInv, NextLInv, InitServed, PTL
    DEF LifoSpec, ImplementsStack, Stack!StackSpec
=============================================================================
