--------------------------- MODULE SecAllocProofs ---------------------------
(***************************************************************************)
(* The safety of SecStackSinglePageAlloc for every page size and address,  *)
(* word size, set of layouts and number of blocks.                         *)
(*                                                                         *)
(* IInv is inductive.  All the steps that change blocks have one shape:    *)
(* one block is replaced by another, the counter moves by the difference   *)
(* of their lengths, and the others stay below the new top of the stack.   *)
(* ReplaceBlock proves IInv' from that shape, and each action is shown to  *)
(* have it, with two lemmas about where the top of the stack goes (Grant,  *)
(* ReleaseRewinds).                                                        *)
(***************************************************************************)
EXTENDS SecAllocProps, UtilProofs, FiniteSetTheorems

(* What IInv says of one block, and of its place below the offset o. *)
GoodBlock(b) ==
  /\ b \in Block
  /\ b.len % 8 = 0
  /\ PageBacked(b) <=> b.size > 0
  /\ PageBacked(b) => /\ b.addr % 8 = 0
                      /\ b.len = Rounded(b.size)
                      /\ page_ptr <= b.addr
  /\ b.addr % b.align = 0
  /\ b.size <= b.len

Under(b, o) == PageBacked(b) => b.addr + b.len <= page_ptr + o

Apart(b, c) == Bytes(b) \cap Bytes(c) = {}

-----------------------------------------------------------------------------
(* Arithmetic. *)

LEMMA RoundedFacts ==
  ASSUME NEW s \in Nat, s + 7 < UsizeSpan
  PROVE  /\ Rounded(s) \in Nat
         /\ Rounded(s) % 8 = 0
         /\ s <= Rounded(s)
         /\ s = 0 => Rounded(s) = 0
  BY RoundUp8 DEF Rounded

LEMMA LayoutFacts ==
  ASSUME NEW l \in Layouts
  PROVE  /\ l.size \in Nat /\ l.align \in Nat \ {0}
         /\ l.size + 7 < UsizeSpan
         /\ l.align < UsizeSpan
         /\ l.align \in {1, 2, 4} \/ l.align % 8 = 0
  <1>1. l.size \in Sizes /\ l.align \in Aligns /\ l.size <= UsizeSpan \div 2 - l.align
    BY DEF Layouts
  <1>2. l.size \in Nat
    BY <1>1, UtilAssumption
  <1>3. l.align \in {1, 2, 4} \/ (l.align \in Nat \ {0} /\ l.align % 8 = 0)
    BY <1>1, UtilAssumption
  <1>4. l.align \in Nat \ {0}
    BY <1>3
  <1>5. QED BY <1>1, <1>2, <1>3, <1>4, UtilAssumption

LEMMA BlockFields ==
  ASSUME NEW b \in Block
  PROVE  /\ b.addr \in Nat /\ b.addr < UsizeSpan /\ b.size \in Nat
         /\ b.align \in Nat \ {0} /\ b.len \in Nat /\ b.len <= PageSize
  BY SecAllocAssumption, UtilAssumption DEF Block

(* Two blocks with no byte in common lie one after the other. *)
LEMMA ApartOrdered ==
  ASSUME NEW b \in Block, NEW c \in Block, Apart(b, c),
         PageBacked(b), PageBacked(c)
  PROVE  b.addr + b.len <= c.addr \/ c.addr + c.len <= b.addr
  <1>1. b.addr \in Nat /\ c.addr \in Nat /\ b.len \in Nat /\ c.len \in Nat
    BY SecAllocAssumption, UtilAssumption DEF Block
  <1>2. b.addr \notin Bytes(c) \/ b.addr \notin Bytes(b)
    BY DEF Apart
  <1>3. c.addr \notin Bytes(b) \/ c.addr \notin Bytes(c)
    BY DEF Apart
  <1>4. QED BY <1>1, <1>2, <1>3 DEF Bytes, PageBacked

-----------------------------------------------------------------------------
(* The parts of IInv, regrouped by block. *)

LEMMA Setting ==
  ASSUME IInv, phase = "live"
  PROVE  /\ page_ptr \in Nat /\ page_ptr >= 8 /\ page_ptr % 8 = 0
         /\ PageSize \in Nat /\ PageSize % 8 = 0 /\ UsizeSpan \in Nat
         /\ page_ptr + PageSize <= UsizeSpan
         /\ stack_offset \in Nat /\ stack_offset <= PageSize
         /\ stack_offset % 8 = 0
         /\ bytes \in Nat /\ bytes % 8 = 0
         /\ Mapped = page_ptr .. (page_ptr + PageSize - 1)
         /\ mem \in [Mapped -> {Zero} \cup (Handles \X Nat)]
         /\ blocks \in [Handles -> Block]
  <1>1. page_ptr \in PageAddrs
    BY DEF IInv, TypeOK, PageWhenLive
  <1>2. page_ptr \in Nat \ {0} /\ page_ptr % 8 = 0 /\ page_ptr + PageSize <= UsizeSpan
    BY <1>1, SecAllocAssumption
  <1>3. page_ptr >= 8
    BY <1>2
  <1>4. QED
    BY <1>2, <1>3, SecAllocAssumption, UtilAssumption
    DEF IInv, TypeOK, consistency_check, Mapped

LEMMA BlocksGood ==
  ASSUME IInv, NEW h \in Handles
  PROVE  GoodBlock(blocks[h]) /\ Under(blocks[h], stack_offset)
  BY DEF IInv, TypeOK, WholeWords, BelowTop, LayoutHonoured, GoodBlock, Under

(* A block of the page lies in the page. *)
LEMMA BlockInPage ==
  ASSUME IInv, phase = "live", NEW b, GoodBlock(b),
         NEW o \in Nat, o <= PageSize, Under(b, o)
  PROVE  Bytes(b) \subseteq page_ptr .. (page_ptr + o - 1) /\ Bytes(b) \subseteq Mapped
  <1>1. b.addr \in Nat /\ b.len \in Nat
    BY Setting DEF GoodBlock, Block
  <1>2. CASE ~PageBacked(b)
    BY <1>1, <1>2 DEF PageBacked, Bytes
  <1>3. CASE PageBacked(b)
    <2>1. page_ptr <= b.addr /\ b.addr + b.len <= page_ptr + o
      BY <1>3 DEF GoodBlock, Under
    <2>2. /\ page_ptr \in Nat /\ PageSize \in Nat
          /\ Mapped = page_ptr .. (page_ptr + PageSize - 1)
      BY Setting
    <2>3. Bytes(b) = b.addr .. (b.addr + b.len - 1)
      BY DEF Bytes
    <2>4. QED BY <1>1, <2>1, <2>2, <2>3
  <1>4. QED BY <1>2, <1>3

(* A layout that fits a block rounds to the length of the block. *)
LEMMA Fitting ==
  ASSUME IInv, phase = "live", NEW h \in Handles, NEW s \in FittingSizes(h)
  PROVE  /\ s \in Nat /\ s + 7 < UsizeSpan
         /\ blocks[h].size <= s /\ s <= blocks[h].len
         /\ s = 0 <=> blocks[h].len = 0
         /\ Rounded(s) = blocks[h].len
  <1> DEFINE b == blocks[h]
  <1>1. s \in Nat /\ b.size <= s /\ s <= b.len
    BY UtilAssumption DEF FittingSizes
  <1>2. b.size \in Nat /\ b.len \in Nat /\ b.len <= PageSize
    BY Setting DEF Block
  <1>3. s + 7 < UsizeSpan
    <2>1. page_ptr \in Nat /\ page_ptr >= 8 /\ page_ptr + PageSize <= UsizeSpan
          /\ PageSize \in Nat /\ UsizeSpan \in Nat
      BY Setting
    <2>2. QED BY <1>1, <1>2, <2>1
  <1>4. PageBacked(b) <=> b.size > 0
    BY BlocksGood DEF GoodBlock
  <1>5. s = 0 <=> b.len = 0
    BY <1>1, <1>2, <1>4 DEF PageBacked
  <1>6. Rounded(s) = b.len
    <2>1. CASE s = 0
      BY <1>1, <1>3, <1>5, <2>1, RoundedFacts
    <2>2. CASE s # 0
      <3>1. PageBacked(b)
        BY <1>2, <1>5, <2>2 DEF PageBacked
      <3>2. b.len = Rounded(b.size)
        BY <3>1, BlocksGood DEF GoodBlock
      <3>3. QED BY <1>1, <1>2, <1>3, <3>2, RoundUp8Fits DEF Rounded
    <2>3. QED BY <2>1, <2>2
  <1>7. QED BY <1>1, <1>3, <1>5, <1>6

-----------------------------------------------------------------------------
(* Counting the bytes in blocks. *)

(* What the blocks other than the one of h cover. *)
Rest(h) == UNION {Bytes(blocks[g]) : g \in Handles \ {h}}

LEMMA RunCard ==
  ASSUME NEW x \in Nat, NEW n \in Nat
  PROVE  IsFiniteSet(x .. (x + n - 1)) /\ Cardinality(x .. (x + n - 1)) = n
  <1> DEFINE y == x + n - 1
  <1>1. x \in Int /\ y \in Int
    OBVIOUS
  <1>2. IsFiniteSet(x .. y) /\ Cardinality(x .. y) = IF x > y THEN 0 ELSE y - x + 1
    BY <1>1, FS_Interval
  <1>3. (IF x > y THEN 0 ELSE y - x + 1) = n
    OBVIOUS
  <1>4. QED BY <1>2, <1>3

LEMMA SubsetCard ==
  ASSUME NEW x \in Nat, NEW n \in Nat, NEW S \in SUBSET (x .. (x + n - 1))
  PROVE  IsFiniteSet(S) /\ Cardinality(S) \in Nat /\ Cardinality(S) <= n
  <1> DEFINE T == x .. (x + n - 1)
  <1>1. IsFiniteSet(T) /\ Cardinality(T) = n
    BY RunCard
  <1> HIDE DEF T
  <1>2. S \in SUBSET T
    BY DEF T
  <1>3. IsFiniteSet(S) /\ Cardinality(S) <= Cardinality(T)
    BY <1>1, <1>2, FS_Subset
  <1>4. QED BY <1>1, <1>3, FS_CardinalityType

LEMMA BytesCard ==
  ASSUME NEW b \in Block
  PROVE  IsFiniteSet(Bytes(b)) /\ Cardinality(Bytes(b)) = b.len
  <1>1. b.addr \in Nat /\ b.len \in Nat
    BY SecAllocAssumption, UtilAssumption DEF Block
  <1>2. QED BY <1>1, RunCard DEF Bytes

LEMMA RestCard ==
  ASSUME IInv, phase = "live", NEW h \in Handles
  PROVE  /\ IsFiniteSet(Rest(h))
         /\ Cardinality(Rest(h)) \in Nat
         /\ Cardinality(Rest(h)) = bytes - blocks[h].len
  <1>1. blocks[h] \in Block
    BY Setting
  <1>2. Covered(blocks) = Rest(h) \cup Bytes(blocks[h])
    BY DEF Covered, Rest
  <1>3. Rest(h) \cap Bytes(blocks[h]) = {}
    BY DEF IInv, Disjoint, Rest
  <1>4. Rest(h) \subseteq Mapped
    <2>1. \A g \in Handles : Bytes(blocks[g]) \subseteq Mapped
      BY BlocksGood, BlockInPage, Setting
    <2>2. QED BY <2>1 DEF Rest
  <1>5. /\ page_ptr \in Nat /\ PageSize \in Nat
        /\ Mapped = page_ptr .. (page_ptr + PageSize - 1)
    BY Setting
  <1>6. IsFiniteSet(Rest(h)) /\ Cardinality(Rest(h)) \in Nat
    BY <1>4, <1>5, SubsetCard
  <1>7. Cardinality(Covered(blocks)) = Cardinality(Rest(h)) + blocks[h].len
    <2>1. IsFiniteSet(Bytes(blocks[h])) /\ Cardinality(Bytes(blocks[h])) = blocks[h].len
      BY <1>1, BytesCard
    <2>2. Cardinality(Covered(blocks)) =
            Cardinality(Rest(h)) + blocks[h].len - Cardinality({})
      BY <1>2, <1>3, <1>6, <2>1, FS_Union
    <2>3. Cardinality({}) = 0 /\ blocks[h].len \in Nat
      BY <1>1, FS_EmptySet DEF Block
    <2>4. QED BY <1>6, <2>2, <2>3
  <1>8. bytes = Cardinality(Covered(blocks)) /\ blocks[h].len \in Nat
    BY <1>1 DEF IInv, BytesExact, Block
  <1>9. QED BY <1>6, <1>7, <1>8

(* When the counter says that no other block is left, none is. *)
LEMMA LastBlock ==
  ASSUME IInv, phase = "live", NEW h \in Handles, bytes - blocks[h].len = 0,
         NEW g \in Handles, g # h
  PROVE  ~PageBacked(blocks[g])
  <1>1. Rest(h) = {}
    BY RestCard, FS_EmptySet
  <1>2. Bytes(blocks[g]) = {}
    BY <1>1 DEF Rest
  <1>3. blocks[g] \in Block
    BY Setting
  <1>4. Cardinality(Bytes(blocks[g])) = 0
    BY <1>2, FS_EmptySet
  <1>5. QED BY <1>3, <1>4, BytesCard DEF PageBacked

-----------------------------------------------------------------------------
(* Where the top of the stack goes. *)

(***************************************************************************)
(* Releasing a block when the counter is left at b: the top comes to a     *)
(* word boundary in the page, not above where it was, and every other      *)
(* block stays below it.  b = 0 must mean that there is no other block.    *)
(***************************************************************************)
LEMMA ReleaseRewinds ==
  ASSUME IInv, phase = "live", NEW old, GoodBlock(old), PageBacked(old),
         NEW o \in Nat, o <= PageSize, o % 8 = 0, Under(old, o), NEW b
  PROVE  LET o2 == RewoundOffset(b, o, old.addr - page_ptr,
                                 old.addr - page_ptr + old.len)
         IN /\ o2 \in Nat /\ o2 <= o /\ o2 % 8 = 0
            /\ \A c : GoodBlock(c) /\ Apart(old, c) /\ Under(c, o)
                        /\ (b = 0 => ~PageBacked(c)) => Under(c, o2)
  <1> DEFINE start == old.addr - page_ptr
             o2 == RewoundOffset(b, o, start, start + old.len)
  <1>1. /\ page_ptr \in Nat /\ page_ptr % 8 = 0
        /\ old.addr \in Nat /\ old.len \in Nat /\ old.len > 0
        /\ old.addr % 8 = 0 /\ page_ptr <= old.addr
        /\ old.addr + old.len <= page_ptr + o
    BY Setting DEF GoodBlock, PageBacked, Under, Block
  <1>2. start \in Nat /\ start <= o /\ start % 8 = 0
    BY <1>1
  <1>3. o2 \in Nat /\ o2 <= o /\ o2 % 8 = 0
    BY <1>2 DEF RewoundOffset
  <1>4. ASSUME NEW c, GoodBlock(c), Apart(old, c), Under(c, o),
               b = 0 => ~PageBacked(c), PageBacked(c)
        PROVE  c.addr + c.len <= page_ptr + o2
    <2>1. c.addr \in Nat /\ c.len \in Nat /\ c.len > 0 /\ c.addr + c.len <= page_ptr + o
      BY <1>4, Setting DEF GoodBlock, PageBacked, Under, Block
    <2>2. old.addr + old.len <= c.addr \/ c.addr + c.len <= old.addr
      BY <1>4, ApartOrdered DEF GoodBlock
    <2>3. CASE start + old.len = o
      <3>1. c.addr + c.len <= old.addr
        BY <1>1, <2>1, <2>2, <2>3
      <3>2. o2 = start
        BY <1>4, <2>3 DEF RewoundOffset
      <3>3. QED BY <1>1, <2>1, <3>1, <3>2
    <2>4. CASE start + old.len # o
      BY <1>4, <2>1, <2>4 DEF RewoundOffset
    <2>5. QED BY <2>3, <2>4
  <1>5. QED BY <1>3, <1>4 DEF Under

(***************************************************************************)
(* What allocate_zeroed grants: a good block for the layout, above the top *)
(* of the stack and below the new top, which is in the page.               *)
(***************************************************************************)
LEMMA Grant ==
  ASSUME IInv, phase = "live", NEW l \in Layouts, CanAllocate(l)
  PROVE  LET nb == Granted(l)
             o2 == OffsetGranted(l)
         IN /\ GoodBlock(nb)
            /\ nb.size = l.size /\ nb.align = l.align /\ nb.addr # 0
            /\ PageBacked(nb) => page_ptr + stack_offset <= nb.addr
            /\ o2 \in Nat /\ stack_offset <= o2 /\ o2 <= PageSize /\ o2 % 8 = 0
            /\ Under(nb, o2)
  <1> DEFINE x == page_ptr + stack_offset
             r == Rounded(l.size)
             p == AllocPtr(l)
  <1>1. /\ page_ptr \in Nat /\ page_ptr >= 8 /\ page_ptr % 8 = 0
        /\ PageSize \in Nat /\ UsizeSpan \in Nat
        /\ page_ptr + PageSize <= UsizeSpan
        /\ stack_offset \in Nat /\ stack_offset <= PageSize
        /\ stack_offset % 8 = 0
    BY Setting
  <1>2. /\ l.size \in Nat /\ l.align \in Nat \ {0}
        /\ l.size + 7 < UsizeSpan /\ l.align < UsizeSpan
        /\ l.align \in {1, 2, 4} \/ l.align % 8 = 0
    BY LayoutFacts
  <1>3. CASE l.size = 0
    <2>1. Granted(l) = [addr |-> l.align, size |-> 0, align |-> l.align, len |-> 0]
          /\ OffsetGranted(l) = stack_offset
      BY <1>3 DEF Granted, OffsetGranted, allocate_zerosized
    <2>2. Granted(l) \in Block
      BY <1>1, <1>2, <2>1 DEF Block
    <2>3. l.align % l.align = 0
      BY <1>2
    <2>4. QED BY <1>1, <1>2, <1>3, <2>1, <2>2, <2>3 DEF GoodBlock, PageBacked, Under
  <1>4. CASE l.size # 0
    <2>1. /\ r # 0 /\ r <= PageSize - stack_offset
          /\ l.align > 8 => p # 0 /\ p - page_ptr < PageSize
                            /\ r <= PageSize - (p - page_ptr)
      BY <1>4 DEF CanAllocate, Fits, large_offset_from
    <2>2. r \in Nat /\ r % 8 = 0 /\ l.size <= r
      BY <1>2, RoundedFacts
    <2>3. x \in Nat /\ x % 8 = 0 /\ x < UsizeSpan
      BY <1>1, <2>1, <2>2
    <2>4. p \in Nat /\ p % l.align = 0 /\ p % 8 = 0 /\ x <= p
      <3>1. CASE l.align <= 8
        <4>1. l.align \in {1, 2, 4, 8}
          BY <1>2, <3>1
        <4>2. p = x
          BY <3>1 DEF AllocPtr
        <4>3. x % 1 = 0 /\ x % 2 = 0 /\ x % 4 = 0
          BY <2>3
        <4>4. QED BY <2>3, <4>1, <4>2, <4>3
      <3>2. CASE ~(l.align <= 8)
        <4>1. p = align_up_usize(x, l.align)
          BY <3>2 DEF AllocPtr
        <4>2. p \in Nat /\ p % l.align = 0 /\ (p = 0 \/ x <= p)
          <5>1. l.align <= UsizeSpan
            BY <1>1, <1>2
          <5> HIDE DEF x, p
          <5>2. QED BY <1>2, <2>3, <4>1, <5>1, AlignUp
        <4>3. l.align % 8 = 0
          BY <1>2, <3>2
        <4>4. p % 8 = 0
          BY <1>2, <4>2, <4>3, MultipleOfMultiple
        <4>5. QED BY <1>2, <2>1, <3>2, <4>2, <4>4
      <3>3. QED BY <3>1, <3>2
    <2>5. p - page_ptr + r <= PageSize
      <3>1. CASE l.align <= 8
        BY <1>1, <2>1, <2>2, <3>1 DEF AllocPtr
      <3>2. CASE ~(l.align <= 8)
        BY <1>1, <1>2, <2>1, <2>2, <2>4, <3>2
      <3>3. QED BY <3>1, <3>2
    <2>6. Granted(l) = [addr |-> p, size |-> l.size, align |-> l.align, len |-> r]
          /\ OffsetGranted(l) = p - page_ptr + r
      BY <1>4 DEF Granted, OffsetGranted, large_offset_from
    <2> HIDE DEF p, r
    <2>7. p < UsizeSpan /\ r <= PageSize /\ r > 0 /\ l.size > 0
      BY <1>1, <1>2, <1>4, <2>1, <2>2, <2>4, <2>5
    <2>8. Granted(l) \in Block
      BY <1>1, <1>2, <2>2, <2>4, <2>6, <2>7 DEF Block
    <2>9. GoodBlock(Granted(l))
      BY <1>1, <2>2, <2>4, <2>6, <2>7, <2>8 DEF GoodBlock, PageBacked, r
    <2>10. (p - page_ptr + r) \in Nat /\ (p - page_ptr + r) % 8 = 0
           /\ stack_offset <= p - page_ptr + r
      BY <1>1, <2>2, <2>4
    <2>11. p + r <= page_ptr + (p - page_ptr + r) /\ p # 0
      BY <1>1, <2>2, <2>4
    <2>12. QED BY <2>4, <2>5, <2>6, <2>9, <2>10, <2>11 DEF Under
  <1>5. QED BY <1>3, <1>4

(* What is granted is in the room there is. *)
LEMMA RoomGranted ==
  ASSUME IInv, phase = "live", NEW l \in Layouts, l.size > 0, CanAllocate(l)
  PROVE  /\ AllocPtr(l) \in Nat
         /\ page_ptr + stack_offset <= AllocPtr(l)
         /\ AllocPtr(l) % l.align = 0 /\ AllocPtr(l) % 8 = 0
         /\ AllocPtr(l) + Rounded(l.size) <= page_ptr + PageSize
  <1>1. l.size \in Nat /\ l.size + 7 < UsizeSpan
    BY LayoutFacts
  <1>2. Rounded(l.size) \in Nat /\ l.size <= Rounded(l.size)
    BY <1>1, RoundedFacts
  <1> DEFINE nb == Granted(l)
             o == OffsetGranted(l)
  <1>3. /\ nb.addr = AllocPtr(l) /\ nb.len = Rounded(l.size) /\ nb.align = l.align
        /\ nb.size = l.size
    BY <1>1 DEF Granted
  <1>4. /\ GoodBlock(nb) /\ Under(nb, o) /\ o \in Nat /\ o <= PageSize
        /\ PageBacked(nb) => page_ptr + stack_offset <= nb.addr
    BY Grant
  <1> HIDE DEF nb, o
  <1>5. PageBacked(nb)
    BY <1>1, <1>2, <1>3 DEF PageBacked
  <1>6. nb.addr \in Nat /\ nb.addr % 8 = 0 /\ nb.addr % nb.align = 0
    BY <1>4, <1>5, BlockFields DEF GoodBlock
  <1>7. page_ptr \in Nat /\ PageSize \in Nat
    BY Setting
  <1>8. nb.addr + nb.len <= page_ptr + PageSize
    BY <1>2, <1>3, <1>4, <1>5, <1>6, <1>7 DEF Under
  <1>9. QED BY <1>3, <1>4, <1>5, <1>6, <1>8

(* An address with the alignment and the room asked for is not missed. *)
LEMMA RoomFound ==
  ASSUME IInv, phase = "live", NEW l \in Layouts, l.size > 0,
         NEW p \in Nat, page_ptr + stack_offset <= p, p % l.align = 0,
         p + Rounded(l.size) <= page_ptr + PageSize
  PROVE  CanAllocate(l) /\ AllocPtr(l) <= p
  <1> DEFINE x == page_ptr + stack_offset
             r == Rounded(l.size)
             q == AllocPtr(l)
  <1>1. /\ page_ptr \in Nat /\ page_ptr >= 8 /\ PageSize \in Nat /\ UsizeSpan \in Nat
        /\ page_ptr + PageSize <= UsizeSpan /\ stack_offset \in Nat
    BY Setting
  <1>2. /\ l.size \in Nat /\ l.align \in Nat \ {0}
        /\ l.size + 7 < UsizeSpan /\ l.align < UsizeSpan
    BY LayoutFacts
  <1>3. r \in Nat /\ l.size <= r
    BY <1>2, RoundedFacts
  <1>4. x \in Nat \ {0} /\ x <= p /\ p < UsizeSpan /\ r # 0
        /\ p + r <= page_ptr + PageSize
    BY <1>1, <1>2, <1>3
  <1>5. CASE l.align <= 8
    <2>1. q = x
      BY <1>5 DEF AllocPtr
    <2>2. r <= PageSize - stack_offset
      BY <1>1, <1>3, <1>4
    <2>3. Fits(l)
      BY <1>2, <1>4, <1>5, <2>2 DEF Fits
    <2>4. QED BY <1>4, <2>1, <2>3 DEF CanAllocate
  <1>6. CASE l.align > 8
    <2>1. q = align_up_usize(x, l.align)
      BY <1>2, <1>6 DEF AllocPtr
    <2>2. UsizeSpan % l.align = 0 /\ l.align <= UsizeSpan /\ x < UsizeSpan
      BY <1>1, <1>2, <1>4, PowersOfTwo DEF Layouts
    <2> HIDE DEF x, q
    <2>3. q # 0 /\ q <= p
      BY <1>2, <1>4, <2>1, <2>2, AlignUpLeast
    <2>4. q \in Nat /\ x <= q
      BY <1>2, <1>4, <2>1, <2>2, <2>3, AlignUp
    <2>5. r <= PageSize - stack_offset
      BY <1>1, <1>3, <1>4 DEF x
    <2>6. q - page_ptr < PageSize /\ r <= PageSize - (q - page_ptr)
      BY <1>1, <1>3, <1>4, <2>3, <2>4 DEF x
    <2>7. Fits(l)
      BY <1>4, <2>3, <2>5, <2>6 DEF Fits, q, large_offset_from
    <2>8. QED BY <2>3, <2>7 DEF CanAllocate, q
  <1>7. QED BY <1>2, <1>5, <1>6

(* What is granted shares no byte with a block there is. *)
LEMMA GrantApart ==
  ASSUME IInv, phase = "live", NEW l \in Layouts, CanAllocate(l), NEW g \in Handles
  PROVE  Apart(blocks[g], Granted(l)) /\ Under(blocks[g], OffsetGranted(l))
  <1>1. /\ Granted(l) \in Block
        /\ PageBacked(Granted(l)) => page_ptr + stack_offset <= Granted(l).addr
        /\ OffsetGranted(l) \in Nat /\ stack_offset <= OffsetGranted(l)
    BY Grant DEF GoodBlock
  <1>2. Under(blocks[g], stack_offset) /\ blocks[g] \in Block
    BY BlocksGood, Setting
  <1>3. /\ page_ptr \in Nat /\ stack_offset \in Nat /\ PageSize \in Nat
        /\ UsizeSpan \in Nat
    BY Setting
  <1>4. /\ blocks[g].addr \in Nat /\ blocks[g].len \in Nat
        /\ Granted(l).addr \in Nat /\ Granted(l).len \in Nat
    BY <1>1, <1>2, <1>3 DEF Block
  <1>5. Under(blocks[g], OffsetGranted(l))
    BY <1>1, <1>2, <1>3, <1>4 DEF Under
  <1>6. Apart(blocks[g], Granted(l))
    BY <1>1, <1>2, <1>3, <1>4 DEF Under, PageBacked, Apart, Bytes
  <1>7. QED BY <1>5, <1>6

-----------------------------------------------------------------------------
(* Replacing one block by another keeps IInv. *)

LEMMA ReplaceBlock ==
  ASSUME IInv, phase = "live", NEW h \in Handles, NEW nb, GoodBlock(nb),
         \A g \in Handles \ {h} : Apart(blocks[g], nb) /\ Under(blocks[g], stack_offset'),
         Under(nb, stack_offset'),
         stack_offset' \in Nat, stack_offset' <= PageSize, stack_offset' % 8 = 0,
         blocks' = [blocks EXCEPT ![h] = nb],
         bytes' = bytes - blocks[h].len + nb.len,
         phase' = phase, page_ptr' = page_ptr,
         call' \in [op : Ops, ok : BOOLEAN],
         mem' \in [Mapped -> {Zero} \cup (Handles \X Nat)],
         DataInPlace'
  PROVE  IInv'
  <1>1. blocks \in [Handles -> Block] /\ nb \in Block
    BY Setting DEF GoodBlock
  <1>2. blocks' \in [Handles -> Block] /\ blocks'[h] = nb
        /\ \A g \in Handles \ {h} : blocks'[g] = blocks[g]
    BY <1>1
  <1>3. \A g \in Handles : GoodBlock(blocks'[g]) /\ Under(blocks'[g], stack_offset')
    BY <1>2, BlocksGood
  <1>4. Mapped' = Mapped
    BY DEF Mapped
  <1>5. Disjoint'
    <2>1. \A g, k \in Handles : g # k => Apart(blocks[g], blocks[k])
      BY DEF IInv, Disjoint, Apart
    <2>2. \A b, c : Apart(b, c) => Apart(c, b)
      BY DEF Apart
    <2>3. \A g, k \in Handles : g # k => Apart(blocks'[g], blocks'[k])
      BY <1>2, <2>1, <2>2
    <2>4. QED BY <2>3 DEF Disjoint, Apart, Bytes
  <1>6. BelowTop'
    BY <1>3 DEF BelowTop, GoodBlock, Under, PageBacked
  <1>7. WholeWords'
    BY <1>3 DEF WholeWords, GoodBlock, PageBacked
  <1>8. LayoutHonoured'
    BY <1>3 DEF LayoutHonoured, GoodBlock
  <1>9. PageWhenLive'
    <2>1. page_ptr # 0
      BY Setting
    <2>2. QED BY <2>1 DEF PageWhenLive
  <1>10. Covered(blocks') = Rest(h) \cup Bytes(nb)
    BY <1>2 DEF Covered, Rest, Bytes
  <1>11. IsFiniteSet(Covered(blocks')) /\ Cardinality(Covered(blocks')) = bytes'
    <2>1. /\ IsFiniteSet(Rest(h)) /\ Cardinality(Rest(h)) \in Nat
          /\ Cardinality(Rest(h)) = bytes - blocks[h].len
      BY RestCard
    <2>2. IsFiniteSet(Bytes(nb)) /\ Cardinality(Bytes(nb)) = nb.len
      BY <1>1, BytesCard
    <2>3. Rest(h) \cap Bytes(nb) = {}
      BY DEF Rest, Apart
    <2>4. Cardinality(Covered(blocks')) =
            Cardinality(Rest(h)) + Cardinality(Bytes(nb)) - Cardinality({})
          /\ IsFiniteSet(Covered(blocks'))
      BY <1>10, <2>1, <2>2, <2>3, FS_Union
    <2>5. Cardinality({}) = 0 /\ nb.len \in Nat
      BY <1>1, FS_EmptySet DEF Block
    <2>6. QED BY <2>1, <2>2, <2>4, <2>5
  <1>12. BytesExact'
    BY <1>11 DEF BytesExact, Covered, Bytes
  <1>13. bytes' \in Nat /\ bytes' <= stack_offset'
    <2>1. page_ptr \in Nat
      BY Setting
    <2>2. \A g \in Handles :
            Bytes(blocks'[g]) \subseteq page_ptr .. (page_ptr + stack_offset' - 1)
      BY <1>3, BlockInPage
    <2>3. Covered(blocks') \subseteq page_ptr .. (page_ptr + stack_offset' - 1)
      BY <2>2 DEF Covered
    <2>4. /\ Cardinality(Covered(blocks')) \in Nat
          /\ Cardinality(Covered(blocks')) <= stack_offset'
      BY <2>1, <2>3, SubsetCard
    <2>5. QED BY <1>11, <2>4
  <1>14. bytes' % 8 = 0
    <2>1. bytes \in Nat /\ bytes % 8 = 0 /\ blocks[h].len \in Nat /\ nb.len \in Nat
      BY <1>1, Setting DEF Block
    <2>2. blocks[h].len % 8 = 0 /\ nb.len % 8 = 0
      BY BlocksGood DEF GoodBlock
    <2>3. QED BY <1>13, <2>1, <2>2
  <1>15. consistency_check'
    BY <1>13, <1>14 DEF consistency_check
  <1>16. TypeOK'
    <2>1. bytes' \in 0 .. PageSize /\ stack_offset' \in 0 .. PageSize
      BY <1>13, Setting
    <2>2. page_ptr' \in PageAddrs \cup {0} /\ phase' = "live"
      BY DEF IInv, TypeOK
    <2>3. QED BY <1>2, <1>4, <2>1, <2>2 DEF TypeOK, Block, Phases
  <1>17. QED
    BY <1>5, <1>6, <1>7, <1>8, <1>9, <1>12, <1>15, <1>16 DEF IInv

-----------------------------------------------------------------------------
(* The steps of the actions, one lemma for each way blocks change. *)

Byte == {Zero} \cup (Handles \X Nat)

LEMMA ZeroizedType ==
  ASSUME NEW m \in [Mapped -> Byte], NEW p, NEW n
  PROVE  /\ Zeroized(m, p, n) \in [Mapped -> Byte]
         /\ \A a \in Mapped : Zeroized(m, p, n)[a] =
              IF a \in p .. (p + n - 1) THEN Zero ELSE m[a]
  BY DEF Zeroized, Byte

(* A step that changes nothing of the page keeps what IInv says of it. *)
LEMMA PageKept ==
  ASSUME IInv, call' \in [op : Ops, ok : BOOLEAN],
         phase' = phase \/ phase' \in {"aborted", "refused"},
         UNCHANGED <<page_ptr, bytes, stack_offset, mem, blocks>>
  PROVE  IInv'
  <1>1. Mapped' = Mapped /\ Covered(blocks)' = Covered(blocks)
    BY DEF Mapped, Covered
  <1>2. TypeOK'
    BY <1>1 DEF IInv, TypeOK, Phases
  <1>3. PageWhenLive'
    BY DEF IInv, PageWhenLive
  <1>4. WholeWords' /\ LayoutHonoured'
    BY DEF IInv, WholeWords, LayoutHonoured
  <1>5. Disjoint'
    BY DEF IInv, Disjoint
  <1>6. BelowTop' /\ consistency_check'
    BY DEF IInv, BelowTop, consistency_check
  <1>7. BytesExact'
    BY <1>1 DEF IInv, BytesExact
  <1>8. DataInPlace'
    BY <1>1 DEF IInv, DataInPlace
  <1>9. QED BY <1>2, <1>3, <1>4, <1>5, <1>6, <1>7, <1>8 DEF IInv

LEMMA UnchangedStep ==
  ASSUME IInv, call' \in [op : Ops, ok : BOOLEAN],
         UNCHANGED <<phase, page_ptr, bytes, stack_offset, mem, blocks>>
  PROVE  IInv'
  BY PageKept

LEMMA ZeroSized ==
  /\ GoodBlock(NoBlock) /\ NoBlock.len = 0
  /\ \A l \in Layouts : LET z == allocate_zerosized(l.align)
                        IN GoodBlock(z) /\ z.len = 0
  <1>1. UsizeSpan \in Nat /\ UsizeSpan > 0 /\ PageSize \in Nat
    BY UtilAssumption, SecAllocAssumption
  <1>2. GoodBlock(NoBlock) /\ NoBlock.len = 0
    BY <1>1 DEF NoBlock, GoodBlock, Block, PageBacked
  <1>3. ASSUME NEW l \in Layouts
        PROVE  LET z == allocate_zerosized(l.align) IN GoodBlock(z) /\ z.len = 0
    <2>1. l.align \in Nat \ {0} /\ l.align < UsizeSpan /\ l.align % l.align = 0
      BY LayoutFacts
    <2>2. QED BY <1>1, <2>1 DEF allocate_zerosized, GoodBlock, Block, PageBacked
  <1>4. QED BY <1>2, <1>3

(* A block without bytes shares none. *)
LEMMA EmptyApart ==
  ASSUME NEW b \in Block, NEW c \in Block, b.len = 0 \/ c.len = 0
  PROVE  Apart(b, c)
  <1>1. \A d \in Block : d.len = 0 => Bytes(d) = {}
    BY SecAllocAssumption, UtilAssumption DEF Block, Bytes
  <1>2. QED BY <1>1 DEF Apart

LEMMA CallType ==
  ASSUME NEW o \in Ops, NEW k \in BOOLEAN
  PROVE  [op |-> o, ok |-> k] \in [op : Ops, ok : BOOLEAN]
  OBVIOUS

(* How calls end. *)
LEMMA SucceedsFacts ==
  ASSUME NEW op \in Ops, NEW h, NEW nb, Succeeds(op, h, nb)
  PROVE  /\ blocks' = [blocks EXCEPT ![h] = nb]
         /\ phase' = phase /\ page_ptr' = page_ptr
         /\ call' \in [op : Ops, ok : BOOLEAN]
  <1>1. call' = [op |-> op, ok |-> TRUE]
    BY DEF Succeeds
  <1>2. call' \in [op : Ops, ok : BOOLEAN]
    BY <1>1, CallType
  <1>3. QED BY <1>2 DEF Succeeds

LEMMA FailsStep ==
  ASSUME IInv, NEW op \in Ops, Fails(op)
  PROVE  IInv'
  <1>1. call' = [op |-> op, ok |-> FALSE]
    BY DEF Fails
  <1>2. call' \in [op : Ops, ok : BOOLEAN]
    BY <1>1, CallType
  <1>3. QED BY <1>2, UnchangedStep DEF Fails

LEMMA AllocateStep ==
  ASSUME IInv, phase = "live", NEW h \in Handles, blocks[h].len = 0,
         NEW l \in Layouts, NEW op \in Ops, Allocate(op, h, l)
  PROVE  IInv'
  <1>1. CASE ~CanAllocate(l)
    BY <1>1, FailsStep DEF Allocate
  <1>2. CASE CanAllocate(l)
    <2> DEFINE nb == Granted(l)
    <2>0. Succeeds(op, h, nb)
      BY <1>2 DEF Allocate
    <2>1. /\ blocks' = [blocks EXCEPT ![h] = nb]
          /\ bytes' = bytes + nb.len
          /\ stack_offset' = OffsetGranted(l)
          /\ mem' = mem /\ phase' = phase /\ page_ptr' = page_ptr
          /\ call' \in [op : Ops, ok : BOOLEAN]
      BY <1>2, <2>0, SucceedsFacts DEF Allocate, BytesGranted
    <2>2. /\ GoodBlock(nb) /\ Under(nb, stack_offset')
          /\ stack_offset' \in Nat /\ stack_offset' <= PageSize
          /\ stack_offset' % 8 = 0
      BY <1>2, <2>1, Grant
    <2>3. \A g \in Handles \ {h} :
            Apart(blocks[g], nb) /\ Under(blocks[g], stack_offset')
      BY <1>2, <2>1, GrantApart
    <2>4. mem' \in [Mapped -> {Zero} \cup (Handles \X Nat)]
      BY <2>1, Setting
    <2>5. bytes' = bytes - blocks[h].len + nb.len
      <3>1. bytes \in Nat /\ nb.len \in Nat
        BY <2>2, Setting DEF GoodBlock, Block
      <3>2. QED BY <2>1, <3>1
    <2>6. DataInPlace'
      <3>1. Bytes(blocks[h]) = {}
        BY Setting, SecAllocAssumption, UtilAssumption DEF Bytes, Block
      <3>2. ASSUME NEW a \in Mapped, mem[a] # Zero
            PROVE  \E g \in Handles : a \in Bytes(blocks'[g])
                                      /\ mem[a] = Data(g, a - blocks'[g].addr)
        <4>1. PICK g \in Handles :
                a \in Bytes(blocks[g]) /\ mem[a] = Data(g, a - blocks[g].addr)
          BY <3>2 DEF IInv, DataInPlace
        <4>2. g # h
          BY <3>1, <4>1
        <4>3. blocks'[g] = blocks[g]
          BY <2>1, <4>2, Setting
        <4>4. QED BY <4>1, <4>3
      <3>3. QED BY <2>1, <3>2 DEF DataInPlace, Mapped, Bytes, Data
    <2> HIDE DEF nb
    <2>7. QED BY <2>1, <2>2, <2>3, <2>4, <2>5, <2>6, ReplaceBlock
  <1>3. QED BY <1>1, <1>2

(* deallocate, in terms of the block that the layout fits. *)
LEMMA DeallocateFacts ==
  ASSUME IInv, phase = "live", NEW h \in Handles, NEW s \in FittingSizes(h),
         NEW o \in Nat, o <= PageSize, o % 8 = 0, Under(blocks[h], o),
         NEW b, NEW m, DeallocateFrom(b, o, m, blocks[h].addr, s)
  PROVE  /\ mem' = Zeroized(m, blocks[h].addr, blocks[h].len)
         /\ bytes' = b - blocks[h].len
         /\ stack_offset' \in Nat /\ stack_offset' <= PageSize
         /\ stack_offset' % 8 = 0
         /\ \A c : GoodBlock(c) /\ Apart(blocks[h], c) /\ Under(c, o)
                     /\ (b - blocks[h].len = 0 => ~PageBacked(c))
                   => Under(c, stack_offset')
  <1> DEFINE old == blocks[h]
             start == old.addr - page_ptr
  <1>1. /\ s = 0 <=> old.len = 0
        /\ Rounded(s) = old.len
    BY Fitting
  <1>2. old.len \in Nat /\ PageSize \in Nat /\ GoodBlock(old)
    BY Setting, BlocksGood DEF Block
  <1>3. (IF s = 0 THEN 0 ELSE Rounded(s)) = old.len
    BY <1>1
  <1>4. /\ mem' = Zeroized(m, old.addr, old.len)
        /\ bytes' = b - old.len
        /\ stack_offset' = IF s = 0 THEN o
                           ELSE RewoundOffset(b - old.len, o, start, start + old.len)
    BY <1>3 DEF DeallocateFrom, large_offset_from
  <1>5. CASE s = 0
    BY <1>4, <1>5
  <1>6. CASE s # 0
    <2>1. PageBacked(old)
      BY <1>1, <1>2, <1>6 DEF PageBacked
    <2>2. stack_offset' = RewoundOffset(b - old.len, o, start, start + old.len)
      BY <1>4, <1>6
    <2> DEFINE left == b - old.len
    <2> HIDE DEF left
    <2>3. stack_offset' = RewoundOffset(left, o, start, start + old.len)
      BY <2>2 DEF left
    <2>4. /\ stack_offset' \in Nat /\ stack_offset' <= o /\ stack_offset' % 8 = 0
          /\ \A c : GoodBlock(c) /\ Apart(old, c) /\ Under(c, o)
                      /\ (left = 0 => ~PageBacked(c)) => Under(c, stack_offset')
      BY <1>2, <2>1, <2>3, ReleaseRewinds
    <2>5. stack_offset' <= PageSize
      BY <1>2, <2>4
    <2>6. QED BY <1>4, <2>4, <2>5 DEF left
  <1>7. QED BY <1>5, <1>6

(* A block is released and at most an empty one is left in its place. *)
LEMMA ReleaseStep ==
  ASSUME IInv, phase = "live", NEW h \in Handles, NEW s \in FittingSizes(h),
         NEW nb, GoodBlock(nb), nb.len = 0, NEW op \in Ops, Succeeds(op, h, nb),
         DeallocateFrom(bytes, stack_offset, mem, blocks[h].addr, s)
  PROVE  IInv'
  <1> DEFINE old == blocks[h]
  <1>1. /\ blocks' = [blocks EXCEPT ![h] = nb]
        /\ phase' = phase /\ page_ptr' = page_ptr
        /\ call' \in [op : Ops, ok : BOOLEAN]
    BY SucceedsFacts
  <1>2. /\ stack_offset \in Nat /\ stack_offset <= PageSize /\ stack_offset % 8 = 0
        /\ Under(old, stack_offset)
    BY Setting, BlocksGood
  <1>3. /\ mem' = Zeroized(mem, old.addr, old.len)
        /\ bytes' = bytes - old.len
        /\ stack_offset' \in Nat /\ stack_offset' <= PageSize
        /\ stack_offset' % 8 = 0
        /\ \A c : GoodBlock(c) /\ Apart(old, c) /\ Under(c, stack_offset)
                    /\ (bytes - old.len = 0 => ~PageBacked(c))
                  => Under(c, stack_offset')
    BY <1>2, DeallocateFacts
  <1>4. ASSUME NEW g \in Handles \ {h}
        PROVE  Apart(blocks[g], nb) /\ Under(blocks[g], stack_offset')
    <2>1. Apart(blocks[g], nb)
      BY Setting, EmptyApart DEF GoodBlock
    <2>2. GoodBlock(blocks[g]) /\ Under(blocks[g], stack_offset) /\ Apart(old, blocks[g])
      BY BlocksGood DEF IInv, Disjoint, Apart
    <2>3. bytes - old.len = 0 => ~PageBacked(blocks[g])
      BY LastBlock
    <2>4. QED BY <1>3, <2>1, <2>2, <2>3
  <1>5. Under(nb, stack_offset')
    BY DEF Under, PageBacked
  <1>6. bytes' = bytes - blocks[h].len + nb.len
    <2>1. bytes \in Nat /\ old.len \in Nat
      BY Setting DEF Block
    <2>2. QED BY <1>3, <2>1
  <1>7. /\ mem' \in [Mapped -> {Zero} \cup (Handles \X Nat)]
        /\ \A a \in Mapped : mem'[a] =
             IF a \in old.addr .. (old.addr + old.len - 1) THEN Zero ELSE mem[a]
    BY <1>3, Setting, ZeroizedType DEF Byte
  <1>8. DataInPlace'
    <2>1. ASSUME NEW a \in Mapped, mem'[a] # Zero
          PROVE  \E g \in Handles : a \in Bytes(blocks'[g])
                                    /\ mem'[a] = Data(g, a - blocks'[g].addr)
      <3>1. a \notin Bytes(old) /\ mem'[a] = mem[a]
        BY <1>7, <2>1 DEF Bytes
      <3>2. PICK g \in Handles :
              a \in Bytes(blocks[g]) /\ mem[a] = Data(g, a - blocks[g].addr)
        BY <2>1, <3>1 DEF IInv, DataInPlace
      <3>3. blocks'[g] = blocks[g]
        BY <1>1, <3>1, <3>2, Setting
      <3>4. QED BY <3>1, <3>2, <3>3
    <2>2. QED BY <1>1, <2>1 DEF DataInPlace, Mapped, Bytes, Data
  <1>9. QED BY <1>1, <1>3, <1>4, <1>5, <1>6, <1>7, <1>8, ReplaceBlock

LEMMA CopiedType ==
  ASSUME NEW m \in [Mapped -> Byte], NEW src, NEW dst, NEW n,
         \A a \in Mapped : a \in dst .. (dst + n - 1) => a - dst + src \in Mapped
  PROVE  /\ Copied(m, src, dst, n) \in [Mapped -> Byte]
         /\ \A a \in Mapped : Copied(m, src, dst, n)[a] =
              IF a \in dst .. (dst + n - 1) THEN m[a - dst + src] ELSE m[a]
  BY DEF Copied, Byte

(***************************************************************************)
(* A reallocation: what is copied is read from the old block, which no     *)
(* other block overlaps, and lands in the new one at the same index.       *)
(***************************************************************************)
LEMMA ReallocateStep ==
  ASSUME IInv, phase = "live", NEW h \in Handles, NEW s \in FittingSizes(h),
         NEW l \in Layouts, NEW copied \in Nat, copied <= s, copied <= l.size,
         NEW op \in Ops, Reallocate(op, h, s, l, copied)
  PROVE  IInv'
  <1>1. CASE ~CanAllocate(l)
    BY <1>1, FailsStep DEF Reallocate
  <1>2. CASE CanAllocate(l)
    <2> DEFINE old == blocks[h]
               nb == Granted(l)
               o == OffsetGranted(l)
               m == Copied(mem, old.addr, nb.addr, copied)
               b == bytes + nb.len
    <2>1. /\ Succeeds(op, h, nb)
          /\ DeallocateFrom(b, o, m, old.addr, s)
      BY <1>2 DEF Reallocate, BytesGranted
    <2>2. /\ GoodBlock(nb) /\ nb.size = l.size /\ Under(nb, o)
          /\ o \in Nat /\ o <= PageSize /\ o % 8 = 0
      BY <1>2, Grant
    <2>3. \A g \in Handles : Apart(blocks[g], nb) /\ Under(blocks[g], o)
      BY <1>2, GrantApart
    <2> HIDE DEF nb, o, m, b
    <2>4. /\ mem' = Zeroized(m, old.addr, old.len)
          /\ bytes' = b - old.len
          /\ stack_offset' \in Nat /\ stack_offset' <= PageSize
          /\ stack_offset' % 8 = 0
          /\ \A c : GoodBlock(c) /\ Apart(old, c) /\ Under(c, o)
                      /\ (b - old.len = 0 => ~PageBacked(c))
                    => Under(c, stack_offset')
      BY <2>1, <2>2, <2>3, DeallocateFacts
    <2>5. /\ blocks' = [blocks EXCEPT ![h] = nb]
          /\ phase' = phase /\ page_ptr' = page_ptr
          /\ call' \in [op : Ops, ok : BOOLEAN]
      BY <2>1, SucceedsFacts
    <2>6. /\ bytes \in Nat /\ old.len \in Nat /\ nb.len \in Nat
          /\ old.addr \in Nat /\ nb.addr \in Nat /\ page_ptr \in Nat
          /\ old \in Block
      <3>1. nb \in Block /\ old \in Block
        BY <2>2, Setting DEF GoodBlock
      <3>2. bytes \in Nat /\ page_ptr \in Nat
        BY Setting
      <3>3. QED BY <3>1, <3>2, BlockFields
    <2>7. bytes' = bytes - blocks[h].len + nb.len
      BY <2>4, <2>6 DEF b
    <2>8. b - old.len = 0 => bytes - old.len = 0 /\ nb.len = 0
      <3>1. bytes - old.len \in Nat
        BY RestCard
      <3>2. QED BY <2>6, <3>1 DEF b
    <2>9. Under(nb, stack_offset')
      BY <2>2, <2>3, <2>4, <2>8 DEF PageBacked
    <2>10. ASSUME NEW g \in Handles \ {h}
           PROVE  Apart(blocks[g], nb) /\ Under(blocks[g], stack_offset')
      <3>1. GoodBlock(blocks[g]) /\ Apart(old, blocks[g])
        BY BlocksGood DEF IInv, Disjoint, Apart
      <3>2. b - old.len = 0 => ~PageBacked(blocks[g])
        BY <2>8, LastBlock
      <3>3. QED BY <2>3, <2>4, <3>1, <3>2
    <2>11. /\ copied <= old.len /\ copied <= nb.len
           /\ copied > 0 => Bytes(old) \subseteq Mapped
      <3>1. s <= old.len /\ s \in Nat
        BY Fitting
      <3>2. l.size <= nb.len /\ l.size \in Nat
        BY <2>2, LayoutFacts DEF GoodBlock
      <3>3. Bytes(old) \subseteq Mapped
        BY BlocksGood, BlockInPage, Setting
      <3>4. QED BY <2>6, <3>1, <3>2, <3>3
    <2>12. \A a \in Mapped : a \in nb.addr .. (nb.addr + copied - 1) =>
             a - nb.addr + old.addr \in Bytes(old) /\ a \in Bytes(nb)
      BY <2>6, <2>11 DEF Bytes
    <2>13. /\ m \in [Mapped -> Byte]
           /\ \A a \in Mapped : m[a] =
                IF a \in nb.addr .. (nb.addr + copied - 1)
                THEN mem[a - nb.addr + old.addr] ELSE mem[a]
      <3>1. \A a \in Mapped : a \in nb.addr .. (nb.addr + copied - 1) =>
              a - nb.addr + old.addr \in Mapped
        <4>1. Bytes(old) \subseteq Mapped
          BY BlocksGood, BlockInPage, Setting
        <4>2. QED BY <2>12, <4>1
      <3>2. mem \in [Mapped -> Byte]
        BY Setting DEF Byte
      <3>3. QED BY <3>1, <3>2, CopiedType DEF m
    <2>14. /\ mem' \in [Mapped -> Byte]
           /\ \A a \in Mapped : mem'[a] = IF a \in Bytes(old) THEN Zero ELSE m[a]
      BY <2>4, <2>13, ZeroizedType DEF Bytes
    <2>15. DataInPlace'
      <3>1. ASSUME NEW a \in Mapped, mem'[a] # Zero
            PROVE  \E g \in Handles : a \in Bytes(blocks'[g])
                                      /\ mem'[a] = Data(g, a - blocks'[g].addr)
        <4>1. a \notin Bytes(old) /\ mem'[a] = m[a]
          BY <2>14, <3>1
        <4>2. CASE a \in nb.addr .. (nb.addr + copied - 1)
          <5> DEFINE c == a - nb.addr + old.addr
          <5>1. c \in Bytes(old) /\ c \in Mapped /\ a \in Bytes(nb) /\ m[a] = mem[c]
            <6>1. Bytes(old) \subseteq Mapped
              BY BlocksGood, BlockInPage, Setting
            <6>2. QED BY <2>12, <2>13, <4>2, <6>1
          <5>2. a \in Int /\ c - old.addr = a - nb.addr
            BY <2>6, <4>2
          <5> HIDE DEF c
          <5>3. PICK g \in Handles :
                  c \in Bytes(blocks[g]) /\ mem[c] = Data(g, c - blocks[g].addr)
            BY <3>1, <4>1, <5>1 DEF IInv, DataInPlace
          <5>4. g = h
            BY <5>1, <5>3 DEF IInv, Disjoint
          <5>5. mem'[a] = Data(h, a - nb.addr)
            BY <4>1, <5>1, <5>2, <5>3, <5>4
          <5>6. blocks'[h] = nb
            BY <2>5, Setting
          <5>7. QED BY <5>1, <5>5, <5>6
        <4>3. CASE a \notin nb.addr .. (nb.addr + copied - 1)
          <5>1. mem'[a] = mem[a]
            BY <2>13, <4>1, <4>3
          <5>2. PICK g \in Handles :
                  a \in Bytes(blocks[g]) /\ mem[a] = Data(g, a - blocks[g].addr)
            BY <3>1, <5>1 DEF IInv, DataInPlace
          <5>3. blocks'[g] = blocks[g]
            BY <2>5, <4>1, <5>2, Setting
          <5>4. QED BY <5>1, <5>2, <5>3
        <4>4. QED BY <4>2, <4>3
      <3>2. QED BY <2>5, <3>1 DEF DataInPlace, Mapped, Bytes, Data
    <2>16. mem' \in [Mapped -> {Zero} \cup (Handles \X Nat)]
      BY <2>14 DEF Byte
    <2>17. QED
      BY <2>2, <2>4, <2>5, <2>7, <2>9, <2>10, <2>15, <2>16, ReplaceBlock
  <1>3. QED BY <1>1, <1>2

(***************************************************************************)
(* The two resizes in place have this in common: the block keeps its       *)
(* address, and what was left of it is zeroized.                           *)
(***************************************************************************)
LEMMA ResizedGood ==
  ASSUME IInv, phase = "live", NEW h \in Handles, PageBacked(blocks[h]),
         NEW l \in Layouts, l.size > 0, Rounded(l.size) <= PageSize,
         is_aligned_ptr(blocks[h].addr, l.align)
  PROVE  GoodBlock([addr |-> blocks[h].addr, size |-> l.size,
                    align |-> l.align, len |-> Rounded(l.size)])
  <1> DEFINE r == Rounded(l.size)
             nb == [addr |-> blocks[h].addr, size |-> l.size,
                    align |-> l.align, len |-> r]
  <1>1. blocks[h] \in Block /\ PageSize \in Nat /\ UsizeSpan \in Nat
    BY Setting
  <1>2. l.size \in Nat /\ l.align \in Nat \ {0}
        /\ r \in Nat /\ r % 8 = 0 /\ l.size <= r
    BY LayoutFacts, RoundedFacts
  <1>3. blocks[h].addr % 8 = 0 /\ page_ptr <= blocks[h].addr
    BY BlocksGood DEF GoodBlock
  <1>4. blocks[h].addr % l.align = 0
    BY DEF is_aligned_ptr
  <1>5. blocks[h].addr \in 0 .. UsizeSpan - 1
    BY <1>1 DEF Block
  <1>6. nb \in Block
    <2> HIDE DEF r
    <2>1. r \in 0 .. PageSize
      BY <1>1, <1>2 DEF r
    <2>2. QED BY <1>2, <1>5, <2>1 DEF Block
  <1>7. r > 0
    BY <1>2
  <1> HIDE DEF r
  <1>8. QED BY <1>2, <1>3, <1>4, <1>6, <1>7 DEF GoodBlock, PageBacked, r

(* The data of the blocks after a resize in place that keeps the first bytes. *)
LEMMA ResizedData ==
  ASSUME IInv, phase = "live", NEW h \in Handles, NEW nb,
         nb.addr = blocks[h].addr, NEW n \in Nat, nb.len \in Nat,
         nb.len + n = blocks[h].len \/ (blocks[h].len <= nb.len /\ n = 0),
         blocks' = [blocks EXCEPT ![h] = nb], page_ptr' = page_ptr,
         mem' = Zeroized(mem, nb.addr + nb.len, n)
  PROVE  /\ mem' \in [Mapped -> {Zero} \cup (Handles \X Nat)]
         /\ DataInPlace'
  <1>1. blocks \in [Handles -> Block] /\ mem \in [Mapped -> Byte]
        /\ page_ptr \in Nat
    BY Setting DEF Byte
  <1>2. nb.addr \in Nat /\ blocks[h].len \in Nat
    BY <1>1, BlockFields
  <1>3. /\ mem' \in [Mapped -> Byte]
        /\ \A a \in Mapped : mem'[a] =
             IF a \in (nb.addr + nb.len) .. (nb.addr + nb.len + n - 1)
             THEN Zero ELSE mem[a]
    BY <1>1, ZeroizedType
  <1>4. ASSUME NEW a \in Mapped, mem'[a] # Zero
        PROVE  \E g \in Handles : a \in Bytes(blocks'[g])
                                  /\ mem'[a] = Data(g, a - blocks'[g].addr)
    <2>1. /\ mem'[a] = mem[a]
          /\ a \notin (nb.addr + nb.len) .. (nb.addr + nb.len + n - 1)
      BY <1>3, <1>4
    <2>2. PICK g \in Handles :
            a \in Bytes(blocks[g]) /\ mem[a] = Data(g, a - blocks[g].addr)
      BY <1>4, <2>1 DEF IInv, DataInPlace
    <2>3. CASE g # h
      <3>1. blocks'[g] = blocks[g]
        BY <1>1, <2>3
      <3>2. QED BY <2>1, <2>2, <3>1
    <2>4. CASE g = h
      <3>1. blocks'[h] = nb
        BY <1>1
      <3>2. a \in Bytes(nb)
        BY <1>2, <2>1, <2>2, <2>4 DEF Bytes
      <3>3. QED BY <2>1, <2>2, <2>4, <3>1, <3>2
    <2>5. QED BY <2>3, <2>4
  <1>5. DataInPlace'
    BY <1>1, <1>4 DEF DataInPlace, Mapped, Bytes, Data
  <1>6. QED BY <1>3, <1>5 DEF Byte

LEMMA ShrinkInPlaceStep ==
  ASSUME IInv, phase = "live", NEW h \in Handles, NEW s \in FittingSizes(h),
         NEW l \in Layouts, l.size # 0, l.size <= s,
         is_aligned_ptr(blocks[h].addr, l.align), ShrinkInPlace(h, s, l)
  PROVE  IInv'
  <1> DEFINE old == blocks[h]
             r == Rounded(l.size)
             n == old.len - r
             nb == [addr |-> old.addr, size |-> l.size, align |-> l.align, len |-> r]
  <1>1. /\ s \in Nat /\ s + 7 < UsizeSpan /\ s <= old.len
        /\ Rounded(s) = old.len
    BY Fitting
  <1>2. l.size \in Nat /\ l.size > 0 /\ l.size + 7 < UsizeSpan
    BY LayoutFacts
  <1>3. r \in Nat /\ r % 8 = 0 /\ r <= old.len
    BY <1>1, <1>2, RoundedFacts, RoundUp8Monotone DEF Rounded
  <1>4. /\ old \in Block /\ old.addr \in Nat /\ old.len \in Nat /\ old.len <= PageSize
        /\ page_ptr \in Nat /\ PageSize \in Nat /\ bytes \in Nat
        /\ stack_offset \in Nat /\ stack_offset <= PageSize /\ stack_offset % 8 = 0
    BY Setting, BlockFields
  <1>5. GoodBlock(old) /\ Under(old, stack_offset) /\ PageBacked(old)
        /\ old.len % 8 = 0
    BY <1>1, <1>2, <1>4, BlocksGood DEF GoodBlock, PageBacked
  <1>6. /\ page_ptr <= old.addr /\ old.addr + old.len <= page_ptr + stack_offset
    BY <1>5 DEF GoodBlock, Under
  <1>7. n \in Nat /\ n % 8 = 0 /\ n <= stack_offset
    BY <1>3, <1>4, <1>5, <1>6
  <1>8. GoodBlock(nb)
    <2>1. r <= PageSize
      BY <1>3, <1>4
    <2>2. QED BY <1>2, <1>5, <2>1, ResizedGood
  <1>9. /\ mem' = Zeroized(mem, old.addr + r, n)
        /\ bytes' = bytes - n
        /\ stack_offset' = IF old.addr - page_ptr + old.len = stack_offset
                           THEN stack_offset - n ELSE stack_offset
        /\ Succeeds("shrink", h, nb)
    BY <1>1 DEF ShrinkInPlace, ptr_is_last_allocation, large_offset_from
  <1>10. /\ blocks' = [blocks EXCEPT ![h] = nb]
         /\ phase' = phase /\ page_ptr' = page_ptr
         /\ call' \in [op : Ops, ok : BOOLEAN]
    BY <1>9, SucceedsFacts DEF Ops
  <1>11. nb.addr = old.addr /\ nb.len = r
    OBVIOUS
  <1>12. /\ mem' \in [Mapped -> {Zero} \cup (Handles \X Nat)]
         /\ DataInPlace'
    <2>1. nb.len + n = old.len
      BY <1>3, <1>4
    <2> HIDE DEF nb, n, r
    <2>2. QED BY <1>3, <1>7, <1>9, <1>10, <1>11, <2>1, ResizedData
  <1> HIDE DEF nb
  <1>13. bytes' = bytes - blocks[h].len + nb.len
    BY <1>3, <1>4, <1>9, <1>11
  <1>14. stack_offset' \in Nat /\ stack_offset' <= PageSize /\ stack_offset' % 8 = 0
    BY <1>4, <1>7, <1>9
  <1>15. Under(nb, stack_offset')
    BY <1>3, <1>4, <1>6, <1>7, <1>9, <1>11 DEF Under
  <1>16. ASSUME NEW g \in Handles \ {h}
         PROVE  Apart(blocks[g], nb) /\ Under(blocks[g], stack_offset')
    <2> DEFINE c == blocks[g]
    <2>1. /\ c \in Block /\ c.addr \in Nat /\ c.len \in Nat
          /\ Under(c, stack_offset) /\ Apart(old, c)
      BY BlocksGood, Setting, BlockFields DEF IInv, Disjoint, Apart
    <2> HIDE DEF c
    <2>2. Bytes(nb) \subseteq Bytes(old)
      BY <1>3, <1>4, <1>11 DEF Bytes
    <2>3. Apart(c, nb)
      BY <2>1, <2>2 DEF Apart
    <2>4. Under(c, stack_offset')
      <3>1. CASE ~PageBacked(c)
        BY <3>1 DEF Under
      <3>2. CASE PageBacked(c)
        <4>1. c.len > 0 /\ c.addr + c.len <= page_ptr + stack_offset
          BY <2>1, <3>2 DEF Under, PageBacked
        <4>2. old.addr + old.len <= c.addr \/ c.addr + c.len <= old.addr
          BY <1>4, <1>5, <2>1, <3>2, ApartOrdered
        <4>3. c.addr + c.len <= page_ptr + stack_offset'
          BY <1>3, <1>4, <1>6, <1>7, <1>9, <2>1, <4>1, <4>2
        <4>4. QED BY <4>3 DEF Under
      <3>3. QED BY <3>1, <3>2
    <2>5. QED BY <2>3, <2>4 DEF c
  <1>17. QED
    BY <1>8, <1>10, <1>12, <1>13, <1>14, <1>15, <1>16, ReplaceBlock DEF nb

LEMMA GrowInPlaceStep ==
  ASSUME IInv, phase = "live", NEW h \in Handles, NEW s \in FittingSizes(h),
         NEW l \in Layouts, s # 0, l.size >= s,
         is_aligned_ptr(blocks[h].addr, l.align),
         ptr_is_last_allocation(blocks[h].addr, Rounded(s)), GrowInPlace(h, s, l)
  PROVE  IInv'
  <1> DEFINE old == blocks[h]
             r == Rounded(l.size)
             nb == [addr |-> old.addr, size |-> l.size, align |-> l.align, len |-> r]
  <1>1. CASE ~RoomToGrow(old.addr, r)
    BY <1>1, FailsStep DEF GrowInPlace, Ops
  <1>2. CASE RoomToGrow(old.addr, r)
    <2>1. /\ s \in Nat /\ s + 7 < UsizeSpan /\ s <= old.len
          /\ Rounded(s) = old.len
      BY Fitting
    <2>2. l.size \in Nat /\ l.size > 0 /\ l.size + 7 < UsizeSpan
      BY <2>1, LayoutFacts
    <2>3. r \in Nat /\ r % 8 = 0 /\ old.len <= r
      BY <2>1, <2>2, RoundedFacts, RoundUp8Monotone DEF Rounded
    <2>4. /\ old \in Block /\ old.addr \in Nat /\ old.len \in Nat
          /\ page_ptr \in Nat /\ PageSize \in Nat /\ bytes \in Nat
          /\ stack_offset \in Nat /\ stack_offset % 8 = 0
      BY Setting, BlockFields
    <2>5. GoodBlock(old) /\ PageBacked(old) /\ old.len > 0 /\ old.len % 8 = 0
      BY <2>1, <2>4, BlocksGood DEF GoodBlock, PageBacked
    <2>6. /\ page_ptr <= old.addr
          /\ old.addr - page_ptr + old.len = stack_offset
          /\ old.addr - page_ptr + r <= PageSize
      <3>1. r <= PageSize - (old.addr - page_ptr)
        BY <1>2 DEF RoomToGrow, large_offset_from
      <3>2. page_ptr <= old.addr
        BY <2>5 DEF GoodBlock
      <3>3. old.addr - page_ptr + old.len = stack_offset
        BY <2>1 DEF ptr_is_last_allocation, large_offset_from
      <3>4. QED BY <2>3, <2>4, <3>1, <3>2, <3>3
    <2>7. GoodBlock(nb)
      <3>1. r <= PageSize
        BY <2>3, <2>4, <2>6
      <3>2. QED BY <2>2, <2>5, <3>1, ResizedGood
    <2>8. /\ mem' = mem
          /\ bytes' = bytes + (r - old.len)
          /\ stack_offset' = stack_offset + (r - old.len)
          /\ Succeeds("grow", h, nb)
      BY <1>2, <2>1 DEF GrowInPlace
    <2>9. /\ blocks' = [blocks EXCEPT ![h] = nb]
          /\ phase' = phase /\ page_ptr' = page_ptr
          /\ call' \in [op : Ops, ok : BOOLEAN]
      BY <2>8, SucceedsFacts DEF Ops
    <2>10. nb.addr = old.addr /\ nb.len = r
      OBVIOUS
    <2> HIDE DEF nb, r
    <2>11. /\ mem' \in [Mapped -> {Zero} \cup (Handles \X Nat)]
           /\ DataInPlace'
      <3>1. mem \in [Mapped -> Byte]
        BY Setting DEF Byte
      <3>2. Zeroized(mem, nb.addr + nb.len, 0) = mem
        <4>1. (nb.addr + nb.len) .. (nb.addr + nb.len + 0 - 1) = {}
          BY <2>3, <2>4, <2>10
        <4>2. QED BY <3>1, <4>1 DEF Zeroized
      <3>3. QED BY <2>3, <2>8, <2>9, <2>10, <3>2, ResizedData
    <2>12. bytes' = bytes - blocks[h].len + nb.len
      BY <2>3, <2>4, <2>8, <2>10
    <2>13. stack_offset' \in Nat /\ stack_offset' <= PageSize /\ stack_offset' % 8 = 0
           /\ stack_offset <= stack_offset'
      BY <2>3, <2>4, <2>5, <2>6, <2>8
    <2>14. Under(nb, stack_offset')
      BY <2>3, <2>4, <2>6, <2>8, <2>10 DEF Under
    <2>15. ASSUME NEW g \in Handles \ {h}
           PROVE  Apart(blocks[g], nb) /\ Under(blocks[g], stack_offset')
      <3> DEFINE c == blocks[g]
      <3>1. /\ c \in Block /\ c.addr \in Nat /\ c.len \in Nat
            /\ Under(c, stack_offset) /\ Apart(old, c)
        BY BlocksGood, Setting, BlockFields DEF IInv, Disjoint, Apart
      <3> HIDE DEF c
      <3>2. CASE ~PageBacked(c)
        <4>1. c.len = 0
          BY <3>1, <3>2 DEF PageBacked
        <4>2. nb \in Block
          BY <2>7 DEF GoodBlock
        <4>3. QED BY <3>1, <3>2, <4>1, <4>2, EmptyApart DEF Under, c
      <3>3. CASE PageBacked(c)
        <4>1. c.len > 0 /\ c.addr + c.len <= page_ptr + stack_offset
          BY <3>1, <3>3 DEF Under, PageBacked
        <4>2. old.addr + old.len <= c.addr \/ c.addr + c.len <= old.addr
          BY <2>4, <2>5, <3>1, <3>3, ApartOrdered
        <4>3. c.addr + c.len <= old.addr
          BY <2>4, <2>6, <3>1, <4>1, <4>2
        <4>4. Apart(c, nb)
          BY <2>3, <2>4, <2>10, <3>1, <4>3 DEF Apart, Bytes
        <4>5. Under(c, stack_offset')
          BY <2>4, <2>13, <3>1, <4>1 DEF Under
        <4>6. QED BY <4>4, <4>5 DEF c
      <3>4. QED BY <3>2, <3>3
    <2>16. QED
      BY <2>7, <2>9, <2>11, <2>12, <2>13, <2>14, <2>15, ReplaceBlock
  <1>3. QED BY <1>1, <1>2

LEMMA WriteStep ==
  ASSUME IInv, NEW h \in Handles, Write(h)
  PROVE  IInv'
  <1>1. /\ phase = "live" /\ call' = [op |-> "write", ok |-> TRUE]
        /\ UNCHANGED <<phase, page_ptr, bytes, stack_offset, blocks>>
    BY DEF Write
  <1>2. call' \in [op : Ops, ok : BOOLEAN]
    BY <1>1, CallType DEF Ops
  <1>3. /\ mem \in [Mapped -> Byte] /\ blocks[h] \in Block
    BY <1>1, Setting DEF Byte
  <1>4. mem' = [a \in Mapped |-> IF a \in Bytes(blocks[h])
                                 THEN Data(h, a - blocks[h].addr) ELSE mem[a]]
    BY <1>3 DEF Write
  <1>5. \A a \in Bytes(blocks[h]) : a - blocks[h].addr \in Nat
    BY <1>3, BlockFields DEF Bytes
  <1>6. mem' \in [Mapped -> Byte]
    BY <1>3, <1>4, <1>5 DEF Byte, Data
  <1>7. DataInPlace'
    <2>1. ASSUME NEW a \in Mapped, mem'[a] # Zero
          PROVE  \E g \in Handles : a \in Bytes(blocks[g])
                                    /\ mem'[a] = Data(g, a - blocks[g].addr)
      <3>1. CASE a \in Bytes(blocks[h])
        BY <1>4, <3>1
      <3>2. CASE a \notin Bytes(blocks[h])
        BY <1>4, <2>1, <3>2 DEF IInv, DataInPlace
      <3>3. QED BY <3>1, <3>2
    <2>2. QED BY <1>1, <2>1 DEF DataInPlace, Mapped, Bytes, Data
  <1>8. Mapped' = Mapped /\ Covered(blocks)' = Covered(blocks)
    BY <1>1 DEF Mapped, Covered
  <1>9. TypeOK'
    BY <1>1, <1>2, <1>6, <1>8 DEF IInv, TypeOK, Byte
  <1>10. PageWhenLive' /\ WholeWords' /\ LayoutHonoured'
    BY <1>1 DEF IInv, PageWhenLive, WholeWords, LayoutHonoured
  <1>11. Disjoint' /\ BelowTop' /\ consistency_check'
    BY <1>1 DEF IInv, Disjoint, BelowTop, consistency_check
  <1>12. BytesExact'
    BY <1>1, <1>8 DEF IInv, BytesExact
  <1>13. QED BY <1>7, <1>9, <1>10, <1>11, <1>12 DEF IInv

(* A page without blocks, and no page. *)
LEMMA NothingCovered ==
  /\ Covered([h \in Handles |-> NoBlock]) = {}
  /\ Cardinality({}) = 0
  <1>1. Bytes(NoBlock) = {}
    BY DEF Bytes, NoBlock
  <1>2. QED BY <1>1, FS_EmptySet DEF Covered

LEMMA EmptyStep ==
  ASSUME phase' \in {"absent", "live", "panicked"},
         page_ptr' \in PageAddrs \cup {0},
         phase' = "live" => page_ptr' # 0, phase' = "absent" => page_ptr' = 0,
         bytes' = 0, stack_offset' = 0, mem' = [a \in Mapped' |-> Zero],
         blocks' = [h \in Handles |-> NoBlock],
         call' \in [op : Ops, ok : BOOLEAN]
  PROVE  IInv'
  <1>1. PageSize \in Nat /\ UsizeSpan \in Nat /\ UsizeSpan > 0
    BY SecAllocAssumption, UtilAssumption
  <1>2. NoBlock \in Block /\ NoBlock.len = 0 /\ NoBlock.size = 0
        /\ NoBlock.addr = 0 /\ NoBlock.align = 1
    BY <1>1 DEF NoBlock, Block
  <1>3. Covered(blocks') = {} /\ Cardinality({}) = 0
    BY NothingCovered
  <1>4. \A h \in Handles : blocks'[h] = NoBlock /\ Bytes(blocks'[h]) = {}
    BY <1>2 DEF Bytes
  <1>5. TypeOK'
    <2>1. blocks' \in [Handles -> Block]
      BY <1>2
    <2>2. mem' \in [Mapped' -> {Zero} \cup (Handles \X Nat)]
      OBVIOUS
    <2>3. bytes' \in 0 .. PageSize /\ stack_offset' \in 0 .. PageSize
      BY <1>1
    <2>4. QED BY <2>1, <2>2, <2>3 DEF TypeOK, Block, Phases
  <1>6. PageWhenLive'
    BY DEF PageWhenLive, NoBlock
  <1>7. WholeWords' /\ BelowTop' /\ LayoutHonoured' /\ consistency_check'
    BY <1>2, <1>4 DEF WholeWords, BelowTop, LayoutHonoured, consistency_check, PageBacked
  <1>8. Disjoint'
    BY <1>4 DEF Disjoint, Bytes
  <1>9. BytesExact'
    BY <1>3 DEF BytesExact, Covered, Bytes
  <1>10. DataInPlace'
    BY DEF DataInPlace
  <1>11. QED BY <1>5, <1>6, <1>7, <1>8, <1>9, <1>10 DEF IInv

LEMMA NewStep ==
  ASSUME IInv, New
  PROVE  IInv'
  <1>1. CASE Fails("new")
    BY <1>1, FailsStep DEF Ops
  <1>2. CASE phase' = "live"
    <2>1. /\ phase = "absent" /\ page_ptr' \in PageAddrs
          /\ mem' = [a \in Mapped' |-> Zero] /\ bytes' = 0 /\ stack_offset' = 0
          /\ call' = [op |-> "new", ok |-> TRUE] /\ blocks' = blocks
      BY <1>2 DEF New, Fails
    <2>2. blocks' = [h \in Handles |-> NoBlock]
      BY <2>1 DEF IInv, PageWhenLive
    <2>3. page_ptr' # 0
      BY <2>1, SecAllocAssumption
    <2>4. call' \in [op : Ops, ok : BOOLEAN]
      BY <2>1, CallType DEF Ops
    <2>5. QED BY <1>2, <2>1, <2>2, <2>3, <2>4, EmptyStep
  <1>3. CASE /\ phase' = "refused" /\ call' = [op |-> "new", ok |-> FALSE]
             /\ UNCHANGED <<page_ptr, bytes, stack_offset, mem, blocks>>
    <2>1. call' \in [op : Ops, ok : BOOLEAN]
      BY <1>3, CallType DEF Ops
    <2>2. QED BY <1>3, <2>1, PageKept
  <1>4. QED BY <1>1, <1>2, <1>3 DEF New

(* Page::drop, in a drop that returns and in one that unwinds. *)
LEMMA PageDropStep ==
  ASSUME IInv, call' \in [op : Ops, ok : BOOLEAN],
         ReleasePage("absent", "refused") \/ ReleasePage("panicked", "aborted")
  PROVE  IInv'
  <1>1. CASE /\ phase' \in {"aborted", "refused"}
             /\ UNCHANGED <<page_ptr, bytes, stack_offset, mem, blocks>>
    BY <1>1, PageKept
  <1>2. CASE /\ phase' \in {"absent", "panicked"} /\ page_ptr' = 0
             /\ bytes' = 0 /\ stack_offset' = 0
             /\ mem' = [a \in Mapped' |-> Zero]
             /\ blocks' = [h \in Handles |-> NoBlock]
    BY <1>2, EmptyStep
  <1>3. QED BY <1>1, <1>2 DEF ReleasePage

LEMMA DropStep ==
  ASSUME IInv, Drop
  PROVE  IInv'
  <1>1. call' \in [op : Ops, ok : BOOLEAN]
    <2>1. call' = [op |-> "drop", ok |-> phase' = "absent"]
      BY DEF Drop
    <2>2. "drop" \in Ops /\ (phase' = "absent") \in BOOLEAN
      BY DEF Ops
    <2>3. QED BY <2>1, <2>2
  <1>2. CASE ReleasePage("absent", "refused") \/ ReleasePage("panicked", "aborted")
    BY <1>1, <1>2, PageDropStep
  <1>3. CASE /\ phase' = "aborted"
             /\ UNCHANGED <<page_ptr, bytes, stack_offset, mem, blocks>>
    BY <1>1, <1>3, PageKept
  <1>4. QED BY <1>2, <1>3 DEF Drop

-----------------------------------------------------------------------------
(* The theorems. *)

(* IInv holds of the state before any allocator is created. *)
LEMMA InitIInv == Init => IInv
  <1> SUFFICES ASSUME Init PROVE IInv
    OBVIOUS
  <1>1. PageSize \in Nat /\ UsizeSpan \in Nat /\ UsizeSpan > 0
    BY SecAllocAssumption, UtilAssumption
  <1>2. NoBlock \in Block /\ NoBlock.len = 0 /\ NoBlock.size = 0
        /\ NoBlock.addr = 0 /\ NoBlock.align = 1 /\ Bytes(NoBlock) = {}
    BY <1>1 DEF NoBlock, Block, Bytes
  <1>3. blocks = [h \in Handles |-> NoBlock] /\ bytes = 0 /\ stack_offset = 0
        /\ page_ptr = 0 /\ phase = "absent" /\ Mapped = {}
    BY DEF Init, Mapped
  <1>4. call \in [op : Ops, ok : BOOLEAN]
    BY CallType DEF Init, Ops
  <1>5. TypeOK
    <2>1. mem \in [Mapped -> {Zero} \cup (Handles \X Nat)]
      BY DEF Init
    <2>2. QED BY <1>1, <1>2, <1>3, <1>4, <2>1 DEF TypeOK, Phases
  <1>6. BytesExact
    BY <1>3, NothingCovered DEF BytesExact
  <1>7. Disjoint
    BY <1>2, <1>3 DEF Disjoint
  <1>8. PageWhenLive /\ WholeWords /\ BelowTop /\ LayoutHonoured /\ consistency_check
    BY <1>2, <1>3
    DEF PageWhenLive, WholeWords, BelowTop, LayoutHonoured, consistency_check, PageBacked
  <1>9. DataInPlace
    BY <1>3 DEF DataInPlace
  <1>10. QED BY <1>5, <1>6, <1>7, <1>8, <1>9 DEF IInv

(* Every call keeps IInv. *)
LEMMA NextIInv ==
  ASSUME IInv, [Next]_vars
  PROVE  IInv'
  <1>1. CASE UNCHANGED vars
    <2>1. call' \in [op : Ops, ok : BOOLEAN]
      BY <1>1 DEF vars, IInv, TypeOK
    <2>2. QED BY <1>1, <2>1, UnchangedStep DEF vars
  <1>2. CASE New
    BY <1>2, NewStep
  <1>3. CASE Drop
    BY <1>3, DropStep
  <1>4. ASSUME NEW h \in Handles, Write(h)
        PROVE  IInv'
    BY <1>4, WriteStep
  <1>5. ASSUME NEW h \in Handles, NEW l \in Layouts, AllocateZeroed(h, l)
        PROVE  IInv'
    <2>1. phase = "live" /\ blocks[h].addr = 0 /\ Allocate("allocate", h, l)
      BY <1>5 DEF AllocateZeroed, IsLive
    <2>2. blocks[h].len = 0
      <3>1. blocks[h] \in Block /\ page_ptr \in Nat /\ page_ptr >= 8
        BY <2>1, Setting
      <3>2. PageBacked(blocks[h]) => page_ptr <= blocks[h].addr
        BY BlocksGood DEF GoodBlock
      <3>3. QED BY <2>1, <3>1, <3>2, BlockFields DEF PageBacked
    <2>3. QED BY <2>1, <2>2, AllocateStep DEF Ops
  <1>6. ASSUME NEW h \in Handles, NEW s \in FittingSizes(h), Deallocate(h, s)
        PROVE  IInv'
    BY <1>6, ZeroSized, ReleaseStep DEF Deallocate, Ops
  <1>7. ASSUME NEW h \in Handles, NEW s \in FittingSizes(h), NEW l \in Layouts,
               ReallocShrink(h, s, l)
        PROVE  IInv'
    <2>1. phase = "live" /\ l.size <= s
          /\ Reallocate("realloc_shrink", h, s, l, l.size)
      BY <1>7 DEF ReallocShrink
    <2>2. l.size \in Nat
      BY LayoutFacts
    <2>3. QED BY <2>1, <2>2, ReallocateStep DEF Ops
  <1>8. ASSUME NEW h \in Handles, NEW s \in FittingSizes(h), NEW l \in Layouts,
               ReallocGrow(h, s, l)
        PROVE  IInv'
    <2>1. phase = "live" /\ s <= l.size /\ Reallocate("realloc_grow", h, s, l, s)
      BY <1>8 DEF ReallocGrow
    <2>2. s \in Nat
      BY <2>1, Fitting
    <2>3. QED BY <2>1, <2>2, ReallocateStep DEF Ops
  <1>9. ASSUME NEW h \in Handles, NEW s \in FittingSizes(h), NEW l \in Layouts,
               Shrink(h, s, l)
        PROVE  IInv'
    <2>1. phase = "live" /\ l.size <= s /\ l.size \in Nat
      BY <1>9, LayoutFacts DEF Shrink
    <2>2. CASE l.size = 0
      <3>1. /\ DeallocateFrom(bytes, stack_offset, mem, blocks[h].addr, s)
            /\ Succeeds("shrink", h, allocate_zerosized(l.align))
        BY <1>9, <2>2 DEF Shrink
      <3>2. QED BY <2>1, <3>1, ZeroSized, ReleaseStep DEF Ops
    <2>3. CASE l.size # 0 /\ is_aligned_ptr(blocks[h].addr, l.align)
      BY <1>9, <2>1, <2>3, ShrinkInPlaceStep DEF Shrink
    <2>4. CASE l.size # 0 /\ ~is_aligned_ptr(blocks[h].addr, l.align)
      <3>1. Reallocate("shrink", h, s, l, l.size)
        BY <1>9, <2>4 DEF Shrink
      <3>2. QED BY <2>1, <3>1, ReallocateStep DEF Ops
    <2>5. QED BY <2>2, <2>3, <2>4
  <1>10. ASSUME NEW h \in Handles, NEW s \in FittingSizes(h), NEW l \in Layouts,
                GrowZeroed(h, s, l)
         PROVE  IInv'
    <2>1. phase = "live" /\ s <= l.size /\ l.size >= s
      BY <1>10 DEF GrowZeroed
    <2>2. CASE s = 0
      <3>1. Allocate("grow", h, l)
        BY <1>10, <2>2 DEF GrowZeroed
      <3>2. blocks[h].len = 0
        BY <2>1, <2>2, Fitting
      <3>3. QED BY <2>1, <3>1, <3>2, AllocateStep DEF Ops
    <2>3. CASE /\ s # 0 /\ is_aligned_ptr(blocks[h].addr, l.align)
               /\ ptr_is_last_allocation(blocks[h].addr, Rounded(s))
      BY <1>10, <2>1, <2>3, GrowInPlaceStep DEF GrowZeroed
    <2>4. CASE /\ s # 0
               /\ ~(/\ is_aligned_ptr(blocks[h].addr, l.align)
                    /\ ptr_is_last_allocation(blocks[h].addr, Rounded(s)))
      <3>1. Reallocate("grow", h, s, l, s)
        BY <1>10, <2>4 DEF GrowZeroed
      <3>2. s \in Nat
        BY <2>1, Fitting
      <3>3. QED BY <2>1, <3>1, <3>2, ReallocateStep DEF Ops
    <2>5. QED BY <2>2, <2>3, <2>4
  <1>11. QED
    BY <1>1, <1>2, <1>3, <1>4, <1>5, <1>6, <1>7, <1>8, <1>9, <1>10 DEF Next

(***************************************************************************)
(* The inductive invariant, for every page, word size and client that      *)
(* honours the contract of the unsafe methods (src/sec_alloc.rs:310).      *)
(***************************************************************************)
THEOREM Invariance == Spec => []IInv
  <1>1. Init => IInv
    BY InitIInv
  <1>2. IInv /\ [Next]_vars => IInv'
    BY NextIInv
  <1>3. QED BY <1>1, <1>2, PTL DEF Spec

(***************************************************************************)
(* Type correctness: the counter and the stack offset never wrap nor pass  *)
(* the end of the page, and only bytes of the page are written             *)
(* (the safety invariants of the struct, src/sec_alloc.rs:87).             *)
(***************************************************************************)
THEOREM TypeCorrect == Spec => []TypeOK
  <1>1. IInv => TypeOK
    BY DEF IInv
  <1>2. QED BY <1>1, Invariance, PTL

(***************************************************************************)
(* Blocks never overlap, so the copy of a reallocation is between disjoint *)
(* ranges (src/sec_alloc.rs:255, :296).                                    *)
(***************************************************************************)
THEOREM BlocksExclusive == Spec => []Disjoint
  <1>1. IInv => Disjoint
    BY DEF IInv
  <1>2. QED BY <1>1, Invariance, PTL

(***************************************************************************)
(* Blocks are below the top of the stack, where neither a reset nor a      *)
(* rewind gives them away (src/sec_alloc.rs:461, :468).                    *)
(***************************************************************************)
THEOREM BlocksKept == Spec => []BelowTop
  <1>1. IInv => BelowTop
    BY DEF IInv
  <1>2. QED BY <1>1, Invariance, PTL

(***************************************************************************)
(* The assertions of the tests (src/sec_alloc.rs:94) hold after every      *)
(* sequence of calls.                                                      *)
(***************************************************************************)
THEOREM Consistent == Spec => []consistency_check
  <1>1. IInv => consistency_check
    BY DEF IInv
  <1>2. QED BY <1>1, Invariance, PTL

(***************************************************************************)
(* The counter is exact: deallocate resets the stack (src/sec_alloc.rs:461) *)
(* only when no block is left, and drop finds a leak iff there is one.     *)
(***************************************************************************)
THEOREM CounterExact == Spec => []BytesExact
  <1>1. IInv => BytesExact
    BY DEF IInv
  <1>2. QED BY <1>1, Invariance, PTL

(***************************************************************************)
(* No byte of a block outlives it: all that is not zero in the page is the *)
(* data of a block in use, at its index, so memory handed out is zero and  *)
(* nothing remains after a free, a shrink or a move (src/sec_alloc.rs:311). *)
(***************************************************************************)
THEOREM NothingRemains == Spec => []DataInPlace
  <1>1. IInv => DataInPlace
    BY DEF IInv
  <1>2. QED BY <1>1, Invariance, PTL

(***************************************************************************)
(* Pointers keep the alignment and size last asked for, across resizes in  *)
(* place that change the alignment (src/sec_alloc.rs:514, :601).           *)
(***************************************************************************)
THEOREM LayoutsHonoured == Spec => []LayoutHonoured
  <1>1. IInv => LayoutHonoured
    BY DEF IInv
  <1>2. QED BY <1>1, Invariance, PTL

(* The checks of drop pass exactly when no block is left on the page. *)
LEMMA DropCheckExact ==
  ASSUME IInv, phase = "live"
  PROVE  DropCheck <=> \A h \in Handles : ~PageBacked(blocks[h])
  <1>1. blocks \in [Handles -> Block] /\ DOMAIN mem = Mapped /\ bytes \in Nat
    BY Setting
  <1>2. ASSUME bytes = 0, NEW h \in Handles
        PROVE  ~PageBacked(blocks[h])
    <2>1. Cardinality(Rest(h)) \in Nat /\ Cardinality(Rest(h)) = bytes - blocks[h].len
      BY RestCard
    <2>2. blocks[h].len \in Nat
      BY <1>1, BlockFields
    <2>3. QED BY <1>2, <2>1, <2>2 DEF PageBacked
  <1>3. ASSUME \A h \in Handles : ~PageBacked(blocks[h])
        PROVE  DropCheck
    <2>1. \A h \in Handles : Bytes(blocks[h]) = {}
      <3>1. ASSUME NEW h \in Handles PROVE Bytes(blocks[h]) = {}
        <4>1. blocks[h].addr \in Nat /\ blocks[h].len = 0
          BY <1>1, <1>3, BlockFields DEF PageBacked
        <4>2. QED BY <4>1 DEF Bytes
      <3>2. QED BY <3>1
    <2>2. Covered(blocks) = {}
      BY <2>1 DEF Covered
    <2>3. bytes = 0
      BY <2>2, FS_EmptySet DEF IInv, BytesExact
    <2>4. \A a \in Mapped : mem[a] = Zero
      BY <2>1 DEF IInv, DataInPlace
    <2>5. QED BY <1>1, <2>3, <2>4 DEF DropCheck
  <1>4. QED BY <1>2, <1>3 DEF DropCheck

(* Only drop ends the life of an allocator. *)
LEMMA OnlyDropEnds ==
  ASSUME [Next]_vars, phase = "live", phase' # "live"
  PROVE  Drop
  BY DEF Next, vars, New, Write, AllocateZeroed, Deallocate, ReallocShrink, ReallocGrow,
         Shrink, GrowZeroed, ShrinkInPlace, GrowInPlace, Allocate, Reallocate,
         Succeeds, Fails

(***************************************************************************)
(* With debug assertions, with and without std, the checks of drop end the *)
(* process exactly when the client leaked memory of the page               *)
(* (src/sec_alloc.rs:120): no correct client is ever aborted by them, and  *)
(* its drops fail only in Page::drop.                                      *)
(***************************************************************************)
THEOREM LeaksReported ==
  ASSUME DebugAssertions
  PROVE  Spec => DropReportsLeaks
  <1> DEFINE Leaked == \E h \in Handles : PageBacked(blocks[h])
             Reported == phase = "live" /\ phase' # "live" =>
                           (phase' \in {"aborted", "panicked"} <=> Leaked)
  <1>1. ASSUME IInv, [Next]_vars
        PROVE  Reported
    <2> SUFFICES ASSUME phase = "live", phase' # "live"
                 PROVE  phase' \in {"aborted", "panicked"} <=> Leaked
      OBVIOUS
    <2>1. Drop
      BY <1>1, OnlyDropEnds
    <2>2. CASE DropCheck
      <3>1. ReleasePage("absent", "refused")
        BY <2>1, <2>2 DEF Drop
      <3>2. phase' \in {"absent", "refused"}
        BY <3>1 DEF ReleasePage
      <3>3. QED BY <1>1, <2>2, <3>2, DropCheckExact
    <2>3. CASE ~DropCheck
      <3>1. phase' = "aborted" \/ ReleasePage("panicked", "aborted")
        BY <2>1, <2>3 DEF Drop
      <3>2. phase' \in {"aborted", "panicked"}
        BY <3>1 DEF ReleasePage
      <3>3. QED BY <1>1, <2>3, <3>2, DropCheckExact
    <2>4. QED BY <2>2, <2>3
  <1>2. IInv /\ [Next]_vars => [Reported]_vars
    BY <1>1
  <1>3. QED BY <1>2, Invariance, PTL DEF Spec, DropReportsLeaks
=============================================================================
