----------------------- MODULE SecAllocContractProofs -----------------------
(***************************************************************************)
(* What a client of SecStackSinglePageAlloc may count on.                  *)
(*                                                                         *)
(* The allocator implements AllocatorContract: each call, seen through the *)
(* blocks and their contents, is a step of the contract.  Served says what *)
(* has to be shown of a call that resizes a block; the calls are then      *)
(* taken one by one, on states where IInv holds.                           *)
(*                                                                         *)
(* And it gives out all the room it has: a request fails only when no      *)
(* address is left for it, and an allocator without blocks has the whole   *)
(* page again.  Both follow from IInv; the second needs in addition that   *)
(* the stack is reset with the last block.                                 *)
(***************************************************************************)
EXTENDS SecAllocContract, SecAllocProofs

(* Memory of the page outside the blocks is zero. *)
LEMMA FreeIsZero ==
  ASSUME IInv, NEW a \in Mapped, \A g \in Handles : a \notin Bytes(blocks[g])
  PROVE  mem[a] = Zero
  BY DEF IInv, DataInPlace

(***************************************************************************)
(* A call that gives h the block nb has done what its contract says if the *)
(* memory of the other blocks is as it was, and each byte of nb is the one *)
(* at its index before or, past the first n, zero.                         *)
(***************************************************************************)
LEMMA Served ==
  ASSUME IInv, IInv', NEW h \in Handles, NEW l \in Layouts, NEW n \in Nat, NEW nb,
         blocks' = [blocks EXCEPT ![h] = nb],
         nb.addr # 0, nb.size = l.size, nb.align = l.align, call'.ok,
         \A g \in Handles \ {h} : \A a \in Bytes(blocks[g]) : mem'[a] = mem[a],
         \A i \in 0 .. (nb.len - 1) :
           \/ i < blocks[h].len /\ mem'[nb.addr + i] = mem[blocks[h].addr + i]
           \/ i >= n /\ mem'[nb.addr + i] = Zero
  PROVE  Contract!Resized(h, l, n, {Zero})
  <1>1. /\ blocks \in [Handles -> Block] /\ blocks' \in [Handles -> Block]
        /\ blocks'[h] = nb /\ nb \in Block
        /\ \A g \in Handles \ {h} : blocks'[g] = blocks[g]
    BY DEF IInv, TypeOK, Block
  <1>2. Contract!GoodBlock(h, l)
    <2>1. \A g \in Handles \ {h} : Bytes(nb) \cap Bytes(blocks'[g]) = {}
      BY <1>1 DEF IInv, Disjoint, Bytes
    <2>2. nb.addr % l.align = 0 /\ nb.len >= l.size
      BY <1>1 DEF IInv, LayoutHonoured
    <2>3. QED BY <1>1, <2>1, <2>2 DEF Contract!GoodBlock, Contract!CBytes, Bytes
  <1>3. Contract!Kept(h, n, {Zero})
    <2>1. 0 .. (blocks[h].len - 1) = {i \in Nat : i < blocks[h].len}
      BY <1>1, BlockFields
    <2>2. QED BY <1>1, <2>1 DEF Contract!Kept, contents
  <1>4. Contract!OthersUntouched(h)
    <2>1. ASSUME NEW g \in Handles \ {h}
          PROVE  \A i \in 0 .. (blocks[g].len - 1) :
                   mem'[blocks[g].addr + i] = mem[blocks[g].addr + i]
      <3>1. blocks[g].addr \in Nat /\ blocks[g].len \in Nat
        BY <1>1, BlockFields
      <3>2. QED BY <3>1 DEF Bytes
    <2>2. QED BY <1>1, <2>1 DEF Contract!OthersUntouched, contents
  <1>5. QED BY <1>2, <1>3, <1>4 DEF Contract!Resized

(* An error leaves everything as it was. *)
LEMMA Refused ==
  ASSUME NEW op, Fails(op), NEW h, NEW l, NEW n, NEW new
  PROVE  Contract!Resized(h, l, n, new) /\ call'.op = op
  BY DEF Fails, Contract!Resized, contents

(* What is granted is zero before it is. *)
LEMMA GrantIsZero ==
  ASSUME IInv, phase = "live", NEW l \in Layouts, CanAllocate(l)
  PROVE  Bytes(Granted(l)) \subseteq Mapped /\ \A a \in Bytes(Granted(l)) : mem[a] = Zero
  <1>1. /\ GoodBlock(Granted(l)) /\ Under(Granted(l), OffsetGranted(l))
        /\ OffsetGranted(l) \in Nat /\ OffsetGranted(l) <= PageSize
    BY Grant
  <1>2. Bytes(Granted(l)) \subseteq Mapped
    BY <1>1, BlockInPage
  <1>3. \A g \in Handles : Apart(blocks[g], Granted(l))
    BY GrantApart
  <1>4. QED BY <1>2, <1>3, FreeIsZero DEF Apart

LEMMA AllocateServed ==
  ASSUME IInv, IInv', phase = "live", NEW h \in Handles, NEW l \in Layouts,
         NEW op, Allocate(op, h, l)
  PROVE  Contract!Resized(h, l, 0, {Zero}) /\ call'.op = op
  <1>1. CASE ~CanAllocate(l)
    BY <1>1, Refused DEF Allocate
  <1>2. CASE CanAllocate(l)
    <2> DEFINE nb == Granted(l)
    <2>1. /\ blocks' = [blocks EXCEPT ![h] = nb] /\ mem' = mem
          /\ call' = [op |-> op, ok |-> TRUE]
      BY <1>2 DEF Allocate, Succeeds
    <2>2. nb.addr # 0 /\ nb.size = l.size /\ nb.align = l.align /\ nb \in Block
      BY <1>2, Grant DEF GoodBlock
    <2>3. \A i \in 0 .. (nb.len - 1) : i >= 0 /\ nb.addr + i \in Bytes(nb)
      <3>1. nb.addr \in Nat /\ nb.len \in Nat
        BY <2>2, BlockFields
      <3>2. QED BY <3>1 DEF Bytes
    <2>4. \A a \in Bytes(nb) : mem[a] = Zero
      BY <1>2, GrantIsZero
    <2> HIDE DEF nb
    <2>5. QED BY <2>1, <2>2, <2>3, <2>4, Served
  <1>3. QED BY <1>1, <1>2

(* The bytes of other blocks lie outside the old block and the one granted. *)
LEMMA ReallocateServed ==
  ASSUME IInv, IInv', phase = "live", NEW h \in Handles, NEW s \in FittingSizes(h),
         NEW l \in Layouts, NEW copied \in Nat, copied <= s, copied <= l.size,
         NEW op, Reallocate(op, h, s, l, copied)
  PROVE  Contract!Resized(h, l, copied, {Zero}) /\ call'.op = op
  <1>1. CASE ~CanAllocate(l)
    BY <1>1, Refused DEF Reallocate
  <1>2. CASE CanAllocate(l)
    <2> DEFINE old == blocks[h]
               nb == Granted(l)
               m == Copied(mem, old.addr, nb.addr, copied)
    <2>1. /\ blocks' = [blocks EXCEPT ![h] = nb]
          /\ call' = [op |-> op, ok |-> TRUE]
          /\ DeallocateFrom(BytesGranted(l), OffsetGranted(l), m, old.addr, s)
      BY <1>2 DEF Reallocate, Succeeds
    <2>2. /\ nb.addr # 0 /\ nb.size = l.size /\ nb.align = l.align /\ GoodBlock(nb)
          /\ OffsetGranted(l) \in Nat /\ OffsetGranted(l) <= PageSize
          /\ OffsetGranted(l) % 8 = 0
      BY <1>2, Grant
    <2>3. \A g \in Handles : Apart(blocks[g], nb) /\ Under(blocks[g], OffsetGranted(l))
      BY <1>2, GrantApart
    <2>4. Bytes(nb) \subseteq Mapped /\ \A a \in Bytes(nb) : mem[a] = Zero
      BY <1>2, GrantIsZero
    <2> HIDE DEF nb, m
    <2>5. mem' = Zeroized(m, old.addr, old.len)
      BY <2>1, <2>2, <2>3, DeallocateFacts
    <2>6. /\ old \in Block /\ nb \in Block /\ mem \in [Mapped -> Byte]
          /\ old.addr \in Nat /\ nb.addr \in Nat /\ old.len \in Nat /\ nb.len \in Nat
      BY <2>2, Setting, BlockFields DEF GoodBlock, Byte
    <2>7. copied <= old.len /\ copied <= nb.len
      <3>1. s <= old.len /\ s \in Nat
        BY Fitting
      <3>2. l.size <= nb.len /\ l.size \in Nat
        BY <2>2, LayoutFacts DEF GoodBlock
      <3>3. QED BY <2>6, <3>1, <3>2
    <2>8. \A g \in Handles : Bytes(blocks[g]) \subseteq Mapped
      BY BlocksGood, BlockInPage, Setting
    <2>9. /\ m \in [Mapped -> Byte]
          /\ \A a \in Mapped : m[a] =
               IF a \in nb.addr .. (nb.addr + copied - 1)
               THEN mem[a - nb.addr + old.addr] ELSE mem[a]
      <3>1. \A a \in Mapped : a \in nb.addr .. (nb.addr + copied - 1) =>
              a - nb.addr + old.addr \in Bytes(old)
        BY <2>6, <2>7 DEF Bytes
      <3>2. QED BY <2>6, <2>8, <3>1, CopiedType DEF m
    <2>10. \A a \in Mapped : mem'[a] = IF a \in Bytes(old) THEN Zero ELSE m[a]
      BY <2>5, <2>9, ZeroizedType DEF Bytes
    <2>11. ASSUME NEW g \in Handles \ {h}, NEW a \in Bytes(blocks[g])
           PROVE  mem'[a] = mem[a]
      <3>1. a \notin Bytes(old) /\ a \notin Bytes(nb) /\ a \in Mapped
        BY <2>3, <2>8, <2>11 DEF IInv, Disjoint, Apart
      <3>2. a \notin nb.addr .. (nb.addr + copied - 1)
        BY <2>6, <2>7, <3>1 DEF Bytes
      <3>3. QED BY <2>9, <2>10, <3>1, <3>2
    <2>12. ASSUME NEW i \in 0 .. (nb.len - 1)
           PROVE  \/ i < old.len /\ mem'[nb.addr + i] = mem[old.addr + i]
                  \/ i >= copied /\ mem'[nb.addr + i] = Zero
      <3> DEFINE a == nb.addr + i
      <3>1. a \in Bytes(nb) /\ a - nb.addr + old.addr = old.addr + i
        BY <2>6 DEF Bytes
      <3>2. a \in Mapped /\ a \notin Bytes(old) /\ mem[a] = Zero
        BY <2>3, <2>4, <3>1 DEF Apart
      <3>3. a \in nb.addr .. (nb.addr + copied - 1) <=> i < copied
        BY <2>6, <2>7
      <3> HIDE DEF a
      <3>4. mem'[a] = IF i < copied THEN mem[old.addr + i] ELSE Zero
        BY <2>9, <2>10, <3>1, <3>2, <3>3
      <3>5. QED BY <2>6, <2>7, <3>4 DEF a
    <2>13. QED BY <2>1, <2>2, <2>11, <2>12, Served
  <1>3. QED BY <1>1, <1>2

(* A deallocation leaves the contents of all other blocks. *)
LEMMA ReleasedElsewhere ==
  ASSUME IInv, phase = "live", NEW h \in Handles, NEW s \in FittingSizes(h),
         DeallocateFrom(bytes, stack_offset, mem, blocks[h].addr, s)
  PROVE  \A g \in Handles \ {h} : \A a \in Bytes(blocks[g]) : mem'[a] = mem[a]
  <1>1. mem' = Zeroized(mem, blocks[h].addr, blocks[h].len)
    <2>1. /\ stack_offset \in Nat /\ stack_offset <= PageSize /\ stack_offset % 8 = 0
          /\ Under(blocks[h], stack_offset)
      BY Setting, BlocksGood
    <2>2. QED BY <2>1, DeallocateFacts
  <1>2. \A a \in Mapped : mem'[a] = IF a \in Bytes(blocks[h]) THEN Zero ELSE mem[a]
    BY <1>1, Setting, ZeroizedType DEF Byte, Bytes
  <1>3. ASSUME NEW g \in Handles \ {h}, NEW a \in Bytes(blocks[g])
        PROVE  mem'[a] = mem[a]
    <2>1. a \in Mapped
      BY BlocksGood, BlockInPage, Setting
    <2>2. a \notin Bytes(blocks[h])
      BY DEF IInv, Disjoint
    <2>3. QED BY <1>2, <2>1, <2>2
  <1>4. QED BY <1>3

(* A shrink to nothing leaves a block that has no contents. *)
LEMMA EmptiedServed ==
  ASSUME IInv, IInv', phase = "live", NEW h \in Handles, NEW s \in FittingSizes(h),
         NEW l \in Layouts, l.size = 0, NEW op,
         DeallocateFrom(bytes, stack_offset, mem, blocks[h].addr, s),
         Succeeds(op, h, allocate_zerosized(l.align))
  PROVE  Contract!Resized(h, l, l.size, {Zero}) /\ call'.op = op
  <1> DEFINE nb == allocate_zerosized(l.align)
  <1>1. nb.addr # 0 /\ nb.size = l.size /\ nb.align = l.align /\ nb.len = 0
    BY LayoutFacts DEF allocate_zerosized
  <1>2. blocks' = [blocks EXCEPT ![h] = nb] /\ call' = [op |-> op, ok |-> TRUE]
    BY DEF Succeeds
  <1>3. \A g \in Handles \ {h} : \A a \in Bytes(blocks[g]) : mem'[a] = mem[a]
    BY ReleasedElsewhere
  <1>4. 0 .. (nb.len - 1) = {} /\ l.size \in Nat
    BY <1>1, LayoutFacts
  <1> HIDE DEF nb
  <1>5. QED BY <1>1, <1>2, <1>3, <1>4, Served

LEMMA ShrinkInPlaceServed ==
  ASSUME IInv, IInv', phase = "live", NEW h \in Handles, NEW s \in FittingSizes(h),
         NEW l \in Layouts, l.size # 0, l.size <= s, blocks[h].addr # 0,
         ShrinkInPlace(h, s, l)
  PROVE  Contract!Resized(h, l, l.size, {Zero}) /\ call'.op = "shrink"
  <1> DEFINE old == blocks[h]
             r == Rounded(l.size)
             nb == [addr |-> old.addr, size |-> l.size, align |-> l.align, len |-> r]
  <1>1. s \in Nat /\ s + 7 < UsizeSpan /\ s <= old.len /\ Rounded(s) = old.len
    BY Fitting
  <1>2. l.size \in Nat /\ l.size + 7 < UsizeSpan
    BY LayoutFacts
  <1>3. r \in Nat /\ r <= old.len
    BY <1>1, <1>2, RoundedFacts, RoundUp8Monotone DEF Rounded
  <1>4. /\ mem' = Zeroized(mem, old.addr + r, old.len - r)
        /\ blocks' = [blocks EXCEPT ![h] = nb]
        /\ call' = [op |-> "shrink", ok |-> TRUE]
    BY <1>1 DEF ShrinkInPlace, Succeeds
  <1>5. mem \in [Mapped -> Byte] /\ old \in Block /\ old.addr \in Nat /\ old.len \in Nat
    BY Setting, BlockFields DEF Byte
  <1>6. \A g \in Handles : Bytes(blocks[g]) \subseteq Mapped
    BY BlocksGood, BlockInPage, Setting
  <1>7. nb.addr = old.addr /\ nb.size = l.size /\ nb.align = l.align /\ nb.len = r
    OBVIOUS
  <1> HIDE DEF nb, r
  <1>8. \A a \in Mapped : mem'[a] =
          IF a \in (old.addr + r) .. (old.addr + r + (old.len - r) - 1)
          THEN Zero ELSE mem[a]
    BY <1>4, <1>5, ZeroizedType
  <1>9. (old.addr + r) .. (old.addr + r + (old.len - r) - 1) \subseteq Bytes(old)
    BY <1>3, <1>5 DEF Bytes
  <1>10. ASSUME NEW g \in Handles \ {h}, NEW a \in Bytes(blocks[g])
         PROVE  mem'[a] = mem[a]
    <2>1. a \in Mapped /\ a \notin Bytes(old)
      BY <1>6 DEF IInv, Disjoint
    <2>2. QED BY <1>8, <1>9, <2>1
  <1>11. ASSUME NEW i \in 0 .. (nb.len - 1)
         PROVE  i < old.len /\ mem'[nb.addr + i] = mem[old.addr + i]
    <2>1. /\ i < old.len /\ old.addr + i \in Bytes(old)
          /\ old.addr + i \notin (old.addr + r) .. (old.addr + r + (old.len - r) - 1)
      BY <1>3, <1>5, <1>7 DEF Bytes
    <2>2. old.addr + i \in Mapped
      BY <1>6, <2>1
    <2>3. QED BY <1>7, <1>8, <2>1, <2>2
  <1>12. QED BY <1>2, <1>4, <1>7, <1>10, <1>11, Served

(* Behind the last block memory is free, hence zero. *)
LEMMA GrowInPlaceServed ==
  ASSUME IInv, IInv', phase = "live", NEW h \in Handles, NEW s \in FittingSizes(h),
         NEW l \in Layouts, s # 0, blocks[h].addr # 0, GrowInPlace(h, s, l)
  PROVE  Contract!Resized(h, l, s, {Zero}) /\ call'.op = "grow"
  <1> DEFINE old == blocks[h]
             nb == [addr |-> old.addr, size |-> l.size, align |-> l.align,
                    len |-> Rounded(l.size)]
  <1>1. CASE Fails("grow")
    BY <1>1, Refused
  <1>2. CASE ~Fails("grow")
    <2>1. /\ mem' = mem /\ Succeeds("grow", h, nb)
      BY <1>2 DEF GrowInPlace
    <2>2. /\ blocks' = [blocks EXCEPT ![h] = nb] /\ page_ptr' = page_ptr /\ phase' = phase
          /\ call' = [op |-> "grow", ok |-> TRUE]
      BY <2>1 DEF Succeeds
    <2>3. nb.addr = old.addr /\ nb.size = l.size /\ nb.align = l.align
      OBVIOUS
    <2>4. blocks'[h] = nb /\ \A g \in Handles \ {h} : blocks'[g] = blocks[g]
      BY <2>2, Setting
    <2>5. /\ old.addr \in Nat /\ old.len \in Nat /\ nb.len \in Nat
      BY <2>4, Setting, BlockFields, RoundedFacts, LayoutFacts
    <2>6. /\ s <= old.len /\ s \in Nat /\ PageBacked(old)
      BY <2>5, Fitting DEF PageBacked
    <2>7. /\ Mapped = page_ptr .. (page_ptr + PageSize - 1)
          /\ page_ptr \in Nat /\ PageSize \in Nat /\ page_ptr <= old.addr
          /\ old.addr + nb.len <= page_ptr + PageSize
      <3>1. page_ptr <= old.addr /\ page_ptr \in Nat /\ PageSize \in Nat
        BY <2>6, BlocksGood, Setting DEF GoodBlock
      <3>2. nb.len <= PageSize - (old.addr - page_ptr)
        BY <1>2 DEF GrowInPlace, RoomToGrow, large_offset_from
      <3>3. QED BY <2>5, <3>1, <3>2, Setting
    <2> HIDE DEF nb
    <2>8. ASSUME NEW i \in 0 .. (nb.len - 1)
          PROVE  \/ i < old.len /\ mem'[nb.addr + i] = mem[old.addr + i]
                 \/ i >= s /\ mem'[nb.addr + i] = Zero
      <3>1. CASE i < old.len
        BY <2>1, <2>3, <3>1
      <3>2. CASE i >= old.len
        <4> DEFINE a == old.addr + i
        <4>1. a \in Mapped /\ a \notin Bytes(old) /\ a \in Bytes(nb) /\ i >= s
          <5>1. i \in Nat /\ i < nb.len /\ i >= s
            BY <2>5, <2>6, <3>2
          <5>2. a \in page_ptr .. (page_ptr + PageSize - 1)
            BY <2>5, <2>7, <5>1
          <5>3. a \notin Bytes(old)
            BY <2>5, <3>2, <5>1 DEF Bytes
          <5>4. a \in Bytes(nb)
            BY <2>3, <2>5, <5>1 DEF Bytes
          <5>5. QED BY <2>7, <5>1, <5>2, <5>3, <5>4
        <4>2. ASSUME NEW g \in Handles \ {h}
              PROVE  a \notin Bytes(blocks[g])
          <5>1. Bytes(blocks'[g]) \cap Bytes(blocks'[h]) = {}
            BY DEF IInv, Disjoint, Bytes
          <5>2. QED BY <2>4, <4>1, <5>1
        <4> HIDE DEF a
        <4>3. mem[a] = Zero
          BY <4>1, <4>2, FreeIsZero
        <4>4. QED BY <2>1, <2>3, <4>1, <4>3 DEF a
      <3>3. QED BY <2>5, <3>1, <3>2
    <2>9. QED BY <2>1, <2>2, <2>3, <2>6, <2>8, Served
  <1>3. QED BY <1>1, <1>2

-----------------------------------------------------------------------------
(* The other calls. *)

(* Contents that changed for h only. *)
LEMMA ContentsExcept ==
  ASSUME NEW h \in Handles, NEW c, contents'[h] = c,
         \A g \in Handles \ {h} : contents'[g] = contents[g]
  PROVE  contents' = [contents EXCEPT ![h] = c]
  <1>1. \A g \in Handles : contents'[g] = [contents EXCEPT ![h] = c][g]
    BY DEF contents
  <1>2. DOMAIN contents = Handles /\ DOMAIN contents' = Handles
    BY DEF contents
  <1>3. contents' = [g \in Handles |-> contents'[g]]
    BY <1>2 DEF contents
  <1>4. QED BY <1>1, <1>2, <1>3

LEMMA DeallocateServed ==
  ASSUME IInv, IInv', phase = "live", NEW h \in Handles, NEW s \in FittingSizes(h),
         Deallocate(h, s)
  PROVE  Contract!CDeallocate(h, s) /\ call'.op = "deallocate"
  <1>1. /\ blocks[h].addr # 0 /\ blocks' = [blocks EXCEPT ![h] = NoBlock]
        /\ call' = [op |-> "deallocate", ok |-> TRUE]
        /\ DeallocateFrom(bytes, stack_offset, mem, blocks[h].addr, s)
    BY DEF Deallocate, IsLive, Succeeds
  <1>2. /\ blocks'[h] = NoBlock /\ \A g \in Handles \ {h} : blocks'[g] = blocks[g]
    BY <1>1, Setting
  <1>3. \A g \in Handles \ {h} : \A a \in Bytes(blocks[g]) : mem'[a] = mem[a]
    BY <1>1, ReleasedElsewhere
  <1> DEFINE empty == [i \in {} |-> Zero]
  <1>4. contents' = [contents EXCEPT ![h] = empty]
    <2>1. contents'[h] = empty
      BY <1>2 DEF NoBlock, contents
    <2>2. ASSUME NEW g \in Handles \ {h}
          PROVE  contents'[g] = contents[g]
      <3>1. blocks[g].addr \in Nat /\ blocks[g].len \in Nat
        BY Setting, BlockFields
      <3>2. \A i \in 0 .. (blocks[g].len - 1) :
              mem'[blocks[g].addr + i] = mem[blocks[g].addr + i]
        BY <1>3, <3>1 DEF Bytes
      <3>3. QED BY <1>2, <3>2 DEF contents
    <2> HIDE DEF empty
    <2>3. QED BY <2>1, <2>2, ContentsExcept
  <1>5. Contract!FittingSize(h, s)
    BY Fitting DEF Contract!FittingSize
  <1>6. QED
    BY <1>1, <1>4, <1>5
    DEF Contract!CDeallocate, Contract!Held, Contract!CNoBlock, NoBlock

LEMMA WriteServed ==
  ASSUME IInv, NEW h \in Handles, Write(h)
  PROVE  Contract!CWrite(h) /\ call'.op = "write"
  <1>1. /\ phase = "live" /\ blocks' = blocks /\ blocks[h].len > 0
        /\ call' = [op |-> "write", ok |-> TRUE]
        /\ mem' = [a \in DOMAIN mem |-> IF a \in Bytes(blocks[h])
                                        THEN Data(h, a - blocks[h].addr) ELSE mem[a]]
    BY DEF Write
  <1>2. /\ DOMAIN mem = Mapped /\ blocks \in [Handles -> Block]
        /\ page_ptr \in Nat /\ page_ptr >= 8
    BY <1>1, Setting
  <1>3. \A g \in Handles : Bytes(blocks[g]) \subseteq Mapped
    BY <1>1, BlocksGood, BlockInPage, Setting
  <1> DEFINE filled == Contract!Filled(h, blocks[h].len, contents[h])
  <1>4. \A g \in Handles : blocks[g].addr \in Nat /\ blocks[g].len \in Nat
    BY <1>2, BlockFields
  <1>5. contents'[h] = filled
    <2>1. ASSUME NEW i \in 0 .. (blocks[h].len - 1)
          PROVE  mem'[blocks[h].addr + i] = <<h, i>> /\ i < blocks[h].len
      <3>1. blocks[h].addr + i \in Bytes(blocks[h]) /\ blocks[h].addr + i - blocks[h].addr = i
        BY <1>4 DEF Bytes
      <3>2. i < blocks[h].len
        BY <1>4
      <3>3. blocks[h].addr + i \in DOMAIN mem
        BY <1>2, <1>3, <3>1
      <3> DEFINE a == blocks[h].addr + i
      <3> HIDE DEF a
      <3>4. a \in Bytes(blocks[h]) /\ a \in DOMAIN mem /\ a - blocks[h].addr = i
        BY <1>4, <3>1, <3>3 DEF a
      <3>5. mem'[a] = <<h, a - blocks[h].addr>>
        BY <1>1, <3>4 DEF Data
      <3>6. QED BY <3>2, <3>4, <3>5 DEF a
    <2>2. DOMAIN contents[h] = 0 .. (blocks[h].len - 1)
      BY DEF contents
    <2>3. QED BY <1>1, <2>1, <2>2 DEF Contract!Filled, contents
  <1>6. ASSUME NEW g \in Handles \ {h}
        PROVE  contents'[g] = contents[g]
    <2>1. \A i \in 0 .. (blocks[g].len - 1) : blocks[g].addr + i \in Bytes(blocks[g])
      BY <1>4 DEF Bytes
    <2>2. Bytes(blocks[g]) \cap Bytes(blocks[h]) = {}
      BY DEF IInv, Disjoint
    <2>3. \A i \in 0 .. (blocks[g].len - 1) : mem'[blocks[g].addr + i] = mem[blocks[g].addr + i]
      BY <1>1, <1>2, <1>3, <2>1, <2>2
    <2>4. QED BY <1>1, <2>3 DEF contents
  <1>7. contents' = [contents EXCEPT ![h] = filled]
    <2> HIDE DEF filled
    <2>1. QED BY <1>5, <1>6, ContentsExcept
  <1>8. PICK n \in blocks[h].size .. blocks[h].len : n = blocks[h].len
    BY <1>2, BlockFields DEF IInv, LayoutHonoured
  <1>9. blocks[h].addr # 0
    BY <1>1, <1>2, BlocksGood DEF GoodBlock, PageBacked
  <1>10. Contract!FilledUpTo(h, n)
    BY <1>7, <1>8 DEF Contract!FilledUpTo
  <1>11. QED BY <1>1, <1>9, <1>10 DEF Contract!CWrite, Contract!Held

LEMMA EmptyContents ==
  /\ blocks = [h \in Handles |-> NoBlock] =>
       contents = [h \in Handles |-> [i \in {} |-> Zero]]
  /\ blocks' = [h \in Handles |-> NoBlock] =>
       contents' = [h \in Handles |-> [i \in {} |-> Zero]]
  <1>1. 0 .. (NoBlock.len - 1) = {}
    BY DEF NoBlock
  <1>2. QED BY <1>1 DEF contents

LEMMA NewServed ==
  ASSUME IInv, New
  PROVE  Contract!CNew
  <1>1. CASE Fails("new")
    BY <1>1 DEF Fails, Contract!CNew, contents
  <1>2. CASE ~Fails("new")
    <2>1. blocks' = blocks /\ phase = "absent"
      BY <1>2 DEF New
    <2>2. \E ok \in BOOLEAN : call' = [op |-> "new", ok |-> ok]
      BY <1>2 DEF New
    <2>3. blocks = [h \in Handles |-> NoBlock]
      BY <2>1 DEF IInv, PageWhenLive
    <2>4. contents' = contents
      BY <2>1, <2>3, EmptyContents
    <2>5. QED BY <2>1, <2>2, <2>4 DEF Contract!CNew
  <1>3. QED BY <1>1, <1>2

LEMMA DropServed ==
  ASSUME Drop
  PROVE  Contract!CDrop
  <1>1. \E ok \in BOOLEAN : call' = [op |-> "drop", ok |-> ok]
    BY DEF Drop
  <1>2. CASE blocks' = [h \in Handles |-> NoBlock]
    BY <1>1, <1>2, EmptyContents DEF Contract!CDrop, Contract!CNoBlock, NoBlock
  <1>3. CASE blocks' = blocks /\ mem' = mem
    BY <1>1, <1>3 DEF Contract!CDrop, contents
  <1>4. QED BY <1>2, <1>3 DEF Drop, ReleasePage

LEMMA AllocateZeroedServed ==
  ASSUME IInv, IInv', NEW h \in Handles, NEW l \in Layouts, AllocateZeroed(h, l)
  PROVE  Contract!CAllocate(h, l, {Zero}) /\ call'.op = "allocate"
  BY AllocateServed
  DEF AllocateZeroed, IsLive, Contract!CAllocate, Contract!Held

LEMMA ShrinkServed ==
  ASSUME IInv, IInv', NEW h \in Handles, NEW s \in FittingSizes(h), NEW l \in Layouts,
         Shrink(h, s, l) \/ ReallocShrink(h, s, l)
  PROVE  Contract!CShrink(h, s, l) /\ call'.op \in {"shrink", "realloc_shrink"}
  <1>1. phase = "live" /\ blocks[h].addr # 0 /\ l.size <= s
    BY DEF Shrink, ReallocShrink, IsLive
  <1>2. l.size \in Nat /\ l.size <= l.size
    BY LayoutFacts
  <1>3. Contract!Held(h) /\ Contract!FittingSize(h, s)
    BY <1>1, Fitting DEF Contract!Held, Contract!FittingSize
  <1>4. CASE ReallocShrink(h, s, l)
    <2>1. Reallocate("realloc_shrink", h, s, l, l.size)
      BY <1>4 DEF ReallocShrink
    <2>2. QED BY <1>1, <1>2, <1>3, <2>1, ReallocateServed DEF Contract!CShrink
  <1>5. CASE Shrink(h, s, l)
    <2>1. CASE l.size = 0
      <3>1. /\ DeallocateFrom(bytes, stack_offset, mem, blocks[h].addr, s)
            /\ Succeeds("shrink", h, allocate_zerosized(l.align))
        BY <1>5, <2>1 DEF Shrink
      <3>2. QED BY <1>1, <1>3, <2>1, <3>1, EmptiedServed DEF Contract!CShrink
    <2>2. CASE l.size # 0 /\ is_aligned_ptr(blocks[h].addr, l.align)
      <3>1. ShrinkInPlace(h, s, l)
        BY <1>5, <2>2 DEF Shrink
      <3>2. QED BY <1>1, <1>3, <2>2, <3>1, ShrinkInPlaceServed DEF Contract!CShrink
    <2>3. CASE l.size # 0 /\ ~is_aligned_ptr(blocks[h].addr, l.align)
      <3>1. Reallocate("shrink", h, s, l, l.size)
        BY <1>5, <2>3 DEF Shrink
      <3>2. QED BY <1>1, <1>2, <1>3, <3>1, ReallocateServed DEF Contract!CShrink
    <2>4. QED BY <2>1, <2>2, <2>3
  <1>6. QED BY <1>4, <1>5

LEMMA GrowServed ==
  ASSUME IInv, IInv', NEW h \in Handles, NEW s \in FittingSizes(h), NEW l \in Layouts,
         GrowZeroed(h, s, l) \/ ReallocGrow(h, s, l)
  PROVE  Contract!CGrow(h, s, l, {Zero}) /\ call'.op \in {"grow", "realloc_grow"}
  <1>1. phase = "live" /\ blocks[h].addr # 0 /\ l.size >= s
    BY DEF GrowZeroed, ReallocGrow, IsLive
  <1>2. s \in Nat /\ s <= s /\ s <= l.size
    BY <1>1, Fitting, LayoutFacts
  <1>3. Contract!Held(h) /\ Contract!FittingSize(h, s)
    BY <1>1, Fitting DEF Contract!Held, Contract!FittingSize
  <1> DEFINE in_place == /\ is_aligned_ptr(blocks[h].addr, l.align)
                         /\ ptr_is_last_allocation(blocks[h].addr, Rounded(s))
  <1>4. CASE Reallocate("grow", h, s, l, s) \/ Reallocate("realloc_grow", h, s, l, s)
    BY <1>1, <1>2, <1>3, <1>4, ReallocateServed DEF Contract!CGrow
  <1>5. CASE s = 0 /\ Allocate("grow", h, l)
    BY <1>1, <1>3, <1>5, AllocateServed DEF Contract!CGrow
  <1>6. CASE s # 0 /\ GrowInPlace(h, s, l)
    BY <1>1, <1>3, <1>6, GrowInPlaceServed DEF Contract!CGrow
  <1>7. QED BY <1>4, <1>5, <1>6 DEF GrowZeroed, ReallocGrow

-----------------------------------------------------------------------------
LEMMA InitServed ==
  ASSUME Init
  PROVE  Contract!CInit
  BY EmptyContents DEF Init, Contract!CInit, Contract!CNoBlock, NoBlock

LEMMA StepServed ==
  ASSUME IInv, IInv', [Next]_vars
  PROVE  [Contract!CNext]_(Contract!cvars)
  <1> USE DEF Contract!CNext
  <1>1. CASE New
    BY <1>1, NewServed
  <1>2. CASE Drop
    BY <1>2, DropServed
  <1>3. ASSUME NEW h \in Handles, Write(h)
        PROVE  Contract!CNext
    BY <1>3, WriteServed
  <1>4. ASSUME NEW h \in Handles, NEW l \in Layouts, AllocateZeroed(h, l)
        PROVE  Contract!CNext
    BY <1>4, AllocateZeroedServed DEF Contract!Layouts, Layouts
  <1>5. ASSUME NEW h \in Handles, NEW s \in FittingSizes(h), Deallocate(h, s)
        PROVE  Contract!CNext
    <2>1. s \in Sizes /\ phase = "live"
      BY <1>5 DEF FittingSizes, Deallocate
    <2>2. QED BY <1>5, <2>1, DeallocateServed
  <1>6. ASSUME NEW h \in Handles, NEW s \in FittingSizes(h), NEW l \in Layouts,
               Shrink(h, s, l) \/ ReallocShrink(h, s, l)
        PROVE  Contract!CNext
    <2>1. s \in Sizes /\ l \in Contract!Layouts
      BY <1>6 DEF FittingSizes, Contract!Layouts, Layouts
    <2>2. QED BY <1>6, <2>1, ShrinkServed
  <1>7. ASSUME NEW h \in Handles, NEW s \in FittingSizes(h), NEW l \in Layouts,
               GrowZeroed(h, s, l) \/ ReallocGrow(h, s, l)
        PROVE  Contract!CNext
    <2>1. s \in Sizes /\ l \in Contract!Layouts
      BY <1>7 DEF FittingSizes, Contract!Layouts, Layouts
    <2>2. QED BY <1>7, <2>1, GrowServed
  <1>8. CASE UNCHANGED vars
    BY <1>8 DEF vars, Contract!cvars, contents
  <1>9. QED BY <1>1, <1>2, <1>3, <1>4, <1>5, <1>6, <1>7, <1>8 DEF Next

(***************************************************************************)
(* SecStackSinglePageAlloc honours the Allocator contract, on a page of    *)
(* any size at any address: a block is aligned, long enough and apart from *)
(* the others, keeps its contents when it is resized and is otherwise made *)
(* of zeroes, no call concerns another block, an error changes nothing.    *)
(***************************************************************************)
THEOREM ImplementsContract == Spec => ImplementsAllocator
  <1>1. Init => Contract!CInit
    BY InitServed
  <1>2. IInv /\ IInv' /\ [Next]_vars => [Contract!CNext]_(Contract!cvars)
    BY StepServed
  <1>3. QED
    BY <1>1, <1>2, Invariance, PTL
    DEF Spec, ImplementsAllocator, Contract!ContractSpec

-----------------------------------------------------------------------------
(***************************************************************************)
(* "Allocation functions return errors when the requested allocation does  *)
(* not fit what is left of the backing page" (src/sec_alloc.rs:57), and    *)
(* only then, whatever the alignment and however close the page is to the  *)
(* end of the address space (:375).                                        *)
(***************************************************************************)
THEOREM RefusedWhenFull == Spec => []RefusedOnlyWhenFull
  <1>1. ASSUME IInv
        PROVE  RefusedOnlyWhenFull
    <2> SUFFICES ASSUME phase = "live", NEW l \in Layouts, l.size > 0
        PROVE  LET top  == page_ptr + stack_offset
                   end  == page_ptr + PageSize
                   room == {p \in top .. end : /\ p % l.align = 0
                                               /\ p % 8 = 0
                                               /\ p + Rounded(l.size) <= end}
               IN /\ CanAllocate(l) <=> room # {}
                  /\ CanAllocate(l) =>
                       AllocPtr(l) \in room /\ \A p \in room : AllocPtr(l) <= p
      BY DEF RefusedOnlyWhenFull
    <2> DEFINE top  == page_ptr + stack_offset
               end  == page_ptr + PageSize
               room == {p \in top .. end : /\ p % l.align = 0
                                           /\ p % 8 = 0
                                           /\ p + Rounded(l.size) <= end}
    <2>1. top \in Nat /\ end \in Nat /\ Rounded(l.size) \in Nat
      <3>1. page_ptr \in Nat /\ stack_offset \in Nat /\ PageSize \in Nat
        BY <1>1, Setting
      <3>2. l.size \in Nat /\ l.size + 7 < UsizeSpan
        BY LayoutFacts
      <3>3. QED BY <3>1, <3>2, RoundedFacts
    <2>2. \A p \in room : CanAllocate(l) /\ AllocPtr(l) <= p
      <3>1. TAKE p \in room
      <3>2. /\ p \in Nat /\ top <= p /\ p % l.align = 0
            /\ p + Rounded(l.size) <= end
        BY <2>1
      <3>3. QED BY <1>1, <3>2, RoomFound
    <2>3. CanAllocate(l) => AllocPtr(l) \in room
      <3> SUFFICES ASSUME CanAllocate(l) PROVE AllocPtr(l) \in room
        OBVIOUS
      <3>1. /\ AllocPtr(l) \in Nat /\ top <= AllocPtr(l)
            /\ AllocPtr(l) % l.align = 0 /\ AllocPtr(l) % 8 = 0
            /\ AllocPtr(l) + Rounded(l.size) <= end
        BY <1>1, RoomGranted
      <3>2. AllocPtr(l) \in top .. end
        BY <2>1, <3>1
      <3>3. QED BY <3>1, <3>2
    <2> HIDE DEF room
    <2>4. QED BY <2>2, <2>3 DEF room
  <1>2. QED BY <1>1, Invariance, PTL

-----------------------------------------------------------------------------
(* No bytes are in use only when the stack is at its bottom. *)
ResetWhenEmpty == bytes = 0 => stack_offset = 0

(* The bytes of a block are among those counted. *)
LEMMA CountedIn ==
  ASSUME IInv, phase = "live", NEW h \in Handles
  PROVE  bytes \in Nat /\ blocks[h].len \in Nat /\ blocks[h].len <= bytes
  <1>1. Cardinality(Rest(h)) \in Nat /\ Cardinality(Rest(h)) = bytes - blocks[h].len
    BY RestCard
  <1>2. bytes \in Nat /\ blocks[h].len \in Nat
    BY Setting DEF Block
  <1>3. QED BY <1>1, <1>2

LEMMA GrantedReset ==
  ASSUME IInv, phase = "live", ResetWhenEmpty, NEW l \in Layouts, CanAllocate(l)
  PROVE  /\ BytesGranted(l) \in Nat
         /\ BytesGranted(l) = 0 => OffsetGranted(l) = 0
  <1>1. l.size \in Nat /\ l.size + 7 < UsizeSpan /\ bytes \in Nat
    BY LayoutFacts, Setting
  <1>2. CASE l.size = 0
    <2>1. BytesGranted(l) = bytes + 0 /\ OffsetGranted(l) = stack_offset
      BY <1>2 DEF BytesGranted, OffsetGranted, Granted, allocate_zerosized
    <2>2. QED BY <1>1, <2>1 DEF ResetWhenEmpty
  <1>3. CASE l.size # 0
    <2> DEFINE r == Rounded(l.size)
    <2>1. BytesGranted(l) = bytes + r
      BY <1>3 DEF BytesGranted, Granted
    <2>2. r \in Nat /\ l.size <= r
      BY <1>1, RoundedFacts
    <2> HIDE DEF r
    <2>3. r > 0
      BY <1>1, <1>3, <2>2
    <2>4. BytesGranted(l) \in Nat /\ BytesGranted(l) # 0
      BY <1>1, <2>1, <2>2, <2>3
    <2>5. QED BY <2>4
  <1>4. QED BY <1>2, <1>3

LEMMA DeallocateReset ==
  ASSUME NEW b \in Nat, NEW o, b = 0 => o = 0, NEW m, NEW ptr, NEW s \in Nat,
         DeallocateFrom(b, o, m, ptr, s)
  PROVE  ResetWhenEmpty'
  <1>1. CASE s = 0
    BY <1>1 DEF DeallocateFrom, ResetWhenEmpty
  <1>2. CASE s # 0
    BY <1>2 DEF DeallocateFrom, RewoundOffset, ResetWhenEmpty
  <1>3. QED BY <1>1, <1>2

LEMMA SameReset ==
  ASSUME ResetWhenEmpty, bytes' = bytes, stack_offset' = stack_offset
  PROVE  ResetWhenEmpty'
  BY DEF ResetWhenEmpty

LEMMA AllocateReset ==
  ASSUME IInv, phase = "live", ResetWhenEmpty, NEW l \in Layouts, NEW op, NEW h,
         Allocate(op, h, l)
  PROVE  ResetWhenEmpty'
  BY GrantedReset, SameReset DEF Allocate, Fails, ResetWhenEmpty

LEMMA ReallocateReset ==
  ASSUME IInv, phase = "live", ResetWhenEmpty, NEW l \in Layouts, NEW op, NEW h,
         NEW s \in Nat, NEW n, Reallocate(op, h, s, l, n)
  PROVE  ResetWhenEmpty'
  BY GrantedReset, DeallocateReset, SameReset DEF Reallocate, Fails

(* A resize in place leaves a block behind, so the counter is not 0. *)
LEMMA InPlaceReset ==
  ASSUME IInv, phase = "live", NEW h \in Handles, NEW s \in FittingSizes(h),
         NEW n \in Nat \ {0},
         \/ bytes' = bytes - (Rounded(s) - n)
         \/ bytes' = bytes + (n - Rounded(s))
  PROVE  ResetWhenEmpty'
  <1>1. bytes \in Nat /\ blocks[h].len \in Nat /\ blocks[h].len <= bytes
    BY CountedIn
  <1>2. Rounded(s) = blocks[h].len
    BY Fitting
  <1>3. bytes' # 0
    BY <1>1, <1>2
  <1>4. QED BY <1>3 DEF ResetWhenEmpty

LEMMA NextReset ==
  ASSUME IInv, ResetWhenEmpty, [Next]_vars
  PROVE  ResetWhenEmpty'
  <1>1. CASE UNCHANGED vars
    BY <1>1, SameReset DEF vars
  <1>2. CASE New
    BY <1>2, SameReset DEF New, Fails, ResetWhenEmpty
  <1>3. CASE Drop
    BY <1>3, SameReset DEF Drop, ReleasePage, ResetWhenEmpty
  <1>4. ASSUME NEW h \in Handles, Write(h)
        PROVE  ResetWhenEmpty'
    BY <1>4, SameReset DEF Write
  <1>5. ASSUME NEW h \in Handles, NEW l \in Layouts, AllocateZeroed(h, l)
        PROVE  ResetWhenEmpty'
    BY <1>5, AllocateReset DEF AllocateZeroed
  <1>6. ASSUME NEW h \in Handles, NEW s \in FittingSizes(h), Deallocate(h, s)
        PROVE  ResetWhenEmpty'
    <2>1. phase = "live" /\ DeallocateFrom(bytes, stack_offset, mem, blocks[h].addr, s)
      BY <1>6 DEF Deallocate
    <2>2. s \in Nat /\ bytes \in Nat
      BY <2>1, Fitting, Setting
    <2>3. QED BY <2>1, <2>2, DeallocateReset DEF ResetWhenEmpty
  <1>7. ASSUME NEW h \in Handles, NEW s \in FittingSizes(h), NEW l \in Layouts,
               ReallocShrink(h, s, l) \/ ReallocGrow(h, s, l)
        PROVE  ResetWhenEmpty'
    <2>1. phase = "live" /\ s \in Nat
      BY <1>7, Fitting DEF ReallocShrink, ReallocGrow
    <2>2. QED BY <1>7, <2>1, ReallocateReset DEF ReallocShrink, ReallocGrow
  <1>8. ASSUME NEW h \in Handles, NEW s \in FittingSizes(h), NEW l \in Layouts,
               Shrink(h, s, l)
        PROVE  ResetWhenEmpty'
    <2>1. phase = "live" /\ s \in Nat /\ bytes \in Nat
      BY <1>8, Fitting, Setting DEF Shrink
    <2>2. CASE DeallocateFrom(bytes, stack_offset, mem, blocks[h].addr, s)
      BY <2>1, <2>2, DeallocateReset DEF ResetWhenEmpty
    <2>3. CASE l.size # 0 /\ ShrinkInPlace(h, s, l)
      <3>1. l.size \in Nat /\ l.size + 7 < UsizeSpan
        BY LayoutFacts
      <3>2. Rounded(l.size) \in Nat \ {0}
        BY <2>3, <3>1, RoundedFacts
      <3>3. bytes' = bytes - (Rounded(s) - Rounded(l.size))
        BY <2>3 DEF ShrinkInPlace
      <3>4. QED BY <2>1, <3>2, <3>3, InPlaceReset
    <2>4. CASE Reallocate("shrink", h, s, l, l.size)
      BY <2>1, <2>4, ReallocateReset
    <2>5. QED BY <1>8, <2>2, <2>3, <2>4 DEF Shrink
  <1>9. ASSUME NEW h \in Handles, NEW s \in FittingSizes(h), NEW l \in Layouts,
               GrowZeroed(h, s, l)
        PROVE  ResetWhenEmpty'
    <2>1. phase = "live" /\ s \in Nat
      BY <1>9, Fitting DEF GrowZeroed
    <2>2. CASE Allocate("grow", h, l)
      BY <2>1, <2>2, AllocateReset
    <2>3. CASE GrowInPlace(h, s, l)
      <3>1. l.size \in Nat /\ l.size + 7 < UsizeSpan
        BY LayoutFacts
      <3>2. Rounded(l.size) \in Nat
        BY <3>1, RoundedFacts
      <3>3. CASE RoomToGrow(blocks[h].addr, Rounded(l.size))
        <4>1. Rounded(l.size) # 0 /\ bytes' = bytes + (Rounded(l.size) - Rounded(s))
          BY <2>3, <3>3 DEF GrowInPlace, RoomToGrow
        <4>2. QED BY <2>1, <3>2, <4>1, InPlaceReset
      <3>4. CASE ~RoomToGrow(blocks[h].addr, Rounded(l.size))
        BY <2>3, <3>4, SameReset DEF GrowInPlace, Fails
      <3>5. QED BY <3>3, <3>4
    <2>4. CASE Reallocate("grow", h, s, l, s)
      BY <2>1, <2>4, ReallocateReset
    <2>5. QED BY <1>9, <2>2, <2>3, <2>4 DEF GrowZeroed
  <1>10. QED
    BY <1>1, <1>2, <1>3, <1>4, <1>5, <1>6, <1>7, <1>8, <1>9 DEF Next

(***************************************************************************)
(* "Memory can only be reused once all allocations are deallocated"        *)
(* (src/sec_alloc.rs:64), and then all of it is: whatever was allocated,   *)
(* resized and freed before, an allocator without blocks grants what a new *)
(* one on the same page would.                                             *)
(***************************************************************************)
THEOREM WholePageAgain == Spec => []FullPageWhenEmpty
  <1>1. Init => IInv /\ ResetWhenEmpty
    BY InitIInv DEF Init, ResetWhenEmpty
  <1>2. (IInv /\ ResetWhenEmpty) /\ [Next]_vars => (IInv /\ ResetWhenEmpty)'
    BY NextIInv, NextReset
  <1>3. ASSUME IInv, ResetWhenEmpty
        PROVE  FullPageWhenEmpty
    <2> SUFFICES ASSUME phase = "live", \A h \in Handles : ~PageBacked(blocks[h]),
                        NEW l \in Layouts, Rounded(l.size) <= PageSize,
                        page_ptr % l.align = 0
                 PROVE  CanAllocate(l)
      BY DEF FullPageWhenEmpty
    <2>1. bytes = 0
      BY <1>3, DropCheckExact DEF DropCheck
    <2>2. stack_offset = 0
      BY <1>3, <2>1 DEF ResetWhenEmpty
    <2>3. /\ page_ptr \in Nat /\ PageSize \in Nat /\ l.size \in Nat
          /\ l.size + 7 < UsizeSpan
      BY <1>3, Setting, LayoutFacts
    <2>4. CASE l.size = 0
      BY <2>4 DEF CanAllocate
    <2>5. CASE l.size > 0
      <3>1. Rounded(l.size) \in Nat
        BY <2>3, RoundedFacts
      <3>2. /\ page_ptr + stack_offset <= page_ptr
            /\ page_ptr + Rounded(l.size) <= page_ptr + PageSize
        BY <2>2, <2>3, <3>1
      <3>3. QED BY <1>3, <2>3, <2>5, <3>2, RoomFound
    <2>6. QED BY <2>3, <2>4, <2>5
  <1>4. QED BY <1>1, <1>2, <1>3, PTL DEF Spec
=============================================================================
