-------------------------- MODULE ZeroizeAllocProofs --------------------------
(***************************************************************************)
(* ZeroizeAlloc with any number of threads, any heap and any layouts.      *)
(*                                                                         *)
(* A step concerns one handle h.  The three Frame lemmas reduce each part  *)
(* of the invariant to what the step does to h, so each action is shown to *)
(* satisfy their hypotheses and nothing is said of other handles.          *)
(*                                                                         *)
(* The second half shows that ZeroizeAlloc implements AllocatorContract:   *)
(* most steps of a call are none for the client, and the one that counts   *)
(* is what the contract says of the whole call.                            *)
(***************************************************************************)
EXTENDS MCZeroizeAlloc, TLAPS

OnlyAt(h) ==
  \A g \in Handles \ {h} : blocks'[g] = blocks[g] /\ calls'[g] = calls[g]

(* Where a block may be. *)
Room(b) == Bytes(b) \subseteq Heap

-----------------------------------------------------------------------------
LEMMA FrameAccounted ==
  ASSUME Accounted, NEW h \in Handles, OnlyAt(h),
         granted' = (granted \ Memory(h)) \cup Memory(h)',
         Memory(h)' \cap (granted \ Memory(h)) = {}
  PROVE  Accounted'
  <1>1. \A g \in Handles \ {h} : Memory(g)' = Memory(g)
    BY DEF OnlyAt, Memory, Bytes
  <1>2. \A g \in Handles \ {h} :
          Memory(g) \cap Memory(h) = {} /\ Memory(g) \subseteq granted
    BY DEF Accounted
  <1>3. granted' = UNION {Memory(g)' : g \in Handles}
    <2>1. \A x : x \in UNION {Memory(g)' : g \in Handles}
                   <=> x \in Memory(h)' \/ \E g \in Handles \ {h} : x \in Memory(g)
      BY <1>1
    <2>2. \A x : x \in granted \ Memory(h) <=> \E g \in Handles \ {h} : x \in Memory(g)
      BY <1>2 DEF Accounted
    <2>3. QED BY <2>1, <2>2
  <1>4. ASSUME NEW f \in Handles, NEW g \in Handles, f # g
        PROVE  Memory(f)' \cap Memory(g)' = {}
    <2>1. CASE f = h
      BY <1>1, <1>2, <1>4, <2>1
    <2>2. CASE g = h
      BY <1>1, <1>2, <1>4, <2>2
    <2>3. CASE f # h /\ g # h
      BY <1>1, <1>4, <2>3 DEF Accounted
    <2>4. QED BY <2>1, <2>2, <2>3
  <1>5. QED BY <1>3, <1>4 DEF Accounted

LEMMA FrameCalls ==
  ASSUME CallsInOrder, NEW h \in Handles, OnlyAt(h), CallInOrder(h)'
  PROVE  CallsInOrder'
  <1>1. ASSUME NEW g \in Handles \ {h}
        PROVE  CallInOrder(g)'
    <2>1. CallInOrder(g)
      BY DEF CallsInOrder
    <2>2. QED BY <2>1 DEF CallInOrder, OnlyAt, Idle, Bytes
  <1>2. QED BY <1>1 DEF CallsInOrder

LEMMA FrameData ==
  ASSUME DataHeld, NEW h \in Handles, OnlyAt(h),
         \A a \in Heap : heap'[a] \notin {Zero, Junk} =>
           Holds(h, a)' \/ (heap'[a] = heap[a] /\ ~Holds(h, a))
  PROVE  DataHeld'
  <1> SUFFICES ASSUME NEW a \in Heap, heap'[a] \notin {Zero, Junk}, ~Holds(h, a)'
               PROVE  \E g \in Handles : Holds(g, a)'
    BY DEF DataHeld, Heap
  <1>1. heap'[a] = heap[a] /\ ~Holds(h, a)
    OBVIOUS
  <1>2. PICK g \in Handles : Holds(g, a)
    BY <1>1 DEF DataHeld
  <1>3. g # h
    BY <1>1, <1>2
  <1>4. Holds(g, a)'
    BY <1>1, <1>2, <1>3 DEF Holds, Fills, Data, OnlyAt
  <1>5. QED BY <1>4

(* A call that only fails, or ends the process, leaves all of this alone. *)
LEMMA FrameNothing ==
  ASSUME SInv, phase' \in {"running", "aborted"},
         UNCHANGED <<heap, granted, blocks, calls>>
  PROVE  SInv' /\ (DataHeld => DataHeld')
  <1>1. SInv'
    BY DEF SInv, TypeOK, Accounted, CallsInOrder, CallInOrder, Memory, Bytes, Idle
  <1>2. DataHeld => DataHeld'
    BY DEF DataHeld, Holds, Fills, Data
  <1>3. QED BY <1>1, <1>2

-----------------------------------------------------------------------------
(* What the invariant says of the block and the call of one handle. *)
LEMMA Fields ==
  ASSUME NEW b \in Block
  PROVE  b.addr \in Nat /\ b.size \in Nat /\ b.align \in Nat \ {0} /\ b.len \in Nat
  BY UtilAssumption DEF Block

LEMMA At ==
  ASSUME SInv, NEW h \in Handles
  PROVE  /\ blocks[h] \in Block /\ calls[h] \in Call
         /\ calls[h].old \in Block /\ calls[h].new \in Block /\ calls[h].size \in Nat
         /\ Room(blocks[h]) /\ Room(calls[h].old) /\ Room(calls[h].new)
         /\ Memory(h) \subseteq granted /\ granted \subseteq Heap
         /\ CallInOrder(h)
  <1>1. blocks[h] \in Block /\ calls[h] \in Call /\ granted \subseteq Heap
    BY DEF SInv, TypeOK
  <1>2. Memory(h) \subseteq granted
    BY DEF SInv, Accounted
  <1>3. calls[h].old \in Block /\ calls[h].new \in Block /\ calls[h].size \in Nat
    BY <1>1 DEF Call
  <1>4. QED BY <1>1, <1>2, <1>3 DEF Room, Memory, SInv, CallsInOrder

LEMMA NoBlockFacts == NoBlock \in Block /\ Bytes(NoBlock) = {}
  BY UtilAssumption DEF NoBlock, Block, Bytes

LEMMA ReturnedFacts ==
  /\ Returned \in Call /\ Returned.step = "returned"
  /\ Returned.old = NoBlock /\ Returned.new = NoBlock /\ Returned.size = 0
  BY NoBlockFacts DEF Returned, Call

(* A block that is not live has no bytes. *)
LEMMA Dead ==
  ASSUME SInv, NEW h \in Handles, ~IsLive(h)
  PROVE  Bytes(blocks[h]) = {} /\ blocks[h].size = 0
  <1>1. blocks[h].addr = 0 /\ blocks[h].len \in Nat /\ blocks[h].size \in Nat
    BY At, Fields DEF IsLive
  <1>2. ASSUME blocks[h].len # 0 PROVE FALSE
    <2>1. 0 \in Bytes(blocks[h])
      BY <1>1, <1>2 DEF Bytes
    <2>2. 0 \notin Heap
      BY ZeroizeAllocAssumption DEF Heap
    <2>3. QED BY <2>1, <2>2, At DEF Room
  <1>3. QED BY <1>1, <1>2, At DEF Bytes, CallInOrder

(* What the backend hands out. *)
LEMMA GrantFacts ==
  ASSUME NEW layout \in Layouts, NEW b \in Grants(layout)
  PROVE  /\ b \in Block /\ b.size = layout.size /\ b.size <= b.len
         /\ Bytes(b) \subseteq Heap \ granted
  <1>1. layout.size \in Nat /\ layout.align \in Nat \ {0} /\ layout.align < UsizeSpan
    <2>1. /\ layout.size \in Sizes /\ layout.align \in Aligns
          /\ layout.size <= UsizeSpan \div 2 - layout.align
      BY DEF Layouts
    <2>2. layout.size \in Nat
      BY <2>1, UtilAssumption
    <2>3. \/ layout.align \in {1, 2, 4}
          \/ layout.align \in Nat \ {0} /\ layout.align % 8 = 0
      BY <2>1, UtilAssumption
    <2>4. layout.align \in Nat \ {0}
      BY <2>3
    <2>5. QED BY <2>1, <2>2, <2>4, UtilAssumption
  <1>2. CASE layout.size = 0
    <2>1. b = [addr |-> layout.align, size |-> 0, align |-> layout.align, len |-> 0]
      BY <1>2 DEF Grants
    <2>2. QED BY <1>1, <1>2, <2>1, UtilAssumption DEF Block, Bytes
  <1>3. CASE layout.size # 0
    <2>1. PICK a \in Heap :
            /\ b = [addr |-> a, size |-> layout.size, align |-> layout.align,
                    len |-> layout.size + Slack]
            /\ a .. (a + (layout.size + Slack) - 1) \subseteq Heap \ granted
      BY <1>3 DEF Grants
    <2>2. a \in 0 .. UsizeSpan - 1
      BY ZeroizeAllocAssumption, UtilAssumption DEF Heap
    <2>3. QED
      BY <1>1, <2>1, <2>2, ZeroizeAllocAssumption DEF Block, Bytes
  <1>4. QED BY <1>2, <1>3

LEMMA ZeroizedFacts ==
  ASSUME NEW m \in [Heap -> {Zero, Junk} \cup (Handles \X Nat)], NEW p, NEW n
  PROVE  /\ Zeroized(m, p, n) \in [Heap -> {Zero, Junk} \cup (Handles \X Nat)]
         /\ \A a \in Heap : Zeroized(m, p, n)[a] =
              IF a \in p .. (p + n - 1) THEN Zero ELSE m[a]
  BY DEF Zeroized

-----------------------------------------------------------------------------
LEMMA InitIInv == Init => IInv
  <1> SUFFICES ASSUME Init PROVE IInv
    OBVIOUS
  <1> USE DEF Init
  <1>1. TypeOK
    BY NoBlockFacts, ReturnedFacts DEF TypeOK
  <1>2. \A h \in Handles : Memory(h) = {}
    BY NoBlockFacts, ReturnedFacts DEF Memory
  <1>3. Accounted
    BY <1>2 DEF Accounted
  <1>4. CallsInOrder
    BY NoBlockFacts, ReturnedFacts DEF CallsInOrder, CallInOrder, Idle, NoBlock, Resizes
  <1>5. DataHeld
    BY DEF DataHeld
  <1>6. QED BY <1>1, <1>3, <1>4, <1>5 DEF IInv, SInv

(* What a client writes stays in its block, if not in the size asked for. *)
LEMMA WriteStep ==
  ASSUME SInv, NEW h \in Handles, Write(h)
  PROVE  SInv' /\ (~UsesSlack /\ DataHeld => DataHeld')
  <1> DEFINE b == blocks[h]
             n == IF UsesSlack THEN b.len ELSE b.size
  <1>1. /\ UNCHANGED <<phase, granted, blocks, calls>> /\ b \in Block
        /\ heap' = [a \in Heap |-> IF a \in b.addr .. (b.addr + n - 1)
                                   THEN Data(h, a - b.addr) ELSE heap[a]]
    BY At DEF Write
  <1>2. \A a \in b.addr .. (b.addr + n - 1) : Data(h, a - b.addr) \in Handles \X Nat
    BY <1>1, Fields DEF Data
  <1>3. TypeOK'
    <2> HIDE DEF n
    <2>1. QED BY <1>1, <1>2 DEF SInv, TypeOK
  <1>4. Accounted' /\ CallsInOrder'
    BY <1>1 DEF SInv, Accounted, Memory, Bytes, CallsInOrder, CallInOrder, Idle
  <1>5. ASSUME ~UsesSlack, DataHeld PROVE DataHeld'
    <2>1. ASSUME NEW a \in Heap, heap'[a] \notin {Zero, Junk}, ~Holds(h, a)'
          PROVE  heap'[a] = heap[a] /\ ~Holds(h, a)
      <3>1. a \notin b.addr .. (b.addr + b.size - 1)
        BY <1>1, <1>5, <2>1 DEF Holds, Fills
      <3>2. heap'[a] = heap[a]
        BY <1>1, <1>5, <3>1
      <3>3. QED BY <1>1, <2>1, <3>2 DEF Holds, Fills, Data
    <2>2. QED BY <1>1, <1>5, <2>1, FrameData DEF OnlyAt
  <1>6. QED BY <1>3, <1>4, <1>5 DEF SInv

LEMMA HandleAllocErrorStep ==
  ASSUME SInv, HandleAllocError
  PROVE  SInv' /\ (DataHeld => DataHeld')
  BY FrameNothing DEF HandleAllocError

LEMMA FailsStep ==
  ASSUME SInv, NEW op, Fails(op)
  PROVE  SInv' /\ (DataHeld => DataHeld')
  BY FrameNothing DEF Fails, SInv, TypeOK

(* The backend's memory after it has granted b. *)
LEMMA GrantedHeap ==
  ASSUME SInv, NEW b \in Block, Bytes(b) \subseteq Heap, NEW zeroed \in BOOLEAN,
         BackendAllocates(b, zeroed)
  PROVE  /\ heap' \in [Heap -> {Zero, Junk} \cup (Handles \X Nat)]
         /\ \A a \in Heap : heap'[a] \notin {Zero, Junk} => heap'[a] = heap[a]
         /\ granted' = granted \cup Bytes(b) /\ granted' \subseteq Heap
  <1>1. heap \in [Heap -> {Zero, Junk} \cup (Handles \X Nat)] /\ granted \subseteq Heap
    BY DEF SInv, TypeOK
  <1>2. QED BY <1>1, ZeroizedFacts DEF BackendAllocates

LEMMA AllocateStep ==
  ASSUME SInv, NEW h \in Handles, NEW op, NEW layout \in Requests, Allocate(h, op, layout)
  PROVE  SInv' /\ (DataHeld => DataHeld')
  <1>1. ASSUME AllocChecks(layout), NEW b \in Grants(layout),
               BackendAllocates(b, op = "allocate_zeroed"),
               blocks' = [blocks EXCEPT ![h] = b],
               UNCHANGED <<phase, calls>>
        PROVE  SInv' /\ (DataHeld => DataHeld')
    <2>1. /\ b \in Block /\ b.size <= b.len
          /\ Bytes(b) \subseteq Heap \ granted
      BY <1>1, GrantFacts DEF AllocChecks
    <2>2. /\ heap' \in [Heap -> {Zero, Junk} \cup (Handles \X Nat)]
          /\ \A a \in Heap : heap'[a] \notin {Zero, Junk} => heap'[a] = heap[a]
          /\ granted' = granted \cup Bytes(b) /\ granted' \subseteq Heap
      BY <1>1, <2>1, GrantedHeap
    <2>3. TypeOK'
      BY <1>1, <2>1, <2>2 DEF SInv, TypeOK
    <2>4. /\ calls[h] = Returned /\ calls'[h] = Returned /\ blocks'[h] = b
          /\ Bytes(blocks[h]) = {} /\ blocks[h].size = 0 /\ OnlyAt(h)
      BY <1>1, At, Dead DEF Allocate, CallInOrder, SInv, TypeOK, OnlyAt
    <2>5. Memory(h) = {} /\ Memory(h)' = Bytes(b)
      BY <2>4, ReturnedFacts, NoBlockFacts DEF Memory, Bytes
    <2>6. Accounted'
      BY <2>1, <2>2, <2>4, <2>5, FrameAccounted DEF SInv
    <2>7. CallsInOrder'
      <3>1. CallInOrder(h)'
        BY <2>1, <2>4, ReturnedFacts, At DEF CallInOrder, Idle, Resizes
      <3>2. QED BY <2>4, <3>1, FrameCalls DEF SInv
    <2>8. ASSUME DataHeld PROVE DataHeld'
      <3>1. ASSUME NEW a \in Heap
            PROVE  ~Holds(h, a)
        <4>1. blocks[h].addr .. (blocks[h].addr + blocks[h].size - 1) = {}
          BY <2>4, At, Fields
        <4>2. NoBlock.addr .. (NoBlock.addr + NoBlock.size - 1) = {}
          BY DEF NoBlock
        <4>3. QED BY <2>4, <4>1, <4>2, ReturnedFacts DEF Holds, Fills
      <3>2. QED BY <2>2, <2>4, <3>1, <2>8, FrameData DEF SInv
    <2>9. QED BY <2>3, <2>6, <2>7, <2>8 DEF SInv
  <1>2. QED BY <1>1, FailsStep, HandleAllocErrorStep DEF Allocate

LEMMA DeallocateStep ==
  ASSUME SInv, NEW h \in Handles, NEW size \in FittingSizes(h), Deallocate(h, size)
  PROVE  SInv' /\ (DataHeld => DataHeld')
  <1>1. ASSUME calls' = [calls EXCEPT ![h] =
                  [step |-> "zeroize", old |-> blocks[h], size |-> size, new |-> NoBlock]],
               blocks' = [blocks EXCEPT ![h] = NoBlock],
               UNCHANGED <<phase, heap, granted>>
        PROVE  SInv' /\ (DataHeld => DataHeld')
    <2> DEFINE c == [step |-> "zeroize", old |-> blocks[h], size |-> size, new |-> NoBlock]
    <2>1. /\ size \in Nat /\ blocks[h].size <= size /\ size <= blocks[h].len
      BY UtilAssumption DEF FittingSizes
    <2>2. c \in Call
      BY <2>1, At, NoBlockFacts DEF Call
    <2>3. TypeOK'
      BY <1>1, <2>2, NoBlockFacts DEF SInv, TypeOK
    <2>4. /\ calls[h] = Returned /\ calls'[h] = c /\ blocks'[h] = NoBlock /\ OnlyAt(h)
      BY <1>1, At DEF Deallocate, CallInOrder, SInv, TypeOK, OnlyAt
    <2>5. Memory(h)' = Memory(h)
      <3>1. Memory(h) = Bytes(blocks[h])
        BY <2>4, ReturnedFacts, NoBlockFacts DEF Memory
      <3>2. Memory(h)' = Bytes(blocks[h])
        BY <2>4, NoBlockFacts DEF Memory, Bytes
      <3>3. QED BY <3>1, <3>2
    <2>6. Accounted'
      BY <1>1, <2>4, <2>5, FrameAccounted, At DEF SInv
    <2>7. CallsInOrder'
      <3>1. Bytes(NoBlock) = {} /\ NoBlock.size <= NoBlock.len
        BY NoBlockFacts DEF NoBlock
      <3>2. CallInOrder(h)'
        BY <2>1, <2>4, <3>1 DEF CallInOrder, Idle, Resizes, Bytes
      <3>3. QED BY <2>4, <3>2, FrameCalls DEF SInv
    <2>8. ASSUME DataHeld PROVE DataHeld'
      <3>1. ASSUME NEW a \in Heap, Holds(h, a)
            PROVE  Holds(h, a)'
        <4>1. ~Fills(h, NoBlock, a)
          BY DEF Fills, NoBlock
        <4>2. Fills(h, blocks[h], a)
          BY <2>4, <3>1, <4>1, ReturnedFacts DEF Holds
        <4>3. QED BY <1>1, <2>4, <4>2 DEF Holds, Fills, Data
      <3>2. QED BY <1>1, <2>4, <3>1, <2>8, FrameData DEF SInv
    <2>9. QED BY <2>3, <2>6, <2>7, <2>8 DEF SInv
  <1>2. QED BY <1>1, HandleAllocErrorStep DEF Deallocate

LEMMA BeginResizeStep ==
  ASSUME SInv, NEW h \in Handles, NEW op \in Resizes, NEW size \in FittingSizes(h),
         NEW layout \in Requests, BeginResize(h, op, size, layout)
  PROVE  SInv' /\ (DataHeld => DataHeld')
  <1>1. ASSUME AllocChecks(layout), NEW b \in Grants(layout),
               BackendAllocates(b, op = "grow_zeroed"),
               calls' = [calls EXCEPT ![h] =
                  [step |-> op, old |-> blocks[h], size |-> size, new |-> b]],
               UNCHANGED <<phase, blocks, call>>
        PROVE  SInv' /\ (DataHeld => DataHeld')
    <2> DEFINE c == [step |-> op, old |-> blocks[h], size |-> size, new |-> b]
    <2>1. /\ size \in Nat /\ blocks[h].size <= size /\ size <= blocks[h].len
      BY UtilAssumption DEF FittingSizes
    <2>2. /\ b \in Block /\ b.size <= b.len
          /\ Bytes(b) \subseteq Heap \ granted
      BY <1>1, GrantFacts DEF AllocChecks
    <2>3. /\ heap' \in [Heap -> {Zero, Junk} \cup (Handles \X Nat)]
          /\ \A a \in Heap : heap'[a] \notin {Zero, Junk} => heap'[a] = heap[a]
          /\ granted' = granted \cup Bytes(b) /\ granted' \subseteq Heap
      BY <1>1, <2>2, GrantedHeap
    <2>4. c \in Call
      BY <2>1, <2>2, At DEF Call
    <2>5. TypeOK'
      BY <1>1, <2>3, <2>4 DEF SInv, TypeOK
    <2>6. /\ calls[h] = Returned /\ calls'[h] = c /\ blocks'[h] = blocks[h] /\ OnlyAt(h)
      BY <1>1, At DEF BeginResize, CallInOrder, SInv, TypeOK, OnlyAt
    <2>7. Memory(h) = Bytes(blocks[h]) /\ Memory(h)' = Bytes(blocks[h]) \cup Bytes(b)
      BY <2>6, ReturnedFacts, NoBlockFacts DEF Memory, Bytes
    <2>8. Memory(h) \subseteq granted
      BY At
    <2>9. Accounted'
      BY <2>2, <2>3, <2>6, <2>7, <2>8, FrameAccounted DEF SInv
    <2>10. CallsInOrder'
      <3>1. Bytes(b) \cap Bytes(blocks[h]) = {}
        BY <2>2, <2>7, <2>8
      <3>2. /\ calls'[h].step = op /\ calls'[h].old = blocks'[h]
            /\ calls'[h].size = size /\ calls'[h].new = b
            /\ op \notin {"returned", "zeroize", "dealloc"}
        BY <2>6 DEF Resizes
      <3>3. CallInOrder(h)'
        <4>1. /\ blocks'[h].size <= blocks'[h].len
              /\ calls'[h].old.size <= calls'[h].size
              /\ calls'[h].size <= calls'[h].old.len
              /\ calls'[h].new.size <= calls'[h].new.len
          BY <2>1, <2>2, <2>6, <3>2, At DEF CallInOrder
        <4>2. Bytes(calls[h].new)' \cap Bytes(calls[h].old)' = {}
          BY <2>6, <3>1, <3>2 DEF Bytes
        <4> HIDE DEF c
        <4>3. QED BY <3>2, <4>1, <4>2 DEF CallInOrder, Idle
      <3>4. QED BY <2>6, <3>3, FrameCalls DEF SInv
    <2>11. ASSUME DataHeld PROVE DataHeld'
      <3>1. ASSUME NEW a \in Heap, heap'[a] = heap[a], Holds(h, a)
            PROVE  Holds(h, a)'
        <4>1. ~Fills(h, NoBlock, a)
          BY DEF Fills, NoBlock
        <4>2. Fills(h, blocks[h], a)
          BY <2>6, <3>1, <4>1, ReturnedFacts DEF Holds
        <4>3. QED BY <2>6, <3>1, <4>2 DEF Holds, Fills, Data
      <3>2. QED BY <2>3, <2>6, <3>1, <2>11, FrameData DEF SInv
    <2>12. QED BY <2>5, <2>9, <2>10, <2>11 DEF SInv
  <1>2. QED BY <1>1, FailsStep, HandleAllocErrorStep DEF BeginResize

LEMMA CopyStep ==
  ASSUME SInv, NEW h \in Handles, NEW op \in Resizes, Copy(h, op)
  PROVE  SInv' /\ (DataHeld => DataHeld')
  <1> DEFINE c   == calls[h]
             n   == Smaller(c.size, c.new.size)
             src == c.old.addr
             dst == c.new.addr
  <1>1. /\ c.step = op /\ c \in Call /\ blocks[h] = c.old
        /\ c.old \in Block /\ c.new \in Block /\ c.size \in Nat
        /\ c.old.size <= c.size /\ c.size <= c.old.len /\ c.new.size <= c.new.len
        /\ Bytes(c.new) \cap Bytes(c.old) = {}
        /\ Room(c.old) /\ Room(c.new)
    BY At DEF Copy, CallInOrder
  <1>2. /\ blocks' = [blocks EXCEPT ![h] = c.new]
        /\ calls' = [calls EXCEPT ![h] = [c EXCEPT !.step = "zeroize", !.new = NoBlock]]
        /\ heap' = Copied(heap, src, dst, n)
        /\ UNCHANGED <<phase, granted>>
    BY DEF Copy
  <1>3. /\ src \in Nat /\ dst \in Nat /\ n \in Nat /\ n <= c.new.size /\ n <= c.size
        /\ c.new.len \in Nat /\ c.old.len \in Nat /\ c.new.size \in Nat
    BY <1>1, Fields DEF Smaller
  <1>4. /\ calls'[h].step = "zeroize" /\ calls'[h].old = c.old /\ calls'[h].size = c.size
        /\ calls'[h].new = NoBlock /\ calls'[h] \in Call
        /\ blocks'[h] = c.new /\ OnlyAt(h)
    BY <1>1, <1>2, NoBlockFacts DEF SInv, TypeOK, OnlyAt, Call
  <1>5. ASSUME NEW a \in dst .. (dst + n - 1)
        PROVE  /\ a - dst + src \in Bytes(c.old) /\ a - dst + src \in Heap
               /\ a \in Bytes(c.new)
    BY <1>1, <1>3 DEF Bytes, Room
  <1>6. \A a \in Heap : heap'[a] = IF a \in dst .. (dst + n - 1) THEN heap[a - dst + src]
                                                                ELSE heap[a]
    BY <1>2 DEF Copied, SInv, TypeOK
  <1>7. TypeOK'
    <2>1. heap' \in [Heap -> {Zero, Junk} \cup (Handles \X Nat)]
      <3>1. heap \in [Heap -> {Zero, Junk} \cup (Handles \X Nat)]
        BY DEF SInv, TypeOK
      <3>2. \A a \in Heap : heap'[a] \in {Zero, Junk} \cup (Handles \X Nat)
        BY <1>5, <1>6, <3>1
      <3>3. heap' = [a \in Heap |-> heap'[a]]
        BY <1>2, <3>1 DEF Copied
      <3>4. QED BY <3>2, <3>3
    <2>2. QED BY <1>1, <1>2, <1>4, <2>1 DEF SInv, TypeOK
  <1>8. Accounted'
    <2>1. Memory(h)' = Memory(h)
      <3>1. Memory(h) = Bytes(c.old) \cup Bytes(c.new)
        BY <1>1 DEF Memory
      <3>2. Memory(h)' = Bytes(c.old) \cup Bytes(c.new)
        BY <1>4, NoBlockFacts DEF Memory, Bytes
      <3>3. QED BY <3>1, <3>2
    <2>2. QED BY <1>2, <1>4, <2>1, FrameAccounted, At DEF SInv
  <1>9. CallsInOrder'
    <2>1. CallInOrder(h)'
      BY <1>1, <1>4 DEF CallInOrder, Idle, Resizes, NoBlock, Bytes
    <2>2. QED BY <1>4, <2>1, FrameCalls DEF SInv
  <1>10. ASSUME DataHeld PROVE DataHeld'
    <2>1. ASSUME NEW a \in Heap, heap'[a] \notin {Zero, Junk}, a \in dst .. (dst + n - 1)
          PROVE  Holds(h, a)'
      <3> DEFINE x == a - dst + src
      <3>1. x \in Heap /\ x \in Bytes(c.old) /\ heap'[a] = heap[x]
        BY <1>5, <1>6, <2>1
      <3>2. PICK g \in Handles : Holds(g, x)
        BY <1>10, <2>1, <3>1 DEF DataHeld
      <3>3. x \in Memory(g) /\ x \in Memory(h)
        <4>1. /\ blocks[g] \in Block /\ calls[g].old \in Block
              /\ blocks[g].size <= blocks[g].len /\ calls[g].old.size <= calls[g].old.len
          <5>1. calls[g].old \in Block /\ blocks[g] \in Block /\ CallInOrder(g)
                /\ calls[g].size \in Nat
            BY At
          <5>2. QED BY <5>1, Fields DEF CallInOrder
        <4>2. x \in Bytes(blocks[g]) \/ x \in Bytes(calls[g].old)
          BY <3>2, <4>1, Fields DEF Holds, Fills, Bytes
        <4>3. QED BY <3>1, <4>2 DEF Memory
      <3>4. g = h
        BY <3>3 DEF SInv, Accounted
      <3>5. heap[x] = Data(h, x - src)
        BY <1>1, <3>2, <3>4 DEF Holds, Fills
      <3>6. heap'[a] = Data(h, a - dst)
        BY <1>3, <2>1, <3>1, <3>5
      <3>7. a \in dst .. (dst + c.new.size - 1)
        BY <1>3, <2>1
      <3>8. QED BY <1>4, <3>6, <3>7 DEF Holds, Fills, Data
    <2>2. ASSUME NEW a \in Heap, heap'[a] = heap[a], Holds(h, a)
          PROVE  Holds(h, a)'
      <3>1. Fills(h, c.old, a)
        BY <1>1, <2>2 DEF Holds
      <3>2. QED BY <1>4, <2>2, <3>1 DEF Holds, Fills, Data
    <2>3. QED BY <1>4, <1>6, <2>1, <2>2, <1>10, FrameData DEF SInv
  <1>11. QED BY <1>7, <1>8, <1>9, <1>10 DEF SInv

LEMMA ZeroizeStep ==
  ASSUME SInv, NEW h \in Handles, Zeroize(h)
  PROVE  SInv' /\ (DataHeld => DataHeld')
  <1> DEFINE c == calls[h]
  <1>1. /\ c.step = "zeroize" /\ c \in Call /\ c.old \in Block /\ c.size \in Nat
        /\ c.old.size <= c.size /\ CallInOrder(h)
    BY At DEF Zeroize, CallInOrder
  <1>2. /\ heap' = Zeroized(heap, c.old.addr, c.size)
        /\ calls' = [calls EXCEPT ![h].step = "dealloc"]
        /\ UNCHANGED <<phase, granted, blocks, call>>
    BY DEF Zeroize
  <1>3. /\ calls'[h].step = "dealloc" /\ calls'[h].old = c.old /\ calls'[h].size = c.size
        /\ calls'[h].new = c.new /\ calls'[h] \in Call /\ OnlyAt(h)
    BY <1>1, <1>2 DEF SInv, TypeOK, OnlyAt, Call
  <1>4. /\ heap' \in [Heap -> {Zero, Junk} \cup (Handles \X Nat)]
        /\ \A a \in Heap : heap'[a] =
             IF a \in c.old.addr .. (c.old.addr + c.size - 1) THEN Zero ELSE heap[a]
    BY <1>2, ZeroizedFacts DEF SInv, TypeOK
  <1>5. TypeOK'
    BY <1>2, <1>3, <1>4 DEF SInv, TypeOK
  <1>6. Accounted'
    <2>1. Memory(h)' = Memory(h)
      BY <1>2, <1>3 DEF Memory, Bytes
    <2>2. QED BY <1>2, <1>3, <2>1, FrameAccounted, At DEF SInv
  <1>7. CallsInOrder'
    <2>1. CallInOrder(h)'
      BY <1>1, <1>2, <1>3 DEF CallInOrder, Idle, Resizes, Bytes
    <2>2. QED BY <1>3, <2>1, FrameCalls DEF SInv
  <1>8. ASSUME DataHeld PROVE DataHeld'
    <2>1. ASSUME NEW a \in Heap, heap'[a] \notin {Zero, Junk}
          PROVE  Holds(h, a)' \/ (heap'[a] = heap[a] /\ ~Holds(h, a))
      <3>1. heap'[a] = heap[a] /\ a \notin c.old.addr .. (c.old.addr + c.size - 1)
        BY <1>4, <2>1
      <3>2. ~Fills(h, c.old, a)
        BY <1>1, <3>1, Fields DEF Fills
      <3>3. CASE Fills(h, blocks[h], a)
        BY <1>2, <3>1, <3>3 DEF Holds, Fills, Data
      <3>4. CASE ~Fills(h, blocks[h], a)
        BY <3>1, <3>2, <3>4 DEF Holds
      <3>5. QED BY <3>3, <3>4
    <2>2. QED BY <1>3, <2>1, <1>8, FrameData DEF SInv
  <1>9. QED BY <1>5, <1>6, <1>7, <1>8 DEF SInv

LEMMA BackendDeallocStep ==
  ASSUME SInv, NEW h \in Handles, BackendDealloc(h)
  PROVE  SInv' /\ (DataHeld => DataHeld')
  <1> DEFINE c == calls[h]
  <1>1. /\ c.step = "dealloc" /\ c.new = NoBlock /\ CallInOrder(h)
        /\ Bytes(blocks[h]) \cap Bytes(c.old) = {}
    BY At DEF BackendDealloc, CallInOrder
  <1>2. /\ granted' = granted \ Bytes(c.old)
        /\ calls' = [calls EXCEPT ![h] = Returned]
        /\ UNCHANGED <<phase, heap, blocks, call>>
    BY DEF BackendDealloc
  <1>3. calls'[h] = Returned /\ blocks'[h] = blocks[h] /\ OnlyAt(h)
    BY <1>2 DEF SInv, TypeOK, OnlyAt
  <1>4. TypeOK'
    BY <1>2, ReturnedFacts DEF SInv, TypeOK
  <1>5. Accounted'
    <2>1. /\ Memory(h) = Bytes(blocks[h]) \cup Bytes(c.old)
          /\ Memory(h)' = Bytes(blocks[h])
      BY <1>1, <1>3, ReturnedFacts, NoBlockFacts DEF Memory, Bytes
    <2>2. Memory(h) \subseteq granted
      BY At
    <2>3. QED BY <1>1, <1>2, <1>3, <2>1, <2>2, FrameAccounted DEF SInv
  <1>6. CallsInOrder'
    <2>1. CallInOrder(h)'
      BY <1>1, <1>3, ReturnedFacts DEF CallInOrder, Idle, Resizes, NoBlock
    <2>2. QED BY <1>3, <2>1, FrameCalls DEF SInv
  <1>7. ASSUME DataHeld PROVE DataHeld'
    <2>1. ASSUME NEW a \in Heap, Holds(h, a)
          PROVE  Holds(h, a)'
      BY <1>1, <1>2, <1>3, <2>1 DEF Holds, Fills, Data
    <2>2. QED BY <1>2, <1>3, <2>1, <1>7, FrameData DEF SInv
  <1>8. QED BY <1>4, <1>5, <1>6, <1>7 DEF SInv

LEMMA StepSInv ==
  ASSUME SInv, [Next]_vars
  PROVE  SInv' /\ (~UsesSlack /\ DataHeld => DataHeld')
  <1>1. CASE UNCHANGED vars
    BY <1>1, FrameNothing DEF vars, SInv, TypeOK
  <1>2. QED
    BY <1>1, WriteStep, AllocateStep, DeallocateStep, BeginResizeStep, CopyStep,
       ZeroizeStep, BackendDeallocStep DEF Next, Proceed

LEMMA StepIInv ==
  ASSUME ~UsesSlack
  PROVE  IInv /\ [Next]_vars => IInv'
  BY StepSInv DEF IInv

(***************************************************************************)
(* The steps of calls, of whatever threads, keep out of each other's way   *)
(* (src/zeroizing_alloc.rs:137).  When clients keep to the size they asked *)
(* for, as those of GlobalAlloc do, that goes for their data too.          *)
(***************************************************************************)
THEOREM Inductive ==
  Spec => []SInv /\ (~UsesSlack => []IInv)
  <1>1. Spec => []SInv
    <2>1. Init => SInv
      BY InitIInv DEF IInv
    <2>2. SInv /\ [Next]_vars => SInv'
      BY StepSInv
    <2>3. QED BY <2>1, <2>2, PTL DEF Spec
  <1>2. ASSUME ~UsesSlack
        PROVE  Spec => []IInv
    <2>1. Init => IInv
      BY InitIInv
    <2>2. IInv /\ [Next]_vars => IInv'
      BY <1>2, StepIInv
    <2>3. QED BY <2>1, <2>2, PTL DEF Spec
  <1>3. QED BY <1>1, <1>2

(***************************************************************************)
(* No block is lost by a reallocation and none goes back to the backend    *)
(* twice (src/zeroizing_alloc.rs:98), whatever the clients write to their  *)
(* blocks.                                                                 *)
(***************************************************************************)
THEOREM NothingLost == Spec => []Accounted
  <1>1. SInv => Accounted
    BY DEF SInv
  <1>2. QED BY <1>1, Inductive, PTL

(***************************************************************************)
(* Neither the backend nor another client ever has memory with a client's  *)
(* data in it, whatever the interleaving (src/zeroizing_alloc.rs:79).      *)
(***************************************************************************)
THEOREM WipedBeforeDeallocation ==
  ASSUME ~UsesSlack
  PROVE  Spec => []NothingRemains
  <1>1. IInv => NothingRemains
    <2> SUFFICES ASSUME IInv, NEW a \in Heap, heap[a] \notin {Zero, Junk}
                 PROVE  \E h \in Handles :
                          DataOf(h, blocks[h], a) \/ DataOf(h, calls[h].old, a)
      BY DEF NothingRemains
    <2>1. PICK h \in Handles : Holds(h, a)
      BY DEF IInv, DataHeld
    <2>2. /\ blocks[h] \in Block /\ calls[h].old \in Block /\ calls[h].size \in Nat
          /\ CallInOrder(h)
      BY At DEF IInv
    <2>3. blocks[h].size <= blocks[h].len /\ calls[h].old.size <= calls[h].old.len
      BY <2>2, Fields DEF CallInOrder
    <2>4. DataOf(h, blocks[h], a) \/ DataOf(h, calls[h].old, a)
      BY <2>1, <2>2, <2>3, Fields DEF Holds, Fills, DataOf, Bytes
    <2>5. QED BY <2>4
  <1>2. QED BY <1>1, Inductive, PTL

-----------------------------------------------------------------------------
(***************************************************************************)
(* ZeroizeAlloc as an Allocator.  Besides IInv this needs to know, of the  *)
(* block a resize has been granted and not yet handed over, that it is the *)
(* one asked for, and that the bytes behind those to be copied are zero    *)
(* when they have to be.                                                   *)
(***************************************************************************)
AsAsked(h) ==
  LET c == calls[h]
      layout == [size |-> c.new.size, align |-> c.new.align]
  IN c.step \in Resizes =>
       /\ IsLive(h)
       /\ c.size \in FittingSizes(h)
       /\ layout \in Layouts
       /\ c.new.addr # 0 /\ c.new.addr % layout.align = 0
       /\ IF c.step = "shrink" THEN layout.size <= c.size ELSE layout.size >= c.size
       /\ c.step = "grow_zeroed" => \A a \in Bytes(c.new) : heap[a] = Zero

CInv == IInv /\ \A h \in Handles : AsAsked(h)

(* No step of h changes memory that is granted to another. *)
ChangesOwn(h) == \A a \in granted \ Memory(h) : heap'[a] = heap[a]

LEMMA AskedElsewhere ==
  ASSUME CInv, NEW h \in Handles, OnlyAt(h), ChangesOwn(h), NEW g \in Handles \ {h}
  PROVE  AsAsked(g)'
  <1>1. AsAsked(g) /\ blocks'[g] = blocks[g] /\ calls'[g] = calls[g]
    BY DEF CInv, OnlyAt
  <1>2. \A a \in Bytes(calls[g].new) : heap'[a] = heap[a]
    <2>1. Memory(g) \subseteq granted /\ Memory(g) \cap Memory(h) = {}
      BY At DEF CInv, IInv, SInv, Accounted
    <2>2. QED BY <2>1 DEF ChangesOwn, Memory
  <1>3. QED BY <1>1, <1>2 DEF AsAsked, IsLive, FittingSizes, Bytes

LEMMA ContentsElsewhere ==
  ASSUME IInv, NEW h \in Handles, ChangesOwn(h), NEW g \in Handles \ {h},
         blocks'[g] = blocks[g]
  PROVE  contents'[g] = contents[g]
  <1>1. Memory(g) \subseteq granted /\ Memory(g) \cap Memory(h) = {}
    BY At DEF IInv, SInv, Accounted
  <1>2. \A a \in Bytes(blocks[g]) : heap'[a] = heap[a]
    BY <1>1 DEF ChangesOwn, Memory
  <1>3. blocks[g].addr \in Nat /\ blocks[g].len \in Nat
    BY At, Fields DEF IInv
  <1>4. \A i \in 0 .. (blocks[g].len - 1) :
          heap'[blocks[g].addr + i] = heap[blocks[g].addr + i]
    BY <1>2, <1>3 DEF Bytes
  <1>5. QED BY <1>4 DEF contents

(* A step that leaves the block of h and its bytes is none for the client. *)
LEMMA SameContents ==
  ASSUME IInv, NEW h \in Handles, ChangesOwn(h), blocks' = blocks,
         \A a \in Bytes(blocks[h]) : heap'[a] = heap[a]
  PROVE  contents' = contents
  <1>1. blocks[h].addr \in Nat /\ blocks[h].len \in Nat
    BY At, Fields DEF IInv
  <1>2. \A i \in 0 .. (blocks[h].len - 1) :
          heap'[blocks[h].addr + i] = heap[blocks[h].addr + i]
    BY <1>1 DEF Bytes
  <1>3. contents'[h] = contents[h]
    BY <1>2 DEF contents
  <1>4. \A g \in Handles : contents'[g] = contents[g]
    BY <1>3, ContentsElsewhere
  <1>5. contents = [g \in Handles |-> contents[g]] /\ contents' = [g \in Handles |-> contents'[g]]
    BY DEF contents
  <1>6. QED BY <1>4, <1>5

(* Contents that changed for h only. *)
LEMMA ContentsExcept ==
  ASSUME NEW h \in Handles, NEW c, contents'[h] = c,
         \A g \in Handles \ {h} : contents'[g] = contents[g]
  PROVE  contents' = [contents EXCEPT ![h] = c]
  <1>1. \A g \in Handles : contents'[g] = [contents EXCEPT ![h] = c][g]
    BY DEF contents
  <1>2. DOMAIN contents = Handles /\ contents' = [g \in Handles |-> contents'[g]]
    BY DEF contents
  <1>3. QED BY <1>1, <1>2

(***************************************************************************)
(* A call that gives h the block nb has done what the contract says when   *)
(* each byte of nb is the one at its index before or, past the first n,    *)
(* new.                                                                    *)
(***************************************************************************)
LEMMA Served ==
  ASSUME IInv, IInv', NEW h \in Handles, NEW l \in Layouts, NEW n, NEW new, NEW nb,
         OnlyAt(h), ChangesOwn(h), blocks'[h] = nb, call'.ok,
         nb.addr # 0, nb.addr % l.align = 0, nb.size = l.size, nb.align = l.align,
         \A i \in 0 .. (nb.len - 1) :
           \/ i < blocks[h].len /\ heap'[nb.addr + i] = heap[blocks[h].addr + i]
           \/ i >= n /\ heap'[nb.addr + i] \in new
  PROVE  Contract!Resized(h, l, n, new)
  <1>1. Contract!GoodBlock(h, l)
    <2>1. \A g \in Handles \ {h} : Bytes(blocks[h])' \cap Bytes(blocks[g])' = {}
      BY DEF IInv, SInv, Accounted, Memory
    <2>2. nb.len >= l.size
      BY DEF IInv, SInv, CallsInOrder, CallInOrder
    <2>3. QED BY <2>1, <2>2 DEF Contract!GoodBlock, Contract!CBytes, Bytes
  <1>2. Contract!Kept(h, n, new)
    <2>1. 0 .. (blocks[h].len - 1) = {i \in Nat : i < blocks[h].len}
      BY At, Fields DEF IInv
    <2>2. QED BY <2>1 DEF Contract!Kept, contents
  <1>3. Contract!OthersUntouched(h)
    BY ContentsElsewhere DEF Contract!OthersUntouched, OnlyAt
  <1>4. QED BY <1>1, <1>2, <1>3 DEF Contract!Resized

(* An error leaves everything as it was. *)
LEMMA Refused ==
  ASSUME NEW op, Fails(op), NEW h, NEW l, NEW n, NEW new
  PROVE  Contract!Resized(h, l, n, new) /\ call'.op = op
  BY DEF Fails, Answers, Contract!Resized, contents

(* Data is nowhere but in blocks, and of calls in the blocks to release. *)
LEMMA NoDataElsewhere ==
  ASSUME IInv, NEW a \in Heap,
         \A g \in Handles : a \notin Bytes(blocks[g]) /\ a \notin Bytes(calls[g].old)
  PROVE  heap[a] \in {Zero, Junk}
  <1> SUFFICES ASSUME heap[a] \notin {Zero, Junk} PROVE FALSE
    OBVIOUS
  <1>1. PICK g \in Handles : Holds(g, a)
    BY DEF IInv, DataHeld
  <1>2. /\ blocks[g] \in Block /\ calls[g].old \in Block /\ calls[g].size \in Nat
        /\ CallInOrder(g)
    BY At DEF IInv
  <1>3. blocks[g].size <= blocks[g].len /\ calls[g].old.size <= calls[g].old.len
    BY <1>2, Fields DEF CallInOrder
  <1>4. a \in Bytes(blocks[g]) \/ a \in Bytes(calls[g].old)
    BY <1>1, <1>2, <1>3, Fields DEF Holds, Fills, Bytes
  <1>5. QED BY <1>4

(* What the backend grants, and what it leaves alone. *)
LEMMA GrantServed ==
  ASSUME IInv, NEW h \in Handles, NEW l \in Layouts, NEW b \in Grants(l),
         NEW zeroed \in BOOLEAN, BackendAllocates(b, zeroed)
  PROVE  /\ b \in Block /\ b.addr # 0 /\ b.addr % l.align = 0
         /\ b.size = l.size /\ b.align = l.align
         /\ \A a \in Bytes(b) : heap'[a] \in IF zeroed THEN {Zero} ELSE {Zero, Junk}
         /\ \A a \in granted : heap'[a] = heap[a]
  <1>1. b \in Block /\ b.size = l.size /\ Bytes(b) \subseteq Heap \ granted
    BY GrantFacts
  <1>2. l.align \in Nat \ {0}
    BY UtilAssumption DEF Layouts
  <1>3. b.align = l.align /\ b.addr # 0 /\ b.addr % l.align = 0
    <2>1. CASE l.size = 0
      <3>1. b.align = l.align /\ b.addr = l.align
        BY <2>1 DEF Grants
      <3>2. l.align % l.align = 0
        BY <1>2
      <3>3. QED BY <1>2, <3>1, <3>2
    <2>2. CASE l.size # 0
      <3>1. b.align = l.align /\ b.addr \in Heap /\ b.addr % l.align = 0
        BY <2>2 DEF Grants
      <3>2. QED BY <3>1, ZeroizeAllocAssumption DEF Heap
    <2>3. QED BY <2>1, <2>2
  <1>4. heap \in [Heap -> {Zero, Junk} \cup (Handles \X Nat)] /\ granted \subseteq Heap
    BY DEF IInv, SInv, TypeOK
  <1>5. \A a \in Heap : heap'[a] = IF zeroed /\ a \in Bytes(b) THEN Zero ELSE heap[a]
    BY <1>4, ZeroizedFacts DEF BackendAllocates, Bytes
  <1>6. \A a \in Bytes(b) : heap[a] \in {Zero, Junk}
    <2>1. ASSUME NEW a \in Bytes(b), NEW g \in Handles
          PROVE  a \notin Bytes(blocks[g]) /\ a \notin Bytes(calls[g].old)
      BY <1>1, At DEF IInv, Memory
    <2>2. QED BY <1>1, <2>1, NoDataElsewhere
  <1>7. \A a \in Bytes(b) : heap'[a] \in IF zeroed THEN {Zero} ELSE {Zero, Junk}
    BY <1>1, <1>5, <1>6
  <1>8. \A a \in granted : heap'[a] = heap[a]
    BY <1>1, <1>4, <1>5
  <1>9. QED BY <1>1, <1>3, <1>7, <1>8

-----------------------------------------------------------------------------
(* The calls, one by one: what is asked for stays so, and the contract holds. *)

LEMMA AllAsked ==
  ASSUME CInv, NEW h \in Handles, OnlyAt(h), ChangesOwn(h), AsAsked(h)'
  PROVE  \A g \in Handles : AsAsked(g)'
  BY AskedElsewhere

LEMMA SameAsked ==
  ASSUME CInv, UNCHANGED <<heap, blocks, calls>>
  PROVE  /\ \A g \in Handles : AsAsked(g)'
         /\ contents' = contents
  BY DEF CInv, AsAsked, IsLive, FittingSizes, Bytes, contents

LEMMA EndServed ==
  ASSUME CInv, HandleAllocError
  PROVE  (\A g \in Handles : AsAsked(g)') /\ Contract!CEnd
  BY SameAsked DEF HandleAllocError, Answers, Contract!CEnd

LEMMA WriteServed ==
  ASSUME ~UsesSlack, CInv, NEW h \in Handles, Write(h)
  PROVE  (\A g \in Handles : AsAsked(g)') /\ Contract!CWrite(h) /\ call'.op = "write"
  <1> DEFINE b == blocks[h]
             filled == Contract!Filled(h, b.size, contents[h])
  <1>1. /\ IInv /\ b \in Block /\ b.addr # 0 /\ b.size <= b.len
        /\ b.addr \in Nat /\ b.size \in Nat /\ b.len \in Nat
    BY At, Fields DEF CInv, IInv, Write, IsLive, CallInOrder
  <1>2. /\ calls[h].step = "returned" /\ UNCHANGED <<granted, blocks, calls>>
        /\ call' = [op |-> "write", ok |-> TRUE]
        /\ \A a \in Heap : heap'[a] = IF a \in b.addr .. (b.addr + b.size - 1)
                                      THEN <<h, a - b.addr>> ELSE heap[a]
    BY DEF Write, Idle, Answers, Data
  <1>3. ChangesOwn(h) /\ OnlyAt(h)
    <2>1. b.addr .. (b.addr + b.size - 1) \subseteq Memory(h) /\ granted \subseteq Heap
      BY <1>1, At DEF IInv, Memory, Bytes
    <2>2. QED BY <1>2, <2>1 DEF ChangesOwn, OnlyAt
  <1>4. \A g \in Handles : AsAsked(g)'
    <2>1. AsAsked(h)'
      BY <1>2 DEF AsAsked, Resizes
    <2>2. QED BY <1>3, <2>1, AllAsked
  <1>5. contents'[h] = filled
    <2>1. ASSUME NEW i \in 0 .. (b.len - 1)
          PROVE  heap'[b.addr + i] = IF i < b.size THEN <<h, i>> ELSE heap[b.addr + i]
      <3> DEFINE a == b.addr + i
      <3>1. /\ a \in Bytes(b) /\ a - b.addr = i
            /\ a \in b.addr .. (b.addr + b.size - 1) <=> i < b.size
        BY <1>1 DEF Bytes
      <3>2. a \in Heap
        BY <1>1, <3>1, At DEF IInv, Room
      <3> HIDE DEF a
      <3>3. heap'[a] = IF i < b.size THEN <<h, i>> ELSE heap[a]
        BY <1>2, <3>1, <3>2
      <3>4. QED BY <3>3 DEF a
    <2>2. DOMAIN contents[h] = 0 .. (b.len - 1)
      BY DEF contents
    <2>3. QED BY <1>2, <2>1, <2>2 DEF Contract!Filled, contents
  <1>6. contents' = [contents EXCEPT ![h] = filled]
    <2>1. \A g \in Handles \ {h} : contents'[g] = contents[g]
      BY <1>1, <1>2, <1>3, ContentsElsewhere
    <2> HIDE DEF filled
    <2>2. QED BY <1>5, <2>1, ContentsExcept
  <1>7. PICK n \in b.size .. b.len : n = b.size
    BY <1>1
  <1>8. Contract!FilledUpTo(h, n)
    BY <1>6, <1>7 DEF Contract!FilledUpTo
  <1>9. QED BY <1>1, <1>2, <1>4, <1>8 DEF Contract!CWrite, Contract!Held

LEMMA AllocateServed ==
  ASSUME CInv, IInv', NEW h \in Handles, NEW op \in {"allocate", "allocate_zeroed"},
         NEW l \in Layouts, Allocate(h, op, l), ~HandleAllocError
  PROVE  /\ \A g \in Handles : AsAsked(g)'
         /\ Contract!CAllocate(h, l, IF op = "allocate_zeroed" THEN {Zero} ELSE {Zero, Junk})
         /\ call'.op = op
  <1> DEFINE new == IF op = "allocate_zeroed" THEN {Zero} ELSE {Zero, Junk}
  <1>1. Contract!Held(h) = FALSE /\ calls[h].step = "returned"
    BY DEF Allocate, Contract!Held, IsLive, Idle
  <1>2. CASE Fails(op)
    <2>1. \A g \in Handles : AsAsked(g)'
      BY <1>2, SameAsked DEF Fails
    <2>2. Contract!Resized(h, l, 0, new) /\ call'.op = op
      BY <1>2, Refused
    <2>3. QED BY <1>1, <2>1, <2>2 DEF Contract!CAllocate
  <1>3. CASE ~Fails(op)
    <2>1. PICK b \in Grants(l) :
            /\ BackendAllocates(b, op = "allocate_zeroed")
            /\ blocks' = [blocks EXCEPT ![h] = b]
      BY <1>3 DEF Allocate
    <2>2. /\ calls' = calls /\ call' = [op |-> op, ok |-> TRUE]
      BY <1>3 DEF Allocate, Answers
    <2>3. /\ b \in Block /\ b.addr # 0 /\ b.addr % l.align = 0
          /\ b.size = l.size /\ b.align = l.align
          /\ \A a \in Bytes(b) : heap'[a] \in new
          /\ \A a \in granted : heap'[a] = heap[a]
      BY <2>1, GrantServed DEF CInv
    <2>4. OnlyAt(h) /\ ChangesOwn(h) /\ blocks'[h] = b
      BY <2>1, <2>2, <2>3 DEF OnlyAt, ChangesOwn, CInv, IInv, SInv, TypeOK
    <2>5. \A g \in Handles : AsAsked(g)'
      <3>1. AsAsked(h)'
        BY <1>1, <2>2 DEF AsAsked, Resizes
      <3>2. QED BY <2>4, <3>1, AllAsked
    <2>6. \A i \in 0 .. (b.len - 1) : i >= 0 /\ heap'[b.addr + i] \in new
      <3>1. b.addr \in Nat /\ b.len \in Nat
        BY <2>3, Fields
      <3>2. \A i \in 0 .. (b.len - 1) : i >= 0 /\ b.addr + i \in Bytes(b)
        BY <3>1 DEF Bytes
      <3>3. QED BY <2>3, <3>2
    <2>7. Contract!Resized(h, l, 0, new)
      <3> HIDE DEF new
      <3>1. QED BY <2>2, <2>3, <2>4, <2>6, Served DEF CInv
    <2>8. QED BY <1>1, <2>2, <2>5, <2>7 DEF Contract!CAllocate
  <1>4. QED BY <1>2, <1>3

LEMMA DeallocateServed ==
  ASSUME CInv, NEW h \in Handles, NEW s \in FittingSizes(h), Deallocate(h, s),
         ~HandleAllocError
  PROVE  /\ \A g \in Handles : AsAsked(g)'
         /\ Contract!CDeallocate(h, s) /\ call'.op = "deallocate"
  <1>1. /\ blocks[h].addr # 0 /\ blocks' = [blocks EXCEPT ![h] = NoBlock]
        /\ calls' = [calls EXCEPT ![h] =
             [step |-> "zeroize", old |-> blocks[h], size |-> s, new |-> NoBlock]]
        /\ call' = [op |-> "deallocate", ok |-> TRUE] /\ heap' = heap
    BY DEF Deallocate, IsLive, Answers
  <1>2. blocks'[h] = NoBlock /\ calls'[h].step = "zeroize" /\ OnlyAt(h) /\ ChangesOwn(h)
    BY <1>1 DEF OnlyAt, ChangesOwn, CInv, IInv, SInv, TypeOK
  <1>3. \A g \in Handles : AsAsked(g)'
    <2>1. AsAsked(h)'
      BY <1>2 DEF AsAsked, Resizes
    <2>2. QED BY <1>2, <2>1, AllAsked
  <1> DEFINE empty == [i \in {} |-> Zero]
  <1>4. contents' = [contents EXCEPT ![h] = empty]
    <2>1. contents'[h] = empty
      BY <1>2 DEF NoBlock, contents
    <2>2. \A g \in Handles \ {h} : contents'[g] = contents[g]
      BY <1>2, ContentsElsewhere DEF CInv, OnlyAt
    <2> HIDE DEF empty
    <2>3. QED BY <2>1, <2>2, ContentsExcept
  <1>5. QED
    BY <1>1, <1>3, <1>4
    DEF Contract!CDeallocate, Contract!Held, Contract!FittingSize, FittingSizes,
        Contract!CNoBlock, NoBlock

(* To begin a resize changes nothing the client sees, unless it fails. *)
LEMMA BeginResizeServed ==
  ASSUME CInv, NEW h \in Handles, NEW op \in Resizes, NEW s \in FittingSizes(h),
         NEW l \in Layouts, BeginResize(h, op, s, l), ~HandleAllocError
  PROVE  /\ \A g \in Handles : AsAsked(g)'
         /\ \/ UNCHANGED Contract!cvars
            \/ Contract!CShrink(h, s, l) /\ call'.op = "shrink"
            \/ Contract!CGrow(h, s, l, {Zero, Junk}) /\ call'.op = "grow"
            \/ Contract!CGrow(h, s, l, {Zero}) /\ call'.op = "grow_zeroed"
  <1>1. /\ IsLive(h) /\ Contract!Held(h) /\ Contract!FittingSize(h, s)
        /\ IF op = "shrink" THEN l.size <= s ELSE l.size >= s
    BY DEF BeginResize, IsLive, Contract!Held, Contract!FittingSize, FittingSizes
  <1>2. CASE Fails(op)
    <2>1. \A g \in Handles : AsAsked(g)'
      BY <1>2, SameAsked DEF Fails
    <2>2. /\ call'.op = op /\ Contract!Resized(h, l, l.size, {Zero, Junk})
          /\ Contract!Resized(h, l, s, {Zero, Junk}) /\ Contract!Resized(h, l, s, {Zero})
      BY <1>2, Refused
    <2>3. QED BY <1>1, <2>1, <2>2 DEF Contract!CShrink, Contract!CGrow, Resizes
  <1>3. CASE ~Fails(op)
    <2>1. PICK b \in Grants(l) :
            /\ BackendAllocates(b, op = "grow_zeroed")
            /\ calls' = [calls EXCEPT ![h] =
                 [step |-> op, old |-> blocks[h], size |-> s, new |-> b]]
      BY <1>3 DEF BeginResize
    <2>2. UNCHANGED <<blocks, call>>
      BY <1>3 DEF BeginResize
    <2>3. /\ b \in Block /\ b.addr # 0 /\ b.addr % l.align = 0
          /\ b.size = l.size /\ b.align = l.align
          /\ \A a \in Bytes(b) : heap'[a] \in IF op = "grow_zeroed" THEN {Zero} ELSE {Zero, Junk}
          /\ \A a \in granted : heap'[a] = heap[a]
      BY <2>1, GrantServed DEF CInv
    <2>4. /\ OnlyAt(h) /\ ChangesOwn(h)
          /\ calls'[h] = [step |-> op, old |-> blocks[h], size |-> s, new |-> b]
      BY <2>1, <2>2, <2>3 DEF OnlyAt, ChangesOwn, CInv, IInv, SInv, TypeOK
    <2>5. AsAsked(h)'
      <3>1. l = [size |-> b.size, align |-> b.align]
        BY <2>3 DEF Layouts
      <3>2. op = "grow_zeroed" => \A a \in Bytes(b) : heap'[a] = Zero
        BY <2>3
      <3>3. IsLive(h)' /\ s \in FittingSizes(h)'
        BY <1>1, <2>2 DEF IsLive, FittingSizes
      <3>4. /\ calls'[h].step = op /\ calls'[h].size = s /\ calls'[h].new = b
        BY <2>4
      <3>5. QED BY <1>1, <2>3, <3>1, <3>2, <3>3, <3>4 DEF AsAsked, Bytes
    <2>6. contents' = contents
      <3>1. \A a \in Bytes(blocks[h]) : heap'[a] = heap[a]
        BY <2>3, At DEF CInv, IInv, Memory
      <3>2. QED BY <2>2, <2>4, <3>1, SameContents DEF CInv
    <2>7. QED BY <2>2, <2>4, <2>5, <2>6, AllAsked DEF Contract!cvars
  <1>4. QED BY <1>2, <1>3

(* The bytes that are not copied are as the backend has granted them. *)
LEMMA CopyServed ==
  ASSUME CInv, IInv', NEW h \in Handles, NEW op \in Resizes, Copy(h, op)
  PROVE  /\ \A g \in Handles : AsAsked(g)'
         /\ \E s \in Sizes, l \in Layouts :
              \/ Contract!CShrink(h, s, l) /\ call'.op = "shrink"
              \/ Contract!CGrow(h, s, l, {Zero, Junk}) /\ call'.op = "grow"
              \/ Contract!CGrow(h, s, l, {Zero}) /\ call'.op = "grow_zeroed"
  <1> DEFINE c   == calls[h]
             old == c.old
             nb  == c.new
             n   == Smaller(c.size, nb.size)
             l   == [size |-> nb.size, align |-> nb.align]
             new == IF op = "grow_zeroed" THEN {Zero} ELSE {Zero, Junk}
  <1>1. /\ IInv /\ c.step = op /\ blocks[h] = old /\ old \in Block /\ nb \in Block
        /\ c.size \in Nat /\ c.size <= old.len /\ nb.size <= nb.len
        /\ Bytes(nb) \cap Bytes(old) = {}
        /\ Bytes(old) \subseteq Heap /\ Bytes(nb) \subseteq Heap
        /\ old.addr \in Nat /\ nb.addr \in Nat /\ old.len \in Nat
        /\ nb.len \in Nat /\ nb.size \in Nat
    BY At, Fields DEF CInv, IInv, Copy, CallInOrder, Room
  <1>2. /\ IsLive(h) /\ c.size \in FittingSizes(h) /\ l \in Layouts
        /\ nb.addr # 0 /\ nb.addr % l.align = 0
        /\ IF op = "shrink" THEN nb.size <= c.size ELSE nb.size >= c.size
        /\ op = "grow_zeroed" => \A a \in Bytes(nb) : heap[a] = Zero
    BY <1>1 DEF CInv, AsAsked
  <1>3. n \in Nat /\ n <= nb.len /\ n <= old.len /\ n = IF op = "shrink" THEN nb.size ELSE c.size
    BY <1>1, <1>2 DEF Smaller
  <1>4. /\ blocks' = [blocks EXCEPT ![h] = nb]
        /\ calls' = [calls EXCEPT ![h] = [c EXCEPT !.step = "zeroize", !.new = NoBlock]]
        /\ heap' = Copied(heap, old.addr, nb.addr, n)
        /\ granted' = granted /\ call' = [op |-> op, ok |-> TRUE]
    BY DEF Copy, Answers
  <1>5. blocks'[h] = nb /\ calls'[h].step = "zeroize" /\ OnlyAt(h)
    BY <1>1, <1>4 DEF IInv, SInv, TypeOK, OnlyAt, Call
  <1>6. \A a \in Heap : heap'[a] =
          IF a \in nb.addr .. (nb.addr + n - 1) THEN heap[a - nb.addr + old.addr] ELSE heap[a]
    BY <1>1, <1>4 DEF Copied, IInv, SInv, TypeOK
  <1>7. nb.addr .. (nb.addr + n - 1) \subseteq Bytes(nb)
    BY <1>1, <1>3 DEF Bytes
  <1>8. ChangesOwn(h)
    <2>1. granted \subseteq Heap /\ Bytes(nb) \subseteq Memory(h)
      BY <1>1, At DEF IInv, Memory
    <2>2. QED BY <1>6, <1>7, <2>1 DEF ChangesOwn
  <1>9. \A g \in Handles : AsAsked(g)'
    <2>1. AsAsked(h)'
      BY <1>5 DEF AsAsked, Resizes
    <2>2. QED BY <1>5, <1>8, <2>1, AllAsked
  <1>10. \A a \in Bytes(nb) : heap[a] \in new
    <2>1. ASSUME NEW a \in Bytes(nb), NEW g \in Handles
          PROVE  a \notin Bytes(blocks[g]) /\ a \notin Bytes(calls[g].old)
      <3>1. CASE g = h
        BY <1>1, <3>1
      <3>2. CASE g # h
        BY <1>1, <3>2 DEF IInv, SInv, Accounted, Memory
      <3>3. QED BY <3>1, <3>2
    <2>2. \A a \in Bytes(nb) : heap[a] \in {Zero, Junk}
      BY <1>1, <2>1, NoDataElsewhere
    <2>3. QED BY <1>2, <2>2
  <1>11. ASSUME NEW i \in 0 .. (nb.len - 1)
         PROVE  \/ i < blocks[h].len /\ heap'[nb.addr + i] = heap[blocks[h].addr + i]
                \/ i >= n /\ heap'[nb.addr + i] \in new
    <2> DEFINE a == nb.addr + i
    <2>1. /\ a \in Bytes(nb) /\ a - nb.addr + old.addr = old.addr + i
          /\ a \in nb.addr .. (nb.addr + n - 1) <=> i < n
      BY <1>1, <1>3 DEF Bytes
    <2>2. a \in Heap /\ heap[a] \in new
      BY <1>1, <1>10, <2>1
    <2> HIDE DEF a, new
    <2>3. heap'[a] = IF i < n THEN heap[old.addr + i] ELSE heap[a]
      BY <1>6, <2>1, <2>2
    <2>4. i < n => i < old.len
      BY <1>1, <1>3
    <2>5. i < n \/ i >= n
      BY <1>3
    <2>6. QED BY <1>1, <2>2, <2>3, <2>4, <2>5 DEF a
  <1>12. /\ l.size = nb.size /\ l.align = nb.align
    OBVIOUS
  <1>13. PICK m \in Layouts : m = l
    BY <1>2
  <1>14. PICK s \in Sizes : s = c.size
    BY <1>2 DEF FittingSizes
  <1>15. Contract!Resized(h, m, n, new)
    <2> HIDE DEF l, n, new
    <2>1. QED BY <1>1, <1>2, <1>4, <1>5, <1>8, <1>11, <1>12, <1>13, Served
  <1>16. /\ Contract!Held(h) /\ Contract!FittingSize(h, s)
         /\ m.size = nb.size /\ s = c.size /\ call'.op = op
    BY <1>2, <1>4, <1>13, <1>14
    DEF IsLive, FittingSizes, Contract!Held, Contract!FittingSize
  <1>17. CASE op = "shrink"
    <2>1. Contract!Resized(h, m, m.size, {Zero, Junk})
      BY <1>3, <1>15, <1>16, <1>17
    <2>2. QED BY <1>2, <1>9, <1>16, <1>17, <2>1 DEF Contract!CShrink
  <1>18. CASE op # "shrink"
    <2>1. Contract!Resized(h, m, s, new)
      BY <1>3, <1>15, <1>16, <1>18
    <2>2. Contract!CGrow(h, s, m, new)
      BY <1>2, <1>16, <1>18, <2>1 DEF Contract!CGrow
    <2>3. QED BY <1>9, <1>16, <1>18, <2>2 DEF Resizes
  <1>19. QED BY <1>17, <1>18

(* What is wiped is outside the block of the client. *)
LEMMA ZeroizeServed ==
  ASSUME CInv, NEW h \in Handles, Zeroize(h)
  PROVE  (\A g \in Handles : AsAsked(g)') /\ UNCHANGED Contract!cvars
  <1> DEFINE c == calls[h]
             wiped == c.old.addr .. (c.old.addr + c.size - 1)
  <1>1. /\ IInv /\ c \in Call /\ c.old \in Block /\ c.size \in Nat /\ c.size <= c.old.len
        /\ Bytes(blocks[h]) \cap Bytes(c.old) = {} /\ Bytes(blocks[h]) \subseteq Heap
        /\ c.old.addr \in Nat /\ c.old.len \in Nat
    BY At, Fields DEF CInv, IInv, Zeroize, CallInOrder, Room
  <1>2. /\ calls' = [calls EXCEPT ![h].step = "dealloc"]
        /\ UNCHANGED <<granted, blocks, call>>
        /\ \A a \in Heap : heap'[a] = IF a \in wiped THEN Zero ELSE heap[a]
    BY ZeroizedFacts DEF Zeroize, CInv, IInv, SInv, TypeOK
  <1>3. calls'[h].step = "dealloc" /\ OnlyAt(h)
    BY <1>1, <1>2 DEF IInv, SInv, TypeOK, OnlyAt, Call
  <1>4. wiped \subseteq Bytes(c.old)
    BY <1>1 DEF Bytes
  <1>5. ChangesOwn(h)
    <2>1. granted \subseteq Heap /\ Bytes(c.old) \subseteq Memory(h)
      BY <1>1, At DEF IInv, Memory
    <2>2. QED BY <1>2, <1>4, <2>1 DEF ChangesOwn
  <1>6. \A g \in Handles : AsAsked(g)'
    <2>1. AsAsked(h)'
      BY <1>3 DEF AsAsked, Resizes
    <2>2. QED BY <1>3, <1>5, <2>1, AllAsked
  <1>7. contents' = contents
    <2>1. \A a \in Bytes(blocks[h]) : heap'[a] = heap[a]
      BY <1>1, <1>2, <1>4
    <2>2. QED BY <1>1, <1>2, <1>5, <2>1, SameContents
  <1>8. QED BY <1>2, <1>6, <1>7 DEF Contract!cvars

LEMMA BackendDeallocServed ==
  ASSUME CInv, NEW h \in Handles, BackendDealloc(h)
  PROVE  (\A g \in Handles : AsAsked(g)') /\ UNCHANGED Contract!cvars
  <1>1. UNCHANGED <<heap, blocks, call>> /\ calls' = [calls EXCEPT ![h] = Returned]
    BY DEF BackendDealloc
  <1>2. calls'[h] = Returned /\ OnlyAt(h) /\ ChangesOwn(h)
    BY <1>1 DEF CInv, IInv, SInv, TypeOK, OnlyAt, ChangesOwn
  <1>3. AsAsked(h)'
    BY <1>2, ReturnedFacts DEF AsAsked, Resizes
  <1>4. QED BY <1>1, <1>2, <1>3, AllAsked DEF contents, Contract!cvars

-----------------------------------------------------------------------------
LEMMA InitServed ==
  ASSUME Init
  PROVE  CInv /\ Contract!CInit
  <1>1. \A h \in Handles : AsAsked(h)
    BY ReturnedFacts DEF Init, AsAsked, Resizes
  <1>2. contents = [h \in Handles |-> [i \in {} |-> Zero]]
    <2>1. 0 .. (NoBlock.len - 1) = {}
      BY DEF NoBlock
    <2>2. QED BY <2>1 DEF Init, contents
  <1>3. blocks = [h \in Handles |-> Contract!CNoBlock] /\ call = [op |-> "new", ok |-> TRUE]
    BY DEF Init, NoBlock, Contract!CNoBlock
  <1>4. QED BY <1>1, <1>2, <1>3, InitIInv DEF CInv, Contract!CInit

LEMMA StepServed ==
  ASSUME ~UsesSlack, CInv, [Next]_vars
  PROVE  CInv' /\ [Contract!CNext]_(Contract!cvars)
  <1>1. IInv'
    BY StepIInv DEF CInv
  <1> SUFFICES (\A g \in Handles : AsAsked(g)') /\ [Contract!CNext]_(Contract!cvars)
    BY <1>1 DEF CInv
  <1>2. Layouts \subseteq Contract!Layouts
    BY DEF Layouts, Contract!Layouts
  <1>3. CASE UNCHANGED vars
    BY <1>3, SameAsked DEF vars, Contract!cvars
  <1>4. CASE HandleAllocError
    BY <1>4, EndServed DEF Contract!CNext
  <1>5. ASSUME NEW h \in Handles, Write(h)
        PROVE  (\A g \in Handles : AsAsked(g)') /\ Contract!CNext
    BY <1>5, WriteServed DEF Contract!CNext
  <1>6. ASSUME NEW h \in Handles, NEW l \in Requests,
               NEW op \in {"allocate", "allocate_zeroed"}, Allocate(h, op, l),
               ~HandleAllocError
        PROVE  (\A g \in Handles : AsAsked(g)') /\ Contract!CNext
    <2>1. l \in Layouts
      BY <1>6 DEF Allocate, AllocChecks
    <2>2. /\ \A g \in Handles : AsAsked(g)'
          /\ Contract!CAllocate(h, l, IF op = "allocate_zeroed" THEN {Zero} ELSE {Zero, Junk})
          /\ call'.op = op
      BY <1>1, <1>6, <2>1, AllocateServed
    <2>3. QED BY <1>2, <2>1, <2>2 DEF Contract!CNext
  <1>7. ASSUME NEW h \in Handles, NEW s \in FittingSizes(h), Deallocate(h, s),
               ~HandleAllocError
        PROVE  (\A g \in Handles : AsAsked(g)') /\ Contract!CNext
    <2>1. s \in Sizes
      BY DEF FittingSizes
    <2>2. QED BY <1>7, <2>1, DeallocateServed DEF Contract!CNext
  <1>8. ASSUME NEW h \in Handles, NEW s \in FittingSizes(h), NEW l \in Requests,
               NEW op \in Resizes, BeginResize(h, op, s, l), ~HandleAllocError
        PROVE  (\A g \in Handles : AsAsked(g)') /\ [Contract!CNext]_(Contract!cvars)
    <2>1. l \in Layouts /\ s \in Sizes
      BY <1>8 DEF BeginResize, AllocChecks, FittingSizes
    <2>2. QED BY <1>2, <1>8, <2>1, BeginResizeServed DEF Contract!CNext
  <1>9. ASSUME NEW h \in Handles, NEW op \in Resizes, Copy(h, op)
        PROVE  (\A g \in Handles : AsAsked(g)') /\ Contract!CNext
    BY <1>1, <1>2, <1>9, CopyServed DEF Contract!CNext
  <1>10. QED
    BY <1>3, <1>4, <1>5, <1>6, <1>7, <1>8, <1>9, ZeroizeServed, BackendDeallocServed
    DEF Next, Proceed

(***************************************************************************)
(* ZeroizeAlloc honours the Allocator contract, whatever the threads do    *)
(* between the steps of a call: each call takes effect for its client at   *)
(* once, on one block, keeps the contents of what it resizes and reveals   *)
(* nothing of other blocks in what is new (src/zeroizing_alloc.rs:98,      *)
(* :147).                                                                  *)
(***************************************************************************)
THEOREM ImplementsContract ==
  ASSUME ~UsesSlack
  PROVE  Spec => ImplementsAllocator
  <1>1. Init => CInv /\ Contract!CInit
    BY InitServed
  <1>2. CInv /\ [Next]_vars => CInv' /\ [Contract!CNext]_(Contract!cvars)
    BY StepServed
  <1>3. QED BY <1>1, <1>2, PTL DEF Spec, ImplementsAllocator, Contract!ContractSpec

=============================================================================
