---------------------------- MODULE ZeroizeProofs ----------------------------
(***************************************************************************)
(* zeroize_mem for memory of every size, in all three builds: it leaves    *)
(* nothing of its range, and is one atomic step to everyone else.          *)
(***************************************************************************)
EXTENDS ZeroizeProps, TLAPS

LEMMA InitWipeInv == Init => WipeInv
  BY ZeroizeAssumption DEF Init, WipeInv, TypeOK, Memory, Range, Unwritten

LEMMA StepWipeInv == WipeInv /\ [Next]_vars => WipeInv'
  <1> SUFFICES ASSUME WipeInv, [Next]_vars
               PROVE  WipeInv'
    OBVIOUS
  <1> USE ZeroizeAssumption
  <1>1. ASSUME NEW p \in Memory, NEW n \in 0 .. MemSize, Call(p, n)
        PROVE  WipeInv'
    <2>1. pending = {}
      BY <1>1 DEF Call, WipeInv
    <2>2. Range' = p .. (p + n - 1) /\ Range' \subseteq Memory
      BY <1>1 DEF Call, Range, Memory
    <2>3. Unwritten' = Range'
      BY <1>1 DEF Call, Unwritten, Range
    <2>4. p \in Nat /\ n \in Nat /\ p + n <= MemBase + MemSize /\ p < UsizeSpan
      BY <1>1 DEF Call, Memory
    <2>5. TypeOK'
      BY <1>1, <2>4 DEF Call, WipeInv, TypeOK
    <2>6. \A a \in Memory : mem'[a] = IF a \in Range' THEN Secret ELSE mem[a]
      BY <1>1, <2>2 DEF Call
    <2>7. \A a \in Memory : mem'[a] = Secret => a \in Unwritten'
      <3>1. \A a \in Memory : mem[a] # Secret
        BY <1>1 DEF Call, WipeInv, Unwritten
      <3>2. QED BY <2>3, <2>6, <3>1
    <2>8. QED
      BY <1>1, <2>1, <2>2, <2>3, <2>4, <2>5, <2>6, <2>7 DEF Call, WipeInv, Memory
  <1>2. CASE SetMemory
    <2>1. Range' = Range /\ Unwritten = Range /\ Unwritten' = Range
      BY <1>2 DEF SetMemory, Range, Unwritten
    <2>2. Range \subseteq Memory
      BY DEF WipeInv, TypeOK, Range, Memory
    <2>3. QED
      BY <1>2, <2>1, <2>2 DEF SetMemory, WipeInv, TypeOK
  <1>3. CASE SetMemoryReturns
    BY <1>3 DEF SetMemoryReturns, Observed, WipeInv, TypeOK, Range, Unwritten
  <1>4. ASSUME NEW a \in Memory, WriteByte(a)
        PROVE  WipeInv'
    <2>1. pc = "issued" /\ a \in Range /\ Range' = Range
      BY <1>4 DEF WriteByte, WipeInv, Range
    <2>2. Unwritten = pending /\ Unwritten' = pending \ {a}
      BY <1>4, <2>1 DEF WriteByte, Unwritten
    <2>3. \A b \in Memory : mem'[b] = IF b = a THEN Zero ELSE mem[b]
      BY <1>4 DEF WriteByte, WipeInv, TypeOK
    <2>4. Range \subseteq Memory
      BY DEF WipeInv, TypeOK, Range, Memory
    <2>5. TypeOK'
      BY <1>4 DEF WriteByte, WipeInv, TypeOK
    <2>6. QED
      BY <1>4, <2>1, <2>2, <2>3, <2>4, <2>5 DEF WriteByte, WipeInv
  <1>5. CASE WriteVolatile
    <2>1. /\ build = "fallback" /\ pc = "called" /\ i < len
          /\ start \in Nat /\ len \in Nat /\ i \in Nat /\ ptr = start + i
          /\ start + len <= MemBase + MemSize /\ MemBase <= start
      BY <1>5 DEF WriteVolatile, WipeInv, TypeOK
    <2>2. ptr' = ptr + 1 /\ i' = i + 1 /\ ptr \in Memory /\ ptr + 1 < UsizeSpan
      BY <1>5, <2>1 DEF WriteVolatile, Memory
    <2>3. /\ Range' = Range /\ Unwritten = ptr .. (start + len - 1)
          /\ Unwritten' = (ptr + 1) .. (start + len - 1)
      BY <1>5, <2>1, <2>2 DEF WriteVolatile, Range, Unwritten
    <2>4. \A b \in Memory : mem'[b] = IF b = ptr THEN Zero ELSE mem[b]
      BY <1>5, <2>2 DEF WriteVolatile, WipeInv, TypeOK
    <2>5. TypeOK'
      BY <1>5, <2>1, <2>2 DEF WriteVolatile, WipeInv, TypeOK
    <2>6. Range \subseteq Memory
      BY <2>1 DEF Range, Memory
    <2>7. \A b \in Memory : b \in Unwritten' <=> b \in Unwritten /\ b # ptr
      BY <2>1, <2>3 DEF Memory
    <2>8. \A b \in Memory : mem'[b] = Secret => b \in Unwritten'
      BY <2>4, <2>7 DEF WipeInv
    <2>9. \A b \in Range' : mem'[b] = IF b \in Unwritten' THEN Secret ELSE Zero
      BY <2>1, <2>3, <2>4, <2>6, <2>7 DEF WipeInv
    <2>10. QED
      BY <1>5, <2>1, <2>2, <2>3, <2>5, <2>8, <2>9 DEF WriteVolatile, WipeInv
  <1>6. CASE LoopEnds
    <2>1. i = len /\ ptr = start + len /\ pc = "called" /\ build = "fallback"
      BY <1>6 DEF LoopEnds, WipeInv, TypeOK
    <2>2. Unwritten = {} /\ Unwritten' = {} /\ Range' = Range
      <3>1. ptr .. (start + len - 1) = {}
        BY <2>1 DEF WipeInv, TypeOK
      <3>2. QED BY <1>6, <2>1, <3>1 DEF LoopEnds, Unwritten, Range
    <2>3. QED
      BY <1>6, <2>1, <2>2 DEF LoopEnds, WipeInv, TypeOK
  <1>7. CASE Free
    BY <1>7 DEF Free, WipeInv, TypeOK, Range, Unwritten
  <1>8. ASSUME NEW a \in Memory, NEW v \in OtherData, OtherWrites(a, v)
        PROVE  WipeInv'
    <2>1. Range' = Range /\ Unwritten' = Unwritten
      BY <1>8 DEF OtherWrites, Range, Unwritten
    <2>2. \A b \in Memory : mem'[b] = IF b = a THEN v ELSE mem[b]
      BY <1>8 DEF OtherWrites, WipeInv, TypeOK
    <2>3. TypeOK'
      BY <1>8 DEF OtherWrites, WipeInv, TypeOK
    <2>4. Range \subseteq Memory
      BY DEF WipeInv, TypeOK, Range, Memory
    <2>5. QED
      BY <1>8, <2>1, <2>2, <2>3, <2>4 DEF OtherWrites, WipeInv
  <1>9. CASE UNCHANGED vars
    BY <1>9 DEF vars, WipeInv, TypeOK, Range, Unwritten
  <1>10. QED
    BY <1>1, <1>2, <1>3, <1>4, <1>5, <1>6, <1>7, <1>8, <1>9 DEF Next, Proceed

(***************************************************************************)
(* The bytes still to be written are the only ones of the range that are   *)
(* not zero, throughout the loop and while writes are pending              *)
(* (src/zeroize/mod.rs:103).                                               *)
(***************************************************************************)
THEOREM Inductive == Spec => []WipeInv
  BY InitWipeInv, StepWipeInv, PTL DEF Spec

(***************************************************************************)
(* No build elides the writes: memory zeroize_mem has returned from, or    *)
(* that has been freed after it, holds no secret (src/zeroize/mod.rs:37).  *)
(***************************************************************************)
THEOREM NeverElided == Spec => []NothingElided
  <1>1. WipeInv => NothingElided
    BY DEF WipeInv, NothingElided, Unwritten
  <1>2. QED BY <1>1, Inductive, PTL

-----------------------------------------------------------------------------
LEMMA InMemory ==
  ASSUME NEW s \in Nat, NEW n \in Nat, MemBase <= s, s + n <= MemBase + MemSize
  PROVE  s .. (s + n - 1) \subseteq Memory
  BY ZeroizeAssumption DEF Memory

LEMMA InitAtomic == Init => Atomic!AInit
  <1> SUFFICES ASSUME Init PROVE Atomic!AInit
    OBVIOUS
  <1>1. Range = {}
    BY ZeroizeAssumption DEF Init, Range
  <1>2. pc = "idle" /\ mem \in [Memory -> OtherData]
    BY DEF Init
  <1>3. QED BY <1>1, <1>2 DEF Atomic!AInit

LEMMA StepAtomic ==
  WipeInv /\ WipeInv' /\ [Next]_vars =>
    [Atomic!ACall \/ Atomic!AZeroize \/ Atomic!AFree \/ Atomic!AOthers]_(Atomic!avars)
  <1> SUFFICES ASSUME WipeInv, WipeInv', [Next]_vars
               PROVE  \/ Atomic!ACall \/ Atomic!AZeroize
                      \/ Atomic!AFree \/ Atomic!AOthers
                      \/ UNCHANGED Atomic!avars
    BY DEF Atomic!avars
  <1> USE ZeroizeAssumption
  <1> DEFINE at    == IF pc = "issued" THEN "called" ELSE pc
             bytes == [a \in Memory |->
                        IF pc \in {"called", "issued"} /\ a \in Range THEN Secret
                                                                      ELSE mem[a]]
  <1>a. /\ mem \in [Memory -> {Zero, Secret} \cup OtherData]
        /\ mem' \in [Memory -> {Zero, Secret} \cup OtherData]
    BY DEF WipeInv, TypeOK
  <1>b. Range \subseteq Memory /\ Range' \subseteq Memory
    <2>1. /\ start \in Nat /\ len \in Nat /\ MemBase <= start
          /\ start + len <= MemBase + MemSize
          /\ start' \in Nat /\ len' \in Nat /\ MemBase <= start'
          /\ start' + len' <= MemBase + MemSize
      BY DEF WipeInv, TypeOK
    <2>2. QED BY <2>1, InMemory DEF Range
  <1>1. ASSUME NEW p \in Memory, NEW n \in 0 .. MemSize, Call(p, n)
        PROVE  Atomic!ACall
    <2>1. at = "idle" /\ at' = "called" /\ pc = "idle" /\ pc' = "called"
      BY <1>1 DEF Call
    <2>2. Range' = p .. (p + n - 1)
      BY <1>1 DEF Call, Range
    <2>3. bytes' = [a \in Memory |-> IF a \in Range' THEN Secret ELSE bytes[a]]
      BY <1>1, <2>1, <2>2, <1>a DEF Call
    <2>4. QED BY <1>b, <2>1, <2>3 DEF Atomic!ACall
  <1>2. CASE SetMemory
    BY <1>2 DEF SetMemory, Atomic!avars, Range
  <1>3. ASSUME NEW a \in Memory, WriteByte(a)
        PROVE  UNCHANGED Atomic!avars
    <2>1. pc = "issued" /\ pc' = "issued" /\ a \in Range /\ Range' = Range
      BY <1>3 DEF WriteByte, WipeInv, Range
    <2>2. bytes' = bytes
      BY <1>3, <2>1, <1>a DEF WriteByte
    <2>3. QED BY <2>1, <2>2 DEF Atomic!avars
  <1>4. CASE WriteVolatile
    <2>1. pc = "called" /\ pc' = "called" /\ Range' = Range /\ ptr \in Range
      BY <1>4 DEF WriteVolatile, WipeInv, TypeOK, Range
    <2>2. bytes' = bytes
      BY <1>4, <2>1, <1>a DEF WriteVolatile
    <2>3. QED BY <2>1, <2>2 DEF Atomic!avars
  <1>5. CASE SetMemoryReturns \/ LoopEnds
    <2>1. /\ pc \in {"called", "issued"} /\ pc' = "returned"
          /\ Range' = Range /\ mem' = mem
      BY <1>5 DEF SetMemoryReturns, LoopEnds, Range
    <2>2. \A a \in Range : mem[a] = Zero
      BY <2>1, Zenon DEF WipeInv, Unwritten
    <2>3. bytes' = [a \in Memory |-> IF a \in Range THEN Zero ELSE bytes[a]]
      BY <2>1, <2>2, <1>a
    <2>4. QED BY <2>1, <2>3 DEF Atomic!AZeroize
  <1>6. CASE Free
    BY <1>6 DEF Free, Atomic!AFree, Range
  <1>7. ASSUME NEW a \in Memory, NEW v \in OtherData, OtherWrites(a, v)
        PROVE  Atomic!AOthers
    <2>1. pc' = pc /\ Range' = Range /\ (pc # "idle" => a \notin Range)
      BY <1>7 DEF OtherWrites, Range
    <2>2. bytes' = [bytes EXCEPT ![a] = v]
      BY <1>7, <2>1, <1>a DEF OtherWrites
    <2>3. at # "idle" => a \notin Range
      BY <2>1
    <2>4. QED BY <2>1, <2>2, <2>3 DEF Atomic!AOthers
  <1>8. CASE UNCHANGED vars
    BY <1>8 DEF vars, Atomic!avars, Range
  <1>9. QED
    BY <1>1, <1>2, <1>3, <1>4, <1>5, <1>6, <1>7, <1>8 DEF Next, Proceed

(***************************************************************************)
(* Each build implements the one step that SecAlloc and ZeroizeAlloc take  *)
(* zeroize_mem to be (src/zeroize/mod.rs:15).                              *)
(***************************************************************************)
THEOREM Implements == Spec => ZeroizesAtOnce
  <1>1. QED
    BY InitAtomic, StepAtomic, Inductive, PTL
       DEF Spec, ZeroizesAtOnce, Atomic!AtomicSpec
=============================================================================
