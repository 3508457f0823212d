------------------------- MODULE ZeroizeAllocProps -------------------------
(***************************************************************************)
(* What ZeroizeAlloc (src/zeroizing_alloc.rs) promises, whatever other     *)
(* threads do between the steps of a call.                                 *)
(***************************************************************************)
EXTENDS ZeroizeAlloc

Block == [addr  : 0 .. UsizeSpan - 1, size : Nat,
          align : Nat \ {0},          len  : Nat]

Call == [step : Resizes \cup {"returned", "zeroize", "dealloc"},
         old  : Block, size : Nat, new : Block]

(***************************************************************************)
(* Heap and blocks have their types, and what the backend has granted lies *)
(* in its memory (src/zeroizing_alloc.rs:31).                              *)
(***************************************************************************)
TypeOK ==
  /\ phase \in {"running", "aborted"}
  /\ heap \in [Heap -> {Zero, Junk} \cup (Handles \X Nat)]
  /\ granted \subseteq Heap
  /\ blocks \in [Handles -> Block]
  /\ calls \in [Handles -> Call]

(* The memory a handle's block and its call in progress take up. *)
Memory(h) == Bytes(blocks[h]) \cup Bytes(calls[h].old) \cup Bytes(calls[h].new)

(***************************************************************************)
(* The backend has handed out exactly the memory of the blocks and of the  *)
(* calls in progress.  No call, failed or resized, loses a block           *)
(* (src/zeroizing_alloc.rs:98, the default realloc, grow and shrink), and  *)
(* none goes back twice: that would take memory from under another.        *)
(***************************************************************************)
Accounted ==
  /\ granted = UNION {Memory(h) : h \in Handles}
  /\ \A g, h \in Handles : g # h => Memory(g) \cap Memory(h) = {}

(* The client's data at address a, in the block b under h. *)
DataOf(h, b, a) == a \in Bytes(b) /\ heap[a] = Data(h, a - b.addr)

(***************************************************************************)
(* "A wrapper for any memory allocator to zeroize memory before            *)
(* deallocation" (src/zeroizing_alloc.rs:3): data is in the block it was   *)
(* written to, or in the one its call is about to wipe.  So the backend    *)
(* gets none of it back, no other client is given any, and a block that is *)
(* moved or resized keeps each byte at its index (:79, :140).              *)
(***************************************************************************)
NothingRemains ==
  \A a \in Heap : heap[a] \notin {Zero, Junk} =>
    \E h \in Handles : DataOf(h, blocks[h], a) \/ DataOf(h, calls[h].old, a)

(***************************************************************************)
(* The inductive invariant: what each step of a call relies on the earlier *)
(* ones for, that the client leaves h alone meanwhile, and that of a block *)
(* nothing but the bytes asked for, which are wiped, can hold data         *)
(* (src/zeroizing_alloc.rs:137).                                           *)
(***************************************************************************)
CallInOrder(h) ==
  LET b == blocks[h]
      c == calls[h]
  IN /\ b.size <= b.len
     /\ c.old.size <= c.size /\ c.size <= c.old.len
     /\ c.new.size <= c.new.len
     /\ Idle(h) => c = Returned
     /\ c.step \in Resizes => b = c.old /\ Bytes(c.new) \cap Bytes(c.old) = {}
     /\ c.step \in {"zeroize", "dealloc"} =>
          c.new = NoBlock /\ Bytes(b) \cap Bytes(c.old) = {}

CallsInOrder == \A h \in Handles : CallInOrder(h)

(* Like DataOf, in the bytes that were asked for. *)
Fills(h, b, a) ==
  a \in b.addr .. (b.addr + b.size - 1) /\ heap[a] = Data(h, a - b.addr)

Holds(h, a) ==
  \/ Fills(h, blocks[h], a)
  \/ calls[h].step # "dealloc" /\ Fills(h, calls[h].old, a)

DataHeld ==
  \A a \in Heap : heap[a] \notin {Zero, Junk} => \E h \in Handles : Holds(h, a)

(* The part of it that does not depend on what clients write where. *)
SInv ==
  /\ TypeOK
  /\ Accounted
  /\ CallsInOrder

IInv == SInv /\ DataHeld

(***************************************************************************)
(* The same sentence read of all of a block: "a wrapper for any memory     *)
(* allocator to zeroize memory before deallocation"                        *)
(* (src/zeroizing_alloc.rs:3), so memory at the backend holds no data.     *)
(***************************************************************************)
ZeroizedBeforeDeallocation ==
  \A a \in Heap \ granted : heap[a] \in {Zero, Junk}

(* Copies of the data of h outside its block. *)
Stray(h) ==
  {a \in Heap \ Bytes(blocks[h]) : heap[a] \notin {Zero, Junk} /\ heap[a][1] = h}

(***************************************************************************)
(* "If it needs to be reallocated, the old allocation is immediately       *)
(* zeroized" (README.md:36): what a deallocation or a move leaves behind   *)
(* is wiped, whatever the other threads do (src/zeroizing_alloc.rs:79).    *)
(***************************************************************************)
StrayDataWiped ==
  \A h \in Handles : Stray(h) # {} ~> (Stray(h) = {} \/ phase = "aborted")

(***************************************************************************)
(* Every call that begins returns (src/zeroizing_alloc.rs:54, :137), with  *)
(* its memory back at the backend.                                         *)
(***************************************************************************)
CallsReturn ==
  \A h \in Handles : ~Idle(h) ~> (Idle(h) \/ phase = "aborted")
=============================================================================
