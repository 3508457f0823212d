------------------------------- MODULE Zeroize -------------------------------
(***************************************************************************)
(* zeroize_mem (src/zeroize/mod.rs), of which each build of the crate      *)
(* takes one of three, and its caller, who frees the memory afterwards.    *)
(*                                                                         *)
(* The writes of an inlined memset are the compiler's to make, in any      *)
(* order and at any time until something observes them.  Freed memory is   *)
(* observed by nobody, so what has not been written by then never is.  A   *)
(* volatile write, and the asm block for all writes before it, counts as   *)
(* an observation.  Other threads write to the bytes next to the range.    *)
(***************************************************************************)
EXTENDS Integers

CONSTANTS
  MemBase, MemSize,  \* the memory that is there
  UsizeSpan,         \* 2^usize::BITS
  Zero,
  Secret,            \* what the caller has in the memory it frees
  OtherData          \* what other threads store

(* No Rust allocation reaches the last byte of the address space. *)
ASSUME ZeroizeAssumption ==
  /\ UsizeSpan \in Nat
  /\ MemBase \in Nat \ {0} /\ MemSize \in Nat
  /\ MemBase + MemSize < UsizeSpan
  /\ Secret # Zero /\ Secret \notin OtherData

VARIABLES
  build,   \* which zeroize_mem is compiled in
  pc,      \* where the caller is
  start,   \* the arguments of the call
  len,
  ptr,     \* the fallback's mut ptr and _i
  i,
  mem,     \* the memory
  pending  \* writes of 0 that have been issued and not made

vars == <<build, pc, start, len, ptr, i, mem, pending>>

Memory == MemBase .. (MemBase + MemSize - 1)

Range == start .. (start + len - 1)

Init ==
  /\ build \in {"nightly", "asm_barier", "fallback"}
  /\ pc = "idle"
  /\ start = MemBase /\ len = 0
  /\ ptr = MemBase /\ i = 0
  /\ mem \in [Memory -> OtherData]
  /\ pending = {}

(* The caller has used p .. p + n - 1; it calls zeroize_mem before it frees. *)
Call(p, n) ==
  /\ pc = "idle"
  /\ p + n <= MemBase + MemSize
  /\ pc' = "called"
  /\ start' = p /\ len' = n
  /\ ptr' = p /\ i' = 0
  /\ mem' = [a \in Memory |-> IF a \in p .. (p + n - 1) THEN Secret ELSE mem[a]]
  /\ UNCHANGED <<build, pending>>

(* Mutant: the last byte is missed. *)
SetMemory_Short ==
  /\ build \in {"nightly", "asm_barier"}
  /\ pc = "called"
  /\ pc' = "issued"
  /\ pending' = start .. (start + len - 2)
  /\ UNCHANGED <<build, start, len, ptr, i, mem>>

(* volatile_set_memory and write_bytes: the writes are issued. *)
SetMemory ==
  /\ build \in {"nightly", "asm_barier"}
  /\ pc = "called"
  /\ pc' = "issued"
  /\ pending' = Range
  /\ UNCHANGED <<build, start, len, ptr, i, mem>>

(* One of them is made: there is no order to them. *)
WriteByte(a) ==
  /\ a \in pending
  /\ mem' = [mem EXCEPT ![a] = Zero]
  /\ pending' = pending \ {a}
  /\ UNCHANGED <<build, pc, start, len, ptr, i>>

(* Mutant: the asm block is not a barrier. *)
Observed_VolatileOnly == build = "nightly" => pending = {}

(* What was issued has been made, for it is volatile, or asm may read it. *)
Observed == pending = {}

(* The intrinsic, or the asm block, is passed. *)
SetMemoryReturns ==
  /\ pc = "issued"
  /\ Observed
  /\ pc' = "returned"
  /\ UNCHANGED <<build, start, len, ptr, i, mem, pending>>

(* Mutant: one byte more. *)
WriteVolatile_OneMore ==
  /\ build = "fallback" /\ pc = "called"
  /\ i <= len /\ ptr \in Memory
  /\ mem' = [mem EXCEPT ![ptr] = Zero]
  /\ ptr' = (ptr + 1) % UsizeSpan /\ i' = i + 1
  /\ UNCHANGED <<build, pc, start, len, pending>>

(* One turn of the fallback's loop. *)
WriteVolatile ==
  /\ build = "fallback" /\ pc = "called"
  /\ i < len
  /\ mem' = [mem EXCEPT ![ptr] = Zero]
  /\ ptr' = (ptr + 1) % UsizeSpan /\ i' = i + 1
  /\ UNCHANGED <<build, pc, start, len, pending>>

LoopEnds ==
  /\ build = "fallback" /\ pc = "called"
  /\ i >= len
  /\ pc' = "returned"
  /\ UNCHANGED <<build, start, len, ptr, i, mem, pending>>

(* The memory goes back; writes nobody would see are dropped. *)
Free ==
  /\ pc = "returned"
  /\ pc' = "idle"
  /\ pending' = {}
  /\ UNCHANGED <<build, start, len, ptr, i, mem>>

(* Another thread stores in a byte that is not the caller's. *)
OtherWrites(a, v) ==
  /\ pc # "idle" => a \notin Range
  /\ mem' = [mem EXCEPT ![a] = v]
  /\ UNCHANGED <<build, pc, start, len, ptr, i, pending>>

(* What zeroize_mem does by itself once it is called. *)
Proceed ==
  \/ SetMemory \/ SetMemoryReturns
  \/ WriteVolatile \/ LoopEnds
  \/ \E a \in Memory : WriteByte(a)

Next ==
  \/ \E p \in Memory, n \in 0 .. MemSize : Call(p, n)
  \/ Proceed
  \/ Free
  \/ \E a \in Memory, v \in OtherData : OtherWrites(a, v)

Spec == Init /\ [][Next]_vars
=============================================================================
