---------------------------- MODULE ZeroizeProps ----------------------------
(***************************************************************************)
(* What zeroize_mem guarantees (src/zeroize/mod.rs).                       *)
(***************************************************************************)
EXTENDS Zeroize

(* The types of the arguments and locals (src/zeroize/mod.rs:101). *)
TypeOK ==
  /\ build \in {"nightly", "asm_barier", "fallback"}
  /\ pc \in {"idle", "called", "issued", "returned"}
  /\ start \in Nat /\ len \in Nat
  /\ ptr \in 0 .. UsizeSpan - 1 /\ i \in Nat
  /\ mem \in [Memory -> {Zero, Secret} \cup OtherData]
  /\ pending \subseteq Memory

(***************************************************************************)
(* "This is guarantied to be not elided by the compiler"                   *)
(* (src/zeroize/mod.rs:37, :63, :95): when zeroize_mem has returned, and   *)
(* after the memory is freed, nothing is left of the secret.               *)
(***************************************************************************)
NothingElided ==
  pc \in {"returned", "idle"} => \A a \in Memory : mem[a] # Secret

(* Where a byte of the range may still hold the secret. *)
Unwritten ==
  CASE pc = "issued" -> pending
    [] pc = "called" -> IF build = "fallback" THEN ptr .. (start + len - 1) ELSE Range
    [] OTHER -> {}

(***************************************************************************)
(* The inductive invariant: what is not zero yet is still to be written.   *)
(* "after _i steps len - _i > 0 bytes are left", and the pointer ends at   *)
(* most one byte past the range and never wraps (src/zeroize/mod.rs:104,   *)
(* :110).                                                                  *)
(***************************************************************************)
WipeInv ==
  /\ TypeOK
  /\ MemBase <= start /\ start + len <= MemBase + MemSize
  /\ i <= len /\ ptr = start + i
  /\ pending \subseteq Range
  /\ pending # {} => pc = "issued"
  /\ \A a \in Memory : mem[a] = Secret => a \in Unwritten
  /\ pc # "idle" => \A a \in Range : mem[a] = IF a \in Unwritten THEN Secret ELSE Zero

(***************************************************************************)
(* To everyone else zeroize_mem is one step that zeroizes its range, that  *)
(* and no more, however it goes about it (src/zeroize/mod.rs:15).  While   *)
(* it runs the range counts as unchanged: nobody else may look at it       *)
(* ("this function is not atomic", :42).                                   *)
(***************************************************************************)
Atomic == INSTANCE AtomicZeroize WITH
  at    <- IF pc = "issued" THEN "called" ELSE pc,
  range <- Range,
  bytes <- [a \in Memory |->
             IF pc \in {"called", "issued"} /\ a \in Range THEN Secret ELSE mem[a]]

ZeroizesAtOnce == Atomic!AtomicSpec
=============================================================================
