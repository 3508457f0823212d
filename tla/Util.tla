-------------------------------- MODULE Util --------------------------------
(***************************************************************************)
(* The arithmetic both allocators compute addresses and sizes with         *)
(* (src/util.rs), on a usize of UsizeSpan values, and the requests that    *)
(* core::alloc::Layout lets a client form.                                 *)
(*                                                                         *)
(* Machine words are numbers 0 .. UsizeSpan-1.  Only wrapping_add can      *)
(* leave that range by the code's own design, so only it is reduced        *)
(* modulo UsizeSpan; every other sum and difference of the code is plain,  *)
(* and the type invariants of the modules that use them show that it never *)
(* leaves the range.                                                       *)
(***************************************************************************)
EXTENDS Integers

CONSTANTS
  UsizeSpan,  \* the number of values of usize, 2^64 on a 64 bit target
  Sizes,      \* the sizes a client asks for, in bytes
  Aligns      \* the alignments a client asks for, powers of two

(***************************************************************************)
(* A usize has at least four bits here (sixteen in Rust).  Of a power of   *)
(* two the proofs need no more than that it is 1, 2, 4 or a multiple of 8. *)
(***************************************************************************)
ASSUME UtilAssumption ==
  /\ UsizeSpan \in Nat /\ UsizeSpan >= 16
  /\ Sizes \subseteq Nat
  /\ \A a \in Aligns : a \in {1, 2, 4} \/ (a \in Nat \ {0} /\ a % 8 = 0)

(* All of them are powers of two, so every alignment divides the span. *)
ASSUME PowersOfTwo == \A a \in Aligns : UsizeSpan % a = 0

wrapping_add(x, y) == (x + y) % UsizeSpan

(* Mutants: div is added in full; the sum does not wrap. *)
align_up_usize_by_div(x, div) == LET s == wrapping_add(x, div) IN s - (s % div)
align_up_usize_unbounded(x, div) == LET s == x + div - 1 IN s - (s % div)

(***************************************************************************)
(* `x.wrapping_add(div - 1) & !(div - 1)` for a power of two div.  Clearing *)
(* the bits below a power of two subtracts the remainder; UtilBits checks  *)
(* that reading against the bit operations.  0 when the sum wraps.         *)
(***************************************************************************)
align_up_usize(x, div) ==
  LET s == wrapping_add(x, div - 1) IN s - (s % div)

(***************************************************************************)
(* What the doc of align_up_usize promises (src/util.rs:23) of its result  *)
(* p: the least multiple of div that is at least x, and 0 when that lies   *)
(* beyond the address space.                                               *)
(***************************************************************************)
IsLeastMultiple(p, x, div) ==
  LET above == {y \in x .. UsizeSpan - 1 : y % div = 0}
  IN IF above = {} THEN p = 0 ELSE p \in above /\ \A y \in above : p <= y

(* Mutant: a word is aligned enough for anything. *)
is_aligned_ptr_word(addr, align) == addr % 8 = 0

is_aligned_ptr(addr, align) == addr % align = 0

(* The offset of ptr in memory that starts at base. *)
large_offset_from(ptr, base) == ptr - base

(***************************************************************************)
(* Every Layout that Layout::from_size_align accepts: the size, rounded up *)
(* to the alignment, may not exceed isize::MAX.                            *)
(***************************************************************************)
Layouts ==
  {l \in [size : Sizes, align : Aligns] : l.size <= UsizeSpan \div 2 - l.align}
=============================================================================
