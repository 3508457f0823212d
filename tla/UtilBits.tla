------------------------------ MODULE UtilBits ------------------------------
(***************************************************************************)
(* align_up_usize (src/util.rs) on every word and power of two, next to    *)
(* the bit operations it is written with and to what its doc promises.     *)
(* Words and divisors are walked through one at a time.                    *)
(***************************************************************************)
EXTENDS Util, Bitwise

CONSTANT Width  \* bits in a usize

ASSUME WidthAssumption == UsizeSpan = 2 ^ Width

VARIABLES x, k  \* the word and the exponent of the divisor

Div == 2 ^ k

(* `!mask` on a word. *)
Complement(mask) == UsizeSpan - 1 - mask

Init == x = 0 /\ k = 0

Next ==
  \/ x < UsizeSpan - 1 /\ x' = x + 1 /\ k' = k
  \/ x = UsizeSpan - 1 /\ k < Width - 1 /\ x' = 0 /\ k' = k + 1

Spec == Init /\ [][Next]_<<x, k>>

(***************************************************************************)
(* Subtracting the remainder is what `& !(div - 1)` does to the wrapped    *)
(* sum (src/util.rs:30).                                                   *)
(***************************************************************************)
RemainderIsMask ==
  align_up_usize(x, Div) = wrapping_add(x, Div - 1) & Complement(Div - 1)

(***************************************************************************)
(* align_up_usize keeps the promise of its doc for words and powers of two *)
(* (src/util.rs:23): align_up_ptr_mut returns null only for null and for   *)
(* what has no multiple above it (src/util.rs:33).                         *)
(***************************************************************************)
LeastMultiple == IsLeastMultiple(align_up_usize(x, Div), x, Div)
=============================================================================
