----------------------------- MODULE UtilProofs -----------------------------
(***************************************************************************)
(* What the arithmetic of src/util.rs computes, for every width of usize.  *)
(***************************************************************************)
EXTENDS Util, TLAPS

(* A sum that does not wrap is the sum, one that wraps once is short by the span. *)
LEMMA WrappingAdd ==
  ASSUME NEW x \in Nat, NEW y \in Nat, x < UsizeSpan, y <= UsizeSpan
  PROVE  /\ x + y < UsizeSpan => wrapping_add(x, y) = x + y
         /\ x + y >= UsizeSpan => wrapping_add(x, y) = x + y - UsizeSpan
  BY UtilAssumption DEF wrapping_add

LEMMA RoundUp8 ==
  ASSUME NEW s \in Nat, s + 7 < UsizeSpan
  PROVE  /\ align_up_usize(s, 8) \in Nat
         /\ align_up_usize(s, 8) % 8 = 0
         /\ s <= align_up_usize(s, 8)
         /\ align_up_usize(s, 8) <= s + 7
  <1>1. wrapping_add(s, 8 - 1) = s + 7
    BY WrappingAdd, UtilAssumption
  <1>2. QED BY <1>1 DEF align_up_usize

LEMMA RoundUp8Monotone ==
  ASSUME NEW s \in Nat, NEW t \in Nat, s <= t, t + 7 < UsizeSpan
  PROVE  align_up_usize(s, 8) <= align_up_usize(t, 8)
  <1>1. s + 7 < UsizeSpan
    BY UtilAssumption
  <1>2. wrapping_add(s, 8 - 1) = s + 7 /\ wrapping_add(t, 8 - 1) = t + 7
    BY <1>1, WrappingAdd, UtilAssumption
  <1>3. QED BY <1>2 DEF align_up_usize

(* Any size between a size and its rounding is rounded to the same size. *)
LEMMA RoundUp8Fits ==
  ASSUME NEW s \in Nat, NEW t \in Nat, t + 7 < UsizeSpan,
         s <= t, t <= align_up_usize(s, 8)
  PROVE  align_up_usize(t, 8) = align_up_usize(s, 8)
  <1>1. s + 7 < UsizeSpan
    BY UtilAssumption
  <1>2. wrapping_add(s, 8 - 1) = s + 7 /\ wrapping_add(t, 8 - 1) = t + 7
    BY <1>1, WrappingAdd, UtilAssumption
  <1>3. QED BY <1>2 DEF align_up_usize

LEMMA AlignUp ==
  ASSUME NEW x \in Nat, NEW div \in Nat \ {0}, x < UsizeSpan, div <= UsizeSpan
  PROVE  LET p == align_up_usize(x, div) IN
         /\ p \in Nat
         /\ p % div = 0
         /\ p = 0 \/ (x <= p /\ p < x + div)
  <1> DEFINE s == wrapping_add(x, div - 1)
  <1>0. div - 1 \in Nat /\ div - 1 <= UsizeSpan /\ UsizeSpan \in Nat
    BY UtilAssumption
  <1>1. s \in Nat /\ (s = x + div - 1 \/ s < div - 1)
    <2>1. CASE x + (div - 1) < UsizeSpan
      BY <2>1, <1>0, WrappingAdd
    <2>2. CASE x + (div - 1) >= UsizeSpan
      BY <2>2, <1>0, WrappingAdd
    <2>3. QED BY <2>1, <2>2, <1>0
  <1> HIDE DEF s
  <1>2. s % div \in 0 .. div - 1
    BY <1>1
  <1>p. align_up_usize(x, div) = s - (s % div)
    BY DEF align_up_usize, s
  <1>3. s - (s % div) = div * (s \div div) /\ s \div div \in Nat
    BY <1>1
  <1>4. (div * (s \div div)) % div = 0
    BY <1>3
  <1>5. CASE s < div - 1
    <2>1. s % div = s
      BY <1>1, <1>5
    <2>2. QED BY <2>1, <1>p, <1>1
  <1>6. CASE s = x + div - 1
    BY <1>p, <1>1, <1>2, <1>3, <1>4, <1>6
  <1>7. QED BY <1>1, <1>5, <1>6

LEMMA MultipleOfMultiple ==
  ASSUME NEW p \in Nat, NEW a \in Nat \ {0}, NEW d \in Nat \ {0}, p % a = 0, a % d = 0
  PROVE  p % d = 0
  <1> DEFINE q == p \div a
             k == a \div d
  <1>1. p = a * q /\ q \in Nat
    BY DEF q
  <1>2. a = d * k /\ k \in Nat
    BY DEF k
  <1> HIDE DEF q, k
  <1> DEFINE n == k * q
  <1>3. p = d * n /\ n \in Nat
    BY <1>1, <1>2
  <1> HIDE DEF n
  <1>4. QED BY <1>3

(* Multiples of d that are less than d apart: the larger is no larger. *)
LEMMA MultiplesApart ==
  ASSUME NEW d \in Nat \ {0}, NEW p \in Nat, NEW m \in Nat,
         p % d = 0, m % d = 0, p < m + d
  PROVE  p <= m
  <1> DEFINE j == p \div d
             k == m \div d
  <1>1. p = d * j /\ j \in Nat
    BY DEF j
  <1>2. m = d * k /\ k \in Nat
    BY DEF k
  <1> HIDE DEF j, k
  <1>3. CASE j <= k
    <2>1. d * j <= d * k
      BY <1>1, <1>2, <1>3
    <2>2. QED BY <1>1, <1>2, <2>1
  <1>4. CASE k + 1 <= j
    <2>1. d * (k + 1) <= d * j
      BY <1>1, <1>2, <1>4
    <2>2. d * (k + 1) = m + d
      BY <1>2
    <2>3. QED BY <1>1, <2>1, <2>2
  <1>5. QED BY <1>1, <1>2, <1>3, <1>4

(***************************************************************************)
(* Aligning up gives the least multiple there is below UsizeSpan, and 0    *)
(* when there is none.                                                     *)
(***************************************************************************)
LEMMA AlignUpLeast ==
  ASSUME NEW x \in Nat \ {0}, NEW d \in Nat \ {0}, x < UsizeSpan, d <= UsizeSpan,
         UsizeSpan % d = 0, NEW m \in Nat, m < UsizeSpan, m % d = 0, x <= m
  PROVE  align_up_usize(x, d) # 0 /\ align_up_usize(x, d) <= m
  <1> DEFINE p == align_up_usize(x, d)
  <1>0. UsizeSpan \in Nat /\ d - 1 \in Nat /\ d - 1 <= UsizeSpan
    BY UtilAssumption
  <1>1. p \in Nat /\ p % d = 0 /\ (p = 0 \/ (x <= p /\ p < x + d))
    BY AlignUp
  <1>2. p # 0
    <2>1. x + (d - 1) < UsizeSpan
      <3>1. UsizeSpan <= x + (d - 1) => UsizeSpan < m + d
        BY <1>0
      <3>2. UsizeSpan < m + d => UsizeSpan <= m
        BY <1>0, MultiplesApart
      <3>3. QED BY <1>0, <3>1, <3>2
    <2> DEFINE s == wrapping_add(x, d - 1)
    <2>2. s = x + (d - 1)
      BY <1>0, <2>1, WrappingAdd
    <2>3. p = s - (s % d)
      BY DEF align_up_usize
    <2> HIDE DEF p, s
    <2>4. s \in Nat /\ s % d \in 0 .. d - 1
      BY <1>0, <2>2
    <2>5. QED BY <1>0, <2>2, <2>3, <2>4
  <1> HIDE DEF p
  <1>3. p < m + d
    BY <1>1, <1>2
  <1>4. p <= m
    BY <1>1, <1>3, MultiplesApart
  <1>5. QED BY <1>2, <1>4 DEF p

(* It never passes the end of the address space. *)
LEMMA AlignUpInSpan ==
  ASSUME NEW x \in Nat, NEW d \in Nat \ {0}
  PROVE  align_up_usize(x, d) < UsizeSpan
  <1> DEFINE s == wrapping_add(x, d - 1)
  <1>1. s \in 0 .. UsizeSpan - 1
    BY UtilAssumption DEF wrapping_add
  <1>2. align_up_usize(x, d) = s - (s % d)
    BY DEF align_up_usize
  <1> HIDE DEF s
  <1>3. s % d \in 0 .. d - 1
    BY <1>1, UtilAssumption
  <1>4. QED BY <1>1, <1>2, <1>3, UtilAssumption

(***************************************************************************)
(* align_up_usize returns the least multiple of div that is at least x,    *)
(* and 0 when there is none below UsizeSpan (src/util.rs:23), for every    *)
(* divisor of UsizeSpan, the powers of two among them.                     *)
(***************************************************************************)
THEOREM AlignUpIsLeast ==
  ASSUME NEW x \in Nat, NEW d \in Nat \ {0}, x < UsizeSpan, d <= UsizeSpan,
         UsizeSpan % d = 0
  PROVE  IsLeastMultiple(align_up_usize(x, d), x, d)
  <1> DEFINE p     == align_up_usize(x, d)
             above == {y \in x .. UsizeSpan - 1 : y % d = 0}
  <1>1. UsizeSpan \in Nat
    BY UtilAssumption
  <1>2. p \in Nat /\ p % d = 0 /\ (p = 0 \/ (x <= p /\ p < x + d))
    BY AlignUp
  <1> HIDE DEF p
  <1>3. CASE x = 0
    <2>1. 0 \in above /\ 0 % d = 0
      BY <1>1, <1>3
    <2>2. p = 0
      BY <1>2, <1>3
    <2>3. QED BY <1>3, <2>1, <2>2 DEF p, IsLeastMultiple
  <1>4. CASE x # 0
    <2>1. \A y \in above : p # 0 /\ p <= y
      <3>1. ASSUME NEW y \in above PROVE y \in Nat /\ y < UsizeSpan /\ y % d = 0 /\ x <= y
        BY <1>1
      <3>2. QED BY <1>4, <3>1, AlignUpLeast DEF p
    <2>2. p # 0 => p \in above
      <3>1. p < UsizeSpan
        BY <1>1, AlignUpInSpan DEF p
      <3>2. QED BY <1>1, <1>2, <3>1
    <2>3. p = 0 => p \notin above
      BY <1>4
    <2> HIDE DEF above
    <2>4. QED BY <2>1, <2>2, <2>3 DEF p, above, IsLeastMultiple
  <1>5. QED BY <1>3, <1>4
=============================================================================
