---------------------------- MODULE AtomicZeroize ----------------------------
(***************************************************************************)
(* What every zeroize_mem promises (src/zeroize/mod.rs), and what SecAlloc *)
(* and ZeroizeAlloc take it to be: by the time it returns it has set the   *)
(* bytes it was given to zero, those and no others, and they stay zero in  *)
(* the eyes of whoever has the memory next.                                *)
(***************************************************************************)
CONSTANTS Memory, Zero, Secret, OtherData

VARIABLES
  at,     \* "idle", "called" or "returned"
  range,  \* the bytes to zeroize
  bytes   \* the memory

avars == <<at, range, bytes>>

AInit == at = "idle" /\ range = {} /\ bytes \in [Memory -> OtherData]

ACall ==
  /\ at = "idle" /\ at' = "called"
  /\ range' \in SUBSET Memory
  /\ bytes' = [a \in Memory |-> IF a \in range' THEN Secret ELSE bytes[a]]

AZeroize ==
  /\ at = "called" /\ at' = "returned"
  /\ range' = range
  /\ bytes' = [a \in Memory |-> IF a \in range THEN Zero ELSE bytes[a]]

AFree == at = "returned" /\ at' = "idle" /\ UNCHANGED <<range, bytes>>

(* Others write to memory of their own, which is all when no one has the range. *)
AOthers ==
  /\ \E a \in Memory : \E v \in OtherData :
       /\ at # "idle" => a \notin range
       /\ bytes' = [bytes EXCEPT ![a] = v]
  /\ UNCHANGED <<at, range>>

AtomicSpec == AInit /\ [][ACall \/ AZeroize \/ AFree \/ AOthers]_avars
=============================================================================
