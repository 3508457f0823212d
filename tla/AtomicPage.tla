----------------------------- MODULE AtomicPage -----------------------------
(***************************************************************************)
(* What alloc_new_lock and drop of Page (src/internals/mem) promise: the   *)
(* constructor yields a page that no one else has, or an error and         *)
(* nothing; drop gives the page back.                                      *)
(***************************************************************************)
CONSTANTS Owners, Pages, NoPage

VARIABLES
  at,   \* by owner: "constructing", "live", or how the last call ended
  held  \* by owner: its page

avars == <<at, held>>

Reaches(o, s, p) == at' = [at EXCEPT ![o] = s] /\ held' = [held EXCEPT ![o] = p]

AInit == at = [o \in Owners |-> "none"] /\ held = [o \in Owners |-> NoPage]

ANew(o) == at[o] \in {"none", "Mmap", "Mlock"} /\ Reaches(o, "constructing", NoPage)

AFail(o) ==
  /\ at[o] \in {"none", "Mmap", "Mlock", "constructing"}
  /\ \E error \in {"Mmap", "Mlock"} : Reaches(o, error, NoPage)

ASucceed(o) ==
  /\ at[o] = "constructing"
  /\ \E p \in Pages \ {held[q] : q \in Owners} : Reaches(o, "live", p)

ADrop(o) == at[o] = "live" /\ Reaches(o, "none", NoPage)

(* The system may refuse to take a page back. *)
APanic(o) ==
  \/ at[o] = "live" /\ Reaches(o, "panicked", held[o])
  \/ at[o] = "constructing" /\ \E p \in Pages : Reaches(o, "panicked", p)

ANext ==
  \E o \in Owners : ANew(o) \/ AFail(o) \/ ASucceed(o) \/ ADrop(o) \/ APanic(o)

AtomicSpec == AInit /\ [][ANext]_avars
=============================================================================
