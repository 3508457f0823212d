----------------------------- MODULE LockedPage -----------------------------
(***************************************************************************)
(* Page (src/internals/mem.rs, mem/unix.rs, mem/windows.rs): a page of     *)
(* memory that is mapped, then locked so that it is never swapped out, and *)
(* unmapped again by its drop.  Every allocator of the process owns one,   *)
(* in its own thread, and all share the system's limit on locked memory.   *)
(*                                                                         *)
(* One action is one system call.  Between two of them other threads run,  *)
(* and the system may write any page to swap that is not locked.           *)
(***************************************************************************)
EXTENDS Integers, FiniteSets

CONSTANTS
  Owners,        \* the allocators, each with the thread it lives in
  Pages,         \* where the system may map a page
  NoPage,
  PageSize,      \* page_size()
  LockLimit,     \* how many pages the process may lock
  Platform,      \* the target
  Refusable      \* the pages that the system may refuse to unmap

ASSUME LockedPageAssumption ==
  /\ NoPage \notin Pages
  /\ PageSize \in Nat \ {0} /\ LockLimit \in Nat
  /\ Platform \in {"unix", "windows"}
  /\ Refusable \subseteq Pages

VARIABLES
  step,    \* by owner: what happened to it last
  page,    \* by owner: the page of its struct Page
  mapped,  \* pages mapped
  locked,  \* pages locked
  data,    \* pages that clients have stored data in
  swap     \* what has been written to swap: pages with data, or without

vars == <<step, page, mapped, locked, data, swap>>

(***************************************************************************)
(* "Mmap" and "Mlock" name the errors of PageAllocError, of all platforms; *)
(* "mapped" and "unlocked" are inside alloc_new_lock, before and after the *)
(* attempt to lock; "panicked" is the unwrap of a refused unmap.           *)
(***************************************************************************)
Steps == {"none", "Mmap", "Mlock", "mapped", "unlocked", "live", "panicked"}

(* Nothing of a Page exists: not yet, any more, or because of an error. *)
Free(o) == step[o] \in {"none", "Mmap", "Mlock"}

Constructing(o) == step[o] \in {"mapped", "unlocked"}

Init ==
  /\ step = [o \in Owners |-> "none"]
  /\ page = [o \in Owners |-> NoPage]
  /\ mapped = {}
  /\ locked = {}
  /\ data = {}
  /\ swap = {}

(* alloc_new_noreserve (Unix), alloc_new (Windows). *)
alloc_new(o) ==
  /\ Free(o)
  /\ \/ \E p \in Pages \ mapped :
          /\ mapped' = mapped \cup {p}
          /\ page' = [page EXCEPT ![o] = p]
          /\ step' = [step EXCEPT ![o] = "mapped"]
     \/ /\ step' = [step EXCEPT ![o] = "Mmap"]
        /\ UNCHANGED <<page, mapped>>
  /\ UNCHANGED <<locked, data, swap>>

(* Mutant: an error of the lock is not passed on. *)
lock_unchecked(o) ==
  /\ step[o] = "mapped"
  /\ step' = [step EXCEPT ![o] = "live"]
  /\ \/ Cardinality(locked) < LockLimit /\ locked' = locked \cup {page[o]}
     \/ locked' = locked
  /\ UNCHANGED <<page, mapped, data, swap>>

(* mlock, VirtualLock: refused at the limit, or for want of memory. *)
lock(o) ==
  /\ step[o] = "mapped"
  /\ \/ /\ Cardinality(locked) < LockLimit
        /\ locked' = locked \cup {page[o]}
        /\ step' = [step EXCEPT ![o] = "live"]
     \/ /\ step' = [step EXCEPT ![o] = "unlocked"]
        /\ UNCHANGED locked
  /\ UNCHANGED <<page, mapped, data, swap>>

(* Mutant: the same size everywhere. *)
ReleaseSize_Page == PageSize

(* The size passed to munmap, and to VirtualFree with MEM_RELEASE. *)
ReleaseSize == IF Platform = "windows" THEN 0 ELSE PageSize

(* What the system accepts: Windows releases reservations as a whole only. *)
Releasable(size) == size = IF Platform = "windows" THEN 0 ELSE PageSize

(***************************************************************************)
(* Page::drop: unmapping a page unlocks it too; a refusal is unwrapped.    *)
(***************************************************************************)
drop_page(o, result) ==
  \/ /\ Releasable(ReleaseSize)
     /\ mapped' = mapped \ {page[o]}
     /\ locked' = locked \ {page[o]}
     /\ data' = data \ {page[o]}
     /\ page' = [page EXCEPT ![o] = NoPage]
     /\ step' = [step EXCEPT ![o] = result]
  \/ /\ page[o] \in Refusable \/ ~Releasable(ReleaseSize)
     /\ step' = [step EXCEPT ![o] = "panicked"]
     /\ UNCHANGED <<page, mapped, locked, data>>

(* Mutant: the page is forgotten with the error. *)
FailToLock_Forgets(o) ==
  /\ step[o] = "unlocked"
  /\ page' = [page EXCEPT ![o] = NoPage]
  /\ step' = [step EXCEPT ![o] = "Mlock"]
  /\ UNCHANGED <<mapped, locked, data, swap>>

(* Mutant: the constructor ends well although its page has been dropped. *)
FailToLock_Live(o) ==
  /\ step[o] = "unlocked"
  /\ mapped' = mapped \ {page[o]}
  /\ step' = [step EXCEPT ![o] = "live"]
  /\ UNCHANGED <<page, locked, data, swap>>

(* The ? of alloc_new_lock returns the error and drops the page. *)
FailToLock(o) ==
  /\ step[o] = "unlocked"
  /\ drop_page(o, "Mlock")
  /\ UNCHANGED swap

(* Mutant: the page is unlocked by a call of its own before it is unmapped. *)
Drop_UnlocksFirst(o) ==
  /\ step[o] = "live"
  /\ \/ /\ page[o] \in locked
        /\ locked' = locked \ {page[o]}
        /\ UNCHANGED <<step, page, mapped, data>>
     \/ page[o] \notin locked /\ drop_page(o, "none")
  /\ UNCHANGED swap

(* Mutant: drop leaves the page to the end of the process. *)
Drop_Nothing(o) ==
  /\ step[o] = "live"
  /\ step' = [step EXCEPT ![o] = "none"]
  /\ page' = [page EXCEPT ![o] = NoPage]
  /\ UNCHANGED <<mapped, locked, data, swap>>

(* The allocator goes out of scope, with it the page. *)
Drop(o) ==
  /\ step[o] = "live"
  /\ drop_page(o, "none")
  /\ UNCHANGED swap

(* A client stores something; only a constructed allocator hands out memory. *)
Use(o) ==
  /\ step[o] = "live"
  /\ data' = data \cup {page[o]}
  /\ UNCHANGED <<step, page, mapped, locked, swap>>

(* The system needs memory. *)
SwapOut(p) ==
  /\ p \in mapped \ locked
  /\ swap' = swap \cup {IF p \in data THEN "data" ELSE "empty"}
  /\ UNCHANGED <<step, page, mapped, locked, data>>

(* What a constructor does once it has begun. *)
Proceed(o) == lock(o) \/ FailToLock(o)

Next ==
  \/ \E o \in Owners : alloc_new(o) \/ Proceed(o) \/ Use(o) \/ Drop(o)
  \/ \E p \in Pages : SwapOut(p)

Spec == Init /\ [][Next]_vars

(* System calls return and threads run; clients and the system do as they like. *)
FairSpec == Spec /\ \A o \in Owners : WF_vars(Proceed(o))
=============================================================================
