-------------------------- MODULE LockedPageProps --------------------------
(***************************************************************************)
(* What the owner of a Page may count on (src/internals/mem).              *)
(***************************************************************************)
EXTENDS LockedPage

(* Pages and owners have their types (src/internals/mem.rs:6). *)
TypeOK ==
  /\ step \in [Owners -> Steps]
  /\ page \in [Owners -> Pages \cup {NoPage}]
  /\ mapped \subseteq Pages
  /\ locked \subseteq Pages
  /\ data \subseteq Pages
  /\ swap \subseteq {"data", "empty"}

Owned(o) == {page[o]} \ {NoPage}

(***************************************************************************)
(* Every page mapped has one owner, and every owner that is not free a     *)
(* page: nothing is left when locking fails half way through               *)
(* (src/internals/mem/unix.rs:96, mem/windows.rs:92), nothing is unmapped  *)
(* twice or from under another allocator (unix.rs:107).                    *)
(***************************************************************************)
MappedByOwners ==
  /\ mapped = UNION {Owned(o) : o \in Owners}
  /\ \A o \in Owners : page[o] = NoPage <=> Free(o)
  /\ \A o, q \in Owners : o # q => Owned(o) \cap Owned(q) = {}

(***************************************************************************)
(* Of the limit on locked memory, which all allocators share, exactly the  *)
(* allocators that exist use a page each: one that is dropped, or was      *)
(* never finished, uses none (src/internals/mem/unix.rs:82, :107).  Only a *)
(* panic of drop keeps what it had.                                        *)
(***************************************************************************)
LocksByOwners ==
  /\ \A o \in Owners : step[o] = "live" => page[o] \in locked
  /\ \A p \in locked : \E o \in Owners :
       page[o] = p /\ step[o] \in {"live", "panicked"}

(***************************************************************************)
(* "This guaranties the memory to not be swapped at all, except on         *)
(* hibernation or memory starvation" (src/internals/mem/unix.rs:77): but   *)
(* for these two no page is swapped with data in it, between no two system *)
(* calls of its owner or of anyone else.                                   *)
(***************************************************************************)
DataNeverSwapped == "data" \notin swap

(***************************************************************************)
(* The inductive invariant: that no data is swapped rests on data being in *)
(* locked pages only, which unmapping keeps as it forgets both at once     *)
(* (src/internals/mem/unix.rs:107).                                        *)
(***************************************************************************)
IInv ==
  /\ TypeOK
  /\ MappedByOwners
  /\ LocksByOwners
  /\ data \subseteq locked
  /\ DataNeverSwapped

(***************************************************************************)
(* A constructor that begins returns, with an allocator or with an error   *)
(* (src/internals/mem/unix.rs:96), and then the page is gone.  Only a page *)
(* the system refuses to unmap makes it panic, never what drop asks for    *)
(* (src/internals/mem/windows.rs:105).                                     *)
(***************************************************************************)
ConstructorReturns ==
  \A o \in Owners :
    Constructing(o) ~>
      \/ step[o] = "live"
      \/ Free(o)
      \/ step[o] = "panicked" /\ page[o] \in Refusable

-----------------------------------------------------------------------------
(***************************************************************************)
(* SecAlloc constructs its page in one step.  It may: whatever happens     *)
(* between the system calls, an owner gets a page nobody has, or none.     *)
(***************************************************************************)
Atomic == INSTANCE AtomicPage WITH
  held <- [o \in Owners |->
            IF step[o] \in {"live", "panicked"} THEN page[o] ELSE NoPage],
  at <- [o \in Owners |-> IF Constructing(o) THEN "constructing" ELSE step[o]]

ConstructsAtomically == Atomic!AtomicSpec
=============================================================================
