--------------------------- MODULE LockedPageProofs ---------------------------
(***************************************************************************)
(* Page for any number of allocators and pages, any limit on locked        *)
(* memory, on both platforms.                                              *)
(*                                                                         *)
(* Every step concerns one owner.  Acquire and Release give the invariant  *)
(* for the two steps that change who owns what.                            *)
(***************************************************************************)
EXTENDS LockedPageProps, TLAPS

LEMMA InitIInv == Init => IInv
  BY LockedPageAssumption DEF Init, IInv, TypeOK, Steps, MappedByOwners, LocksByOwners,
     DataNeverSwapped, Owned, Free

(* An owner that is free gets a page nobody has. *)
LEMMA Acquire ==
  ASSUME IInv, NEW o \in Owners, Free(o),
         NEW p \in Pages \ mapped,
         mapped' = mapped \cup {p},
         page' = [page EXCEPT ![o] = p],
         step' = [step EXCEPT ![o] = "mapped"],
         UNCHANGED <<locked, data, swap>>
  PROVE  IInv'
  <1> USE LockedPageAssumption DEF IInv, TypeOK
  <1>1. TypeOK'
    BY DEF Steps
  <1>2. /\ Owned(o)' = {p} /\ Owned(o) = {}
        /\ \A q \in Owners \ {o} : Owned(q)' = Owned(q) /\ (Free(q)' <=> Free(q))
        /\ ~Free(o)' /\ page'[o] # NoPage
    BY DEF Owned, Free, MappedByOwners
  <1>3. mapped' = UNION {Owned(q)' : q \in Owners}
    <2>1. \A x : x \in UNION {Owned(q)' : q \in Owners}
                   <=> x = p \/ x \in UNION {Owned(q) : q \in Owners}
      BY <1>2
    <2>2. QED BY <2>1 DEF MappedByOwners
  <1>4. \A q \in Owners : page'[q] = NoPage <=> Free(q)'
    <2>1. \A q \in Owners \ {o} : page'[q] = page[q]
      OBVIOUS
    <2>2. QED BY <1>2, <2>1 DEF MappedByOwners
  <1>5. ASSUME NEW q \in Owners, NEW r \in Owners, q # r
        PROVE  Owned(q)' \cap Owned(r)' = {}
    <2>1. \A s \in Owners : p \notin Owned(s)
      BY DEF MappedByOwners
    <2>2. QED BY <1>2, <1>5, <2>1 DEF MappedByOwners
  <1>6. LocksByOwners'
    <2>1. ASSUME NEW q \in Owners, step'[q] = "live"
          PROVE  page'[q] \in locked'
      BY <2>1 DEF LocksByOwners
    <2>2. ASSUME NEW x \in locked'
          PROVE  \E q \in Owners : page'[q] = x /\ step'[q] \in {"live", "panicked"}
      <3>1. PICK q \in Owners : page[q] = x /\ step[q] \in {"live", "panicked"}
        BY DEF LocksByOwners
      <3>2. q # o
        BY <3>1 DEF Free
      <3>3. QED BY <3>1, <3>2
    <2>3. QED BY <2>1, <2>2 DEF LocksByOwners
  <1>7. QED
    BY <1>1, <1>3, <1>4, <1>5, <1>6 DEF MappedByOwners, DataNeverSwapped

(* An owner's page is unmapped. *)
LEMMA Release ==
  ASSUME IInv, NEW o \in Owners, ~Free(o),
         NEW s \in {"none", "Mmap", "Mlock"},
         mapped' = mapped \ {page[o]},
         locked' = locked \ {page[o]},
         data' = data \ {page[o]},
         page' = [page EXCEPT ![o] = NoPage],
         step' = [step EXCEPT ![o] = s],
         UNCHANGED swap
  PROVE  IInv'
  <1> USE LockedPageAssumption DEF IInv, TypeOK
  <1>1. TypeOK'
    BY DEF Steps
  <1>2. /\ Owned(o)' = {} /\ Owned(o) = {page[o]} /\ page[o] # NoPage
        /\ \A q \in Owners \ {o} : Owned(q)' = Owned(q) /\ (Free(q)' <=> Free(q))
        /\ Free(o)' /\ page'[o] = NoPage
    BY DEF Owned, Free, MappedByOwners
  <1>3. \A q \in Owners \ {o} : page[o] \notin Owned(q)
    BY <1>2 DEF MappedByOwners
  <1>4. mapped' = UNION {Owned(q)' : q \in Owners}
    <2>1. \A x : x \in UNION {Owned(q)' : q \in Owners}
                   <=> x # page[o] /\ x \in UNION {Owned(q) : q \in Owners}
      BY <1>2, <1>3
    <2>2. QED BY <2>1 DEF MappedByOwners
  <1>5. \A q \in Owners : page'[q] = NoPage <=> Free(q)'
    <2>1. \A q \in Owners \ {o} : page'[q] = page[q]
      OBVIOUS
    <2>2. QED BY <1>2, <2>1 DEF MappedByOwners
  <1>6. ASSUME NEW q \in Owners, NEW r \in Owners, q # r
        PROVE  Owned(q)' \cap Owned(r)' = {}
    BY <1>2, <1>6 DEF MappedByOwners
  <1>7. LocksByOwners'
    <2>1. ASSUME NEW q \in Owners, step'[q] = "live"
          PROVE  page'[q] \in locked'
      <3>1. q # o /\ step[q] = "live" /\ page'[q] = page[q] /\ page[q] \in locked
        BY <2>1 DEF LocksByOwners
      <3>2. page[q] # page[o]
        BY <1>3, <3>1 DEF Owned
      <3>3. QED BY <3>1, <3>2
    <2>2. ASSUME NEW x \in locked'
          PROVE  \E q \in Owners : page'[q] = x /\ step'[q] \in {"live", "panicked"}
      <3>1. PICK q \in Owners : page[q] = x /\ step[q] \in {"live", "panicked"}
        BY DEF LocksByOwners
      <3>2. q # o
        BY <2>2, <3>1
      <3>3. QED BY <3>1, <3>2
    <2>3. QED BY <2>1, <2>2 DEF LocksByOwners
  <1>8. QED
    BY <1>1, <1>4, <1>5, <1>6, <1>7 DEF MappedByOwners, DataNeverSwapped

(* A step that leaves every page where it is and no owner free that was not. *)
LEMMA Stay ==
  ASSUME IInv, UNCHANGED <<page, mapped>>,
         step' \in [Owners -> Steps],
         \A q \in Owners : Free(q)' <=> Free(q)
  PROVE  MappedByOwners'
  BY DEF MappedByOwners, Owned, IInv

LEMMA StayLocked ==
  ASSUME IInv, NEW o \in Owners, NEW s \in Steps, UNCHANGED <<page, locked>>,
         step' = [step EXCEPT ![o] = s],
         s # "live", step[o] \in {"live", "panicked"} => s = "panicked"
  PROVE  LocksByOwners'
  <1> USE DEF IInv, TypeOK
  <1>1. ASSUME NEW q \in Owners, step'[q] = "live"
        PROVE  page'[q] \in locked'
    BY <1>1 DEF LocksByOwners
  <1>2. ASSUME NEW x \in locked'
        PROVE  \E q \in Owners : page'[q] = x /\ step'[q] \in {"live", "panicked"}
    <2>1. PICK q \in Owners : page[q] = x /\ step[q] \in {"live", "panicked"}
      BY DEF LocksByOwners
    <2>2. step'[q] \in {"live", "panicked"}
      BY <2>1
    <2>3. QED BY <2>1, <2>2
  <1>3. QED BY <1>1, <1>2 DEF LocksByOwners

LEMMA DropPage ==
  ASSUME IInv, NEW o \in Owners, NEW s \in {"none", "Mmap", "Mlock"}, ~Free(o),
         step[o] # "panicked", drop_page(o, s), UNCHANGED swap
  PROVE  IInv'
  <1>1. CASE /\ mapped' = mapped \ {page[o]}
             /\ locked' = locked \ {page[o]}
             /\ data' = data \ {page[o]}
             /\ page' = [page EXCEPT ![o] = NoPage]
             /\ step' = [step EXCEPT ![o] = s]
    BY <1>1, Release
  <1>2. CASE /\ step' = [step EXCEPT ![o] = "panicked"]
             /\ UNCHANGED <<page, mapped, locked, data>>
    <2>1. TypeOK'
      BY <1>2 DEF IInv, TypeOK, Steps
    <2>2. \A q \in Owners : Free(q)' <=> Free(q)
      BY <1>2 DEF IInv, TypeOK, Free
    <2>3. MappedByOwners'
      BY <1>2, <2>1, <2>2, Stay DEF TypeOK
    <2>4. LocksByOwners'
      BY <1>2, StayLocked DEF Steps
    <2>5. QED
      BY <1>2, <2>1, <2>3, <2>4 DEF IInv, DataNeverSwapped
  <1>3. QED BY <1>1, <1>2 DEF drop_page

-----------------------------------------------------------------------------
LEMMA StepIInv == IInv /\ [Next]_vars => IInv'
  <1> SUFFICES ASSUME IInv, [Next]_vars
               PROVE  IInv'
    OBVIOUS
  <1>1. ASSUME NEW o \in Owners, alloc_new(o)
        PROVE  IInv'
    <2>1. CASE \E p \in Pages \ mapped :
                 /\ mapped' = mapped \cup {p}
                 /\ page' = [page EXCEPT ![o] = p]
                 /\ step' = [step EXCEPT ![o] = "mapped"]
      BY <1>1, <2>1, Acquire DEF alloc_new
    <2>2. CASE step' = [step EXCEPT ![o] = "Mmap"] /\ UNCHANGED <<page, mapped>>
      <3>1. TypeOK'
        BY <1>1, <2>2 DEF alloc_new, IInv, TypeOK, Steps
      <3>2. \A q \in Owners : Free(q)' <=> Free(q)
        BY <1>1, <2>2 DEF alloc_new, IInv, TypeOK, Free
      <3>3. MappedByOwners'
        BY <2>2, <3>1, <3>2, Stay DEF TypeOK
      <3>4. LocksByOwners'
        BY <1>1, <2>2, StayLocked DEF alloc_new, Free, Steps
      <3>5. QED
        BY <1>1, <3>1, <3>3, <3>4 DEF alloc_new, IInv, DataNeverSwapped
    <2>3. QED BY <1>1, <2>1, <2>2 DEF alloc_new
  <1>2. ASSUME NEW o \in Owners, lock(o)
        PROVE  IInv'
    <2>1. TypeOK'
      <3>1. page[o] \in Pages
        BY <1>2 DEF lock, IInv, TypeOK, MappedByOwners, Free
      <3>2. QED BY <1>2, <3>1 DEF lock, IInv, TypeOK, Steps
    <2>2. \A q \in Owners : Free(q)' <=> Free(q)
      BY <1>2 DEF lock, IInv, TypeOK, Free
    <2>3. MappedByOwners'
      BY <1>2, <2>1, <2>2, Stay DEF lock, TypeOK
    <2>4. CASE step' = [step EXCEPT ![o] = "unlocked"] /\ UNCHANGED locked
      <3>1. LocksByOwners'
        BY <1>2, <2>4, StayLocked DEF lock, Steps
      <3>2. QED BY <1>2, <2>1, <2>3, <2>4, <3>1 DEF lock, IInv, DataNeverSwapped
    <2>5. CASE step' = [step EXCEPT ![o] = "live"] /\ locked' = locked \cup {page[o]}
      <3>1. page' = page
        BY <1>2 DEF lock
      <3>2. ASSUME NEW q \in Owners, step'[q] = "live"
            PROVE  page'[q] \in locked'
        BY <2>5, <3>1, <3>2 DEF IInv, TypeOK, LocksByOwners
      <3>3. ASSUME NEW x \in locked'
            PROVE  \E q \in Owners : page'[q] = x /\ step'[q] \in {"live", "panicked"}
        <4>1. CASE x = page[o]
          BY <2>5, <3>1, <4>1 DEF IInv, TypeOK
        <4>2. CASE x \in locked
          <5>1. PICK q \in Owners : page[q] = x /\ step[q] \in {"live", "panicked"}
            BY <4>2 DEF IInv, LocksByOwners
          <5>2. step'[q] \in {"live", "panicked"}
            BY <2>5, <5>1 DEF IInv, TypeOK
          <5>3. QED BY <3>1, <5>1, <5>2
        <4>3. QED BY <2>5, <3>3, <4>1, <4>2
      <3>4. LocksByOwners'
        BY <3>2, <3>3 DEF LocksByOwners
      <3>5. QED BY <1>2, <2>1, <2>3, <2>5, <3>4 DEF lock, IInv, DataNeverSwapped
    <2>6. QED BY <1>2, <2>4, <2>5 DEF lock
  <1>3. ASSUME NEW o \in Owners, FailToLock(o)
        PROVE  IInv'
    BY <1>3, DropPage DEF FailToLock, Free
  <1>4. ASSUME NEW o \in Owners, Drop(o)
        PROVE  IInv'
    BY <1>4, DropPage DEF Drop, Free
  <1>5. ASSUME NEW o \in Owners, Use(o)
        PROVE  IInv'
    <2>1. page[o] \in locked
      BY <1>5 DEF Use, IInv, LocksByOwners
    <2>2. UNCHANGED <<step, page, mapped, locked, swap>> /\ data' = data \cup {page[o]}
      BY <1>5 DEF Use
    <2>3. TypeOK' /\ data' \subseteq locked'
      BY <2>1, <2>2 DEF IInv, TypeOK
    <2>4. MappedByOwners' /\ LocksByOwners' /\ DataNeverSwapped'
      BY <2>2 DEF IInv, MappedByOwners, LocksByOwners, DataNeverSwapped, Owned, Free
    <2>5. QED BY <2>3, <2>4 DEF IInv
  <1>6. ASSUME NEW p \in Pages, SwapOut(p)
        PROVE  IInv'
    <2>1. UNCHANGED <<step, page, mapped, locked, data>>
      BY <1>6 DEF SwapOut
    <2>2. swap' \subseteq {"data", "empty"} /\ "data" \notin swap'
      BY <1>6 DEF SwapOut, IInv, TypeOK, DataNeverSwapped
    <2>3. QED
      BY <2>1, <2>2 DEF IInv, TypeOK, MappedByOwners, LocksByOwners, DataNeverSwapped,
         Owned, Free
  <1>7. CASE UNCHANGED vars
    BY <1>7 DEF vars, IInv, TypeOK, MappedByOwners, LocksByOwners, DataNeverSwapped,
       Owned, Free
  <1>8. QED
    BY <1>1, <1>2, <1>3, <1>4, <1>5, <1>6, <1>7 DEF Next, Proceed

(***************************************************************************)
(* The parts of the invariant support each other: data is in locked pages  *)
(* only, and those have one owner each (src/internals/mem/unix.rs:107).    *)
(***************************************************************************)
THEOREM Inductive == Spec => []IInv
  BY InitIInv, StepIInv, PTL DEF Spec

(***************************************************************************)
(* No page is left mapped without an owner, whichever system call fails    *)
(* (src/internals/mem/unix.rs:96).                                         *)
(***************************************************************************)
THEOREM NoPageLost == Spec => []MappedByOwners
  <1>1. IInv => MappedByOwners
    BY DEF IInv
  <1>2. QED BY <1>1, Inductive, PTL

(***************************************************************************)
(* No allocator that is gone holds on to locked memory, and none that      *)
(* exists is without (src/internals/mem/unix.rs:82).                       *)
(***************************************************************************)
THEOREM NoLockLost == Spec => []LocksByOwners
  <1>1. IInv => LocksByOwners
    BY DEF IInv
  <1>2. QED BY <1>1, Inductive, PTL

(***************************************************************************)
(* What clients store is never swapped (src/internals/mem/unix.rs:78).     *)
(***************************************************************************)
THEOREM NeverSwapped == Spec => []DataNeverSwapped
  <1>1. IInv => DataNeverSwapped
    BY DEF IInv
  <1>2. QED BY <1>1, Inductive, PTL
-----------------------------------------------------------------------------
LEMMA InitAtomic == Init => Atomic!AInit
  BY DEF Init, Atomic!AInit, Constructing

LEMMA StepAtomic == IInv /\ IInv' /\ [Next]_vars => [Atomic!ANext]_(Atomic!avars)
  <1> SUFFICES ASSUME IInv, IInv', [Next]_vars
               PROVE  Atomic!ANext \/ UNCHANGED Atomic!avars
    BY DEF Atomic!avars
  <1> DEFINE held == [o \in Owners |->
                       IF step[o] \in {"live", "panicked"} THEN page[o] ELSE NoPage]
             at   == [o \in Owners |->
                       IF Constructing(o) THEN "constructing" ELSE step[o]]
  <1>a. /\ step \in [Owners -> Steps] /\ step' \in [Owners -> Steps]
        /\ page \in [Owners -> Pages \cup {NoPage}]
    BY DEF IInv, TypeOK
  <1>b. held \in [Owners -> Pages \cup {NoPage}]
    BY <1>a
  (* A step of o alone shows as a step of o. *)
  <1>c. ASSUME NEW o \in Owners, NEW s \in Steps, NEW p \in Pages \cup {NoPage},
               step' = [step EXCEPT ![o] = s],
               \A q \in Owners \ {o} : page'[q] = page[q],
               s \in {"live", "panicked"} => page'[o] = p,
               s \notin {"live", "panicked"} => p = NoPage
        PROVE  /\ at' = [at EXCEPT ![o] = IF s \in {"mapped", "unlocked"}
                                          THEN "constructing" ELSE s]
               /\ held' = [held EXCEPT ![o] = p]
    <2>1. at' = [at EXCEPT ![o] = IF s \in {"mapped", "unlocked"}
                                  THEN "constructing" ELSE s]
      BY <1>a, <1>c DEF Constructing
    <2>2. held' = [held EXCEPT ![o] = p]
      BY <1>a, <1>c
    <2>3. QED BY <2>1, <2>2
  <1>1. ASSUME NEW o \in Owners, alloc_new(o)
        PROVE  Atomic!ANew(o) \/ Atomic!AFail(o)
    <2>1. at[o] \in {"none", "Mmap", "Mlock"}
      BY <1>1 DEF alloc_new, Free, Constructing
    <2>2. \A q \in Owners \ {o} : page'[q] = page[q]
      BY <1>1, <1>a DEF alloc_new
    <2>3. CASE step' = [step EXCEPT ![o] = "mapped"]
      <3>1. /\ at' = [at EXCEPT ![o] = "constructing"]
            /\ held' = [held EXCEPT ![o] = NoPage]
        <4>1. "mapped" \in Steps
          BY DEF Steps
        <4> HIDE DEF at, held
        <4>2. QED BY <1>c, <2>2, <2>3, <4>1
      <3>2. QED BY <2>1, <3>1 DEF Atomic!ANew, Atomic!Reaches
    <2>4. CASE step' = [step EXCEPT ![o] = "Mmap"]
      <3>1. at' = [at EXCEPT ![o] = "Mmap"] /\ held' = [held EXCEPT ![o] = NoPage]
        <4>1. "Mmap" \in Steps
          BY DEF Steps
        <4> HIDE DEF at, held
        <4>2. QED BY <1>c, <2>2, <2>4, <4>1
      <3>2. QED BY <2>1, <3>1 DEF Atomic!AFail, Atomic!Reaches
    <2>5. QED BY <1>1, <2>3, <2>4 DEF alloc_new
  <1>2. ASSUME NEW o \in Owners, lock(o)
        PROVE  Atomic!ASucceed(o) \/ UNCHANGED Atomic!avars
    <2>1. step[o] = "mapped" /\ at[o] = "constructing" /\ page' = page
      BY <1>2 DEF lock, Constructing
    <2>2. CASE step' = [step EXCEPT ![o] = "live"]
      <3>1. page[o] \in Pages \ {held[q] : q \in Owners}
        <4>1. page[o] \in Pages
          BY <1>a, <2>1 DEF IInv, MappedByOwners, Free
        <4>2. ASSUME NEW q \in Owners
              PROVE  held[q] # page[o]
          <5>1. CASE q = o
            BY <2>1, <4>1, <5>1, LockedPageAssumption
          <5>2. CASE q # o
            BY <4>1, <5>2, LockedPageAssumption DEF IInv, MappedByOwners, Owned
          <5>3. QED BY <5>1, <5>2
        <4>3. QED BY <4>1, <4>2
      <3>2. at' = [at EXCEPT ![o] = "live"] /\ held' = [held EXCEPT ![o] = page[o]]
        BY <1>a, <1>c, <2>1, <2>2 DEF Steps
      <3>3. QED BY <2>1, <3>1, <3>2 DEF Atomic!ASucceed, Atomic!Reaches
    <2>3. CASE step' = [step EXCEPT ![o] = "unlocked"]
      <3>1. at' = at /\ held' = held
        BY <1>a, <2>1, <2>3 DEF Constructing
      <3>2. QED BY <3>1 DEF Atomic!avars
    <2>4. QED BY <1>2, <2>2, <2>3 DEF lock
  <1>3. ASSUME NEW o \in Owners, NEW s \in {"none", "Mlock"}, drop_page(o, s)
        PROVE  \/ /\ at' = [at EXCEPT ![o] = s]
                  /\ held' = [held EXCEPT ![o] = NoPage]
               \/ /\ at' = [at EXCEPT ![o] = "panicked"]
                  /\ held' = [held EXCEPT ![o] = page[o]]
    <2>1. CASE /\ step' = [step EXCEPT ![o] = s]
               /\ page' = [page EXCEPT ![o] = NoPage]
      <3>1. s \in Steps /\ s \notin {"mapped", "unlocked", "live", "panicked"}
        BY DEF Steps
      <3>2. \A q \in Owners \ {o} : page'[q] = page[q]
        BY <1>a, <2>1
      <3>3. QED BY <1>c, <2>1, <3>1, <3>2
    <2>2. CASE step' = [step EXCEPT ![o] = "panicked"] /\ page' = page
      <3>1. at' = [at EXCEPT ![o] = "panicked"] /\ held' = [held EXCEPT ![o] = page[o]]
        BY <1>a, <1>c, <2>2 DEF Steps
      <3>2. QED BY <3>1
    <2>3. QED BY <1>3, <2>1, <2>2 DEF drop_page
  <1>4. ASSUME NEW o \in Owners, FailToLock(o)
        PROVE  Atomic!AFail(o) \/ Atomic!APanic(o)
    <2>1. at[o] = "constructing" /\ drop_page(o, "Mlock")
      BY <1>4 DEF FailToLock, Constructing
    <2>2. page[o] \in Pages
      BY <1>4, <1>a DEF FailToLock, IInv, MappedByOwners, Free
    <2>3. QED BY <1>3, <2>1, <2>2 DEF Atomic!AFail, Atomic!APanic, Atomic!Reaches
  <1>5. ASSUME NEW o \in Owners, Drop(o)
        PROVE  Atomic!ADrop(o) \/ Atomic!APanic(o)
    <2>1. at[o] = "live" /\ held[o] = page[o] /\ drop_page(o, "none")
      BY <1>5 DEF Drop, Constructing
    <2>2. QED BY <1>3, <2>1 DEF Atomic!ADrop, Atomic!APanic, Atomic!Reaches
  <1>6. CASE UNCHANGED <<step, page>>
    BY <1>6 DEF Atomic!avars, Constructing
  <1>7. QED
    BY <1>1, <1>2, <1>4, <1>5, <1>6
       DEF Next, Proceed, vars, Use, SwapOut, Atomic!ANext

(***************************************************************************)
(* A construction is one step, whatever happens between its system calls:  *)
(* what SecAlloc takes new and drop of its page to be                      *)
(* (src/internals/mem/unix.rs:94, mem/windows.rs:92).                      *)
(***************************************************************************)
THEOREM Implements == Spec => ConstructsAtomically
  BY InitAtomic, StepAtomic, Inductive, PTL
     DEF Spec, ConstructsAtomically, Atomic!AtomicSpec
=============================================================================
