---------------------------- MODULE SecAllocLifo ----------------------------
(***************************************************************************)
(* SecStackSinglePageAlloc in the hands of a client that keeps to the      *)
(* advice of its documentation (src/sec_alloc.rs:63): "only deallocate,    *)
(* shrink or grow the last created allocation, and request at most 8 byte  *)
(* alignment for all but the first allocation".                            *)
(***************************************************************************)
EXTENDS SecAlloc, SequencesExt

(***************************************************************************)
(* mmap places pages at page boundaries, and the page size and alignments  *)
(* are powers of two.                                                      *)
(***************************************************************************)
ASSUME PageBoundaries ==
  /\ \A p \in PageAddrs : p % PageSize = 0
  /\ \A a \in Aligns : PageSize % a = 0 \/ a % PageSize = 0

VARIABLES
  order,  \* the handles held, in the order their allocations were created
  asked   \* the rounded size the last call asked for

lifo_vars == <<vars, order, asked>>

(* Only the first allocation may be aligned to more than a word. *)
AlignedByAdvice(layout, position) == position > 1 => layout.align <= 8

LifoInit == Init /\ order = <<>> /\ asked = 0

LifoNew == New /\ asked' = 0 /\ UNCHANGED order

LifoDrop == Drop /\ asked' = 0 /\ order' = IF page_ptr' = 0 THEN <<>> ELSE order

LifoWrite == (\E h \in Handles : Write(h)) /\ UNCHANGED <<order, asked>>

LifoAllocate(h, layout) ==
  /\ AlignedByAdvice(layout, Len(order) + 1)
  /\ AllocateZeroed(h, layout)
  /\ asked' = Rounded(layout.size)
  /\ order' = IF call'.ok THEN Append(order, h) ELSE order

LifoDeallocate ==
  /\ order # <<>>
  /\ \E size \in FittingSizes(Last(order)) : Deallocate(Last(order), size)
  /\ asked' = 0
  /\ order' = Front(order)

LifoResize(layout) ==
  /\ order # <<>>
  /\ AlignedByAdvice(layout, Len(order))
  /\ \E size \in FittingSizes(Last(order)) :
       \/ Shrink(Last(order), size, layout)
       \/ GrowZeroed(Last(order), size, layout)
  /\ asked' = Rounded(layout.size)
  /\ UNCHANGED order

LifoNext ==
  \/ LifoNew
  \/ LifoDrop
  \/ LifoWrite
  \/ LifoDeallocate
  \/ \E layout \in Layouts :
       LifoResize(layout) \/ \E h \in Handles : LifoAllocate(h, layout)

LifoSpec == LifoInit /\ [][LifoNext]_lifo_vars

(* The rounded sizes of the blocks held, and `bytes` is their sum. *)
sizes == [i \in 1 .. Len(order) |-> blocks[order[i]].len]

Stack == INSTANCE BoundedStack WITH
  Capacity <- PageSize, sizes <- sizes, used <- bytes

(***************************************************************************)
(* To such a client the page is a stack of PageSize bytes: a request is    *)
(* refused only when the blocks held leave less than it rounds to          *)
(* (src/sec_alloc.rs:38, :57, :63).                                        *)
(***************************************************************************)
ImplementsStack == Stack!StackSpec

(* No request is aligned to more than a page. *)
AlignedWithinPage == \A a \in Aligns : PageSize % a = 0

(***************************************************************************)
(* No byte below the top of the stack is lost to fragmentation, in         *)
(* particular the bytes the client frees can be asked for again at once.   *)
(***************************************************************************)
NoFragmentation == stack_offset = bytes

(***************************************************************************)
(* A resize leaves the client's data where it is: grow_zeroed always finds *)
(* the block on top of the stack, and where its address does not have the  *)
(* alignment asked for, no other address has room (src/sec_alloc.rs:513,   *)
(* :605).  So secrets are copied only by clients that ignore the advice.   *)
(***************************************************************************)
StaysInPlace(h) ==
  blocks[h].len > 0 /\ blocks'[h].len > 0 => blocks'[h].addr = blocks[h].addr

NothingMoves == [][\A h \in Handles : StaysInPlace(h)]_lifo_vars

-----------------------------------------------------------------------------
(***************************************************************************)
(* What makes it so: the handles in order are those of the blocks, and the *)
(* blocks lie on the page in the order they were created in.               *)
(***************************************************************************)
HeldInOrder ==
  /\ order \in Seq(Handles)
  /\ \A i, j \in DOMAIN order : order[i] = order[j] => i = j
  /\ \A h \in Handles : IsLive(h) <=> \E i \in DOMAIN order : order[i] = h

Ascending ==
  \A i, j \in DOMAIN order :
    LET b == blocks[order[i]]
        c == blocks[order[j]]
    IN i < j /\ b.len > 0 /\ c.len > 0 => b.addr + b.len <= c.addr

HandleSymmetry == Permutations(Handles)
=============================================================================
