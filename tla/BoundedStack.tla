---------------------------- MODULE BoundedStack ----------------------------
(***************************************************************************)
(* A stack of word-rounded sizes that share a capacity without any waste:  *)
(* what the documentation of SecStackSinglePageAlloc says the allocator is *)
(* to a client that only ever deallocates, shrinks or grows the allocation *)
(* it created last (src/sec_alloc.rs:38, :63).  A request is refused only  *)
(* when it does not fit what is left.                                      *)
(***************************************************************************)
EXTENDS Integers, SequencesExt

CONSTANT Capacity

VARIABLES
  sizes,  \* the rounded sizes on the stack, oldest first
  used,   \* their sum
  asked,  \* the rounded size the last call asked for
  call

bvars == <<sizes, used, asked, call>>

BInit ==
  sizes = <<>> /\ used = 0 /\ asked = 0 /\ call = [op |-> "drop", ok |-> TRUE]

(* Granted exactly when the rest of the stack leaves room for it. *)
Serve(rest, taken) ==
  IF taken + asked' <= Capacity
  THEN call'.ok /\ sizes' = Append(rest, asked') /\ used' = taken + asked'
  ELSE ~call'.ok /\ UNCHANGED <<sizes, used>>

Clear ==
  /\ call'.op \in {"new", "drop"}
  /\ UNCHANGED <<sizes, used>> \/ (sizes' = <<>> /\ used' = 0)

Look == call'.op = "write" /\ UNCHANGED <<sizes, used>>

Push == call'.op = "allocate" /\ Serve(sizes, used)

Pop ==
  /\ call'.op = "deallocate"
  /\ sizes # <<>>
  /\ sizes' = Front(sizes) /\ used' = used - Last(sizes)

ResizeTop ==
  /\ call'.op \in {"shrink", "grow"}
  /\ sizes # <<>>
  /\ Serve(Front(sizes), used - Last(sizes))

BNext == Clear \/ Look \/ Push \/ Pop \/ ResizeTop

StackSpec == BInit /\ [][BNext]_bvars
=============================================================================
