------------------------- MODULE AllocatorContract -------------------------
(***************************************************************************)
(* What a client of the Allocator trait may count on, whatever allocator   *)
(* is behind it: where a block may be, what it holds, and that a call      *)
(* concerns one block only.  There is no page, stack or counter here, only *)
(* the blocks of the client and their contents.  An action is a predicate  *)
(* on a step, to be checked of an implementation.                          *)
(*                                                                         *)
(* The trait belongs to the allocator-api2 crate; the implementations in   *)
(* src/sec_alloc.rs and src/zeroizing_alloc.rs are held to it.             *)
(***************************************************************************)
EXTENDS Util

CONSTANTS
  Handles,
  Zero,
  Fresh   \* what a byte nobody has written to may hold

VARIABLES
  blocks,    \* by handle: address, layout last requested and length returned
  contents,  \* by handle: the bytes of the block, indexed from 0
  call       \* the last call and whether it succeeded

cvars == <<blocks, contents, call>>

CNoBlock == [addr |-> 0, size |-> 0, align |-> 1, len |-> 0]
Held(h) == blocks[h].addr # 0

CBytes(b) == b.addr .. (b.addr + b.len - 1)

FittingSize(h, s) == blocks[h].size <= s /\ s <= blocks[h].len

(* A zero-sized block may be anywhere, every other one only where no other is. *)
GoodBlock(h, layout) ==
  LET b == blocks'[h]
  IN /\ b.addr # 0
     /\ b.addr % layout.align = 0
     /\ b.size = layout.size
     /\ b.align = layout.align
     /\ b.len >= layout.size
     /\ \A g \in Handles \ {h} : CBytes(b) \cap CBytes(blocks'[g]) = {}

OthersUntouched(h) ==
  \A g \in Handles \ {h} :
    blocks'[g] = blocks[g] /\ contents'[g] = contents[g]

(* The first n bytes are kept, the slack behind them may be, the rest is new. *)
Kept(h, n, new) ==
  LET before == contents[h]
      after  == contents'[h]
  IN /\ DOMAIN after = 0 .. (blocks'[h].len - 1)
     /\ \A i \in DOMAIN after :
          \/ i \in DOMAIN before /\ after[i] = before[i]
          \/ i >= n /\ after[i] \in new

(* An error gives nothing away: every block is as it was. *)
Resized(h, layout, kept, new) ==
  \/ /\ call'.ok
     /\ GoodBlock(h, layout)
     /\ Kept(h, kept, new)
     /\ OthersUntouched(h)
  \/ /\ ~call'.ok
     /\ UNCHANGED <<blocks, contents>>

-----------------------------------------------------------------------------
CInit ==
  /\ blocks = [h \in Handles |-> CNoBlock]
  /\ contents = [h \in Handles |-> [i \in {} |-> Zero]]
  /\ call \in [op : {"new", "drop"}, ok : {TRUE}]

CNew ==
  /\ \E ok \in BOOLEAN : call' = [op |-> "new", ok |-> ok]
  /\ UNCHANGED <<blocks, contents>>

(* Whatever the client still holds when the allocator goes is lost. *)
CDrop ==
  /\ \E ok \in BOOLEAN : call' = [op |-> "drop", ok |-> ok]
  /\ \/ UNCHANGED <<blocks, contents>>
     \/ /\ blocks' = [h \in Handles |-> CNoBlock]
        /\ contents' = [h \in Handles |-> [i \in {} |-> Zero]]

(* The client fills what it asked for, or more of what it got. *)
Filled(h, n, old) == [i \in DOMAIN old |-> IF i < n THEN <<h, i>> ELSE old[i]]

FilledUpTo(h, n) == contents' = [contents EXCEPT ![h] = Filled(h, n, @)]

CWrite(h) ==
  /\ Held(h)
  /\ call' = [op |-> "write", ok |-> TRUE]
  /\ blocks' = blocks
  /\ \E n \in blocks[h].size .. blocks[h].len : FilledUpTo(h, n)

(* The process was ended by a debug check: nothing else happened. *)
CEnd == call'.op = "handle_alloc_error" /\ UNCHANGED <<blocks, contents>>

(* Nothing of h was held before, so all of a new block is new. *)
CAllocate(h, layout, new) ==
  /\ ~Held(h)
  /\ Resized(h, layout, 0, new)

CDeallocate(h, size) ==
  /\ Held(h)
  /\ FittingSize(h, size)
  /\ call'.ok
  /\ blocks' = [blocks EXCEPT ![h] = CNoBlock]
  /\ contents' = [contents EXCEPT ![h] = [i \in {} |-> Zero]]

CShrink(h, size, layout) ==
  /\ Held(h)
  /\ FittingSize(h, size)
  /\ layout.size <= size
  /\ Resized(h, layout, layout.size, Fresh)

CGrow(h, size, layout, new) ==
  /\ Held(h)
  /\ FittingSize(h, size)
  /\ layout.size >= size
  /\ Resized(h, layout, size, new)

CNext ==
  \/ CNew
  \/ CDrop
  \/ CEnd
  \/ \E h \in Handles :
       \/ call'.op = "write" /\ CWrite(h)
       \/ call'.op = "deallocate" /\ \E s \in Sizes : CDeallocate(h, s)
       \/ \E l \in Layouts :
            \/ call'.op = "allocate" /\ CAllocate(h, l, Fresh)
            \/ call'.op = "allocate_zeroed" /\ CAllocate(h, l, {Zero})
            \/ \E s \in Sizes :
                 \/ call'.op \in {"shrink", "realloc_shrink"} /\ CShrink(h, s, l)
                 \/ call'.op \in {"grow", "realloc_grow"} /\ CGrow(h, s, l, Fresh)
                 \/ call'.op = "grow_zeroed" /\ CGrow(h, s, l, {Zero})

ContractSpec == CInit /\ [][CNext]_cvars
=============================================================================
