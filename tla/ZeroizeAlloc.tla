---------------------------- MODULE ZeroizeAlloc ----------------------------
(***************************************************************************)
(* ZeroizeAlloc (src/zeroizing_alloc.rs): a wrapper that zeroizes a block  *)
(* before it hands it to the backend allocator.                            *)
(*                                                                         *)
(* The wrapper has no state but its backend, and as the global allocator   *)
(* it is shared by all threads.  So the state is that of its surroundings: *)
(* the backend's heap, the blocks of the clients, and the calls in         *)
(* progress.  A call runs in steps, one for each access to memory that     *)
(* other threads may interleave with; a call of the backend is one step.   *)
(* Calls are named by the handle of the block they concern, as no block is *)
(* passed to two calls at a time: two handles in calls are two threads.    *)
(*                                                                         *)
(* Both traits are modelled.  Resizing is left to their default methods:   *)
(* allocate, copy, deallocate the old block with the wrapper's own methods.*)
(***************************************************************************)
EXTENDS Util

CONSTANTS
  Handles,         \* names clients give to the blocks they hold
  Zero,            \* the zero byte
  Junk,            \* a byte of memory nobody has written to
  HeapBase,        \* first address of the backend's memory
  HeapSize,        \* bytes of it
  Slack,           \* how much longer than asked for the backend's blocks are
  UsesSlack,       \* whether clients write to these bytes too
  Api,             \* the trait the clients use
  DebugAssertions  \* cfg!(debug_assertions)

(***************************************************************************)
(* GlobalAlloc returns no length, so its blocks have none but the one asked *)
(* for.  No Rust allocation reaches the last byte of the address space.    *)
(***************************************************************************)
ASSUME ZeroizeAllocAssumption ==
  /\ HeapBase \in Nat \ {0} /\ HeapSize \in Nat
  /\ HeapBase + HeapSize < UsizeSpan
  /\ Slack \in Nat /\ UsesSlack \in BOOLEAN
  /\ Api \in {"GlobalAlloc", "Allocator"}
  /\ Api = "GlobalAlloc" => Slack = 0
  /\ DebugAssertions \in BOOLEAN
  /\ Zero \notin Handles \X Nat /\ Junk \notin Handles \X Nat

VARIABLES
  phase,    \* "running", or "aborted" by handle_alloc_error
  heap,     \* the backend's memory
  granted,  \* addresses the backend has handed out and not got back
  blocks,   \* the block behind each handle
  calls,    \* the call in progress on each handle
  call      \* the last call that took effect, and whether it succeeded

vars == <<phase, heap, granted, blocks, calls, call>>

Heap == HeapBase .. (HeapBase + HeapSize - 1)

NoBlock == [addr |-> 0, size |-> 0, align |-> 1, len |-> 0]
IsLive(h) == blocks[h].addr # 0
Bytes(b) == b.addr .. (b.addr + b.len - 1)

(* A call: its next step, the block to release, its size, the block gained. *)
Returned == [step |-> "returned", old |-> NoBlock, size |-> 0, new |-> NoBlock]
Idle(h) == calls[h].step = "returned"

Data(h, i) == <<h, i>>

FittingSizes(h) == {s \in Sizes : blocks[h].size <= s /\ s <= blocks[h].len}

Zeroized(m, ptr, len) ==
  [a \in DOMAIN m |-> IF a \in ptr .. (ptr + len - 1) THEN Zero ELSE m[a]]

Copied(m, src, dst, len) ==
  [a \in DOMAIN m |-> IF a \in dst .. (dst + len - 1) THEN m[a - dst + src]
                                                      ELSE m[a]]

Smaller(x, y) == IF x < y THEN x ELSE y

-----------------------------------------------------------------------------
(* Any layout, those Layout::from_size_align would reject included. *)
Requests == [size : Sizes, align : Aligns]

(***************************************************************************)
(* The checks of the allocating and of the deallocating methods in debug   *)
(* builds.  A layout that fits a block is valid, as its request was.       *)
(***************************************************************************)
AllocChecks(layout) ==
  layout \in Layouts /\ (Api = "GlobalAlloc" => layout.size # 0)

DeallocChecks(ptr, size) ==
  Api = "GlobalAlloc" => ptr # 0 /\ size # 0 /\ ptr + size < UsizeSpan

(***************************************************************************)
(* The backend grants free memory of the layout's alignment, and a         *)
(* dangling pointer when no bytes are asked for.                           *)
(***************************************************************************)
Grants(layout) ==
  LET block(a, n) ==
        [addr |-> a, size |-> layout.size, align |-> layout.align, len |-> n]
      n == layout.size + Slack
  IN IF layout.size = 0
     THEN {block(layout.align, 0)}
     ELSE {block(a, n) : a \in {x \in Heap : /\ x % layout.align = 0
                                             /\ x .. (x + n - 1) \subseteq Heap \ granted}}

(* The backend takes b; a zeroing backend clears all of it. *)
BackendAllocates(b, zeroed) ==
  /\ granted' = granted \cup Bytes(b)
  /\ heap' = IF zeroed THEN Zeroized(heap, b.addr, b.len) ELSE heap

(* The client of h sees how its call ends; others see nothing. *)
Answers(op, ok) == call' = [op |-> op, ok |-> ok]

Fails(op) ==
  /\ Answers(op, FALSE)
  /\ UNCHANGED <<phase, heap, granted, blocks, calls>>

(* A caller that breaks the contract, noticed by a debug build only. *)
HandleAllocError ==
  /\ DebugAssertions
  /\ phase' = "aborted"
  /\ Answers("handle_alloc_error", FALSE)
  /\ UNCHANGED <<heap, granted, blocks, calls>>

-----------------------------------------------------------------------------
Init ==
  /\ phase = "running"
  /\ heap = [a \in Heap |-> Junk]
  /\ granted = {}
  /\ blocks = [h \in Handles |-> NoBlock]
  /\ calls = [h \in Handles |-> Returned]
  /\ call = [op |-> "new", ok |-> TRUE]

(* The client fills what it asked for, or all that it got. *)
Write(h) ==
  LET b == blocks[h]
      n == IF UsesSlack THEN b.len ELSE b.size
  IN /\ phase = "running"
     /\ Idle(h)
     /\ IsLive(h) /\ n > 0
     /\ heap' = [a \in Heap |-> IF a \in b.addr .. (b.addr + n - 1)
                                THEN Data(h, a - b.addr)
                                ELSE heap[a]]
     /\ Answers("write", TRUE)
     /\ UNCHANGED <<phase, granted, blocks, calls>>

(* alloc, alloc_zeroed, allocate and allocate_zeroed: the backend's call. *)
Allocate(h, op, layout) ==
  /\ phase = "running"
  /\ Idle(h)
  /\ ~IsLive(h)
  /\ \/ /\ AllocChecks(layout)
        /\ \E b \in Grants(layout) :
             /\ BackendAllocates(b, op = "allocate_zeroed")
             /\ blocks' = [blocks EXCEPT ![h] = b]
        /\ Answers(op, TRUE)
        /\ UNCHANGED <<phase, calls>>
     \/ AllocChecks(layout) /\ Fails(op)
     \/ ~AllocChecks(layout) /\ HandleAllocError

(* dealloc, deallocate: the client gives the block up when it calls. *)
Deallocate(h, size) ==
  /\ phase = "running"
  /\ Idle(h)
  /\ \/ /\ IsLive(h)
        /\ DeallocChecks(blocks[h].addr, size)
        /\ calls' = [calls EXCEPT ![h] =
             [step |-> "zeroize", old |-> blocks[h], size |-> size, new |-> NoBlock]]
        /\ blocks' = [blocks EXCEPT ![h] = NoBlock]
        /\ Answers("deallocate", TRUE)
        /\ UNCHANGED <<phase, heap, granted>>
     \/ ~DeallocChecks(blocks[h].addr, size) /\ HandleAllocError

(* Mutant: the block is resized where it is. *)
BeginResize_InPlace(h, op, size, layout) ==
  LET b == [blocks[h] EXCEPT !.size = layout.size, !.len = layout.size]
  IN /\ phase = "running"
     /\ Idle(h)
     /\ IsLive(h)
     /\ IF op = "shrink" THEN layout.size <= size ELSE layout.size >= size
     /\ granted' = (granted \ Bytes(blocks[h])) \cup Bytes(b)
     /\ blocks' = [blocks EXCEPT ![h] = b]
     /\ Answers(op, TRUE)
     /\ UNCHANGED <<phase, heap, calls>>

(* Mutant: the backend resizes, which wipes nothing when the block moves. *)
BeginResize_Backend(h, op, size, layout) ==
  /\ phase = "running"
  /\ Idle(h)
  /\ IsLive(h)
  /\ IF op = "shrink" THEN layout.size <= size ELSE layout.size >= size
  /\ \E b \in Grants(layout) :
       /\ granted' = (granted \ Bytes(blocks[h])) \cup Bytes(b)
       /\ heap' = Copied(heap, blocks[h].addr, b.addr, Smaller(size, b.size))
       /\ blocks' = [blocks EXCEPT ![h] = b]
  /\ Answers(op, TRUE)
  /\ UNCHANGED <<phase, calls>>

(***************************************************************************)
(* realloc, grow, grow_zeroed and shrink begin with an allocation by the   *)
(* wrapper; when it fails they return and the old block stays.             *)
(***************************************************************************)
BeginResize(h, op, size, layout) ==
  /\ phase = "running"
  /\ Idle(h)
  /\ IsLive(h)
  /\ Api = "GlobalAlloc" => layout.align = blocks[h].align /\ op # "grow_zeroed"
  /\ IF op = "shrink" THEN layout.size <= size ELSE layout.size >= size
  /\ \/ /\ AllocChecks(layout)
        /\ \E b \in Grants(layout) :
             /\ BackendAllocates(b, op = "grow_zeroed")
             /\ calls' = [calls EXCEPT ![h] =
                  [step |-> op, old |-> blocks[h], size |-> size, new |-> b]]
        /\ UNCHANGED <<phase, blocks, call>>
     \/ AllocChecks(layout) /\ Fails(op)
     \/ ~AllocChecks(layout) /\ HandleAllocError

(* Mutant: the old block is forgotten. *)
Copy_KeepsOld(h, op) ==
  LET c == calls[h]
  IN /\ phase = "running"
     /\ c.step = op
     /\ heap' = Copied(heap, c.old.addr, c.new.addr, Smaller(c.size, c.new.size))
     /\ blocks' = [blocks EXCEPT ![h] = c.new]
     /\ calls' = [calls EXCEPT ![h] = Returned]
     /\ Answers(op, TRUE)
     /\ UNCHANGED <<phase, granted>>

(* The data moves; from here the client's block is the new one. *)
Copy(h, op) ==
  LET c == calls[h]
  IN /\ phase = "running"
     /\ c.step = op
     /\ heap' = Copied(heap, c.old.addr, c.new.addr, Smaller(c.size, c.new.size))
     /\ blocks' = [blocks EXCEPT ![h] = c.new]
     /\ calls' = [calls EXCEPT ![h] = [c EXCEPT !.step = "zeroize", !.new = NoBlock]]
     /\ Answers(op, TRUE)
     /\ UNCHANGED <<phase, granted>>

(* Mutant: only blocks the client deallocates itself are wiped. *)
Zeroize_NotWhenMoved(h) ==
  LET c == calls[h]
  IN /\ phase = "running"
     /\ c.step = "zeroize"
     /\ heap' = IF IsLive(h) THEN heap ELSE Zeroized(heap, c.old.addr, c.size)
     /\ calls' = [calls EXCEPT ![h].step = "dealloc"]
     /\ UNCHANGED <<phase, granted, blocks, call>>

(* The checks of dealloc hold here too: the client has passed this block in. *)
Zeroize(h) ==
  LET c == calls[h]
  IN /\ phase = "running"
     /\ c.step = "zeroize"
     /\ heap' = Zeroized(heap, c.old.addr, c.size)
     /\ calls' = [calls EXCEPT ![h].step = "dealloc"]
     /\ UNCHANGED <<phase, granted, blocks, call>>

(* Mutant: the block goes back only when no other call is in progress. *)
BackendDealloc_Waits(h) ==
  /\ phase = "running"
  /\ calls[h].step = "dealloc"
  /\ \A g \in Handles \ {h} : Idle(g)
  /\ granted' = granted \ Bytes(calls[h].old)
  /\ calls' = [calls EXCEPT ![h] = Returned]
  /\ UNCHANGED <<phase, heap, blocks, call>>

(* The backend gets the memory back, and the call returns. *)
BackendDealloc(h) ==
  /\ phase = "running"
  /\ calls[h].step = "dealloc"
  /\ granted' = granted \ Bytes(calls[h].old)
  /\ calls' = [calls EXCEPT ![h] = Returned]
  /\ UNCHANGED <<phase, heap, blocks, call>>

Resizes == {"grow", "grow_zeroed", "shrink"}

(* Mutant: the backend has the block before it is wiped. *)
Proceed_DeallocFirst(h) ==
  \/ \E op \in Resizes : Copy(h, op)
  \/ /\ calls[h].step = "zeroize"
     /\ granted' = granted \ Bytes(calls[h].old)
     /\ calls' = [calls EXCEPT ![h].step = "dealloc"]
     /\ UNCHANGED <<phase, heap, blocks, call>>
  \/ /\ calls[h].step = "dealloc"
     /\ heap' = Zeroized(heap, calls[h].old.addr, calls[h].size)
     /\ calls' = [calls EXCEPT ![h] = Returned]
     /\ UNCHANGED <<phase, granted, blocks, call>>

(* The rest of a call once its thread runs: nothing waits for another. *)
Proceed(h) ==
  \/ \E op \in Resizes : Copy(h, op)
  \/ Zeroize(h)
  \/ BackendDealloc(h)

Next ==
  \E h \in Handles :
    \/ Write(h)
    \/ \E layout \in Requests, op \in {"allocate", "allocate_zeroed"} :
         Allocate(h, op, layout)
    \/ \E size \in FittingSizes(h) :
         \/ Deallocate(h, size)
         \/ \E layout \in Requests, op \in Resizes : BeginResize(h, op, size, layout)
    \/ Proceed(h)

Spec == Init /\ [][Next]_vars

(* Every thread runs; clients call when they like. *)
FairSpec == Spec /\ \A h \in Handles : WF_vars(Proceed(h))
=============================================================================
