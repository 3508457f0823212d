# A TLA+ development of secmem-alloc

secmem-alloc provides two allocators for secret data: `SecStackSinglePageAlloc`,
a bump allocator on one locked page, and `ZeroizeAlloc`, a wrapper that zeroizes
what another allocator is about to free. This directory holds TLA+ modules
translated from that code, the TLC configurations that check them on small
instances, and TLAPS proofs of the properties that matter most. Paths below and
in the modules are relative to the root of the repository.

## The system

| component | state | operations |
|---|---|---|
| `SecStackSinglePageAlloc` (`src/sec_alloc.rs`) | `bytes`, `stack_offset`, the page | `new`, `allocate[_zeroed]`, `deallocate`, `shrink`, `grow[_zeroed]`, `realloc_shrink`, `realloc_grow`, `drop` |
| pointer and size arithmetic (`src/util.rs`) | none | `align_up_usize`, `align_up_ptr_mut`, `is_aligned_ptr`, `large_offset_from` |
| locked pages (`src/internals/mem.rs` and `mem/`) | the mapping, its lock | `alloc_new_lock` (map, then lock), `drop` (unmap) |
| zeroizers (`src/zeroize/mod.rs`) | the memory wiped | three builds of `zeroize_mem` |
| `ZeroizeAlloc` (`src/zeroizing_alloc.rs`) | its backend allocator | the methods of `GlobalAlloc` and `Allocator` |
| debug preconditions (`src/macros.rs`) | none | checks of the caller's side of a contract |

`SecStackSinglePageAlloc` owns one page for its whole life: `new` maps and locks
it, `drop` checks it in debug builds and then unmaps it. It places blocks at
addresses computed with `util` and wipes them with `zeroize_mem`. `ZeroizeAlloc`
calls `zeroize_mem` and then its backend; it can be the global allocator, shared
by all threads. `SecStackSinglePageAlloc` is confined to one thread (`Cell`s and
a raw pointer), so its calls never overlap: what is hard about it is not
concurrency but the *order* of calls. The client decides the order in which
blocks are freed, shrunk, grown and moved, may pass back any layout that fits a
block, and may change its alignment. Two numbers must then still tell which
memory is free, and the memory that is free must be zero.

What makes each component correct:

* **SecStackSinglePageAlloc**: blocks never overlap and lie below the top of the
  stack; the counter equals the bytes in blocks; nothing but the data of blocks
  in use remains in memory; a failed call changes nothing; a request fails only
  for want of room; a stack-like client loses nothing to fragmentation; the
  debug checks of `drop` fire exactly on leaks.
* **util**: the least aligned address, 0 when there is none.
* **locked pages**: no allocator on an unlocked page, no page or lock leaked when
  locking fails, none unmapped twice.
* **zeroizers**: all bytes of the range, no other, are zero before the memory is
  used again, and no build drops the writes.
* **ZeroizeAlloc**: the backend never gets back a block with data in it, also
  when a reallocation moves it or fails, whatever threads do in between.

`PROJECT.json` lists the hazards of the code at their lines, with the properties
that would catch each one.

## Modules

| module | contents |
|---|---|
| `Util` | the arithmetic on a `usize` of `UsizeSpan` values; the layouts a client can form |
| `UtilBits` | `Util` against bit operations and against its documentation, word by word |
| `UtilProofs` | lemmas about `Util` for every word size |
| `SecAlloc` | the allocator: one action per call |
| `SecAllocProps` | its properties and the inductive invariant `IInv` |
| `MCSecAlloc` | `SecAlloc` for TLC |
| `AllocatorContract` | abstract: what a client of the `Allocator` trait may count on |
| `SecAllocContract` | the refinement of `AllocatorContract` by `SecAlloc` |
| `BoundedStack` | abstract: a stack of sizes that share a capacity without waste |
| `SecAllocLifo` | `SecAlloc` with a client that follows the advice on fragmentation, and its refinement of `BoundedStack` |
| `SecAllocProvenance` | `SecAlloc` with the unsafe accesses of each call and what the pointers are good for |
| `SecAllocProofs` | the proofs about `SecAlloc` |
| `SecAllocContractProofs` | its refinement of `AllocatorContract`, and what it has room for |
| `SecAllocLifoProofs`, `SecAllocProvenanceProofs` | the proofs about `SecAllocLifo` and `SecAllocProvenance` |
| `ZeroizeAlloc` | the wrapper: the calls of several threads, step by step |
| `ZeroizeAllocProps`, `MCZeroizeAlloc` | its properties; its refinement of `AllocatorContract` |
| `ZeroizeAllocProofs` | the proofs about it, the refinement included |
| `LockedPage` | pages, system call by system call, of several allocators |
| `AtomicPage` | abstract: constructing and dropping a page in one step |
| `LockedPageProps`, `LockedPageProofs` | the properties of pages, the refinement of `AtomicPage`, their proofs |
| `Zeroize` | the three builds of `zeroize_mem`, write by write |
| `AtomicZeroize` | abstract: zeroizing in one step |
| `ZeroizeProps`, `ZeroizeProofs` | the properties of `zeroize_mem`, the refinement of `AtomicZeroize`, their proofs |

How they fit together. `SecAlloc` and `ZeroizeAlloc` are two implementations of
one contract and share `Util`. Both take `zeroize_mem` to be one step, and
`SecAlloc` takes `new` and `drop` to be one step each: `AtomicZeroize` and
`AtomicPage` are these steps stated on their own, and `Zeroize` and `LockedPage`
are shown to implement them.

### SecAlloc

State. `bytes` and `stack_offset` are the struct's cells; `page_ptr` is the page's
address (0: no page); `mem` maps each address of the page to a byte; `blocks` is the
client's side: for each handle the pointer and length of the slice it got and the
layout it last asked for; `phase` says whether the allocator exists and how it all
ended: `aborted` or `panicked` by the checks of `drop`, or `refused`, a panic over a
page that the system does not unmap; `call` names the last call and its result. A
byte is `Zero` or `<<h, i>>`, what the client stored at index `i` of the block it
calls `h`: enough to tell whose data a byte is and whether it moved.

Actions. `New`, `AllocateZeroed`, `Deallocate`, `Shrink`, `GrowZeroed`,
`ReallocShrink`, `ReallocGrow` and `Drop` are the methods of these names
(`allocate` and `grow` only forward); `Write` is the client filling a slice.
Each action is the whole call, the early returns of `AllocError` included:
`Fits` and `RoomToGrow` say that none of them is taken. `Reallocate` keeps the
order of the code inside one step: the new block is taken, the data copied, and
only then the old block zeroized, uncounted and rewound from the *new* top of the
stack. `deallocate` is the operator `DeallocateFrom`, with the cells and the memory as
parameters, because a reallocation calls it on values that are not yet the state.
`Drop` has three disjuncts: the checks pass or are compiled out, they abort the
process (std), or they panic and the page is dropped by unwinding (no std). The
page's own drop is `ReleasePage`. It unmaps the page or, when the system refuses,
panics over it (`unwrap`, `unix.rs:108`), which leaves everything as it is; while
the checks unwind, this second panic aborts. `New` may panic in the same way:
when the page cannot be locked it is dropped again.

The client honours the safety contract of the `unsafe` methods. It passes blocks
it holds, and any size that fits: from the one last requested to the length
returned. What a caller who breaks the contract gets is not modelled.

Definitions commented "Mutant" are wrong variants of the definition they
precede. They are not part of any specification; each of them shows that a
property notices the bug it describes.

### SecAllocProvenance

Adds to `SecAlloc` which bytes the client's pointer to a block is good for
(`prov`), how long the client takes the block to be (`known`), and the accesses
of the last call, each with what its pointer was good for. `allocate_zeroed`
derives the pointers it returns from the page's (`Cut`), a resize in place
returns the pointer it was passed, and `deallocate` rebuilds its pointer
(`Release`, `src/sec_alloc.rs:448`). The client may pass any block
through a reference to its first bytes (`Narrow`), the case the comment at `:445`
is about. The other actions are those of `SecAlloc`, with the same names.

### ZeroizeAlloc

The wrapper has no state but its backend, and as the global allocator it is
shared by all threads. So the state is the backend's (`heap`, `granted`), the
clients' (`blocks`) and that of the calls in progress (`calls`: for each handle
the next step of the call on it). A backend grants any free, aligned range and
may return `Slack` bytes more than it was asked for; what memory holds that
nobody has written to is `Junk`.

Actions. `Allocate` is `alloc`, `alloc_zeroed`, `allocate` and
`allocate_zeroed`, one call of the backend each. `Deallocate` is the entry of
`dealloc` and `deallocate` with their checks, `Zeroize` and `BackendDealloc` the
steps that follow. `realloc`, `grow`, `grow_zeroed` and `shrink` are the default
methods of the traits, which the wrapper deliberately keeps
(`src/zeroizing_alloc.rs:98`, `:140`): `BeginResize` allocates, `Copy` moves the
data, and the old block takes the steps of a deallocation. Other threads
interleave between any two steps. `HandleAllocError` ends the process where a
debug build finds a broken precondition (`src/macros.rs`): a layout that is not
valid, a zero-sized request or null pointer to `GlobalAlloc`.

Calls are named by the handle they concern: no block is passed to two calls at a
time, as that would break the contract, so each handle in a call is a thread.

### LockedPage

For each allocator (`Owners`) the page of its `Page` struct and where it stands
(`step`): before `alloc_new_lock`, inside it, live, or how it ended. The system
is there with what is `mapped`, `locked` and written to `swap`. `alloc_new`,
`lock` and the drop of a page are one system call each; `FailToLock` is the `?`
that returns the error of a failed lock and drops the page. An unmap that the
system refuses is a panic (`unwrap`, `unix.rs:108`). The size passed to
`VirtualFree` has to be 0, that passed to `munmap` the page's. `SwapOut` writes
any page that is mapped and not locked, at any time. The page is locked for as
long as it is mapped afterwards; hibernation and memory starvation, which the
documentation excepts (`unix.rs:77`), are left out.

### Zeroize

A call of `zeroize_mem` on any range in one of its three builds. `SetMemory`
issues the writes of the intrinsic or of `write_bytes`; each is made when the
compiler likes (`WriteByte`) and is dropped if it has not been made when the
memory is freed (`Free`). `Observed` is what stands against that: volatile
accesses, and the `asm!` block, which may read memory (it has `readonly` and not
`nomem`), come after the writes issued before. `WriteVolatile` is one turn of the
loop of the fallback. Other threads write to the bytes next to the range.

### Abstractions

* Addresses are numbers; only `SecAllocProvenance` looks at what a pointer may
  be used for.
* In both allocators `copy_nonoverlapping` and `zeroize_mem` are one effect each:
  nobody else may look at the bytes meanwhile. For `zeroize_mem` this is shown
  (`ZeroizesAtOnce`).
* In `SecAlloc`, `new` takes a fresh, zeroed, locked page, fails or panics,
  whatever the cause, and `drop` unmaps the page or panics; that these may be taken
  for one step is shown (`ConstructsAtomically`). After a panic over a page that
  is not unmapped, or an abort, nothing more happens in the model.
* The backend of `ZeroizeAlloc` allocates and frees in one step: it is an
  allocator that threads may share, and how it does that is its own concern.
* A `Layout`'s size is at most `isize::MAX` minus its alignment. For these
  the test `rounded_req_size == 0` (`src/sec_alloc.rs:329`, `:618`) never holds:
  rounding to 8 cannot wrap a usize.

## What TLC checks

| run | question | states |
|---|---|---|
| `safety` | the safety invariants, three blocks; the leak check of a debug build with std (abort) | 86,000 |
| `contract` | refinement of `AllocatorContract`; capacity; the leak check without std (panic) | 35,000 |
| `lifo` | no fragmentation and no copies for a stack-like client; refinement of `BoundedStack`; release build | 91,000 |
| `util_bits` | `align_up_usize` on every 8 bit word and power of two | 2,000 |
| `provenance` | what the pointers of all accesses are good for | 67,000 |
| `zeroize_threads` | nothing lost and no data left behind, three threads, backend with slack; `IInv`; refinement of `AllocatorContract` | 593,000 |
| `zeroize_global` | liveness, `GlobalAlloc`, debug build | 293,000 |
| `page` | pages, locks and swap, refused unmaps; refinement of `AtomicPage`; constructors return | 4,600 |
| `zeroize_mem` | three builds on every range; refinement of `AtomicZeroize` | 7,800 |
| `last_allocation` | (violated) `ptr_is_last_allocation` is exact | |
| `zeroize_slack` | (violated) all of a block is zeroized | |
| `provenance_shrink` | (violated) `shrink` wipes what its pointer is good for | |

The properties:

* `Disjoint`, `BelowTop`: no byte belongs to two blocks; no block is at or above
  the top of the stack, where the next one will be placed.
* `BytesExact`: `bytes` is the number of bytes in blocks. This is what makes the
  reset at 0 safe and the leak check right.
* `DataInPlace`: each byte of the page is zero or the data of a block in use at
  its index. It is zeroization (nothing remains after a free, shrink or move,
  slack included), zeroed allocation (`allocate_zeroed` wipes nothing) and the
  correctness of copies in one.
* `LayoutHonoured`: alignment and size, also after resizes that change them.
* `consistency_check`: the assertions of the unit tests.
* `RefusedOnlyWhenFull`: exactly the requests for which no aligned address with
  room exists are refused, and the lowest such address is taken.
* `FullPageWhenEmpty`: without blocks the page offers as much as a new one.
* `DropReportsLeaks`: in debug builds the checks of drop end the process iff a
  block of the page is left; the one of the page's contents never fires by
  itself. Without a leak drop gets as far as unmapping the page, and only a
  refusal of that makes it panic.
* `ImplementsAllocator`: with only blocks and contents visible, every call is
  what the trait promises, an error changes nothing, and other blocks keep their
  place and contents.
* `NoFragmentation`, `ImplementsStack`: for a client that deallocates, shrinks
  or grows only its last block and aligns only the first to more than 8, the
  offset equals the counter and only a full page refuses a request.
* `NothingMoves`: a resize by such a client is done in place or refused, so its
  secrets are never copied.
* `GivenPointersSuffice`, `DeallocatesInProvenance`: an access through a pointer
  that is still good for the page stays in the page; a deallocation is within
  what its pointer is good for in any case.
* `Accounted`: the backend of `ZeroizeAlloc` has handed out exactly the memory of
  blocks and calls in progress, to one each.
* `NothingRemains` (of `ZeroizeAlloc`): data is in the block it was written to,
  at its index, or in the old block of a call that has not wiped it yet.
* `StrayDataWiped`, `CallsReturn`: what a deallocation or move leaves behind is
  wiped, every call returns, unless a debug check ends the process.
* `MappedByOwners`, `LocksByOwners`: every mapped page has one owner, every
  locked page a live one (or one whose unmap was refused), whatever fails.
* `DataNeverSwapped`: no page goes to swap with data in it.
* `ConstructorReturns`: a constructor ends, with an error its page is gone, and it
  panics only over a page that the system refuses to unmap.
* `NothingElided`: when `zeroize_mem` has returned nothing of the secret is left.
* `ConstructsAtomically`, `ZeroizesAtOnce`: see "How they fit together".

Bounds. A page of 32 bytes is four words: three blocks fill it with or without gaps.
Sizes are below, at and above a word, so several sizes fit one block, up to a whole
page and more. Alignments are below a word, inside a page and above it. Pages lie at
addresses of different alignment, one at the end of an address space of 256, where
aligning up wraps. In `lifo` no alignment exceeds the page: see `AlignedWithinPage`
below. Three handles allow a block above and one below the block worked on, which is
all that the branches distinguish; the proofs cover any number. The runs use three
handles (`safety`), two (where histories of one block and its neighbour suffice and
more sizes are used) and four (`lifo`). Handles are interchangeable, hence the
symmetry. Deadlock is not checked where everything may have ended, by a debug check
or a refused unmap (`safety`, `contract`, `lifo`, `provenance`, `last_allocation`,
`provenance_shrink`, `zeroize_global`), or where the input space is walked to its
end (`util_bits`).

The backend of `ZeroizeAlloc` has four bytes for blocks of one or two with a byte of
slack (`zeroize_global`: none): enough for two of three threads to hold blocks or
one to move its own, for freed memory to be granted to another thread while the call
that freed it is not over, and for requests to find no room. Size 8 in
`zeroize_global` is not a valid layout there. Three allocators share two lockable
pages of three: the limit and the want of pages are both met; one page can be
refused to be unmapped and two cannot. The run `page` is that of Windows, where the
size of the release matters; a Unix build differs in `ReleaseSize` and what
`Releasable` accepts only, and the proofs cover both. `zeroize_mem` runs on every
range of its memory, the empty one, those at either end and all of it included. The
provenance runs have two blocks, so that one may have to move, and sizes that round
up by 0 and by 3 bytes.

Fairness. `ZeroizeAlloc`: weak fairness of the rest of each call that has begun
(`Proceed(h)`): its thread is scheduled, and none of its steps waits for another
thread: there is no lock in the wrapper. `LockedPage`: weak fairness of a
constructor that has begun: system calls return. Nobody is required to call
anything, to drop an allocator, or to swap. `SecAlloc` needs none: its calls are one
step; nor does `Zeroize`, a `for` over a range that is fixed when it starts.

### Disagreements with the documentation

* `last_allocation`: `ptr_is_last_allocation` "returns `true` iff `ptr` points to
  the final allocation" (`src/sec_alloc.rs:185`). Freeing a block behind an
  alignment gap rewinds the stack to the block's start, not to the gap's; the
  final block now ends below the offset and is denied. The answer errs on the safe
  side: true implies that no block is above (from `Disjoint` and `BelowTop`).
* `provenance_shrink`: "`new_alloc_end` is valid for writes of `rounded_size -
  new_rounded_size` bytes" (`src/sec_alloc.rs:542`). It is derived from the
  caller's pointer, of which `deallocate` says that it "might have provenance for
  only `layout.size()` bytes" (`:445`). Allocate 13 bytes, pass them through a
  reference, shrink to 5: bytes 13 to 15 are wiped through a pointer that is not
  good for them. The slice a resize in place
  returns is made of the pointer passed in too (`:564`, `:649`), so it is longer
  than such a pointer is good for.
* `zeroize_slack`: "to zeroize memory before deallocation"
  (`src/zeroizing_alloc.rs:3`). What is zeroized is `layout.size()` bytes
  (`:134`), of a block whose owner may have used the longer slice the backend
  returned. `NothingRemains` holds for clients that stay within their layout.

One more sentence is out of date, which no run is needed to see: "zero sized
allocations are not allowed (but cause only an allocation error ...)"
(`src/sec_alloc.rs:58`), where the code returns `Ok` with a dangling pointer
(`:321`), as the `Allocator` trait wants.

## What is proved

`UtilProofs` proves, for every word size, that `align_up_usize` returns the least
multiple at or above its argument, and 0 when a word has none (`AlignUpIsLeast`;
`IsLeastMultiple` is the statement the run `util_bits` checks as well).
The theorems about `SecAlloc` hold for every page size that is a multiple of 8,
any page addresses, word size, layouts and number of handles:

| module | theorem | statement |
|---|---|---|
| `SecAllocProofs` | `Invariance` | `Spec => []IInv` |
| | `TypeCorrect` | `Spec => []TypeOK` |
| | `BlocksExclusive`, `BlocksKept` | `Spec => []Disjoint`, `Spec => []BelowTop` |
| | `Consistent` | `Spec => []consistency_check` |
| | `CounterExact` | `Spec => []BytesExact` |
| | `NothingRemains` | `Spec => []DataInPlace` |
| | `LayoutsHonoured` | `Spec => []LayoutHonoured` |
| | `LeaksReported` | `DebugAssertions` implies `Spec => DropReportsLeaks`: the checks of drop fire exactly on leaks |
| `SecAllocContractProofs` | `ImplementsContract` | `Spec => ImplementsAllocator` |
| | `RefusedWhenFull` | `Spec => []RefusedOnlyWhenFull` |
| | `WholePageAgain` | `Spec => []FullPageWhenEmpty` |
| `SecAllocLifoProofs` | `NothingFragmented` | `LifoSpec => []NoFragmentation` |
| | `NothingCopied` | `LifoSpec => NothingMoves` |
| | `ImplementsBoundedStack` | `AlignedWithinPage` implies `LifoSpec => ImplementsStack` |
| `SecAllocProvenanceProofs` | `AccessesInPage` | `PSpec => []GivenPointersSuffice` |
| | `DeallocationsSound` | `PSpec => []DeallocatesInProvenance` |

The assumptions are those the modules
state: `UtilAssumption` (words of at least 4 bits; alignments are 1, 2, 4 or
multiples of 8), `PowersOfTwo` (alignments divide the number of words) and
`SecAllocAssumption` (pages are whole words at word boundaries, not null and
inside the address space; the zero byte is not the client's data).
The theorems of `SecAllocLifoProofs` need one more, `PageBoundaries`: pages lie at
multiples of the page size, as `mmap` and `VirtualAlloc` place them, and of any
alignment and the page size one divides the other, as both are powers of two. It
is about the first block alone: one that is aligned beyond a word must find the
page's first byte aligned or no room at all, or the gap before it would be lost.
`ImplementsBoundedStack` also has the hypothesis `AlignedWithinPage`, that the
client asks for no alignment beyond the page's. Without it the refinement is
false: a page need not lie at a multiple of, say, twice its size, and where it does
not an empty allocator refuses such a request, which is no question of room. The
other two theorems hold for any alignment.

The argument. None of the properties is inductive alone. That the counter is
exact needs blocks to be disjoint; that they stay disjoint needs them below the
top; that they stay below the top after a reset needs the counter to be exact.
`IInv` joins them with `WholeWords` (a block is as long as its size rounds to, so
any fitting layout leads back to the same length, lemma `Fitting`) and
`PageWhenLive`; these two are proved and not checked by a run of their own. Every
call that changes blocks replaces one block by another,
moves the counter by the difference of their lengths and leaves the others below
the new top; `ReplaceBlock` derives `IInv'` from that shape, `BytesExact'` by
counting the union of disjoint ranges. `Grant` shows the shape for a new block and
`ReleaseRewinds` for the place where the stack ends up after a free. One lemma per way
of changing blocks (`AllocateStep`, `ReleaseStep`, `ReallocateStep`,
`ShrinkInPlaceStep`, `GrowInPlaceStep`) then proves the actions, and their own
part is `DataInPlace'`: where each byte that is not zero came from.

Capacity. That no request is refused for which there is room rests on
`AlignUpLeast`: aligning up gives the least multiple there is, and 0 only when
there is none below the end of the address space. That an empty page is whole
again needs one more invariant, `ResetWhenEmpty` (no bytes, no offset): a call
that leaves the counter at 0 has released the last block, so it has reset the
stack; any call that leaves a block behind leaves the counter above 0
(`CountedIn`).

The contract. The refinement mapping leaves `blocks` and `call` as they are and
takes the contents of a block from memory. `Served` says when a call that gives a
handle a new block has done what the contract asks: other blocks' bytes are as
before, and every byte of the new block is the old one at its index or, behind
those to be kept, zero. Where a block is placed follows from `IInv'`, not from
the call. That a grown or new block's bytes are zero although nothing wipes them
is `FreeIsZero`: memory of the page outside all blocks is zero (`DataInPlace`).

The stack-like client. `NoFragmentation` is not inductive either: that a
deallocation rewinds the offset by as much as it takes from the counter needs the
last block created to be the topmost. `LInv` adds to `IInv` that the client's
order lists the blocks held (`HeldInOrder`) and that their addresses ascend in it
(`Ascending`). Then the lengths add up to the counter, which is the offset, so
blocks leave no gap and the last one with bytes ends at the top (`LastOnTop`). It
follows that `ptr_is_last_allocation` is exact for this client, that a free rewinds
to the end of the block before, and that growing and shrinking move the
offset and the counter alike; a resize would move the last block only for an
alignment it does not have. That can only be the first block's, which lies at the
start of the page, and one beyond the page's (`PageBoundaries`), which no other
address of the page has either (`NoOtherPlace`): hence `NothingCopied`.

`ImplementsBoundedStack` maps the stack to the lengths of the blocks in the
client's order and the capacity used to the counter. `BoundedStack` keeps this sum
in a variable of its own, updated by each of its steps, and `bytes` is updated
alike; no sum over a sequence has to be taken. What is left to show is that a call
is granted exactly when there is room: a new block fits between the top of the
stack, which is the counter, and the end of the page (`GrantedIffRoom`); a resize is
always in place (`LastIsAligned`, `LastOnTop`), so it has the page from the block's
own start, which is where the blocks below end (`ResizedIffRoom`).

Provenance. `PSpec` is `Spec` with history (`PNextIsNext`), so `IInv` holds in it.
Every access of a call is in the block passed in, the block granted or the bytes
behind a block grown in place, and all of these are in the page. A deallocation
uses no pointer but its own, which is good for the page.

The other modules, each for every value of its constants:

| module | theorems |
|---|---|
| `ZeroizeAllocProofs` | `NothingLost` (`Accounted`), for all clients; `Inductive` (`SInv` for all clients, `IInv` for those that stay within their layouts, `~UsesSlack`), and for the latter `WipedBeforeDeallocation` (`NothingRemains`) and `ImplementsContract` (`ImplementsAllocator`) |
| `LockedPageProofs` | `Inductive` (`IInv`), `NoPageLost` (`MappedByOwners`), `NoLockLost` (`LocksByOwners`), `NeverSwapped` (`DataNeverSwapped`), `Implements` (`ConstructsAtomically`) |
| `ZeroizeProofs` | `Inductive` (`WipeInv`), `NeverElided` (`NothingElided`), `Implements` (`ZeroizesAtOnce`) |

`ZeroizeAlloc`. A step of one call concerns one handle: its memory changes and
that of the others is apart from it (`Accounted`), so what holds of the other
handles is kept (the frame lemmas), and each action is shown only what it does to
its own. `SInv` adds to `Accounted` what each step of a call takes for granted: which
blocks the call holds at that step and that the client has not touched them
(`CallsInOrder`). It is inductive whatever clients write, so no memory of the
backend is lost or given away twice in any case. `IInv` adds that data fills at
most the bytes asked for (`DataHeld`), which is why zeroizing `layout.size()`
bytes is enough. That is where `~UsesSlack` is needed, and `zeroize_slack` shows
that it is. It is also needed for `ImplementsContract`: data left in the slack of a
freed block would be seen in the next block granted there.

`ImplementsContract` maps a call of several steps to one of the contract: a
deallocation to its entry, a resize to `Copy`, where the client's block changes;
all other steps change memory of the call's own only (`ChangesOwn`), outside any
block a client holds, and are stutters. By the time of the copy the arguments of
the call are gone from the state, so `CInv` adds to `IInv` what the call has kept
of them (`AsAsked`): the new block is of a layout that was asked for, larger or
smaller than the size passed as the call has it, and zero if it is to be. What
else a new block may hold is `Junk` or `Zero` but no client's data
(`NoDataElsewhere`, from `DataHeld`).

`LockedPage`. Two steps change who owns what, and `Acquire` and `Release` prove
the invariant for them; all others keep ownership (`Stay`). That no data is
swapped rests on `data \subseteq locked`. For `Implements` every step is mapped to
one of `AtomicPage` or to a stutter; that a new page is nobody's is
`MappedByOwners`.

`Zeroize`. `WipeInv` says that what is not zero yet is still to be written
(`Unwritten`), for each build and place in the code. `Implements` maps the range
to unchanged memory while the call runs; on return `WipeInv` says it is all zero.

Only model-checked:

* liveness (`StrayDataWiped`, `CallsReturn`, `ConstructorReturns`), which TLAPS
  does not prove under fairness here;
* `RemainderIsMask`, the reading of the bit operations in `Util` on every 8 bit
  word: that masking is the remainder needs induction on bits. What the function
  is for is proved: `AlignUpIsLeast` states `LeastMultiple` for every word size
  (in terms of `IsLeastMultiple`, because `UtilBits` uses bit operations that no
  proof may refer to);
* the disagreements with the documentation, which are counterexamples.

## Not modelled

* `src/lib.rs`: module declarations, re-exports and documentation.
* `src/internals/mem/miri.rs`: stands in for the system calls when the tests run
  under Miri; it locks nothing.
* `src/macros.rs`: `precondition_memory_range` and the annotations for the MIRAI
  verifier do nothing at run time.
* `unlikely` and `nonnull_as_mut_ptr` (`src/util.rs`), which compute nothing;
  `page_size`, a constant here.
* The unit tests; `consistency_check`, which they call, is a property.
* What a caller who breaks the contract of an `unsafe` method gets, except where
  a debug build ends the process.

What could follow: the steps of `New` and `Drop` as steps of `AtomicPage`, and a
client of `ZeroizeAlloc` that uses the slack but shrinks its data before it
frees, for which zeroizing `layout.size()` bytes is enough again.

## Running

`tlc -config X.cfg M` with these configurations and modules:

| module | configurations |
|---|---|
| `MCSecAlloc` | `MCSecAlloc`, `SecAllocLast` |
| `SecAllocContract`, `SecAllocLifo`, `UtilBits` | those of the same name |
| `SecAllocProvenance` | `Provenance`, `ProvenanceShrink` |
| `MCZeroizeAlloc` | `ZeroizeAlloc`, `ZeroizeAllocGlobal`, `ZeroizeAllocSlack` |
| `LockedPageProps` | `LockedPage` |
| `ZeroizeProps` | `ZeroizeMem` |

`tlapm M.tla` checks the proofs of `UtilProofs`, `SecAllocProofs`,
`SecAllocContractProofs`, `SecAllocLifoProofs`, `SecAllocProvenanceProofs`,
`ZeroizeAllocProofs`, `LockedPageProofs` and `ZeroizeProofs`.
