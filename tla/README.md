# LLPE: a verification project

LLPE is a partial evaluator for LLVM bitcode: it specialises a program on its arguments and
on the contents of files it reads. Before it commits a specialised program it symbolically
executes the original one, function by function and, where it can, loop iteration by loop
iteration. At run time the specialised program asks a small daemon, `lliowd`, whether the
files it was specialised on are still what they were.

This directory holds TLA+ models of the parts of LLPE whose correctness is hard to see and
hard to test, the TLC configurations that check them on small instances, and TLAPS proofs.
Paths below are relative to `src/`.

## 1. Inventory

### The parts and how they interact

| Part | Where | State it keeps | Operations |
|---|---|---|---|
| Watch daemon and client library | `lliowd/main.cpp`, `lliowd/clientlib.c` | configured programs with an inotify instance each; a client's socket and descriptor | parse and verify, accept, answer; `lliowd_init`, `lliowd_ok` |
| Block and edge evaluation | `llpe/main/CFGEval.cpp`, `MainLoop.cpp`, `CreateSpecialisationContext.cpp` | contexts (`InlineAttempt`, `PeelIteration`), blocks with live edges, status and stores, `pendingEdges`, `latchStoresRetained` | `analyse`, `analyseBlock`, `analyseLoop`, `PeelAttempt::analyse`, terminators |
| Walkers | `IAWalkers.cpp` | none | visit the instances of a block's predecessors or successors through loops |
| Symbolic store | `include/.../SharedTree.h`, `LoadForward.cpp` | reference-counted maps, frames and heap; escape flags | fork, write, clobber, push and pop frames, merge |
| Heap tree | `SharedTree.h` | a copy-on-write radix tree | grow, write, merge trees |
| Value sets and load forwarding | `LoadForward.cpp`, `PartialLoadForward.cpp` | `ImprovedValSetSingle/Multi` | read and write ranges, merge |
| Instruction evaluation | `Eval.cpp` | results of instructions | folding, comparisons, phi nodes |
| Descriptors and files | `VFSOps.cpp`, `VFSCallModRef.cpp` | `FDStore`: positions of open files | open, read, seek, merge |
| Tentative loads | `TentativeLoads.cpp` | per-block sets of locations known good | which loads need a run-time check against other threads |
| Dead store elimination | `DSE.cpp` | per-block maps of stores not yet needed | kill stores, allocations, copies |
| Dead instruction elimination | `DIE.cpp` | `dieStatus` | which instructions nobody needs |
| Conditional specialisation | `ConditionalSpec.cpp` | path conditions, blocks that need a fallback | checks, branches to unspecialised code |
| Function sharing | `FunctionSharing.cpp` | external dependencies of a specialised function | match, share, unshare |
| Commit | `Save.cpp`, `SaveSplit.cpp`, `PostCommit.cpp` | committed blocks and functions | emit the specialised program |
| Shadow structures | `Shadows.cpp`, `LLPE.h`, `TopLevel.cpp` | tables of functions, blocks, loops | built once |
| Estimates, command line, printing, driver | `IntBenefit.cpp`, `CommandLine.cpp`, `DOT.cpp`, `driver/` ... | options, statistics | user interface |

The evaluator owns the control: it decides which block runs next, and calls the instruction
evaluator, which reads and writes the block's symbolic store. A block gives a reference to
its stores to each live successor; where edges meet the stores are merged (`doBlockStoreMerge`);
a call takes the caller's store and hands back the merge of its returns' stores. The
tentative-load, dead-store and descriptor passes keep stores of their own that travel the
same way. Commit reads what all of them left in the shadow structures. `lliowd` meets the rest
only through the configuration file that commit helps to write and through the client
library linked into the specialised program.

### What is hard

* *Concurrency* is in `lliowd` and in the programs that LLPE specialises. Daemon, clients and
  the processes that change files interleave at every system call, the daemon can die and come
  back, connections can be refused or hang. The evaluator itself is one thread, but what it
  assumes of memory has to survive the other threads of the specialised program, and what it
  assumes of files whoever else reads and moves the same descriptors.
* *Sharing.* Stores are shared copy-on-write between paths that are analysed at different
  times; whether a write may be done in place hangs on reference counts kept by hand in a
  dozen places: forks, merges, explored iterations that are kept or given up, rounds of
  fixed points, loops within loops that keep a latch's store for later.
* *Approximation.* Each shortcut (an explored loop, a block called certain, an object that an
  unknown write is held not to reach) has to be sound for every run of the program.
* *Termination.* Fixed points within fixed points, and exploration without a limit.

`PROJECT.json` lists the hazards one by one with the line where each bites and the
properties that would catch it.

### What makes each part correct

* lliowd: a client uses specialised code only while its files are as recorded; a refusal is
  final; nobody is refused without a reason; nobody blocks for ever.
* Store: every edge sees its own store; no value is lost at a merge or a clobber; counts exact.
* Evaluation: every run of the function is covered by blocks analysed with a store that
  allows it; `CERTAIN` means what its users take it to mean; references and pending edges
  balance; the analysis ends.
* Heap tree: a finite map per store, with each inner node counted once per reference.
* Tentative loads: every load that may see another thread's write is checked.
* Dead stores: a store is killed only if no path reads it, nor unspecialised code after a check.
* Descriptors: reads and seeks executed at specialisation time are what the original does on
  every path, the position is right whenever the real file is used again, and a read goes
  unchecked only if the daemon was asked before.
* Sharing: a shared function is used only where analysing it again would give the same.
* Commit: every live block is emitted once and every use refers to a committed definition.

## 2. The modules

### `Lliowd.tla` (with `MCLliowd.tla`, `LliowdProofs.tla`)

The daemon and the client library, step by step at the granularity of system calls.

* State: the file system (`dir`: path to inode, `content`, `mtime`), inotify (`watch`,
  `event` per instance), the daemon (`dpc`, `line`, `progs`, `opened`, `serving`), the clients
  (`cpc`, `watchfd`, `result`), the sockets (`conn`, `sent`). File system and inotify are
  external and modelled by what the code relies on: a change of a watched inode makes each
  instance that watches it readable.
* Actions: `NewProgram`, `BadLine`, `SkipLine`, `AddWatch`, `Stat`, `Open`, `Hash` and their
  failures are the steps of `parse_config`; `Accept`, `Serve`, `ServeFault` the accept loop;
  `lliowd_init`, `lliowd_getwatchfd`, `OkWait`, `OkPoll`, `PollFault` the client; `Crash` and
  `Start` the daemon's death and restart; `Modify`, `Unlink`, `Replace`, `RenameAway` everyone
  else.
* Abstractions: SHA-1 is a comparison of contents, a modification time is the recorded one or
  another, a configuration is a sequence of parsed lines tagged well formed or malformed.

### `CowStore.tla`, `AbsStore.tla` (with `MCCowStore.tla`, `CowStoreProofs.tla`, `CowRefinement.tla`)

`CowStore` is the symbolic store: `map` are `LocalStoreMap` objects, `tab` the tables they
share, level by level (0 the heap, n the n-th stack frame's `SharedStoreMap`), `at` which edge
holds which map. The code's functions that compose (`getWritableFrameList`,
`getWritableStoreMap`, `getOrCreateStoreFor`, `getEmptyMap`, `doMerge`, `dropReferences` ...) are
operators on the whole store; actions are what the evaluator does to one edge's store: `Fork`,
`Free`, `Alloc`, `StoreInst`, `StoreUnknown`, `UnexpandedCall`, `valueEscaped`, `PushFrame`,
`PopFrame`, `Merge`. What the code does for one object or one reference after the other is done
for all of them at once: a set of entries is written, a set of edges drops its references.
An object is the set of values it may hold; the heap is a single table (its shape is in
`HeapTree`). `size` is chosen at the start: how many edges there are, how deep the stack may be,
and whether known values are written.

`AbsStore` is what the store promises: one independent map from objects to sets of values per
edge, with no sharing, no counts and no tables. `CowStore` implements it under the mapping
`Views`, which reads every edge's store through its map and its tables (`ImplementsAbsStore`).
The one leak between edges that the abstract specification allows is `ClobberEmpty` (see the
observations below).

### `HeapTree.tla`, `AbsHeap.tla` (with `MCHeapTree.tla`)

The radix tree that holds the heap of a store. `node` is the memory of `SharedTreeNode`s: a
reference count and `HEAPTREEORDER` children, values in the lowest level; `tree` the maps with
their root, height and `allOthersClobbered`. The node operations (`getWritableNode`,
`createEntry`, `dropReference`, `mergeNodes` with `intersect` and `populate`) and those of the
root (`mustGrowFor`, `growToHeight`, `getOrCreateStoreFor`, `mergeHeaps` with `tempGrow` and
`removeTemps`) are operators on the memory, the recursion by level as in the code; actions are
what the store does with a tree: `Copy`, `Drop`, `Write`, `Clobber`, `Merge`. Two values merge to
the union of what they may be.

`AbsHeap` is one finite map per store, without nodes, and `HeapTree` implements it when every
key is read through `getReadableStoreFor` (`ImplementsAbsHeap`).

### `Walk.tla`, `TentativeLoads.tla`, `DSE.tla`, `SpecialisedRun.tla` (with `MCSpecialisedRun.tla`, `SpecialisedRunProofs.tla`, `KilledStoresProofs.tla`)

Two passes and the program they lead to. `Walk` has what both share: a function as blocks of
operations on memory, the order of visits (`visitsInLoop`: blocks in order, a general loop twice,
first from its preheader and then from its latch, nested loops only once in the second pass),
and the merge of stores with `allOthersClobbered`. `TentativeLoads` and `DSE` are functions of a
function: `findTentativeLoads(p)` is the set of operations marked `TLS_MUSTCHECK`,
`tryKillStores(p, checked)` the set of stores that are killed, each by folding its
`...AnalyseInstruction` over the visits. An object has two bytes, enough for partial overlap.

`SpecialisedRun` composes them: its first two steps run the passes on `prog`, and then the
specialised program runs beside other threads, which write whatever they like at fences, locks
(the locked object only) and ordered loads. Of a byte it matters whether it is `dirty` (not what
the analysis thinks) or `stale` (its last store was killed). `Load`, `OrderedLoad` and
`PathCondition` abandon specialised code if they are checked and find a dirty byte; `Enter` and
`Leave` are around a call or an explored loop that was analysed and then left unspecialised.

The operations are those with a pointer to one known object; `u` stands for objects of whose
contents nothing is known, and `loadAny` for a load through an unknown pointer. What the visits of
`findTentativeLoads` should amount to is said apart from them: `GoodAtStart` is the greatest
fixed point of the pass's transfer over the blocks, and `TLSettled(p)` says that the operations
which that fixed point would mark have all been marked. Likewise `WritersAtStart` is the least
fixed point of the dead-store pass (who may have written a byte last, on some path), and
`DSESettled(p)` says that none of the stores that were killed is needed according to it.

### `VFSOps.tla` (with `MCVFSOps.tla`, `VFSOpsProofs.tla`)

The table of descriptors and the files behind it, again as an analysis followed by a run.
`analyse(p)` folds `tryResolveVFSCall` and `FDStoreMerger` over the visits of `Walk` and leaves
the table before each call and after each block, and for each call whether it was resolved, at
which position, to how many bytes, and whether it is checked. The run has the original (`orig`)
and the specialised program (`spec`) side by side, with the position of every open file in
each; `asked` are the descriptors for which `lliowd_ok` has been called on the path taken.
`ResolvedRead` moves `spec` as `emitVFSCall` does, with a seek; `CheckFails` seeks back and goes
to unspecialised code. Positions are unsigned numbers modulo `Wide`, which stands for 2^64, and
`Narrow` for 2^32, since -1 means unknown and the code converts it to and from narrower types;
`lseek` takes a signed offset and refuses to go below zero (`SeekTo`), and `ReadFile` keeps the
length of a read in 32 bits.

The analysis goes on from positions it does not know (section 5). `guesses` are the calls where it
does, judged by the table before them (`PositionKnown`): a read of constant size at an unknown
position or beyond the end of the file, a seek from a position of which the analysis does not know
that it is unknown, or to one that `lseek` refuses. `guessed` says that one of them is on the path
taken, and `FilesAsInOriginal` compares the two programs up to there. No function is left out for
it, and calls before the guess, or on other paths, have to be right all the same.

### `CFGEval.tla` (with `MCCFGEval.tla`, `CFGEvalProofs.tla`)

The evaluation of one function. `prog` is the function: its shape (blocks in topological
order, edges with their multiplicity, loops, returns, the user's options) and what its blocks
do to the one cell that stands for all data, where they branch and where they call a function
that does not return. `bb` are the `ShadowBB`s by context and block: live edges, status, the
cell on entry and exit, and the references its `localStore` and `fdStore` account for; `ctx`
the contexts with `pendingEdges`; `retained` is `latchStoresRetained`; `stack` the activations
of `analyse`, `PeelAttempt::analyse` and `analyseLoop`.

| Action | Code |
|---|---|
| `analyseHeader`, `analyseBlock` | `analyseBlock` without and with the store merge, `analyseBlockInstructions`, `tryEvaluateTerminator`, `checkBlockStatus` |
| `enterPeel`, `enterLoop` | `analyseBlock` at a loop header |
| `endContext`, `nextIteration`, `endPeel`, `abandonPeel` | `PeelAttempt::analyse`: the next iteration, the loop shown to end, the exploration given up |
| `loopRound`, `endLoop` | one round of `analyseLoop`, and its end |
| `callReturn` | `doCallStoreMerge` in the caller |

A reference is charged to the block through whose pointer it was taken, which is how the code
takes and drops them; a reference handed on by a merge is a drop in one block and a take in
another. The reference semantics (`moves`, `follow`, `reached`) is how the function runs: it
knows nothing of contexts, rounds or stores.

Two restrictions on the functions considered. `halts`: a function that goes round for ever on
known values is explored for ever, by design. And functions have one return block, which is
what LLPE's scripts make sure of by running `-mergereturn`. `callReturn` visits every live return
block as the code does, and is guarded by `mergeable`, which says where the code would read through
a null pointer; with one return block it never does (section 5 on functions with several).

## 3. The runs

| Run | Configuration | Checks |
|---|---|---|
| `lliowd_safety` | one program, one file, 3 inodes, two clients, 2 changes, 1 fault, 2 inotify instances | `TypeOK`, `WatchSound`, `WatchInv`, `RefusalFinal` |
| `lliowd_clients` | six configurations, well formed and not, two programs, two files, 1 inode, 1 change, 1 fault | `NoSpuriousRefusal`, `GetWatchFdReturns` |
| `cow` | a heap; 4 edges and objects without flags, or 3 edges, or 2 edges and known values, or 2 edges and a frame | `TypeOK`, `RefCountsExact`, `EmptyIsEmpty`, `FlaggedHasEntry`, `ImplementsAbsStore` |
| `heap_tree` | 3 maps, keys 0, 1, 2, 5, branching 2, up to 3 levels, 2 writes | `TypeOK`, `NodeRefsExact`, `ImplementsAbsHeap` |
| `cfg_eval` | three functions of 6, 7 and 8 blocks, some 3800 behaviours of their blocks | `TypeOK`, `NeverOverdrawn`, `PendingNeverNegative`, `NothingHeldAtTheEnd`, `NextIterationHasLatch`, `EveryRunCovered`, `CertainOnEveryReturn`, `SettledIterationsStand` |
| `cfg_live` | the first two functions, calls that return | `Terminates` |
| `passes` | 29214 functions in eight families: lines of 4 operations, good copies, code left unspecialised, branches, loops with the exit at the latch, nested, with a branch in them, and entered once | `TypeOK`, `ChecksSuffice`, `UncheckedLoadsClean`, `KillsSettled`, `KilledNeverRead` |
| `files` | 19356 functions: lines of an open and 4 calls, two files, branches, a loop; a file of 4 bytes | `TypeOK`, `TwoPassesSuffice`, `FilesAsInOriginal`, `UncheckedReadsAskedBefore` |
| `lliowd_rename`, `cow_call`, `tl_copy`, `dse_merge` | as above | one property each, violated by the code: section 5 |

What they show:

* `WatchSound`: whatever happens to the files before, during and after verification and
  however the daemon dies, a client whose descriptor is not readable has files that exist and
  have the recorded contents. `RefusalFinal`: after a refusal a program never returns to
  specialised code. `NoSpuriousRefusal`: without faults and changes a client is refused only
  for its own program's lines and files. `GetWatchFdReturns`: a client in the blocking
  `recvmsg` gets out of it.
* `ImplementsAbsStore`: sharing, copy-on-write, in-place merges and reuse of a private map as
  the merge's target cannot be told from one private store per edge. What that store does
  at a write through an unknown pointer is said in `AbsStore` (`Kept`, `Spared`): everything is
  given up but what is flagged, and of that an unescaped object keeps its contents, while an escaped
  one of which nothing is known may be taken for unwritten (section 5). `RefCountsExact`:
  `refCount == 1` means that exactly one edge would see a write. `FlaggedHasEntry`,
  `EmptyIsEmpty`: what `clobberAllExcept` and `getEmptyMap` rely on, for unescaped objects always,
  for those that old ones do not alias until a write through an unknown pointer.
* `EveryRunCovered`: for each state the function can be in, some copy of the block in the
  specialised program was analysed with a store that allows it, and the edge the function
  takes is alive there, be the loop explored or brought to a fixed point.
  `CertainOnEveryReturn`: no run returns without having been in a block marked certain.
  `NextIterationHasLatch`: an iteration is begun only when the one before has reached its latch,
  whose store it takes. `NeverOverdrawn`, `NothingHeldAtTheEnd`: no store is used after its last
  reference went, nor that of a block that was abandoned and has none, and none is left when the
  caller has merged the returns. `SettledIterationsStand`: once a loop was shown to end, its
  iterations and what is nested in them stand as they were found, though the loops around them may
  go on for many rounds and their walkers read them all the while. `PendingNeverNegative`:
  the three assertions about `pendingEdges` hold and the unchecked decrement at the end of
  `analyseLoop` does not wrap. `Terminates`: the evaluation ends.
* `ImplementsAbsHeap`: growing, copying on write, merging trees of different heights through
  temporary nodes, and clobbering cannot be told from one finite map per store.
  `NodeRefsExact`: a node's count is the number of trees and nodes that refer to it, and no node
  outlives them.
* `UncheckedLoadsClean`: whenever the specialised program passes a load or copy without a check,
  memory still holds what the analysis found, whatever other threads did on the way, and code
  left unspecialised that read anything else has its result checked. `ChecksSuffice`: two passes
  over each loop, whose stores depend on where they come from, mark at least what a fixed point
  would have marked. `KillsSettled`: where paths meet, loops go round and the function returns,
  the pass has not lost sight of a store that is needed. `KilledNeverRead`: no byte whose last
  store was left out is read again: not by a load that is really done, a system call, unspecialised code after a failed check or path
  condition, another thread at a fence, or the caller.
* `FilesAsInOriginal`: what was executed at specialisation time is what the original does
  there, whichever path led there, and every descriptor is where the original has it, after a
  failed check too. `UncheckedReadsAskedBefore`: with `int-elim-read-checks`, a read without
  check was preceded on every path by one with. `TwoPassesSuffice`: the tables that two passes
  over a loop leave are a fixed point, so that nobody has to ask for a third, which no call on
  files does.

### Bounds, and why they are enough

* lliowd: two clients share an instance or compete for the daemon; three inodes allow a file to
  be replaced twice; two instances are two incarnations of the daemon. One fault can be a
  crash between any two steps or any one failing call.
* Store: with two edges merges find a private target; with three one map is shared and one
  private; only with four can both maps of a merge be shared, so that `doMerge` has to copy its
  target. Two values tell a merge that loses one from one that does not. One frame above the
  heap is the least with which maps can share one table and not another. Flags with four
  edges are left to the proofs, which are for any number of them. The `VIEW` in
  `MCCowStore` identifies states that differ in the numbering of maps and tables or in the
  names of edges, and is exact for these instances. Scalars and pointers, known or not, are
  written through pointers that are unknown or only held to be old.
* Evaluation: two values and `Top` decide every branch both ways and not at all; the first
  function has two exits, parallel edges and a latch that is not the header; in the second the
  inner loop can leave both, and the limit of three contexts stops exploration between the
  two; the third has what is treated apart: unwind edges, calls that do not return, assumed
  and optimistic edges. `MaxIter` is never reached in the passing runs: with two values a loop
  on known values repeats itself after three iterations, and `halts` excludes that.
* In all of them deadlock is not an error: the evaluation ends, the counters of changes and
  faults run out, and a nonreturning call in an explored loop stops the evaluator
  (section 5); specialised programs return or leave for unspecialised code.
* Heap tree: branching 2 and three levels need two growths for key 5 and one for key 2; with
  three maps a merge has two sources of other heights, and a tree can be shared while two are
  merged. Two writes per behaviour put two objects into one tree, or one each into two. The
  code's branching is 16; the model's is a parameter, and nothing depends on it.
* Passes: four operations are a store or check, something that interferes, a read and what
  makes a difference after it. Families leave out the functions for which the code is known to
  go wrong; they are named in section 5 and, where they fit, kept in `MCSpecialisedRun`
  (`Copies`, `Sides`, `Writes`, `While`). In particular stores of which the analysis knows nothing
  are not on one side of a branch only, and general loops do not have stores together with
  fences or locks.
* Files: four bytes and reads of one and three make reads that end before, at and beyond the
  end of the file. `Wide` is 256 and `Narrow` 16: no position a function can reach comes near
  either, so that they are told apart as 2^32 and 2^64 are. Functions that read or seek at a
  position the analysis does not know are among them, and all calls but those on which it guesses
  are compared (section 5 has what it does there).

### Fairness

* `lliowd_clients` assumes weak fairness of the daemon's accept loop and of each client's own
  steps. Both are processes that the kernel schedules; the daemon's loop has no condition
  under which it stops serving. Nothing is assumed of the environment, of starting the daemon
  or of failures.
* `cfg_live` assumes that the evaluator, one thread that never waits, goes on while it can.

## 4. What is proved

Seven modules hold proofs that TLAPS checks to the last leaf.

### The daemon and its clients (`LliowdProofs.tla`)

For every set of configurations, paths, inodes and clients and for all bounds (assumptions
`ConfigAssumption`, `BoundsAssumption`, `NamesAssumption` of `Lliowd.tla`):

* `TypeCorrectness`: `Spec => []TypeOK`.
* `WatchInvariance`, `WatchSoundness`: if no watched file is renamed away,
  `Spec => []WatchInv` and `Spec => []WatchSound`.
* `RefusalIsFinal`: `Spec => RefusalFinal`.
* `RefusalsHaveReasons`: `Spec => []NoSpuriousRefusal`.

`WatchSound` is not inductive: it speaks of descriptors in clients' hands, and these are good
because of what was true when the daemon made them. `WatchInv` adds three parts. `ParseInv`
relates the daemon's position to the lines read and the programs recorded so far.
`VerifiedInv` says that each file line read so far of a program that has not failed is *good*:
while its instance is unreadable it watches the very inode the path names, and that inode has
the recorded contents; and that the file in the middle of verification is already *covered*
(this is where adding the watch before looking at the file matters) with the inode that was
opened. `HeldInv` says the same of descriptors on their way and in clients' hands. Each part
has its own lemma, with a case for each action. `RefusalFinal` follows from `RefusalInv`: a
refusal leaves -1 in `lliowd_watchfd`, and where a client is decides which values it can have.

`NoSpuriousRefusal` needs `QuietInv`: while nothing has failed and nobody has changed a file,
a program the daemon has marked failed is *spoiled* by one of the lines read so far, no watch
has fired, and a client on its way to being refused, or given -1, asked for a program that is
unfit. `SpoiledUnfit` makes of a spoiled program an unfit one, whatever else is configured.

### The symbolic store (`CowStoreProofs.tla`, `CowRefinement.tla`)

For every set of edges and values, any depth of the stack and any slots per level:

* `TypeCorrect`, `CountsExact`, `MarkedEmpty`: `Spec => []TypeOK`, `[]RefCountsExact`,
  `[]EmptyIsEmpty`.
* `FlaggedKept`, `StoresImplemented`: `Spec => []FlaggedHasEntry` and
  `Spec => ImplementsAbsStore`, whatever is written through unknown pointers.

The inductive invariant of the first three is `Sound(S)`, that the store is `Typed`, its counts
exact (`Counted`) and its flags of empty tables true (`Marked`). None of the three holds without
the others: a free map or table is found because counts are exact and there are no more holders
than edges (`Spare`, `NewMapFree`, `NewTabFree`), counts stay exact because references are
typed, and a table is dropped, copied or written in place as its count says. Each operator of
the store has a lemma that says it keeps `Sound` and what it does to each edge: the edge itself
sees what the lemma says, and all others *agree* with before. That is the argument for
copy-on-write, and it is made once per operator: a write needs a count of one, and with exact
counts that means nobody else sees it.

`CowRefinement` adds `AllFlagged`: each unescaped object has an entry, and each object that old
ones do not alias has one too or is on an edge that remembers a write through an unknown pointer.
It makes `clobberAllExcept`, which saves flagged objects, save what is there, or, where an escaped
object has lost its entry, take it from unknown to unwritten and nothing else. For the refinement, `NextView` maps each
action to a step of `AbsStore` on the views, or to none: making a map private, or a table, is
invisible, and so is freeing what nobody sees. `UnexpandedCall` and `StoreUnknown` are the
steps that other edges may notice, as `ClobberEmpty`, because `getEmptyMap` returns a shared
map; the lemma `ClobberEffect` bounds what they can lose to stores that have nothing
(`Spared`).

### Descriptors (`VFSOpsProofs.tla`)

For functions of any shape, files of any size and all widths of a position (assumptions
`FilesAssumption`, `ProgramsAssumption` of `VFSOps.tla`), provided that the analysis of every
function has `Settled`, and whether or not it guesses in them:

* `TypeCorrect`, `FilesFollowed`, `AskedBeforeUnchecked`: `Spec => []TypeOK`,
  `[]FilesAsInOriginal`, `[]UncheckedReadsAskedBefore`.

The proof is the soundness argument of the analysis. The invariant says that on whatever path
the run is, the table the analysis left at this point *follows* the descriptors: an entry's
position is unknown, or that of the descriptor, and if the entry is clean the daemon has been
asked. Where the analysis has guessed on the path only the latter is left (`Asks`), which is
what `AskedBeforeUnchecked` needs there: whoever asks does so whether or not the position is right.
Each call has a lemma that its transfer keeps this (`ReadFollowed`,
`ResolvedReadFollowed`, `SeekFollowed`, `AsksResolvedRead` ...; the modular arithmetic is in
`ReadResolved` and `SeekResolved`), and at the end of a block a table that knows less follows as
well (`FollowsLess`, `AsksLess`). No call moves the state from one to the other but a guess
(`AfterMove`). That the tables are a fixed point of the analysis is the hypothesis `Settled`:
it is what folding over the visits computes, induction over the blocks of a function, and out of
the provers' reach. The run `files` checks it for its functions (`TwoPassesSuffice`).

### Tentative loads (`SpecialisedRunProofs.tla`)

For functions of any shape, any objects and whatever other threads write (assumption
`RunAssumption` of `SpecialisedRun.tla`), provided that every function is `TLSettled`:

* `LoadsClean`: `Spec => []UncheckedLoadsClean`.

The invariant `TLInv` says that at each point of the run no byte is dirty that the fixed point
takes for good there; or else that we are in code left unspecialised and the fixed point, too, has
seen it read something tentative (`Explained`). Each kind of operation has a lemma that the pass's
transfer keeps this, whatever that operation lets other threads write (`LoadExplained`,
`YieldExplained`, `LeaveExplained` ...). They rest on `UnmarkedGood` (what the pass does not mark
is not dirty) and on `GoodMark` and `GoodPut` (nothing becomes good but what an operation marks).
Between blocks less is taken for good (`EdgeExplained`).
`TLSettled` is the hypothesis for the same reason as `Settled` above, and `ChecksSuffice` has TLC
check it for the functions of `passes`. It fails, as it should, where section 5 says that the code
is wrong and `UncheckedLoadsClean` is violated: copies that are marked and have no check (`Copies`),
loops with an exit at the header (`While`), code left unspecialised that yields and reads nothing
tentative. Besides, it leaves out what no function of the model has, code left unspecialised that
nests or does not end in the block it began in.

### Dead stores (`KilledStoresProofs.tla`)

Under the same assumption, provided that every function is `DSESettled`:

* `KilledUnread`: `Spec => []KilledNeverRead`.

The invariant `KilledInv` says that for each stale byte, at each point of the run, the fixed point
knows a killed store that may have been the last to write it (`Traced`); and that nothing is stale
in code left unspecialised. So whatever the pass marks as needed is not stale: a barrier marks all
writers, hence nothing is stale there (`BarrierTraced`), and a read that is really done marks those
of what it reads (`ReadTraced`, `SystemCallTraced`). `ByKind` says what the pass does at each kind
of operation, and each kind has a lemma with both parts: what is stale before is not read there,
and what is stale after is traced (`LoadTraced`, `CopyTraced`, `EnterTraced` ...). Where a path
goes on in another block the fixed point has at least the same writers (`EdgeTraced`).
Apart from killed stores, `DSESettled` asks that a system call's arguments that are objects are all
looked at and that code left unspecialised begins and ends in one block. `KillsSettled` has TLC check
it for the functions of `passes`. It fails for the families `Sides` and `Writes`, where section 5
says that the code is wrong and `KilledNeverRead` is violated as well.

### The evaluation (`CFGEvalProofs.tla`)

For functions of any shape whose loops are as LLVM's `LoopInfo` and `loop-simplify` give them
(`getLoopInfo` asserts it; assumption `LoopsAssumption` of `CFGEval.tla`, with `ShapeAssumption`
and `ValuesAssumption`), whatever the blocks do, the user's options and the bound on iterations:

* `EvaluationTyped`: `Spec => []TypeOK`.
* `SettledStand`: `Spec => SettledIterationsStand`.

`TypeOK` is far from inductive: that a block is made in a context whose loop it is in depends on
where the walk is, and `endPeel` and `enterLoop` copy from blocks (the preheader, the latch, the
header) that must have been made. `Inv` is about five things. Contexts: those around a context
exist (`ContextsOK`), and so do their first blocks (`FirstThere`). Blocks: typed and in scope
(`BlocksOK`). The stack: each activation is about a loop directly inside that of the one below, or
about an iteration of it (`On`, `StackShape`). Each activation (`FrameOK`): the walk got into the
loops around it through their headers (`Around`), of a loop still ahead no block is made before
its header, nor the header before the preheader (`Ready`), the walk is never in the middle of a
loop inside its own (`Aligned`), and of a loop ahead no iteration exists unless it is the one being
explored (`Unexplored`), so that exploring begins from nothing. Last, no activation is about a
context that is settled, nor explores a loop already shown to end (`Open`).

The proof has a part on the shape of the function (`LoopTree`: loops are nested; where an edge
can lead: into a loop by its header, out of it to a block with no other predecessors), one on what
each operator does to the blocks (`Keeps`, `Touched`: blocks of other contexts keep all but
references), one on pushing, replacing and popping activations, and one on iterations (`ItsGrow`,
`NowEnded`: making one, or making the last one final, ends no other loop). Each action
then has its lemma (`HeaderStep`, `BodyStep`, `PeelStep`, `RoundStep` ...), which shows `GoodStep`:
the invariant holds after it, and what was settled is kept (`Kept`). `SettledStand` is the second
half, `EvaluationTyped` follows from the first.

### Only model-checked

* All liveness (`GetWatchFdReturns`, `Terminates`): the provers know nothing of `ENABLED`.
* The heap tree and its refinement: the tree's operators recurse over its height (`HeapTree`
  declares `RECURSIVE` operators), and what they compute at every height needs induction.
* `Settled`, `TLSettled` and `DSESettled`, and in general what the passes' folds over a function
  compute, and with it `TypeOK` of `SpecialisedRun`: the same.
* Of the evaluation, what balances counts (`NeverOverdrawn`, `PendingNeverNegative`,
  `NothingHeldAtTheEnd`), whose invariant has to say for each reference which edge it is for; what
  is about all runs of the function (`EveryRunCovered`, `CertainOnEveryReturn`); and
  `NextIterationHasLatch`.

## 5. Findings and observations

Each finding is a run in which TLC finds a property that the repository's own words state
violated by what the code does; `PROJECT.json` quotes the lines.

* `lliowd_rename`: the watch mask lacks `IN_MOVE_SELF`; a verified file that is renamed away
  leaves the descriptor unreadable.
* `cow_call`: `executeUnexpandedCall` clobbers memory before the call's arguments escape, so
  that an object whose address is passed for the first time keeps its contents.
* `tl_copy`: `requiresRuntimeCheck2` returns early for instructions without a result, memcpy
  included, so that a copy of what another thread may have written has no check, and makes
  source and target count as good.
* `dse_merge`: the loop that should add one path's writers to the other's where they meet never
  runs its body, so that a store on one side of a branch is killed although it is read later.

Observed while modelling, without a run:

* `parse_config` compares 32-bit positions with `std::string::npos`, so its "Bad line" exits
  are dead code (`lliowd/main.cpp:120`); the model has what really happens, the program is
  marked failed.
* `getEmptyMap` returns a shared map that happens to be empty and its callers then set
  `allOthersClobbered` on it (`SharedTree.h:798`). The others know less than they could; this is
  `ClobberEmpty` of `AbsStore`.
* `clobberAllExcept` is to spare an object-set, and saves what has no entry in it as never written,
  although nothing is known of it (`LoadForward.cpp:3279`): an object that is allocated and escapes,
  then a write of a scalar through an unknown pointer, then one through an unknown old pointer. A
  merge then lets the values of the other side through. `Spared` in `AbsStore` is exactly this case;
  without its second disjunct TLC finds `ImplementsAbsStore` violated.
* An iteration that cannot exit and did not reach its latch, because of a call that does not
  return, is followed by another all the same, which reads through a null pointer: the check of
  the latch edge at `CreateSpecialisationContext.cpp:375` is reached only for loops with
  `alwaysIterate` or an optimistic edge. `NextIterationHasLatch` is therefore about functions all
  of whose calls return.
* A loop exploration that is given up drops its references to `localStore`s and keeps those to
  `fdStore`s (`CreateSpecialisationContext.cpp:474`, `:502`). `NothingHeldAtTheEnd` asks for the
  latter only where no exploration was given up.
* With `alwaysIterate`, `pendingEdges` falls below zero (the assertion of `CFGEval.cpp:517`)
  when an iteration before the last has a live exit edge. With `assumeEndsAfter`, a latch edge
  that is alive in the last iteration keeps its reference and its pending edge. Both show when
  the first function of `MCCFGEval` is given the option (`alwaysIterate |-> {2}`,
  `endsAfter |-> 2 :> 1`), on `PendingNeverNegative` and `NothingHeldAtTheEnd`. The passing runs
  use neither.
* With several return blocks, one of which is abandoned with its loop and the other reached,
  `doMerge` would read the store of the former through a null pointer (`Misc.cpp:72`,
  `SharedTree.h:1177`), and `checkBlockStatus` calls the last of them certain when it is the only one
  left pending, although the function may have returned by another. `-mergereturn` excludes both.
* `checkBlockStatus`'s comment says that a certain block "will definitely be reached"; a run
  may end before, in a call that does not return. `CertainOnEveryReturn` is the reading that
  holds.
* Tentative loads. A general loop with an exit at its header gives the block after it only the
  latch's store, so that what the body has checked counts as good although it may not have run
  (family `While`). A context left unspecialised that yields but reads nothing tentative gives
  back the store from before it (`TentativeLoads.cpp:1572`, and for loops `MainLoop.cpp:447`). An
  ordered load that was marked in a loop's first pass is skipped in the second and does not
  clobber there.
* Dead stores. The loop over a known system call's arguments returns, instead of going on, at
  the first that cannot be a pointer (`DSE.cpp:987`), so that `write(fd, buffer, n)` reads nothing
  (family `Writes`). The second pass over a loop returns early for all that does not read
  (`:832`), fences and unknown calls included. The store of a general loop that is left early, or
  not entered, is that of its latch. Release and volatile stores are no barrier. The end of a
  range of unknown size wraps round in `useWriters` (`:630`).
* Files (the first four of these are `guesses`). A read of constant size at an unknown position is
  resolved all the same, at offset -1 (`VFSOps.cpp:675`), although unknown positions are made for it
  not to be ("FDs with conflicting positions go to pos -1 (unknown)", `:154`; the seek beside it
  asks, `:600`). When the call is committed LLPE gives up on reading the file there
  (`getFileBytesGlobal`), or, where the buffer is not needed, emits a program that seeks to the wrong
  place. With `ResolvedAsInOriginal` instead of `FilesAsInOriginal` as an invariant of `files`,
  TLC finds calls that are resolved wrongly within a few steps. A seek of unknown extent stores `(uint32_t)-1`
  (`:590`), which is not unknown but 4294967295. A read beyond the end of the file yields a
  negative size. A seek relative to the end of a file whose size cannot be found out returns without
  touching the position (`:612`): a descriptor that an unknown call has made the table forget, and
  that a later `open` gives an entry without a name, is at a known position after a `SEEK_SET` and
  still there after a `SEEK_END`, and a following `lseek(fd, 0, SEEK_CUR)` is resolved to it.
  `open` with `O_RDWR` passes the test for `O_WRONLY` (`:320`), and `write` then moves the position
  unseen. `clean` is not reset where other threads may run.
* `executeLoop` sets the header's `localStore` and not its `fdStore`, and `executeBlock` takes
  references for edges to unspecialised code (`MainLoop.cpp:1035`, `:1203`).

## 6. What is not modelled

Parts left for later modules are in the plan below. For good: bytewise reinterpretation and
constant folding (arithmetic of LLVM constants), printing and DOT output, the wxWidgets driver,
command-line parsing, statistics and estimates, code copied from LLVM, and the directories
`old/`, `eval/`, `test/`, `scripts/`, `paper/` and the vendored LLVM tree. In `CFGEval` the stores of the
tentative-load and dead-store passes, which are forked and merged together with the two
modelled, calls as functions of their own (a call is a block that returns or does not), loops
ignored on the user's word and `execute*` are left out. In `CowStore` `free`, `realloc` and
`memcpy` are. In the two passes: allocations as something to be killed, pointers to several
objects, path conditions by function, the replacement of objects that are no longer available,
and calls or unspecialised code within general loops other than single ones. In `VFSOps`: fifos
and standard input (whose reads are done and compared), `stat`, `fstat`, `isatty`, opens in loops
or that fail, and the elimination of seeks, which nothing calls.

## 7. Plan

1. Done: `Lliowd` with its proofs; `CowStore` implementing `AbsStore`; `CFGEval`; `HeapTree`
   implementing `AbsHeap`; `TentativeLoads` and `DSE` composed with interfering threads; `VFSOps`.
2. Proofs. Done: the safety properties of `Lliowd`, of `CowStore` with its refinement of
   `AbsStore`, of `VFSOps`, `UncheckedLoadsClean` and `KilledNeverRead` of `SpecialisedRun`, and the
   structures of `CFGEval` with `SettledIterationsStand`. Next: which edge each reference and each
   pending edge of `CFGEval` is for, which gives `NeverOverdrawn` and `PendingNeverNegative`; then
   `NodeRefsExact` of `HeapTree`, with its recursion written as folds over the levels.
3. `ValSet.tla`: `ImprovedValSetMulti`, an interval map over an underlying one; reads, writes
   and truncation against a byte-by-byte reference; merges.
4. `FunctionSharing.tla`: sharing and unsharing, with `execute*`.
5. `ConditionalSpec.tla` and commit: fallback blocks, and that each live block is emitted once;
   `DIE`.
