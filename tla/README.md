# A verification development for fp4ts

fp4ts is a functional programming library for TypeScript. Its heart is an effect
system: `IO` programs are data, interpreted by *fibers* that run interleaved on the
single JavaScript thread, can be canceled at any time outside masked regions, and
share state through `Ref`, `Deferred`, `Semaphore`, `Queue` and the streams built on
them. These modules specify that part in TLA+, check it with TLC on small instances
and prove the facts that matter most with TLAPS.

All paths below are relative to `src/packages`.

## 1. Inventory

| Part | State it keeps | Operations | What makes it correct |
|---|---|---|---|
| **IOFiber** `effect/core/src/io-fiber.ts` | outcome, `canceled`, `finalizing`, `masks`, `suspended`, stacks of continuations, values and finalizers, listeners, `resumeTag` | `run`, `runLoop` (one case per node), `continue` (one case per continuation), `_cancel`, `_join`, the callback of `IOCont` | one owner of the run loop; masks and finalizers in step with the continuations; canceled exactly if asked to; every canceler and joiner answered |
| **Fiber** `effect/kernel/src/fiber.ts` | – | `join`, `cancel` | the contract above, without its mechanism |
| **Ref** `effect/kernel/src/ref.ts` | a cell | `get`, `set`, `modify`, `update` | each is one synchronous step |
| **Deferred** `effect/kernel/src/deferred.ts` | a value or a list of readers | `get`, `tryGet`, `complete` | written once; readers resumed once; no reader forgotten or leaked by a cancelation |
| **Semaphore** `effect/kernel/src/semaphore.ts` | permits, queue of Deferreds | `acquire`, `release`, `withPermit` | permits neither made up nor lost; first come first served |
| **Queue** `effect/std/src/queue.ts` | elements, size, takers, offerers | `offer`, `tryOffer`, `take`, `tryTake`, on bounded, dropping and circular queues | FIFO; capacity; no element lost or duplicated |
| **Supervisor** `effect/std/src/supervisor.ts` | cancel actions by token | `supervise`, release | a released supervisor leaves no fiber running; a finished fiber leaves no token |
| **Dispatcher** `effect/std/src/dispatcher.ts` | latches, registrations, alive | `unsafeToPromiseCancelable`, its cancel, worker loop, release | every registered action is started unless canceled, in order; none outlives the release |
| **Spawn, Concurrent** `effect/kernel/src/{spawn,concurrent}.ts` | – | `racePair`, `race`, `both`, `parTraverse(N)` | the loser is canceled, no fiber survives |
| **Resource** `effect/kernel/src/resource` | – | `allocated`, `use`, `fork` | every acquired resource is released once |
| **Scope, ScopedResource, InterruptContext** `stream/core/src/internal` | tree of open scopes, resources with leases, interruption | `open`, `close`, `acquireResource`, `lease`, `interruptWhen` | every resource released once, after its last lease; first interruption wins |
| **Channel, Signal** `stream/core/src/concurrent` | values, producers, waiting consumer, closed | `send`, `close`, `stream` | no element lost; nobody left waiting |
| Stream, Pull, Chunk `stream/core/src` | – | combinators, pull interpreter | sequential laws |
| IO, SyncIO algebra; runtime; Temporal, Clock, Unique, Sync, Outcome; Random, Console | – | constructors, instances, host timers | – |
| **OrdMap** `collections/core/src/ord-map.ts` | a weight-balanced tree | construction, insertion, removal, lookup, positions, set operations | ordered, balanced, and a dictionary |
| **Seq** `collections/core/src/seq.ts` | a finger tree with the size of each subtree | construction, both ends, indexing, insertion, cutting, splitting, concatenation, reversal | a sequence; sizes exact; depth logarithmic |
| **Traversals** of arrays, Chain, Seq, Chunk | – | `traverse`, cut into parts of bounded width | each element once, in order |
| cats, other collections, core, mtl, optics, fused, parse, schema | – | pure functions and data | algebraic laws, tested by properties |
| http, sql, logging, stream/io, examples, laws and test kits | – | adapters, programs, tests | – |

How they interact: everything that waits does so through `IOCont`/`IOContGet` of one
fiber (`IO.async`): a callback, owned by somebody else, resumes the suspended fiber.
`Deferred` turns that into a cell with readers; `Semaphore`, `Queue`, `Channel`, the
interruption of streams are a `Ref` updated atomically plus Deferreds to wait on.
Between two nodes of an IO program any other fiber may run, since the loop yields to
the execution context after `autoSuspendThreshold` iterations, and a cancelation is
seen at the top of the loop whenever the fiber is unmasked.

What is hard: two parties taking the run loop of a suspended fiber (callback and
canceler); a cancelation that arrives between two steps of a protocol that are not
inside one `uncancelable`; results that come before anybody waits, or after the waiter
left; masks, finalizers and continuations that must agree on all three ways out of a
region. `PROJECT.json` lists these hazards line by line with the properties that watch
them, or the reason why none does: a hazard that the properties except (a body that throws
under `uncancelable`, a completer of a Deferred that is canceled) is not caught by them.

## 2. Modules

| Module | Models |
|---|---|
| `Fiber` | the abstract contract of a fiber |
| `IOFiber` | the run loop of one fiber with its cancelers, joiners and callbacks |
| `IOFiberProofs` | theorems about `IOFiber` |
| `Deferred` | a family of Deferreds and the fibers that use them |
| `Semaphore` | fibers that run `withPermit`, on the Deferreds of `Deferred` |
| `WaitingLists` | leaving a list of waiting fibers, used by the others |
| `DeferredProofs`, `SemaphoreProofs`, `QueueProofs`, `ChannelProofs` | theorems about the module of that name; the last three instantiate the first |
| `DataProofs` | lemmas about lists, used by the others; theorems about the trees of `OrdMap` |
| `FIFO` | what a queue promises about its elements |
| `Queue` | fibers that offer and take on bounded, dropping and circular queues, on the Deferreds of `Deferred` |
| `Channel` | fibers that send to and close a channel, and the stream that consumes it, on the Deferreds of `Deferred` |
| `Scope`, `MCScope` | the tree of scopes of a stream, its resources and their leases; symmetry for TLC |
| `ScopeProofs` | theorems about `Scope` |
| `Supervisor` | supervised fibers, their tokens and the release |
| `Dispatcher` | the promises' side of the dispatcher, its workers and its release, on `Supervisor` |
| `DispatcherProofs` | theorems about `Dispatcher` and `Supervisor` |
| `SearchTree` | the nodes of a dictionary's tree, and their balance |
| `OrdMap`, `MCOrdMap` | the dictionary's operations; two maps and the reference they are compared with |
| `OrdMapFunctions` | operations of `OrdMap` as functions over trees of all sizes, and dictionaries, for `DataProofs` |
| `Seq`, `MCSeq` | the sequence's operations; a sequence and the reference it is compared with |
| `Traverse` | the order in which a traversal visits the indices of a collection |
| `MCCollections` | the maps and the sequence in one run |

### IOFiber

The variables are the fields of `IOFiber`, plus what the JavaScript engine keeps for
it: `cur` (the loop's local `_cur`, or `resumeIO` between turns), `scheduled` (how many
`() => f.run()` wait on the execution context), `turn` (whose turn the loop runs in:
its own, or that of the canceler that called `this.run()`), `state` (the `ContState` of
each `IOCont`), `pc` (where each canceler and joiner is), and the record of exceptional
events `died` and `impossible`.

The interpreted program is not fixed. Whenever the loop asks for the next node, every
node of the alphabet `Nodes` is possible, so a run covers *every* program of at most
`MaxNodes` such nodes, including finalizers that suspend, nest regions, use polls out
of place or cancel again. Each case of `runLoop` is an action (`OnCancel`, `IOCont`,
`IOContGet`, `Uncancelable`, …), each continuation of `continue` another
(`ContinueFlatMap`, `ContinueUncancelable`, …), and `AutoSuspend` may end a turn before
any node but its first. Two fidelity points:

- *The poll of a region* carries only the mask count at which the region began
  (`id = masks`), and so it does here: `lastId` bounds the ids handed out, and
  `UnmaskRunLoop` may use any of them.
- *What a slot of `stack` holds* is named by the continuation that pops it; a resumed
  value is `"value"`, the canceler's callback is the canceler. `StackMatchesConts`
  checks that each pop finds its own slot.

The nodes `Fork`, `RacePair` and `Sleep` are not distinguished: Fork only yields a
value to this fiber, the other two are an `IOCont` to it. Tracing is left out.

Callers are modelled by their position: a canceler runs the body of `_cancel` in one
step (`Cancel`), then either owns the loop and runs the finalizers in its own turn
(`RunFinalizers`), or joins. `turn = NoTurn` in their guards says that JavaScript has one
thread.

### Deferred, Semaphore and Queue

`Deferred` has the state of each cell (value, readers), where each fiber is inside
`get()`, and whom a completing fiber still has to call. The steps are the Ref
operations of the code; cancelation is possible exactly where the fiber is unmasked. What
it relies on from `IOFiber`: a fiber resumed by its callback unwinds into its caller
without another look at the cancelation flag (`AsyncContinueR`, and `Cancel` on a
fiber that is not suspended only sets the flag), while a fiber whose callback came before
it reached `get` still passes the top of the loop and may be canceled there.
`complete()` is not uncancelable in the code; fibers in `Interruptible` may be
canceled between two readers.

`Semaphore` instantiates it with one Deferred per fiber and adds the Ref of the
semaphore (`permits`, `queue`). A release that found a waiter completes its Deferred;
the permit changes hands without ever being free.

`Queue` instantiates it in the same way and adds the Ref of the queue (`queue`, `size`,
`takers`, `offerers`). Its operations are one `modify` each, and the disjuncts of `Offer`,
`TryOffer`, `Take` and `TryTake` are the branches of that update; the three classes of
queues differ in what happens without capacity (`BlockOffer`, `Drop`, `Overwrite`). A
producer stands for the element it offers, so that an element can be followed into
the consumer that got it. `ImplementsFIFO` refines `FIFO`, whose `contents` are the queue
followed by the elements of the blocked offers: admitting a blocked offer, and everything
that happens between a Deferred and its waiter, is invisible to it.

### Channel

One Ref (`values`, `size`, `waiting`, `producers`, `closed`) and a Deferred per fiber.
Each operation is one `modify` and then the effect it returned: the branches of `send`
are `SendClosed`, `SendToBuffer` and `SendAndBlock`, those of the consuming loop
`TakeAll` and `TakeNothing`. `send` *flattens outside* its uncancelable region and the
loop has no region at all, so `Cancel` is enabled between an update and any part of its
effect, but not in `close`. A channel is consumed by one stream, as its documentation
asks; `isClosed` and `closed` only read the gate.

### Scope

Each scope and each resource has a Ref of its own, and every operation is a list of
updates of single Refs. Here it is a list of tasks, `todo`, that the fiber works off
one at a time, while other fibers may run in between: closing a scope puts its
children, its resources and its removal from its parent in front. Any fiber may start
any operation on any scope at any time, which is more than the interpreter of `Pull`
does. `masked` says whether the operation runs in an uncancelable region: acquiring and leasing
do (the callers mask them), closing the root does (it is the release of a
`Resource`), closing any other scope does not. A child leaves its parent by `findIndex` and `removeAt`
(`Without`, one occurrence), and a lease reads first the children, then the scope, and then
its ancestors one at a time (the task `climb`), each in a state of its own. A freshly created
resource always accepts its finalizer, so that `acquired()` is part of `Acquire`.
Interruption contexts are left out: an interruption is the cancelation of a fiber.

### Supervisor and Dispatcher

`Supervisor` has the life of each supervised fiber and the steps of `supervise`;
`Dispatcher` is its client and decides who takes them when. Submitting and canceling
are plain function calls from outside of the effect system, one step each, which come
between any two effects of a worker. A registration is the call it came from, or the
cancel token of one; a cancel token is submitted like any other computation, as in the
code. `Mask` begins the traversal that `uncancelable` protects; before it, and
anywhere else in the loop, the release of the dispatcher may stop the worker. The
timer of `lazySet` is a step of its own.

### OrdMap

Operators on trees, each a translation of the method of that name, recursive as it is. tlapm
accepts no `RECURSIVE` operator, so that `OrdMapFunctions` has those that theorems are about a
second time, as functions: `InsertStep(op, t, k, v)` is what `insert` does with a tree if the
functions in the record `op` are what it calls, and `op.insert` is a function that does that
everywhere. TLC compares the two (`OperatorsAreFunctions`), and they share
`SearchTree`.
`MCOrdMap` walks through all maps that insertions and removals build and
compares, in each, every operation with its meaning on a plain dictionary.
Its `IsBalanced` asks for both sides and for the size at every node. Functions and
predicates passed to an operation are inputs from small sets: a set of accepted keys,
a renaming of keys that keeps, reverses or merges them.

### Seq and Traverse

The code of `Seq` has every operation twice, for elements (`takeE`, `splitE`, …) and for
nodes that count the elements below them (`takeN`, `splitN`, …), and unrolls it for each
length of a digit (1 to 4) and a node (2 or 3). In `Seq` an element is an item of size 1,
one operator covers both, and a digit is a sequence of items: a case of the code is a
position in it. The sizes, which the code adds up in each case anew, are kept as it
computes them; two cases that compute something else are cases of the model too
(`Chosen`, `SplitMiddle`). An operation that throws returns `IndexOutOfBounds`.

`MCSeq` starts from the concatenation of two arrays, which gives nodes of both lengths and
three levels, and changes the sequence at both ends and, while it is short, inside.
`IsTree` is what a finger tree must be: items of one depth at each level, digits and nodes
of legal lengths, and all sizes exact. `Is` adds that it stands for the right elements.
Everything but the order is abstracted from `traverse`: `Visits` is the order in which its
loop runs the effects. Arrays, Chain and Seq (`traverseFilter`) share that loop; Chunk has
another, `ChunkVisits`.

`MCCollections` puts both into one run. They share nothing, so one moves only
while the other is empty: the run is their sum and not their product.

### Mutants

Operators called after a definition with a suffix, with a comment `Mutant: ...`, are that
definition with a plausible bug. They are used by no specification; `PROJECT.json`
pairs each with the property that notices it.

## 3. Runs

| Run | Instance | Shows |
|---|---|---|
| `fiber_cancel` | 2 cancelers, 1 callback (repeatable), 6 of the nodes that bear on cancelation, programs of 6 nodes, fairness | masks balanced, finalizers masked, suspension protocol, cancel returns, the contract with its promise implemented |
| `fiber_frames` | 1 canceler, 1 joiner, 1 callback (repeatable), all 13 nodes, programs of 5 nodes, bodies that throw | types, one owner of the run loop, stacks in step, everybody answered with the outcome |
| `fiber_poll_in_finalizer` | finalizers may use an outer poll | **violation** of `FinalizersMasked` |
| `fiber_repeated_callback` | a callback is called twice | **violation** of `FirstResultWins` |
| `deferred` | 3 fibers, 2 Deferreds, 1 interruptible | readers neither leaked nor forgotten; written once; get returns |
| `semaphore` | 4 fibers, 2 cancelable, 2 permits | permits accounted; order kept; nobody queued in vain; waiters served |
| `queue` | 3 producers, 2 consumers, one of each cancelable, bounded queues of capacity 0 to 2, dropping and circular ones of 1 and 2 | nobody waits in vain; lists exact; elements neither lost nor duplicated; FIFO but for the element the kind of the queue drops; whoever was chosen returns |
| `channel` | 2 senders of 2 elements, one of them and the consumer cancelable, capacity 0 and 1 | order kept, nothing lost; nobody waits in vain; blocked sends go on when their element was taken; the stream drains the channel and ends |
| `scope` | 2 fibers, one cancelable, 3 scopes, 2 resources, symmetry | finalizers run once and not under a lease; every resource has exactly one that will run it |
| `dispatcher` | 2 calls, one of them canceled at any time, 1 worker, fairness | started in order; tokens exact; nothing outlives the release; no wake-up lost, no registration slept over |
| `collections` | all 1017 trees over 8 keys, alone and with all those over 3 of them; arrays and lists of up to 13 entries; sequences of up to 22 elements made of arrays of 0, 8 and 11, arrays of up to 80 | results valid; results right |
| `chunk_traverse` | a chunk of 129 elements, the width being 128 | **violation** of `ChunkVisitsEachOnce` |

*Why the bounds are enough.* The interesting cases of a fiber need: a guarded finalizer,
a region, a poll in it, a suspension, a second region or finalizer and a
self-cancelation, that is six nodes. Two cancelers are needed for one to own the loop
while the other joins; a third would behave as the second. The run of all node
kinds has one, and the theorem `OneOwner` holds for any number of them. One `ContState` suffices for
all phases, and the second suspension (in a finalizer) reuses its `get`; that
`WaitingIsParked` holds also shows that a ContState never waits for two things. For the
semaphore, two permits and four fibers give two waiters behind two holders, so that the
queue has an order and a canceled waiter a successor: a permit is lost while
others are queued and one is left. That all are lost needs a fifth fiber, and is covered by the
theorem `NobodyQueuedInVain` alone. Three producers fill a queue of capacity
1 and block two offers behind it (three with capacity 0); two consumers can wait in
order, or one of them be canceled before the other is served; a circular queue needs capacity 2 for its
oldest element to differ from its newest. A channel of capacity 1 with two senders has an
element in the buffer and a sender blocked behind it; a second element of each tells the
order. Two scopes below the root are siblings or nested; a second resource is reached, or
not, by a close that is canceled in between. The workers of a dispatcher share nothing but the
supervisor, whose steps concern one token each, so one worker shows what each does; two
calls let it have one registration in hand and the next in the list. A tree of eight
elements has room for both rotations below another node, and unions with three
elements need `_link` to descend on either side. Sequences with nodes of nodes come from
concatenation, in trees of up to three levels, and both exceptions of `ActsAsSequence` occur in the
run; arrays of 80 reach a fourth level. Traversals are cut at width 3 instead of 128, so that parts of parts occur.

*Deadlock* is checked in the Deferred run only, which never ends. Elsewhere the system
may stop: a fiber waits for ever for a callback, or every fiber has done what the bounds let
it do. That nobody is left waiting is then a property of its own (`WaitersServed`,
`ChosenReturn`, `Drained`, `RegistrationsServed`).

*Fairness.* The event loop runs what was scheduled and turns run to their end (`Run`,
`LoopStep`, the canceler's own steps). A callback is owed only to a fiber that waits
for it in a masked region: a canceler has to wait for that one, and all others may
never come. Programs are finite (`MaxNodes`), or no cancelation of a masked loop could
return. For Deferred, Semaphore and Queue every fiber that can run eventually does; nobody has to
start an operation, cancel, or complete. The same holds for a channel, whose stream
goes on consuming, and for the workers, the supervised fibers and a release of the
dispatcher once it has begun; a submitted computation need not end by itself.

### Findings

- `FinalizersMasked` fails when a finalizer registered inside an uncancelable region uses
  that region's `poll`: finalization masks the fiber with count 1 and the poll's id is 1
  too. The rest of that finalizer is dropped, and if finalizers run out this way the
  canceler's callback is never called.
- `FirstResultWins` fails when a callback is called twice before the fiber reaches
  `get`: the second result overwrites the first.
- `ChunkVisitsEachOnce` fails: `Chunk.traverse` of more than 128 elements starts the second
  part with `end0 = start0 + end` instead of `start0 + step`, so that every part but the
  first reaches to the end of the chunk. With 129 elements 8257 effects are run, and as many
  results returned. `evalMapChunk` is built on it.

Seen on the way, and named in the properties as the exceptions they make:

- A completing fiber that is canceled leaves readers of its Deferred behind
  (`WillHear`), and a waiter of a semaphore canceled after `release` chose it takes its
  permit with it (`Lost`). In the same window a consumer of a queue takes an element
  with it, and a producer is canceled although its element was admitted
  (`ElementsAccounted` and `FIFO` count both as received or inside).
- A sender canceled between its update of the channel and the notification has taken
  the waiting consumer out of the state: the stream sleeps over the element
  (`Deserted` in `NoVainWait` and `Drained`).
- A `close()` of a scope that is canceled half-way leaves the rest open for good: the closing
  of its parents skips it, since it is marked closed (`abandoned` in `NoneForgotten`).
- A supervised fiber canceled before its first node never installs the finalizer that
  removes its token, which stays until the supervisor is released (`NeverRan` in
  `TokensExact`). A fiber that sets `done` just before the worker looks finds its token
  gone: the release does not wait for its last update (`NothingOutlives`).
- `cancel()` of the dispatcher, called before the computation was started, reads a
  constant inside its own initializer: its promise is rejected. A registration that is
  still in a list when the dispatcher is released is forgotten, and its promise never
  settles.
- `insertAt` of Seq throws for a valid index inside the second of three nodes of a node
  (`insertNodeN` compares with the constant 2; `Misjudged` names the indices), and the second
  part of `splitAt` has a size that is too large when the cut is in the second of two nodes of a
  node (`splitMiddleN` does not subtract the prefix; `Missized`). `removeAt` and the spans inherit
  the latter. `SeqsActAsSequences` shows that these are the only two.
- `traverse` of Seq (not modelled) shares the variables of its result between runs: the same
  program evaluated by two fibers, or an applicative with many results, mixes them up.
- `equals` of OrdMap and OrdSet walks two maps until either ends, and so a map equals its own
  prefix (`ord-map.ts:3216`, `ord-set.ts:1687`); `Equals` follows the code, and
  `MapsActAsDictionaries` compares maps of one size only.
- `isBalanced` of OrdMap compares the size of the right side with itself, so that the
  tests that use `isValid` would not see a tree that leans to the right; `StaysValid`
  finds none. `symmetricDifference` passes its `Ord` to one of its three steps only; the
  model has the natural order, for which this makes no difference.

## 4. Proofs

Every safety property the passing runs check of the fiber, the Deferred and all that is
built on it is a theorem, for every value of the constants that meets the named assumptions
of the module. TLC evaluates those assumptions on every run; they say of what kind
the constants are, that names differ from the model's tags (a consumer is no sender, a
ContState is not the string `"pure"`), and what the constructors assert (a queue that never
blocks has a positive capacity). The types of Deferred, Semaphore, Queue, Channel, Scope and Dispatcher
are proved only; all other properties are checked by a run as well.
All proofs go the same way: an inductive invariant, one lemma or step per action,
and what the step leaves alone in a few lemmas about frames, so that an action
only has to say which kind of step it is.

### IOFiberProofs

For any sets of cancelers, joiners and callbacks, any alphabet and any number of nodes:

- **TypeCorrect** and **OneOwner** (`RunLoopOwnership`). That the loop has one owner is
  inductive with `TypeOK` once it says who it may be: the running turn, the one scheduled
  `run()`, the suspended fiber itself, or the one canceler that took it. The loop's
  actions have one of three effects on that (`KeepsTurn`, `EndsTurn`, `Completes`).
- **MasksAreBalanced**, **FinalizersAreBalanced**, **SlotsMatch**, **FiberEndsOnce**. The
  invariant `FramesInv` is about all three stacks at once: the bottom continuation is the
  one that ends the program, or the cancelation loop (`Bottom`); there is one until the fiber
  is over (`NotEmpty`); a program that has not started is unmasked (`Unstarted`). Every action
  is one of eight kinds (`KeepsFrames`, `PushesFrame`, `PopsFrame`, `LeavesValue`,
  `TakesValue`, `StartsProgram`, `StartsFinalizing`, `EndsFrames`), and each kind keeps the
  invariant. That finalization starts only of a canceled fiber (`Requested`) completes it.
- **FinalizersAreMasked**. `MasksCover`: while the fiber finalizes, every prefix of its
  continuations enters at least as many masked regions as polls in it lift. It needs
  `~PollInFinalizers`, without which the property is false (run `fiber_poll_in_finalizer`).
- **WaitersAnswered** (`AnsweredWithOutcome`). `Answers` says where a party that waits is
  known: among the listeners, once (`Listening`), or as the owner whose callback is at the bottom
  of the value stack and nowhere else (`Above`).
- **WaitersAreParked** and **ImpossibleIsNever** (`NothingImpossible`). A ContState that waits
  is the one the suspended fiber is parked on (`Parked`), or one whose finalizer a canceler
  that took the loop will run first (`Taken`), or is about to (`Called`).
- **FiberKeepsContract** (`ImplementsContract`): every step of the run loop is a step of
  `Fiber`, or shows nothing. The refinement mapping does not tell apart the ways to wait
  (`Seen`).

The theorems after it have the hypothesis `~PollInFinalizers` too: their invariants rest on
masked finalizers. The contract also excludes bodies that throw (`~ThrowingBodies`): a body that throws
outside of the code's `try` ends the fiber for good, without an outcome, which the contract does
not allow for. Both hypotheses hold in the runs that check these properties. The first
six theorems have none.

### DataProofs: waiting lists, and DeferredProofs

The first part of `DataProofs` has what joining, serving and leaving do to the members of a list and to
its having no duplicates. The code leaves most lists by filtering; `Without` takes out one
occurrence, the same thing on lists without duplicates, which `ReadersAreParked`,
`QueueIsExact` and `ListsAreExact` establish.

DeferredProofs, for any fibers and Deferreds: **TypeCorrect**, **ReadersParked**
(`ReadersAreParked`), **ReadersHear** (`NoReaderForgotten`) and **FirstCompleteWins**
(`WrittenOnce`, an action property). That a callback goes to a parked reader, and that a
completer's list still holds everybody who waits, needs to know that a set cell has no readers
left (`SetCellsHaveNoReaders`) and that a fiber only notifies the readers of a cell it set
itself (`NotifiersSetTheCell`). Two lemmas carry most steps: `GetChange`, for those that
only move a fiber inside its own `get()`, and `ReadersChange`, for a fiber that joins or
leaves the readers of an unset cell. Semaphore, Queue and Channel use this module through an
`INSTANCE` and cite its lemmas for their own Deferreds.

### SemaphoreProofs, QueueProofs and ChannelProofs

- Semaphore, for any fibers and permits: **TypeCorrect**, **QueueExact** (`QueueIsExact`),
  **NewcomersWait** (`NoOvertaking`), **NoPermitMadeUp** (`PermitsAccounted`). Besides the
  invariant of the Deferreds: each fiber waits on its own (`OwnDeferreds`), and whoever a
  release took from the queue waits, or was canceled, until that release, and no other, sets
  its cell (`HeirsWait`). **NobodyQueuedInVain** (`QueuedForAReason`): while a fiber is
  queued, every permit is with a fiber that works, on its way to a waiter that was not canceled, or
  lost with one that was. It follows from the three and from `CanceledWaited` (only waiters see a
  cancelation, and they stay canceled) by counting: releases in progress and the fibers they
  chose are as many (`OneHeirEach`).
- Queue, for any fibers, kinds and capacities: **TypeCorrect**, **NoVainWait**
  (`NobodyWaitsInVain`), **ListsExact** (`ListsAreExact`), **NoElementTwice**
  (`ElementsAccounted`). `WaitersInv` is the same argument with two lists; `ElementsInv`
  follows an element from the blocked offers to the consumer that got it.
  **RefinesFIFO** (`ImplementsFIFO`) is the step simulation of the abstract queue,
  without fairness: the branch of each `modify` is a step of `FIFO`, and everything after is none.
- Channel, for any senders, capacities and cancelations: **TypeCorrect**, **ElementsInOrder**
  (`InOrder`), **ConsumerNotified** (`NoVainWait`). The elements accepted, without those whose
  blocked send was canceled, are at all times the concatenation of what was emitted, the batch
  in hand, the buffer, and the blocked senders' (`AcceptedOnce` adds that none is there
  twice). `Noticed` says who is about to wake the consumer. **SendersAreHeld** (`SendersHeld`)
  is backpressure: blocked elements and the consumer's list name senders that are blocked or
  gone, by their last element and once each (`BlockedOnce`), and the Deferred a send allocates
  has neither a reader nor anybody who still notifies on it (`DeferredsInTurn`).

### DispatcherProofs

For any calls and *any number of workers*, while the run has one: **TypeCorrect**, **InOrder**
(`StartsInOrder`), **TokensKept** (`TokensExact`), **NoneOutlives** (`NothingOutlives`),
**WakesUp** (`NoWakeUpLost`). The last rests on `LatchInTurn`: a worker that is about to sleep
beside a registration finds its latch open. What a
worker has yet to start is a suffix of what it was sent, in which each registration occurs
once (`RegistrationsOnce`). The steps of a supervised fiber, its token and the worker that starts it
come in one order (`FibersInTurn`, `TokensInTurn`), and so do those of the release
(`ReleaseInTurn`).

### ScopeProofs

For any fibers, scopes and resources:

- **TypeCorrect**. That a count of leases never goes below zero is the hard part: it is the
  number of places where a lease of the resource is held or still to be given back
  (`LeasesCounted`), and tasks of different operations never mix in one list (`Operations`).
- **FinalizedOnce** (`ReleasedOnce`) and **NothingForgotten** (`NoneForgotten`). `Lifecycle`
  gives each resource a stage: not acquired, in the hands of one scope, of one task of one
  fiber, of its leases, finalized, or lost with a canceled `close()`; the stages say that nobody else
  has it. A resource is `Dropped` when it has no lease and nobody will take one.
  `Tree` says that a closed scope is empty, and `ScopesKnown` that an open one is a child of
  its parent or about to be closed.

### DataProofs: OrdMap

For maps of every size and all keys and values, after each of `_balanceL`, `_balanceR`, `_link`,
`_link2`, `insert`, `_insertR`, `remove`, `alter`, `_splitLookup`, `union`, `difference`,
`intersect` and `filter` the tree is ordered, every node is balanced and holds its size,
and the entries are those that a dictionary would have; `lookup` finds what is there
(**BalanceLRestores**, **BalanceRRestores**, **LinkJoins**, **Link2Joins**, **InsertPuts**,
**InsertRKeeps**, **RemoveTakesAway**, **LookupFinds**, **AlterPutsOrTakes**,
**SplitLookupParts**, **UnionPrefersTheFirst**, **DifferenceTakesAway**,
**IntersectKeepsTheFirst**, **FilterSelects**, **PartitionSelects**). A rising array becomes a
valid tree of its entries without one comparison (**FromDistinctAscArrayBuilds**). The keys next to
a key are the ones that `lookupLT`, `lookupLE`, `lookupGT` and `lookupGE` return (**LookupLTFinds** and
its siblings). By position, `take` returns the first entries and `drop` exactly the others,
`splitAt` both (**TakeHoldsFirst**, **DropHoldsRest**, **SplitAtTakesAndDrops**); `elemAt` and
`keyIndex` count the keys before one, and so are each other's inverses
(**ElemAtCounts**, **KeyIndexCounts**, **PlacesAgree**); and `removeAt` takes away the key that
`elemAt` returns, and no other (**RemoveAtTakesAway**).

- *What they are about.* `SearchTrees(K, V, X, entries)` says that `V` is the set of valid trees
  with keys in `K` and values in `X`: the empty tree, all nodes over two members that are ordered
  and balanced, and nothing else. `Balancing`, `OnKeys`, `OnNeighbours`, `OnPlaces`, `OnMaps`
  and `OnArrays` say that the functions in the record `op` satisfy the equation of each operation, in which the recursive calls are
  applications of the function. An operator of `OrdMap`, restricted to valid trees,
  is such a function: `OperatorsAreFunctions` in `MCOrdMap` is that claim, which TLC
  evaluates for the 62 trees over five keys.
- *Balance.* `_balanceL` mends more than one insertion or removal: `_link` hands it a left
  subtree of size m and a right one of size n that are off by 3m <= 13n + 3, and
  `_link2` likewise (`LinkedPart`). That bound holds at every level because `_link` descends only into
  trees more than `Delta` times as large, and it is what a rotation can repair
  (`DoubleRotation`) with the constants 3 and 2.
- *Induction.* The library's induction theorems take a predicate as a parameter, which no
  installed prover instantiates. `SetInduction` states strong induction of a *set* of numbers,
  from the minimal element that the library's `WFMin` gives its complement, and `TreeInduction`
  of a set of trees by their size; each proof takes the set of the trees, or pairs, for which its claim holds.
- *Difference* returns its first argument when the sizes say that nothing was taken
  away. That this is right rests on the number of entries: an `Answers` of `_splitLookup` says how
  many entries the two parts have besides the key.
- *Positions* add up sizes, and mean something because the size at a node is the number of entries
  under it (`SizeCounts`). `OnPlaces` speaks of the positions up to some N, so that TLC can
  evaluate it; the recursive calls stay within it, and N is any number.

### Only model-checked

- Liveness: `CancelReturns`, `GetReturns`, `WaitersServed`, `ChosenReturn`, `Drained`,
  `RegistrationsServed`, and the promise in `ImplementsFairContract`. They need fairness and
  ENABLED, which this prover does not support.
- `MapsStayValid`, `MapsActAsDictionaries`, `SeqsActAsSequences`, which speak of recursive
  operators: no module with proofs can use one. The theorems on OrdMap above are about functions
  with the same equations; they do not cover its operations with a combining function
  (`unionWith`, `merge` and their like), those that replace values at a position, or the building
  from lists, and there are none on Seq.

## 5. Not modelled

- *Spawn, Concurrent* (`race`, `both`, `parTraverse`): several run loops and a canceler in
  one model; one run loop with its cancelers is the largest run already. `Fiber` is the contract
  such a model would start from.
- *Resource* and the pull interpreter: interpreters of their own, sequential, that nest to
  any depth. What they ask of scopes is in `Scope`.
- *Interruption contexts, Signal*: interruption is a cancelation here, `Signal` is a Ref with a
  queue of listeners per subscriber.
- *Runtime and execution contexts*: the host's timers and microtasks; a scheduled `run()` in
  `IOFiber`.
- *Ref, Temporal, Clock, Unique, Sync, Outcome, Random, Console*: single synchronous steps.
- *Other collections, cats, core, mtl, optics, fused, parse, schema*: pure, sequential data
  and type classes, tested by properties in the repository.
- *http, sql, logging, stream/io, examples*: adapters whose behaviour is that of the
  servers, files and databases behind them.

## 6. What is left to prove

The safety properties of the concurrent part are proved. Worth doing next:

- `WaitersAreParked` with fewer hypotheses: a fiber whose finalizers use an outer poll still
  parks correctly until the first finalizer is dropped.
- The lower half of liveness: for each waiting party, that somebody is there who owes it a step, as
  an invariant without ENABLED. `ReadersHear`, `NobodyQueuedInVain`, `NoVainWait`,
  `ConsumerNotified`, `SendersAreHeld`, `WaitersAnswered` and `WakesUp` are such statements;
  the release of a dispatcher, which waits for its fibers, has none yet.
- Models of `racePair` and `both` on top of `Fiber`, which the refinement proved here justifies.
