# CinderX in TLA+

CinderX is an extension of CPython: a just-in-time compiler, a parallel
garbage collector, Static Python and interpreter changes. This directory holds
TLA+ models of the parts of it that are concurrent, re-entrant or keep borrowed
pointers, TLC configurations that check them on small instances, and TLAPS
proofs of most of their safety properties for instances of any size.

Contents: [1 the system](#1-the-system), [2 the modules](#2-the-modules),
[3 the runs](#3-the-runs), [4 fairness](#4-fairness), [5 the
proofs](#5-the-proofs), [6 findings and open
observations](#6-findings-and-open-observations), [7 what is not
modelled](#7-what-is-not-modelled), [8 plan](#8-plan). All source paths are
relative to `src/cinderx/`.

To check a run: `tlc -config MCX.cfg MCX`; to check the proofs:
`tlapm XProofs.tla`, for each module whose name ends in `Proofs` (minutes each;
`ParMarkProofs` and `GCListsProofs` take over twenty).

## 1. The system

**Parallel collector** (`ParallelGC/`). Replaces the interpreter's cycle
collector. `gc_collect_main` merges generations, finds the unreachable
objects of a generation (serially, or with one thread per worker), and then
runs weakref callbacks, finalizers and `tp_clear` on them. The workers each get
a slice of the generation's list; they subtract internal references, meet at a
barrier, and mark from the objects with references left, with a Chase-Lev deque
each and one worker at a time coordinating the stealing. Threads are started
for every collection and never joined.
*State*: the gc lists and the two fields packed into `_gc_prev`, deques,
barriers, a semaphore, counters. *Hard*: racy marking by plain stores,
termination detection, memory order in the deque, threads that outlive their
collection, Python code between the phases.

**JIT context and control plane** (`Jit/context.cpp`,
`Jit/compiled_function.cpp`, `Jit/pyjit.cpp`, `Jit/pyjit_311_gate.cpp`).
Decides which function runs which compiled artifact, and who owns the artifact.
Registries and code objects borrow; functions own their artifact through an
ordinary dictionary entry (the anchor); a death watch tells the context when a
function goes. *Hard*: nearly every operation allocates or drops a reference,
so that finalizers run in the middle and may call any other operation.

**Global value caches** (`Jit/global_cache.*`, dict watcher in
`_cinderx-lib.cpp`). Compiled code reads cells that must follow two
dictionaries. *Hard*: a cell subscribes to builtins only from the moment it
needs them; dictionaries become unwatchable, die, and their address is reused.

**Batch compilation** (`compile_all` in `Jit/pyjit.cpp`,
`Jit/threaded_compile.h`). Compiles everything registered: the main thread
preloads the units, which runs Python code, then workers compile them, and the
main thread publishes what they made. *Hard*: functions die while others are
preloaded; two workers reach one key; what a worker may not do (watch a type,
attach to a function) is put off until the workers have joined.

**Type deoptimization patchers and inline caches**
(`Jit/type_deopt_patchers.cpp`, `Jit/inline_cache.cpp`). Compiled code is
specialized to what a type holds and is patched when the type changes; inline
caches drop their entries. *Hard*: the interpreter reports a change only while
the type has a version tag, takes the tag away once it has reported, and
reports before the slots of the type are up to date.

**Asynchronous lazy values** (`async_lazy_value.cpp`). A value that the first
await computes and later awaits wait for. *Hard*: tasks are cancelled, closed
and fail at every suspension, and waiters must not be forgotten.

**The rest of the JIT**: on-stack replacement, generators, the HIR and LIR
compilers, code allocation, debug output.

**The rest of CinderX**: module state, interpreter loops, Static Python's
runtime, immortalization, cached properties, the Python library.

Interactions: the collector runs finalizers, which call into the JIT control
plane; the control plane allocates, which starts collections; dict and type
watchers call the caches and patchers from wherever the interpreter changes a
dict or type; compiled code reads the cells of the global caches unchecked.

`PROJECT.json` lists all components with their sources and status, the lines
each definition models, and the hazards of the code with the properties that
cover them.

## 2. The modules

### Deque, WSDeque, WSDequeWeak (`ParallelGC/ws_deque.h`)

`Deque` is what the deque promises: a sequence; the owner pushes and takes at
one end, thieves steal at the other, each in one step.

`WSDeque` is the code. One action per access that another thread can see:
`TakeClaim`, `TakeTop`, `TakeCas`, `TakeRestore` are `Ci_WSDeque_Take`;
`PushBegin`, `PushGrow`, `PushPut`, `PushBot` are `Ci_WSDeque_Push`;
`StealTop`, `StealBot`, `StealArr`, `StealGet`, `StealCas` are
`Ci_WSDeque_Steal`. `top`, `bot` and `cur` are the fields; `arrs` holds every
array ever allocated, since thieves may still read an old one. `size_t`
arithmetic wraps at `Word`. The k-th push stores k, so duplicates and losses
can be told apart. Accesses interleave but take effect at once.

`WSDequeWeak` adds a store buffer: the owner's stores reach memory later, in
order (`"total"`, x86) or with stores to different locations passing each other
(`"partial"`, AArch64), and the fences of the code drain or order them where
the code has them.

### ParMark (`ParallelGC/parallel_gc.c`)

One parallel collection, from `Ci_deduce_unreachable_parallel` on the main
thread through `Ci_ParGCWorker_Run` on each worker to the split of the list.
A worker's deque is a sequence used
through the three operations of `Deque` (the two modules are compared by
reading, `ParMark` does not instantiate `Deque`). Marking is the code's load followed by a plain
store (`VisitLoad`, `VisitMark`, `VisitPush`), so two workers can mark the same
object. `CoordLoad` ... `CoordWake` are `Ci_ParGCWorker_CoordinateStealing`,
`SemaWait` and `Ci_Sema_Post` the semaphore (with `SpuriousWakeup` of the
condition variable, external), `MarkBarrier` and `DoneBarrier` the barriers.

### GCLists (`ParallelGC/parallel_gc.c`)

The same search at the level of pointers: `_gc_next` with its flag, `_gc_prev`
that holds a pointer between and a count during collections, list heads as
nodes. Covers `update_refs` with immortal objects, `subtract_refs`,
`move_unreachable`, the parallel path's `Ci_move_unreachable_parallel`, and the
fall back to the serial path when a generation is smaller than the number of
workers. What the workers compute is taken from `ParMark`.

### GCCollect (`ParallelGC/parallel_gc.c`)

The phases of `gc_collect_main` around the search. What happens without Python
running is one action (`Begin`); every weakref callback, finalizer and
`tp_clear` is one action that may also drop or add references. Legacy `tp_del`
objects, types without `tp_clear` (`NoClear`), resurrection, `gc.garbage` with
appends that fail, and `DEBUG_SAVEALL` are included. `doomed` and `cleared` are
history: what the last collection set out to delete, and what it cleared.

### ParGCLife, GCSpaces and ParGC (`ParallelGC/parallel_gc.c`)

`ParGCLife`: `Cinder_EnableParallelGC`, collections, `Cinder_DisableParallelGC` (also called
by a finalizer of a collection) and `Ci_ParGCState_Destroy`, with the threads
of earlier collections still asleep in `done_barrier`. Threads are reduced to
their barriers and the counter `num_workers_active`.

`GCSpaces`: the bit of `_gc_next` by which the incremental collector of Python
3.14 tells its two old spaces apart, and what enabling, collecting and
destroying do to it. `EnableRefused` is the path on which the new state is not
installed and its destruction restores spaces that were never converted. The
incremental collector itself is external.

`ParGC` composes the two: enabling, the end of the search for unreachable
objects, the end of a collection and destroying are one step of both, the rest
belongs to one of them. `strays` is a history variable: the objects that a
collection put into old space 1 after one of its finalizers had the collector
destroyed, until something moves them.

### GlobalCache (`Jit/global_cache.cpp`, `_cinderx-lib.cpp`)

`getGlobalCache` and every dict event: store, deletion, clear, clone, a key
that is not a string, deallocation, and a new dict at the old address. An
event runs the whole handler (`notifyDictUpdate`, `notifyDictUnwatch`, ...).
Callers test that globals have string keys only before they ask for a cell; the
caches of module attributes, which pass one dict as both, do not.
What a clone does to the kind of the keys is CPython's and modelled as such.

### JitContext (`Jit/context.cpp`, `compiled_function.cpp`, `pyjit.cpp`)

CPython 3.11 with an entry stub per artifact. `st` is the context with its
functions; `stack` holds the operations in progress. An operation stops at the
points where the code allocates or drops a reference, and another may start
there: `Reentrant[p]` says which operations finalizers perform at point `p`.
Actions: compile requests (`force_compile`, `compilePreloader`, `Compiled`,
`makeCompiledFunction`), publication (`PublishDict`, `PublishWatch`, and the
commit or unwind that follows), `attachFresh`, `force_uncompile`, `disable`,
`enable` with `reoptFunc`, calls, `__code__` assignment, changes to the anchor,
the death of a function with its watch, and the queue of displaced anchors.
`disable` parks what it deopts unless the death watch cannot be armed, and
passes over functions whose death is pending. Code that is refused for its shape
or its namespaces is code that is never compiled. An artifact is held
by the anchors, the queue and the locals of operations in progress (`Held`);
what else Python code may hold of it is not modelled.

### TypeWatch (`Jit/type_deopt_patchers.cpp`, `Jit/inline_cache.cpp`)

A type is the attribute it holds (`attr`), whether its instances are data
descriptors (`slot`), whether it has a version tag and whether it is watched. `Link`
is `linkDeoptPatchers` for an artifact that loads from receivers of given types:
a `TypeAttrDeoptPatcher` for the receiver, a `TypeDeoptPatcher` for the
descriptor, and `Context::watchType`, which during a batch only notes the type
(`pending_watches_`, `watchPendingTypes`). `ModifyType` is a change by Python
code with both of its notifications: `notifyICs` (`typeChanged` and
`descrTypeChanged` of each cache) and `notifyPatchers` (`maybePatch` of each
patcher). `Fill` is `AttributeCache::fill`. `Without` is what freeing or
retiring artifacts does to their patchers. `TWSpec` lets anybody do these in any
order.

External, from CPython: `PyType_Modified` is silent for a type without a valid
tag, and takes the tag away after the watchers ran, so that asking for a tag in
a watcher has no effect; `PyType_Watch` assigns one. Watchers see the old
attribute or the new one (up to 3.12 the dictionary is updated before they run,
in 3.14 after), and never the new slots. `missed` is history: the patchers whose
type changed before it was watched.

### BatchCompile (`Jit/pyjit.cpp`, `Jit/context.cpp`, `Jit/threaded_compile.h`)

`compile_all` on CPython 3.12 and later, and the registries around it; extends
`TypeWatch`. `CompileAll` to `Preloaded` are the preloading rounds: in
`"python"` other functions may be created, compiled, uncompiled and die, and
deletions are recorded (`deleted_units`, `deletion_record_lost`). `nextUnit`,
`BeginCompile` and `EndOfCompile` are a worker under the compile lock; `Join`,
`FixupDone`, `MakeCompleted`, `FinalizeDeferred`, `Finalized` and `CompileUnit`
what the main thread does afterwards, ending with the retries.
`makeCompiledFunction`, `finalizeFunc`, `FuncDies` and `Uncompile` move
artifacts between the registries and the functions that own them. No Python
code runs on 3.12 and later in the worker phase and in finalization, except in
the fixup of entry caches, where types may change. The preloading of a function
that is compiled by itself (`CompileNow`) is not interrupted.

With `memory_fails` an allocation whose failure the code handles may fail: the
record of a deletion (`deletion_record_lost`), the list of nested code of a
dying function (`unit_deletion_tracking_failed`, which the next compilation
consumes by failing), the write of an anchor in `finalizeFunc`, and the storage
of the artifact itself or of its anchor on an outer function
(`dropCompiledFunction`, `CompileDropped`). `dangling` is history: what is still named although nobody holds it. What the program does
with such a name is undefined, so the model stops there.

### AsyncLazyValue (`async_lazy_value.cpp`)

The value (`alv_state`, `alv_result`, `alv_args`, `alv_futures`), its compute
objects and its futures. A compute object goes through being created, stepped by
its task, suspended, closed, cleared; `set_result`, `set_error` and the
notification of the futures are part of the step that ends it. Futures schedule
their callbacks, so notifying runs no Python code. A task may be eager: its
first step then runs inside `create_task` (`creating`). `mishap` is history: a notification was `cut` off by a future that
could not be told; a compute object was `lost`, that is dropped or thrown into
before its coroutine had ended; one went `astray`, that is runs although the
state of the value does not tell of it.

## 3. The runs

Bounds are named constants. "States" are distinct states.

| run | instance | states |
|---|---|---|
| `ws_deque` | 2 thieves, first array of 1 slot, 4 pushes | 567,755 |
| `ws_deque_weak` | 2 thieves, first array of 2 slots, 3 pushes, both store orders | 116,476 |
| `ws_deque_weak_grow` | 1 thief, 2 pushes, partial store order with growth | violation |
| `par_mark` | 2 workers and heaps of 3 objects with up to 3 edges, 3 workers and one heap; fair scheduling | 282,620 |
| `gc_collect` | 3 containers and a weak reference, 2 collections, 2 mutations | 254,068 |
| `gc_lists` | 3 objects, 2 workers, serial and parallel, immortal objects | 111,999 |
| `pargc_life` | 2 workers, 3 collections, 2 collector states, 1 object; fair scheduling | 131,661 |
| `global_cache` | 2 dicts, 2 names, 2 values, 3 cells | 119,950 |
| `jit_context` | 2 functions, 2 code objects, 2 artifacts, nesting 2 | 1,136,804 |
| `jit_deferred_anchors` | as `jit_context`, no nesting | violation |
| `batch_compile` | 3 functions of 2 code objects, 3 types, a cache, 2 workers | 619,667 |
| `async_lazy_value` | 2 computations and 3 waiters, cancelled at any point; fair scheduling | 142,667 |

**ws_deque.** `NothingLost`: no pushed element disappears. `ImplementsDeque`:
the code refines `Deque`, so `ParMark` may use its operations as single steps.
`Inv` is the inductive invariant of the proofs. Four pushes from a one-slot array grow it twice while a thief still
holds the first array; two thieves race each other and the owner. The section
on proofs removes these bounds.

**ws_deque_weak.** With stores delayed, `WinnerHoldsElement` (who wins the
compare-and-swap has read the element) and `NoDuplicate` hold: the fences of
`Take`, `Push` and `Steal` are enough, with growth when stores commit in order,
and without growth when they pass each other. Only the owner stores, so one
buffer is enough; three pushes into two slots reuse a slot and grow.

**par_mark.** `ExactlyUnreachable`: the split is exactly reachability from
outside the generation, whatever order the workers run in.
`PositiveIsReachable`: at no time after the subtraction is garbage taken for
live. `MarkingCounted` is the termination detection: the count of marking
workers is right, and when it is zero there is no work left. `Terminates`: the
collection ends, with tokens, coordinator and barriers as the next one expects
them. Three objects have all shapes of interest (cycle, chain, two paths to one
object, an object marked by two workers at once): all graphs with up to two
edges and one or two roots, and all with three edges and the first object as
the root. Two workers race on every
access; with three a coordinator wakes several others, and a token may be taken
by another worker than the one it was posted for.

**gc_collect.** `ClearedIsTrash`, `LegacyKeepsAlive`, `TrashIsHidden`,
`FinalizedOnce`, `CollectionSettled`: what the phases promise although callbacks
and finalizers change the heap. `CollectionSettled` says that what a collection
set out to delete is gone when it ends, but for what an object without
`tp_clear` still refers to, and that everything left is in a generation with its
flag clear. Two collections are needed for an object to be resurrected by one and to be trash again in the next. The
model may stop when its bounds are used up, so deadlock is not checked.

**gc_lists.** `ExactSplit`, `WellLinked`, `ScanInvariant` (the invariant in the
comment of `move_unreachable`, and the links of what it moved), for each of the
three paths.

**pargc_life.** `NoUseAfterFree`, `ListsOwned`, `MarkAfterSubtract` hold
although threads are never joined; `CollectionEnds` and `DestroyEnds` are
liveness. `SpacesRestored` is the assertion and the comment in
`Ci_ParGCState_Destroy`: whenever the generations are not the parallel
collector's, also after a refused enabling and in the middle of a collection,
the bit of an object in an old space is the number of the space, except for
`strays`. Three collections let a thread of the first sleep
through the second; one object is enough because the fields of different
objects do not interact. It stops when all collections are used up.

**global_cache.** `CacheIsLookup`: a cell is NULL or what the lookup would
give. `ChecksHold`: the JIT_CHECKs of the manager. `RegistriesLive`,
`ForgottenStaysNull`: no subscription, key or value outlives its dict. Assumes a
build without lazy imports (`LazyImports = FALSE`) and that a builtins dict
outlives the globals that use it (`BuiltinsFreed = FALSE`).

**jit_context.** `NothingStale`: no borrowed pointer is left when an artifact or
function is freed. `LifecycleInvariants` is what
`lifecycleInvariantErrors311` looks for (I1-I4, I6, I7). `EntryIsInstalled`: a
function enters through the artifact the registry names. `ChecksHold`: the
JIT_CHECKs on the way. Two artifacts let one replace the other on a function
that two codes and two functions dispute; nesting 2 puts one complete operation
inside another. `MCReentrant` says which operations finalizers perform where;
what it excludes is in section 6.

**batch_compile.** `RegistriesLive`: what the registries name by a borrowed
pointer is alive. `ChecksHold`: the JIT_CHECKs of a batch; a unit that reaches
the compiler is alive and preloaded, and no key is compiled or published twice.
`BatchSettled`: when a batch returns nothing of it is in flight and every unit
was compiled, has failed, or is attached after a retry. These three are claimed
until something dangles. `LostSlotIsPatched`: code that calls the slots of a
descriptor's type has been patched when the type loses them, unless the change
came in the fixup (`missed`). `CachesFresh`: an inline cache agrees with the types and is subscribed to them.
The programs (`MCPrograms`) either let functions come and go, two of them
closures of one code object that is also nested in another, or change types
under compiled code and a cache whose entries share a descriptor's type. A code
object has at most as many artifacts at a time as it has names. Allocations
fail in the programs with coming and going functions, not in the one with
changing types.

**async_lazy_value.** `OneComputation`: a value runs exactly as long as one
compute object has to end, and never two. `ResultsAgree`: everybody gets the
cached result. Both are claimed until a compute object goes astray, whatever is
lost or cut off. `NobodyForgotten`, claimed always: a waiter that was not told is
on the list of a value that is not taken for unused, and a value is done before
all were told only if the notification was cut off. `WaitersServed`: every waiter
is told in the end, or there was a mishap. Two computations let a failed one be
followed by another, and both run at a time when one is astray; three waiters let
a notification stop between two.

Every property also has a mutant: a small change to one definition, of the kind
a bug in the code would be (a dropped guard, a swapped order, a missing reset),
under which TLC finds the property violated.

## 4. Fairness

`ParMark` and `ParGC` assume weak fairness of the main thread and of every
worker thread, nothing else: the operating system schedules every thread that
can run. No strong fairness is needed, because a worker that waits on a barrier
or on the semaphore stays enabled once it is released, and the spinning worker
and `Ci_ParGCState_Destroy` poll. Spurious wake-ups are possible but not fair.
`AsyncLazyValue` assumes that the event loop steps every task that is ready (weak
fairness) and that a coroutine ends after finitely many suspensions (strong
fairness of its end, since each suspension disables it); without the second a
waiter waits for ever, rightly (a coroutine that awaits its own value is one).
Nobody is obliged to cancel, close or fail, or to go on with a compute object
that was closed. All other runs check safety only.

## 5. The proofs

The theorems hold for every value of the constants that satisfies the named
assumptions: any number of threads, collections, dicts, types, functions.

| module | theorem | says |
|---|---|---|
| `WSDequeProofs` | `InvHolds`, `TypeCorrect` | the inductive invariant; indices and slots stay in range |
| | `NeverDuplicates`, `NeverLoses` | `NoDuplicate`, `NothingLost` |
| | `TopOnlyAdvances` | no step moves `top` except by one upwards |
| | `DequeRefinement` | the deque implements `Deque` |
| `ParGCProofs` | `StatesOutliveThreads` | `NoUseAfterFree` |
| | `MainOwnsLists` | `ListsOwned` |
| | `NoEarlyMark` | `MarkAfterSubtract` |
| | `ThreadsSafeInGC` | these three in the composition |
| | `SpacesComeBack` | `SpacesRestored` |
| `ParMarkProofs` | `UnreachableIsExact` | `ExactlyUnreachable`: parallel marking leaves exactly the unreachable objects |
| | `OnlyReachableMarked` | `PositiveIsReachable` |
| | `MarkersAreCounted` | `MarkingCounted`: marking does not end early |
| `GCListsProofs` | `ListsInvariant` | the inductive invariant of the pointer work |
| | `SplitIsExact` | `ExactSplit` |
| | `ListsWellLinked` | `WellLinked` |
| | `ScanKeepsInvariant` | `ScanInvariant`, which a comment in the code claims |
| `GCCollectProofs` | `CollectInvariant` | the inductive invariant of a collection |
| | `OnlyTrashCleared` | `ClearedIsTrash` |
| | `LegacyObjectsKept` | `LegacyKeepsAlive` |
| | `TrashStaysHidden` | `TrashIsHidden` |
| | `FinalizersRunOnce` | `FinalizedOnce` |
| | `CollectionsSettle` | `CollectionSettled` |
| `GlobalCacheProofs` | `CachesFollowDicts` | `CacheIsLookup` |
| | `RegistriesStayLive`, `CacheChecksHold` | `RegistriesLive`, `ChecksHold` |
| | `ForgottenForEver` | `ForgottenStaysNull` |
| `BatchCompileProofs` | `LostSlotsPatched`, `CachesStayFresh` | `LostSlotIsPatched`, `CachesFresh`, for any use of the watchers |
| | `ImplementsTypeWatch` | a batch is such a use: `Spec => TWSpec` |
| | `BatchKeepsPromises` | `LostSlotIsPatched` and `CachesFresh` of a batch |
| | `NamedIsAlive` | `RegistriesLive` of a batch |
| | `BatchChecksHold` | `ChecksHold` of a batch |
| | `EveryBatchSettles` | `BatchSettled` |
| `AsyncLazyValueProofs` | `OnlyOneComputation`, `AllResultsAgree`, `NobodyIsForgotten` | `OneComputation`, `ResultsAgree`, `NobodyForgotten` |

### The deque

*Assumptions*: the first array has at least one slot (`InitSizeAssumption`),
the number of pushes is bounded by some natural number (`MaxPushAssumption`)
and `size_t` is wide enough for it (`WordAssumption`). The code makes the last
one true in practice: an index advances by at most one per push. Memory is
sequentially consistent, as everywhere in `WSDeque`.

*Why a strengthening is needed*: `NoDuplicate` says nothing of what a thread is
about to return. `Inv` adds (`Bounds`) that the live indices fit the array,
(`OwnerKnows`) what the owner's locals mean at each point of `Take` and `Push`,
(`HeldOnce`) that live slots hold different elements which were not given out,
(`GivenOutWasPushed`), and (`ThiefKnows`) that a thief whose compare-and-swap
would succeed holds the element at `top`, even if the owner has replaced the
array since. The last one is the heart: it holds because `top` never
returns to an old value, and an array that was replaced is never written again.

*Structure*: lemmas about the circular array (`SlotRange`, `SlotsDistinct`,
`GetPut`, `Grow`), one lemma per action that it preserves `Inv`, then the
theorems. The refinement maps the live slots, top first, to a sequence (`Held`);
a push takes effect with its store of `bot`, a take with its load of `top` or
its compare-and-swap, a steal with its compare-and-swap; `HeldTail`, `HeldFront`
and `HeldAppend` say what these do to the sequence.

### The threads of the collector

*Assumptions*: there is a worker, and the numbers of collections and of
collector states are natural numbers (`LifeAssumption`).

Threads are never joined, so safety rests on counts: two barriers count
arrivals and `num_workers_active` counts threads. `LifeInv` says what the counts
stand for. `RoundsInv`: threads exist only for rounds that were started, and
those of earlier rounds are past the last barrier. `MarkInv` and `DoneInv`:
until the last one arrives, what a barrier still counts is the number of threads
of this round that have not come to it, and those that have come wait in its
epoch. `StateInv`: `num_workers_active` is the number of threads that were
started and have not signed off, so zero means that nobody will touch the state
again. `Counting` and `OneMore` carry the counts through a step of one thread.

Every step of the composition `ParGC` is a step or a stutter of
`ParGCLife`, which gives `ThreadsSafeInGC`; `SpacesInv` says how the phase of a
collection and the conversion of the heap fit the thread that runs them, that
without the parallel collector the list of an object agrees with its bit but for
the strays, and that unreachable objects have no bit, so that those put back into
old space 0 agree too.

### Parallel marking

*Assumptions*: there is a worker (`MaxWorkersAssumption`), no more workers than
objects (`NumObjsAssumption`, which `Ci_deduce_unreachable_parallel` ensures by
falling back to the serial path), and every heap names a number of workers
(`HeapsAssumption`).

`IInv` has three layers. *Who is where*: `StartInv`, `CoordInv` (one
coordinator, and one that has read 1 as `num_workers_marking` still reads it),
`MarkBarrierInv` and `DoneBarrierInv` (what the barriers count), and `CountInv`:
until marking is over, `num_workers_marking` is the number of marking workers,
of tokens in the semaphore and of wake-ups about to be posted, and somebody
neither sleeps nor is on the way to sleep. *Subtraction*: `SubtractInv`, a count is the external
references and those of objects still to be subtracted. *Marking*: `MarkInv`,
the tricolour argument. `MarkedOK`: what is marked is reachable. `RootsOK`: an
unmarked root is ahead of the worker whose slice it is in. `EdgesOK`: a
reference from a marked to an unmarked object is in a deque, in a traversal, or
on its way into a deque. When `num_workers_marking` is 0 all deques and
traversals are empty, so the marked set is closed; it holds the roots and is
within `Reachable`, the least such set.

Two workers may find one object unmarked and both mark it, with plain stores:
`MarksOK` survives because they store the same values. `Slice` is defined by
division; `SliceIndexFacts` and `SliceFacts` turn it into intervals that cover
the objects, which needs least elements of sets of naturals (`LeastNat`, from
the well-foundedness of `<`). `Reachable` is defined as the least closed set and
not by iteration, which would need induction over data.

### The lists of the collector

*Assumptions*: there are an object and a worker (`SizesAssumption`); roots and
immortal objects of a heap are objects (`HeapsAssumption`).

The properties speak of pointers, and so does the invariant, through positions:
there are sequences `y`, `u`, `q` of nodes, the paths along `_gc_next` from the
heads of young, unreachable and permanent back to themselves (`Path`), which share
the objects out between them (`Split`), and an `i` such that the cursor is
`y[i]`. Each phase says by position what `_gc_prev` and the flags hold
(`UpdateInv`, `SubtractInv`, `RestoreInv`, `MarkInv`, `ScanInv`, `MoveInv`,
`VisitInv`, `PMoveInv`, `SplitInv`). `MoveInv` is the heart of the serial scan:
the roots, and what the objects left of the cursor refer to, are left of the
cursor themselves or in young with positive `gc_refs` (`Found`); so when the
cursor reaches the end, young is closed. An object that was put on the
unreachable list too early and is found later comes back by the same clause.

*Structure*: what unlinking and appending a node do to a path (`Removed`,
`Appended`) and to three disjoint paths at once (`Transfer`), one lemma per
action, then the three properties. They speak of the set of nodes between a
pointer and the head, defined as the least set closed under `_gc_next`
(`Nodes`); `PathNodes` shows that it is the elements of a path, from the least
position that a closed set would miss.

### A collection and the Python code it runs

*Assumptions*: `KindsAssumption` (weak references and objects with finalizers
are objects) and `HeapsAssumption` (a heap refers to its objects only).

The argument is isolation: nothing outside a set refers to it. `TrashInv`: while
callbacks run the trash is isolated, holds no object with `tp_del`, and no weak
reference leads to it; Python code reaches only what its arguments, the roots
and weak references lead to, so callbacks cannot get in. Finalizers can,
which is why `handle_resurrected_objects` deduces again. `DeleteInv`: what is
being deleted is isolated, and what has been cleared refers to nothing any more;
once all is cleared only objects without `tp_clear` refer to any of it, and the
rest has been freed, as `HeapOK` says that an object that exists is referred to. `FinalizeInv` ties the finalized bit
to the number of calls. `ClosureFacts` and `Isolated` do the work that `GCLists`
and `ParMark` justify: `deduce_unreachable` is one step here.

### Global caches

*Assumptions*: `ValueAssumption` (NULL and the lazy object are no values),
`PairAssumption`, `CellsAssumption`; and `PlainDicts`: no lazy imports, and a
builtins dict is not freed before its globals.

`CacheIsLookup` is not inductive: whether a cell follows its dicts depends on
being subscribed to them. `WatchesInv`: every subscription is one of a mapped
cell to its globals or builtins. `CellsInv` says of each cell that either it was
forgotten and is NULL, or (`Follows`) both its dicts are alive, it is subscribed
to its globals and, when globals lack the name, to builtins, what it is
subscribed to has string keys, and it holds what the lookup gives. The events
that change entries of one dict share their lemmas through `Updated`.

### Types, caches and batches

*Assumptions*: NULL is neither a type nor a value, `DescrOf`, `Shapes` and the
constants that describe a program are functions of their types.

A `TypeDeoptPatcher` is patched, or `missed` has it, or it is `Guarded`: its type
has the slots, and is watched and has a tag, or its watch is pending
(`Covered`). An entry of a cache is `Subscribed` when the cache listens to the
entry's type and to the descriptor's type, both watched and tagged, and agrees
with them. Both are inductive because the first report of a change ends the
matter: it patches, or drops the entry, so that nobody depends on the tag that
is gone after it. A `TypeAttrDeoptPatcher` that decides to stay does depend on it,
and nothing is proved about those (section 6).
`TWSpec` allows its steps in any order, so a batch only has to show
that each of its actions is one of them: `ImplementsTypeWatch` needs only that
the units workers hold are units of the program (`UnitsInv`).

The other three properties of a batch need more: functions are not code
objects, NULL and the other two entries of a vectorcall slot are no artifacts,
and there is a worker (`NamesAssumption`); an artifact belongs to one
code object (`ArtAssumption`). None of
the three is inductive, and they need each other: a registry names a living
artifact because what reaches it was compiled from a unit that is alive, once.
`BatchInv` says that, unless something dangles, the following hold (`Parts`):

- `PhaseInv` and `CompilingInv`: what is empty in which phase of a batch; the
  keys in `active_compiles_` are those of the workers that compile, one each;
- `OuterInv` and `KeptInv`: the outer function of a code object is alive and
  runs it or code it is nested in; a registered unit is alive, and one of the
  batch is unless its deletion was recorded or the record was lost. This is why
  skipping deleted units before compiling is enough;
- `FlowInv` and `FlightInv`: units reach the compiler from the batch,
  preloaded; an artifact in `completed_compiles_` is the only one of its key and
  not yet published;
- `ArtsInv`: a function's entry in `compiled_funcs_` is
  that of its code in `compiled_codes_`, its vectorcall slot and its anchor; a
  patcher that waits belongs to an artifact in use. One lemma for each operation that
  publishes an artifact (`Compiled`, `Made`), makes it in vain (`Dropped`,
  `CompiledInVain`), takes it back (`Uncompiled`) or frees it (`Died`), for steps
  that leave nothing dangling;
- `SettledInv`: past preloading, a unit of the batch is in the compiler, or
  compiled, or failed, and a function that was put off is waiting or attached.

### Asynchronous lazy values

*Assumption*: NULL is no computation (`NullAssumption`).

`NobodyForgotten` is inductive by itself, given the types. For the other two the
invariant adds (`Own`), until a compute object goes astray, that a task is under
construction only before the value runs and before its first step, that a value
is done exactly when it has a result, that only then a waiter has one, and that
the arguments are kept until then.

### Only model-checked

- `JitContext` (`NothingStale`, `LifecycleInvariants`, `EntryIsInstalled`,
  `ChecksHold`). Its operations are stacks of frames that any finalizer may
  interrupt with another operation; an inductive invariant has to say what each
  suspended frame may still rely on, and the exceptions listed in section 6 show
  that this is not uniform. It has been checked with TLC only.
- `WinnerHoldsElement` of `WSDequeWeak`, the deque on a store buffer. Run
  `ws_deque_weak_grow` refutes it once arrays grow, so that a theorem would hold
  for a single array only.
- All liveness (section 4): the prover has no rules for fairness and `ENABLED`.

The inductive invariant of `WSDeque` is checked by the run `ws_deque`; those of
the other modules were checked with TLC on the instances of their runs before
they were proved.

## 6. Findings and open observations

Two runs show code that departs from a comment or a check of its own.

- **`ws_deque_weak_grow`** (`ParallelGC/ws_deque.h:181`). The comment at line
  175 calls the relaxed store of the grown array correct. When stores to
  different locations may pass each other, a thief can load the new array
  before the elements copied into it are visible, win the compare-and-swap and
  return NULL: the element is lost.
- **`jit_deferred_anchors`** (`Jit/pyjit.cpp:6956`). A compile request that is
  served by an existing artifact displaces the anchor of the function's prior
  artifact and returns without draining the queue of displaced anchors, the
  state that `lifecycleInvariantErrors311` reports as I5. It lasts until the next
  operation that drains.

The following were met while modelling. The checked instances exclude them, by
a constant or by `MCReentrant`; with the exclusion lifted TLC finds the
property named violated.

- With lazy imports, `disableCaches` drops a cache's subscription to globals
  and keeps the one to builtins (`LazyImports`, `RegistriesLive`).
- If a builtins dict is freed before the globals dict that uses it, keys that
  name it stay in the cache map unless they were subscribed to it
  (`BuiltinsFreed`, `RegistriesLive`).
- A finalizer run by an allocation inside a publication that publishes the same
  function (`LifecycleInvariants`, `EntryIsInstalled`); the code calls this
  unreachable because of a guard that is empty with the GIL
  (`Jit/context.cpp:803`).
- An artifact published while held by borrow only, whose last anchor a
  finalizer drops (`NothingStale`, `Jit/pyjit.cpp:6950`), or which a
  finalizer retires (`ChecksHold`, `Jit/pyjit.cpp:6953`).
- A finalizer that compiles the same key between the end of a compilation and
  the allocation of its artifact (`ChecksHold`, `Jit/context.cpp:2024`).

The next ones are in the models. A history variable records them, and the
property named claims everything but what follows from them; without that
exception TLC finds it violated.

- Nested code that is compiled as a unit of its own has no function, so its
  `owner_` is never set; when the outer function dies the artifact is freed
  without `forgetCompiledFunction` and without unwatching its patchers
  (`dangling`, `RegistriesLive`), contrary to the comment at
  `Jit/context.cpp:2053`.
- When the nested code of a dying function cannot be listed for want of memory,
  its rows in `code_outer_funcs_` stay (`dangling`, `RegistriesLive`,
  `Jit/pyjit.cpp:5710`).
- When the anchor cannot be written, `finalizeFunc` leaves the function with an
  artifact that nobody holds (`dangling`, `RegistriesLive`).
- `fixupFunctionEntryCache` may import modules, before `watchPendingTypes` has
  watched the types the new code depends on (`missed`, `LostSlotIsPatched`).
- A finalizer that disables the parallel collector on Python 3.14 makes the
  collection under way put resurrected objects back without the space bit
  (`strays`, `SpacesRestored`).
- An eager task runs its first step inside `create_task`, before the value is
  marked as running: `async_lazy_value.cpp:743` then overwrites whatever state
  that step left (`astray`, `OneComputation` and `ResultsAgree`), contrary to
  the docstring at `PythonLib/cinderx/__init__.py:247`.
- `close()` keeps the target, so a later `send` starts the coroutine again
  (`astray`, `OneComputation`).
- A task cancelled before its first step (`lost`), or a notification that fails
  because of a closed loop or a `StopIteration` (`cut`), leaves waiters untold
  (`WaitersServed`), while the docstring at `PythonLib/cinderx/__init__.py:262`
  says that they are told.

One is in the model, and no property speaks of it. A `TypeAttrDeoptPatcher` is
there to "Patch a DeoptPatchpoint when the given PyTypeObject no longer has the
given PyObject* at the specified name" (`Jit/type_deopt_patchers.h:31`). It keeps
its place when the attribute looks unchanged, but the version tag it asks for is
still the old one, which CPython takes away after the watchers: the next change
is silent. Where the dictionary is updated after the watchers (3.14), already the
first change of the attribute looks like none.

Seen in the source and not modelled: a thread that cannot be started leaves the
main thread in `done_barrier` (`ParallelGC/parallel_gc.c:2311`); workers borrow the thread state that enabled the
collector, which need not be the one that collects; a failed allocation during
a publication becomes an abort in `compile_func`; a batch started by Python code
that runs in the preloading of another clears the other's preloaders, and units
moved out of the registry are lost when a batch returns early; a unit whose key
was completed in the same batch reports success while its function stays lazy;
the worklist of `preloadFuncAndDeps` may hold functions that die in
it; uncompiling a function unwatches patchers of code that still runs;
`onPatch` drops an object whose deallocation may free the patcher's own
artifact; a re-entrant fill of one attribute cache may leave two entries of a
type; type watching relies on a version tag, which CPython may have run out of;
`LoadTypeAttrCache` does not watch the metatype. Modelled but forbidden by no
property: a dictionary given to a function while its dictionary is being
allocated is overwritten and leaks (`Jit/compiled_function.cpp:260`).

## 7. What is not modelled

Within the modelled parts: untracking of tuples and dicts and the statistics of
the collector; failing thread creation; in the global caches failed
allocations, the lock of free-threaded builds and lookups that run a lazy
import; in `JitContext` nested functions anchored on an outer function,
content-keyed reuse of artifacts, the attachment budget, immortal functions,
tracing, and teardown; in `BatchCompile` functions of one code object with
different globals, a batch inside the preloading of another, and functions that
come or go in the fixup; in `TypeWatch` the death of a type,
`SplitDictDeoptPatcher`, inline caches other than `AttributeCache`, and the
validation by version tags that 3.11 uses instead of watchers.

Whole parts: see the components with status `not_modelled` in `PROJECT.json`.
The IR passes and code generators are a compiler, whose correctness is an
equivalence of programs; deoptimization needs a model of the interpreter frame;
the interpreter loops are largely generated; borrowed and third-party code is
not this project's; output, tests and packaging have no state of interest. The
others are planned.

## 8. Plan

In order:

1. `JitContext` extended by nested anchors, the attachment budget and teardown.
2. On-stack replacement, generators and their free list, slab allocation,
   Static Python v-tables.
3. The parallel-move resolver (`copy_graph`) as an algorithm checked against a
   reference definition.
4. An inductive invariant for `JitContext`.
