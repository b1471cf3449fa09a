------------------------------- MODULE ParMark -------------------------------
(***************************************************************************)
(* One parallel collection: Ci_deduce_unreachable_parallel of              *)
(* ParallelGC/parallel_gc.c on the main thread and Ci_ParGCWorker_Run on   *)
(* each worker thread.                                                     *)
(*                                                                         *)
(* The generation is the list 1 .. NumObjs; refs[o] are the objects of the *)
(* list that o refers to and ext[o] the references o has from outside it.  *)
(* gc_refs and collecting are the two fields packed into _gc_prev.  The    *)
(* deques are the abstract ones of Deque, which WSDeque implements: Push,  *)
(* Take and Steal are steps.  Other shared accesses are one step each.  A  *)
(* local that is dead goes back to its initial value, to have few states.  *)
(***************************************************************************)
EXTENDS Integers, Sequences, FiniteSets, FiniteSetsExt

CONSTANTS
  MaxWorkers,    \* bound on par_gc->num_workers
  NumObjs,       \* objects in the generation
  Heaps          \* the collections considered: the number of workers, the
                 \* edges between objects of the list and the objects
                 \* referenced from outside it

ASSUME MaxWorkersAssumption == MaxWorkers \in Nat \ {0}
ASSUME NumObjsAssumption == NumObjs \in Nat /\ NumObjs >= MaxWorkers
ASSUME HeapsAssumption == \A h \in Heaps : h.workers \in 1 .. MaxWorkers

AnyWorker == 0 .. MaxWorkers - 1
Obj == 1 .. NumObjs
NoWorker == -1

VARIABLES
  num_workers,                   \* of par_gc, constant during the collection
  refs, ext,                     \* the heap, constant during the collection
  gc_refs, collecting,           \* _gc_prev of each object
  num_workers_marking, num_workers_active,
  steal_coordinator,
  tokens_left, sleepers,         \* steal_sema and the threads in COND_WAIT
  num_left, epoch,               \* the two barriers
  deque,                         \* each worker's deque, top first
  mpc, started,                  \* the main thread
  pc, ep, pos, obj, todo, ret, start, n, work   \* locals of the workers

heap == <<num_workers, refs, ext>>
marks == <<gc_refs, collecting>>
counts == <<num_workers_marking, num_workers_active>>
coord == <<steal_coordinator, tokens_left, sleepers>>
barriers == <<num_left, epoch>>
main == <<mpc, started>>
locals == <<ep, pos, obj, todo, ret, start, n, work>>
vars == <<heap, marks, counts, coord, barriers, deque, main, pc, locals>>

Worker == 0 .. num_workers - 1

Goto(w, l) == pc' = [pc EXCEPT ![w] = l]
Set(f, w, v) == [f EXCEPT ![w] = v]

\* Mutant of Slice: the last slice ends where the others do.
SliceEven(w) ==
  LET per == NumObjs \div num_workers IN
  {o \in Obj : (o - 1) \div per = w}

\* Ci_assign_worker_slices: the worker of the o-th object; the last worker
\* also gets what the division leaves over.
Slice(w) ==
  LET per == NumObjs \div num_workers
      idx(o) == IF (o - 1) \div per < num_workers THEN (o - 1) \div per
                                                 ELSE num_workers - 1
  IN {o \in Obj : idx(o) = w}

SliceStart(w) == Min(Slice(w))
SliceEnd(w) == Max(Slice(w)) + 1

\* update_refs: gc_refs is the reference count, collecting is set.
update_refs ==
  /\ gc_refs = [o \in Obj |-> ext[o] + Cardinality({p \in Obj : o \in refs[p]})]
  /\ collecting = [o \in Obj |-> TRUE]

Init ==
  /\ \E h \in Heaps :
       /\ num_workers = h.workers
       /\ refs = [o \in Obj |-> {p \in Obj : <<o, p>> \in h.edges}]
       /\ ext = [o \in Obj |-> IF o \in h.roots THEN 1 ELSE 0]
  /\ update_refs
  /\ num_workers_marking = num_workers /\ num_workers_active = 0
  /\ steal_coordinator = NoWorker /\ tokens_left = 0 /\ sleepers = {}
  /\ num_left = [mark |-> num_workers, done |-> num_workers + 1]
  /\ epoch = [mark |-> 0, done |-> 0]
  /\ deque = [w \in AnyWorker |-> <<>>]
  /\ mpc = "start" /\ started = 0
  /\ pc = [w \in AnyWorker |-> "none"]
  /\ ep = [w \in AnyWorker |-> 0]
  /\ pos = [w \in AnyWorker |-> 0]
  /\ obj = [w \in AnyWorker |-> 0]
  /\ todo = [w \in AnyWorker |-> {}]
  /\ ret = [w \in AnyWorker |-> "slice"]
  /\ start = [w \in AnyWorker |-> 0]
  /\ n = [w \in AnyWorker |-> 0]
  /\ work = [w \in AnyWorker |-> 0]

-----------------------------------------------------------------------------
(* Ci_Barrier_Wait.  The last to arrive resets the barrier and lets the     *)
(* others go; they wait for the epoch to change.                            *)

Arrive(b, capacity) ==
  IF num_left[b] = 1
    THEN /\ num_left' = [num_left EXCEPT ![b] = capacity]
         /\ epoch' = [epoch EXCEPT ![b] = @ + 1]
    ELSE /\ num_left' = [num_left EXCEPT ![b] = @ - 1]
         /\ UNCHANGED epoch

-----------------------------------------------------------------------------
(* Ci_deduce_unreachable_parallel, the main thread.                         *)

\* PyThread_start_new_thread for the next worker.
StartThread ==
  /\ mpc = "start"
  /\ started' = started + 1
  /\ Goto(started, "run")
  /\ mpc' = IF started + 1 = num_workers THEN "barrier" ELSE "start"
  /\ UNCHANGED <<heap, marks, counts, coord, barriers, deque, locals>>

MainArrive ==
  /\ mpc = "barrier"
  /\ Arrive("done", num_workers + 1)
  /\ mpc' = IF num_left["done"] = 1 THEN "move" ELSE "wait"
  /\ UNCHANGED <<heap, marks, counts, coord, deque, started, pc, locals>>

MainWake ==
  /\ mpc = "wait"
  /\ epoch["done"] # 0
  /\ mpc' = "move"
  /\ UNCHANGED <<heap, marks, counts, coord, barriers, deque, started, pc, locals>>

\* Ci_move_unreachable_parallel: an object with gc_refs = 0 is unreachable,
\* every other one leaves the collection with collecting clear.
Ci_move_unreachable_parallel ==
  /\ mpc = "move"
  /\ collecting' = [o \in Obj |-> collecting[o] /\ gc_refs[o] = 0]
  /\ mpc' = "end"
  /\ UNCHANGED <<heap, gc_refs, counts, coord, barriers, deque, started, pc, locals>>

-----------------------------------------------------------------------------
(* Ci_ParGCWorker_Run up to marking.                                        *)

Run(w) ==
  /\ pc[w] = "run"
  /\ num_workers_active' = num_workers_active + 1
  /\ pos' = Set(pos, w, SliceStart(w))
  /\ Goto(w, "subtract")
  /\ UNCHANGED <<heap, marks, num_workers_marking, coord, barriers, deque, main,
                 ep, obj, todo, ret, start, n, work>>

\* Ci_ParGCWorker_SubtractRefs: traverse one object.  The decrements are
\* atomic and gc_refs is not read before the barrier.
SubtractRefs(w) ==
  /\ pc[w] = "subtract"
  /\ pos[w] < SliceEnd(w)
  /\ gc_refs' = [o \in Obj |-> IF o \in refs[pos[w]] /\ collecting[o]
                                 THEN gc_refs[o] - 1 ELSE gc_refs[o]]
  /\ pos' = Set(pos, w, pos[w] + 1)
  /\ UNCHANGED <<heap, collecting, counts, coord, barriers, deque, main, pc,
                 ep, obj, todo, ret, start, n, work>>

\* Mutant of MarkBarrier: workers start marking without waiting.
MarkBarrierSkipped(w) ==
  /\ pc[w] = "subtract"
  /\ pos[w] = SliceEnd(w)
  /\ pos' = Set(pos, w, SliceStart(w))
  /\ Goto(w, "slice")
  /\ UNCHANGED <<heap, marks, counts, coord, barriers, deque, main,
                 ep, obj, todo, ret, start, n, work>>

MarkBarrier(w) ==
  /\ pc[w] = "subtract"
  /\ pos[w] = SliceEnd(w)
  /\ Arrive("mark", num_workers)
  /\ ep' = Set(ep, w, epoch["mark"])
  /\ pos' = Set(pos, w, SliceStart(w))
  /\ Goto(w, IF num_left["mark"] = 1 THEN "slice" ELSE "mark_wait")
  /\ UNCHANGED <<heap, marks, counts, coord, deque, main,
                 obj, todo, ret, start, n, work>>

MarkWake(w) ==
  /\ pc[w] = "mark_wait"
  /\ epoch["mark"] # ep[w]
  /\ ep' = Set(ep, w, 0)
  /\ Goto(w, "slice")
  /\ UNCHANGED <<heap, marks, counts, coord, barriers, deque, main,
                 pos, obj, todo, ret, start, n, work>>

-----------------------------------------------------------------------------
(* Ci_ParGCWorker_MarkGCSlice.                                              *)

\* Load _gc_prev of the next object of the slice.
SliceLoad(w) ==
  /\ pc[w] = "slice"
  /\ pos[w] < SliceEnd(w)
  /\ IF collecting[pos[w]] /\ gc_refs[pos[w]] > 0
       THEN /\ Goto(w, "slice_mark")
            /\ UNCHANGED pos
       ELSE /\ pos' = Set(pos, w, pos[w] + 1)
            /\ UNCHANGED pc
  /\ UNCHANGED <<heap, marks, counts, coord, barriers, deque, main,
                 ep, obj, todo, ret, start, n, work>>

\* Ci_gc_mark_reachable_and_clear_collecting_atomic: a plain store.
MarkReachable(o) ==
  /\ gc_refs' = [gc_refs EXCEPT ![o] = 1]
  /\ collecting' = [collecting EXCEPT ![o] = FALSE]

SliceMark(w) ==
  /\ pc[w] = "slice_mark"
  /\ MarkReachable(pos[w])
  /\ todo' = Set(todo, w, refs[pos[w]])
  /\ ret' = Set(ret, w, "slice")
  /\ pos' = Set(pos, w, pos[w] + 1)
  /\ Goto(w, "visit")
  /\ UNCHANGED <<heap, counts, coord, barriers, deque, main,
                 ep, obj, start, n, work>>

SliceDone(w) ==
  /\ pc[w] = "slice"
  /\ pos[w] = SliceEnd(w)
  /\ pos' = Set(pos, w, 0)
  /\ ret' = Set(ret, w, "take")
  /\ Goto(w, "take")
  /\ UNCHANGED <<heap, marks, counts, coord, barriers, deque, main,
                 ep, obj, todo, start, n, work>>

-----------------------------------------------------------------------------
(* tp_traverse with Ci_queue_obj_for_marking.                               *)

\* Load _gc_prev of the next referent; skip it if it is not collecting.
VisitLoad(w) ==
  /\ pc[w] = "visit"
  /\ todo[w] # {}
  /\ LET o == Min(todo[w]) IN
     IF collecting[o]
       THEN /\ obj' = Set(obj, w, o)
            /\ Goto(w, "visit_mark")
            /\ UNCHANGED todo
       ELSE /\ todo' = Set(todo, w, todo[w] \ {o})
            /\ UNCHANGED <<obj, pc>>
  /\ UNCHANGED <<heap, marks, counts, coord, barriers, deque, main,
                 ep, pos, ret, start, n, work>>

VisitMark(w) ==
  /\ pc[w] = "visit_mark"
  /\ MarkReachable(obj[w])
  /\ Goto(w, "visit_push")
  /\ UNCHANGED <<heap, counts, coord, barriers, deque, main, locals>>

VisitPush(w) ==
  /\ pc[w] = "visit_push"
  /\ deque' = Set(deque, w, Append(deque[w], obj[w]))
  /\ todo' = Set(todo, w, todo[w] \ {obj[w]})
  /\ obj' = Set(obj, w, 0)
  /\ Goto(w, "visit")
  /\ UNCHANGED <<heap, marks, counts, coord, barriers, main,
                 ep, pos, ret, start, n, work>>

VisitDone(w) ==
  /\ pc[w] = "visit"
  /\ todo[w] = {}
  /\ Goto(w, ret[w])
  /\ UNCHANGED <<heap, marks, counts, coord, barriers, deque, main, locals>>

-----------------------------------------------------------------------------
(* Ci_ParGCWorker_ProcessMarkQueueAndSteal.                                 *)

Traverse(w, o) ==
  /\ todo' = Set(todo, w, refs[o])
  /\ ret' = Set(ret, w, "take")
  /\ Goto(w, "visit")

\* Ci_WSDeque_Take, from the bottom.
Take(w) ==
  /\ pc[w] = "take"
  /\ deque[w] # <<>>
  /\ Traverse(w, deque[w][Len(deque[w])])
  /\ deque' = Set(deque, w, SubSeq(deque[w], 1, Len(deque[w]) - 1))
  /\ UNCHANGED <<heap, marks, counts, coord, barriers, main,
                 ep, pos, obj, start, n, work>>

\* The queue is empty: steal, from a random victim on.
TakeNull(w) ==
  /\ pc[w] = "take"
  /\ deque[w] = <<>>
  /\ \E s \in Worker : start' = Set(start, w, s)
  /\ pos' = Set(pos, w, 0)
  /\ Goto(w, "steal")
  /\ UNCHANGED <<heap, marks, counts, coord, barriers, deque, main,
                 ep, obj, todo, ret, n, work>>

Victim(w) == (start[w] + pos[w]) % num_workers

\* Ci_ParGCWorker_MaybeSteal: the next victim has work, from the top.
Steal(w) ==
  /\ pc[w] = "steal"
  /\ pos[w] < num_workers
  /\ Victim(w) # w
  /\ deque[Victim(w)] # <<>>
  /\ Traverse(w, Head(deque[Victim(w)]))
  /\ deque' = [deque EXCEPT ![Victim(w)] = Tail(@)]
  /\ pos' = Set(pos, w, 0) /\ start' = Set(start, w, 0)
  /\ UNCHANGED <<heap, marks, counts, coord, barriers, main,
                 ep, obj, n, work>>

StealMiss(w) ==
  /\ pc[w] = "steal"
  /\ pos[w] < num_workers
  /\ Victim(w) = w \/ deque[Victim(w)] = <<>>
  /\ pos' = Set(pos, w, pos[w] + 1)
  /\ UNCHANGED <<heap, marks, counts, coord, barriers, deque, main, pc,
                 ep, obj, todo, ret, start, n, work>>

-----------------------------------------------------------------------------
(* Ci_ParGCWorker_MarkReachable after ProcessMarkQueueAndSteal.             *)

\* Ci_ParGCWorker_TakeStealCoordinator, under steal_coord_lock.
TakeStealCoordinator(w) ==
  /\ pc[w] = "steal"
  /\ pos[w] = num_workers
  /\ IF steal_coordinator = NoWorker
       THEN /\ steal_coordinator' = w
            /\ Goto(w, "coord")
       ELSE /\ UNCHANGED steal_coordinator
            /\ Goto(w, "quit")
  /\ pos' = Set(pos, w, 0) /\ start' = Set(start, w, 0)
  /\ UNCHANGED <<heap, marks, counts, tokens_left, sleepers, barriers, deque,
                 main, ep, obj, todo, ret, n, work>>

Quit(w) ==
  /\ pc[w] = "quit"
  /\ num_workers_marking' = num_workers_marking - 1
  /\ Goto(w, "sema")
  /\ UNCHANGED <<heap, marks, num_workers_active, coord, barriers, deque, main, locals>>

\* Ci_Sema_Wait: take a token, or sleep until signalled and look again.
SemaWait(w) ==
  /\ pc[w] = "sema"
  /\ w \notin sleepers
  /\ IF tokens_left > 0
       THEN /\ tokens_left' = tokens_left - 1
            /\ Goto(w, "loop")
            /\ UNCHANGED sleepers
       ELSE /\ sleepers' = sleepers \cup {w}
            /\ UNCHANGED <<tokens_left, pc>>
  /\ UNCHANGED <<heap, marks, counts, steal_coordinator, barriers, deque, main, locals>>

\* COND_WAIT may return without a signal.
SpuriousWakeup(w) ==
  /\ w \in sleepers
  /\ sleepers' = sleepers \ {w}
  /\ UNCHANGED <<heap, marks, counts, steal_coordinator, tokens_left, barriers,
                 deque, main, pc, locals>>

\* Each COND_SIGNAL wakes one sleeper, if there is one.
Ci_Sema_Post(tokens) ==
  /\ tokens_left' = tokens_left + tokens
  /\ \E woken \in SUBSET sleepers :
       /\ Cardinality(woken) = Min({tokens, Cardinality(sleepers)})
       /\ sleepers' = sleepers \ woken

-----------------------------------------------------------------------------
(* Ci_ParGCWorker_CoordinateStealing.                                       *)

\* Mutant of CoordLoad: off by one, the coordinator forgets that it is counted.
CoordLoadZero(w) ==
  /\ pc[w] = "coord"
  /\ n' = Set(n, w, num_workers_marking)
  /\ pos' = Set(pos, w, 0) /\ work' = Set(work, w, 0)
  /\ Goto(w, IF num_workers_marking = 0 THEN "coord_last" ELSE "coord_size")
  /\ UNCHANGED <<heap, marks, counts, coord, barriers, deque, main,
                 ep, obj, todo, ret, start>>

\* Load num_workers_marking: is the coordinator the only one left?
CoordLoad(w) ==
  /\ pc[w] = "coord"
  /\ n' = Set(n, w, num_workers_marking)
  /\ pos' = Set(pos, w, 0) /\ work' = Set(work, w, 0)
  /\ Goto(w, IF num_workers_marking = 1 THEN "coord_last" ELSE "coord_size")
  /\ UNCHANGED <<heap, marks, counts, coord, barriers, deque, main,
                 ep, obj, todo, ret, start>>

CoordLast(w) ==
  /\ pc[w] = "coord_last"
  /\ num_workers_marking' = num_workers_marking - 1
  /\ work' = Set(work, w, num_workers - n[w])
  /\ Goto(w, "coord_post")
  /\ UNCHANGED <<heap, marks, num_workers_active, coord, barriers, deque, main,
                 ep, pos, obj, todo, ret, start, n>>

\* Ci_WSDeque_Size of the next deque.  An owner inside Take may have lowered
\* bot already, so one element may be missing from the difference.
CoordSize(w) ==
  /\ pc[w] = "coord_size"
  /\ pos[w] < num_workers
  /\ \E lowered \in {0, 1} :
       /\ lowered = 1 => pc[pos[w]] = "take" /\ deque[pos[w]] # <<>>
       /\ work' = Set(work, w, work[w] + Len(deque[pos[w]]) - lowered)
  /\ pos' = Set(pos, w, pos[w] + 1)
  /\ UNCHANGED <<heap, marks, counts, coord, barriers, deque, main, pc,
                 ep, obj, todo, ret, start, n>>

\* No work: back off and look again.  Work, but nobody to wake: return.
CoordNoWake(w) ==
  /\ pc[w] = "coord_size"
  /\ pos[w] = num_workers
  /\ work[w] = 0 \/ num_workers - n[w] = 0
  /\ Goto(w, IF work[w] = 0 THEN "coord" ELSE "coord_drop")
  /\ UNCHANGED <<heap, marks, counts, coord, barriers, deque, main, locals>>

\* Mutant of CoordWake: the woken workers are left to count themselves, the
\* race that the comment in CoordinateStealing describes.
CoordWakeUncounted(w) ==
  /\ pc[w] = "coord_size"
  /\ pos[w] = num_workers
  /\ work[w] # 0 /\ num_workers - n[w] > 0
  /\ work' = Set(work, w, Min({work[w], num_workers - n[w]}))
  /\ Goto(w, "coord_post")
  /\ UNCHANGED <<heap, marks, counts, coord, barriers, deque,
                 main, ep, pos, obj, todo, ret, start, n>>

\* Count the workers to wake before waking them.
CoordWake(w) ==
  /\ pc[w] = "coord_size"
  /\ pos[w] = num_workers
  /\ work[w] # 0 /\ num_workers - n[w] > 0
  /\ LET wake == Min({work[w], num_workers - n[w]}) IN
     /\ work' = Set(work, w, wake)
     /\ num_workers_marking' = num_workers_marking + wake
  /\ Goto(w, "coord_post")
  /\ UNCHANGED <<heap, marks, num_workers_active, coord, barriers, deque, main,
                 ep, pos, obj, todo, ret, start, n>>

CoordPost(w) ==
  /\ pc[w] = "coord_post"
  /\ Ci_Sema_Post(work[w])
  /\ Goto(w, "coord_drop")
  /\ UNCHANGED <<heap, marks, counts, steal_coordinator, barriers, deque, main, locals>>

\* Ci_ParGCWorker_DropStealCoordinator, under steal_coord_lock.
DropStealCoordinator(w) ==
  /\ pc[w] = "coord_drop"
  /\ steal_coordinator' = NoWorker
  /\ pos' = Set(pos, w, 0) /\ n' = Set(n, w, 0) /\ work' = Set(work, w, 0)
  /\ Goto(w, "loop")
  /\ UNCHANGED <<heap, marks, counts, tokens_left, sleepers, barriers, deque,
                 main, ep, obj, todo, ret, start>>

-----------------------------------------------------------------------------
(* The loop condition, and the end of Ci_ParGCWorker_Run.                   *)

LoopTest(w) ==
  /\ pc[w] = "loop"
  /\ Goto(w, IF num_workers_marking # 0 THEN "take" ELSE "done")
  /\ UNCHANGED <<heap, marks, counts, coord, barriers, deque, main, locals>>

DoneBarrier(w) ==
  /\ pc[w] = "done"
  /\ Arrive("done", num_workers + 1)
  /\ ep' = Set(ep, w, epoch["done"])
  /\ Goto(w, IF num_left["done"] = 1 THEN "leave" ELSE "done_wait")
  /\ UNCHANGED <<heap, marks, counts, coord, deque, main,
                 pos, obj, todo, ret, start, n, work>>

DoneWake(w) ==
  /\ pc[w] = "done_wait"
  /\ epoch["done"] # ep[w]
  /\ Goto(w, "leave")
  /\ UNCHANGED <<heap, marks, counts, coord, barriers, deque, main, locals>>

Leave(w) ==
  /\ pc[w] = "leave"
  /\ num_workers_active' = num_workers_active - 1
  /\ Goto(w, "exited")
  /\ UNCHANGED <<heap, marks, num_workers_marking, coord, barriers, deque, main, locals>>

\* The collection is over and every thread has gone.
Terminated ==
  /\ mpc = "end"
  /\ \A w \in Worker : pc[w] = "exited"
  /\ UNCHANGED vars

-----------------------------------------------------------------------------
MainStep == StartThread \/ MainArrive \/ MainWake \/ Ci_move_unreachable_parallel

WorkerStep(w) ==
  \/ Run(w) \/ SubtractRefs(w) \/ MarkBarrier(w) \/ MarkWake(w)
  \/ SliceLoad(w) \/ SliceMark(w) \/ SliceDone(w)
  \/ VisitLoad(w) \/ VisitMark(w) \/ VisitPush(w) \/ VisitDone(w)
  \/ Take(w) \/ TakeNull(w) \/ Steal(w) \/ StealMiss(w)
  \/ TakeStealCoordinator(w) \/ Quit(w) \/ SemaWait(w)
  \/ CoordLoad(w) \/ CoordLast(w) \/ CoordSize(w) \/ CoordNoWake(w)
  \/ CoordWake(w) \/ CoordPost(w) \/ DropStealCoordinator(w)
  \/ LoopTest(w) \/ DoneBarrier(w) \/ DoneWake(w) \/ Leave(w)

Next ==
  \/ MainStep
  \/ \E w \in Worker : WorkerStep(w) \/ SpuriousWakeup(w)
  \/ Terminated

Spec == Init /\ [][Next]_vars

\* The operating system schedules every thread.
Fairness == WF_vars(MainStep) /\ \A w \in AnyWorker : WF_vars(WorkerStep(w))

FairSpec == Spec /\ Fairness

-----------------------------------------------------------------------------
\* S holds the objects referenced from outside the generation and, with an
\* object, everything that it refers to.
ClosedSet(S) ==
  /\ {o \in Obj : ext[o] > 0} \subseteq S
  /\ \A p \in S : refs[p] \subseteq S

\* The objects reachable from outside the generation: the least such set.
Reachable == {o \in Obj : \A S \in SUBSET Obj : ClosedSet(S) => o \in S}

\* What the collector promises: when the main thread has moved the objects
\* with gc_refs = 0 to the unreachable list, those are exactly the objects
\* not reachable from outside the generation, and only they are still
\* marked as collecting (deduce_unreachable_parallel's step 4).
ExactlyUnreachable ==
  mpc = "end" => {o \in Obj : collecting[o]} = Obj \ Reachable

\* An object is only ever taken for live when it is: once the reference
\* counts are subtracted, a positive gc_refs means reachable, whatever the
\* racing plain stores of several workers do to _gc_prev.
PositiveIsReachable ==
  (\E w \in Worker : pc[w] \notin {"none", "run", "subtract", "mark_wait"})
    => \A o \in Obj : gc_refs[o] > 0 => o \in Reachable

\* Workers that count as marking.
Marking ==
  {w \in Worker : pc[w] \notin {"sema", "done", "done_wait", "leave", "exited"}}

\* The wake-ups that the coordinator has counted and not posted yet.
posting ==
  IF steal_coordinator # NoWorker /\ pc[steal_coordinator] = "coord_post"
    THEN work[steal_coordinator] ELSE 0

\* num_workers_marking counts the workers that are marking and the wake-ups
\* under way, so the coordinator that reads 1 is alone (the race described
\* in CoordinateStealing).  After the last decrement it stays 0, and marking
\* never ends with work left: then every deque is empty and no worker is in
\* the middle of a traversal.
MarkingCounted ==
  IF num_workers_marking = 0
    THEN \A w \in Worker : deque[w] = <<>> /\ todo[w] = {}
    ELSE num_workers_marking = Cardinality(Marking) + tokens_left + posting

\* The shared state as the next collection expects it: no token, no
\* coordinator, the barriers full.
StateRestored ==
  /\ tokens_left = 0 /\ steal_coordinator = NoWorker /\ sleepers = {}
  /\ num_left = [mark |-> num_workers, done |-> num_workers + 1]
  /\ num_workers_active = 0

\* Every collection ends: the main thread leaves the done barrier and all
\* worker threads exit, however the threads are scheduled, and they leave
\* the semaphore, the coordinator and the barriers ready for the next one.
Terminates ==
  <>(mpc = "end" /\ (\A w \in Worker : pc[w] = "exited") /\ StateRestored)
=============================================================================
