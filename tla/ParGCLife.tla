------------------------------ MODULE ParGCLife ------------------------------
(***************************************************************************)
(* The life of a parallel collector: Cinder_EnableParallelGC, collections, *)
(* Cinder_DisableParallelGC and Ci_ParGCState_Destroy                      *)
(* (ParallelGC/parallel_gc.c).                                             *)
(*                                                                         *)
(* Every collection starts its own threads and does not join them: a       *)
(* thread may still be asleep in done_barrier while the main thread        *)
(* collects again or destroys the state.  What the threads do between the  *)
(* barriers is module ParMark.                                             *)
(***************************************************************************)
EXTENDS Integers, FiniteSets

CONSTANTS
  NumWorkers,
  MaxCollections,   \* bound on the parallel collections
  MaxStates         \* bound on the Ci_ParGCStates that are created

ASSUME LifeAssumption == NumWorkers \in Nat \ {0} /\ MaxCollections \in Nat /\ MaxStates \in Nat

Worker == 1 .. NumWorkers
Round == 1 .. MaxCollections
Thread == Round \X Worker

VARIABLES
  pc,            \* the main thread
  resume,        \* where it goes on after Ci_ParGCState_Destroy
  par_gc,        \* number of the latest Ci_ParGCState
  enabled,       \* it is the interpreter's gc implementation
  freed,         \* the Ci_ParGCStates that were freed
  round,         \* parallel collections so far
  spawned,       \* threads started in this one
  main_epoch,
  mark_barrier, done_barrier,  \* [num_left, epoch]
  num_workers_active,
  thread         \* [pc, epoch, par_gc]: one for every round and worker

main == <<pc, resume, round, spawned, main_epoch>>
state == <<par_gc, enabled, freed>>
vars == <<main, state, mark_barrier, done_barrier, num_workers_active, thread>>

Idle == [pc |-> "none", epoch |-> 0, par_gc |-> 0]

Ci_Barrier_Init(capacity) == [num_left |-> capacity, epoch |-> 0]

Init ==
  /\ pc = "idle" /\ resume = "idle" /\ round = 0 /\ spawned = 0 /\ main_epoch = 0
  /\ par_gc = 0 /\ enabled = FALSE /\ freed = {}
  /\ mark_barrier = Ci_Barrier_Init(0) /\ done_barrier = Ci_Barrier_Init(0)
  /\ num_workers_active = 0
  /\ thread = [t \in Thread |-> Idle]

-----------------------------------------------------------------------------
(* Ci_Barrier_Wait: arriving, under the lock, and leaving once the epoch    *)
(* has changed.                                                             *)

\* Mutant of Arrive: the last thread does not reset the barrier.
ArriveNoReset(b, capacity) ==
  IF b.num_left = 1 THEN [num_left |-> 0, epoch |-> b.epoch + 1]
  ELSE [num_left |-> b.num_left - 1, epoch |-> b.epoch]

Arrive(b, capacity) ==
  IF b.num_left = 1 THEN [num_left |-> capacity, epoch |-> b.epoch + 1]
  ELSE [num_left |-> b.num_left - 1, epoch |-> b.epoch]

IsLast(b) == b.num_left = 1

-----------------------------------------------------------------------------
(* The main thread, which holds the GIL.  Finalizers may enable and disable *)
(* the collector in the middle of a collection.                             *)

\* Mutant of Cinder_EnableParallelGC: done_barrier without the main thread.
EnableWorkersOnly ==
  /\ pc \in {"idle", "finalizers"} /\ ~enabled /\ par_gc < MaxStates
  /\ par_gc' = par_gc + 1 /\ enabled' = TRUE
  /\ mark_barrier' = Ci_Barrier_Init(NumWorkers)
  /\ done_barrier' = Ci_Barrier_Init(NumWorkers)
  /\ num_workers_active' = 0
  /\ UNCHANGED <<main, freed, thread>>

\* Ci_ParGCState_New and Ci_PyGC_SetImpl.  Nothing happens when enabled.
Cinder_EnableParallelGC ==
  /\ pc \in {"idle", "finalizers"} /\ ~enabled /\ par_gc < MaxStates
  /\ par_gc' = par_gc + 1 /\ enabled' = TRUE
  /\ mark_barrier' = Ci_Barrier_Init(NumWorkers)
  /\ done_barrier' = Ci_Barrier_Init(NumWorkers + 1)
  /\ num_workers_active' = 0
  /\ UNCHANGED <<main, freed, thread>>

\* Ci_PyGC_SetImpl fails and the new state, which has no threads, is destroyed.
EnableRefused ==
  /\ pc \in {"idle", "finalizers"} /\ ~enabled /\ par_gc < MaxStates
  /\ par_gc' = par_gc + 1 /\ freed' = freed \cup {par_gc'}
  /\ UNCHANGED <<main, enabled, mark_barrier, done_barrier, num_workers_active, thread>>

\* A collection of a generation below min_gen, or of fewer objects than
\* workers, starts no thread.
CollectSerial ==
  /\ pc = "idle" /\ enabled
  /\ pc' = "finalizers"
  /\ UNCHANGED <<resume, round, spawned, main_epoch, state, mark_barrier, done_barrier,
                 num_workers_active, thread>>

\* Ci_deduce_unreachable_parallel: slices, then one thread per worker.
CollectParallel ==
  /\ pc = "idle" /\ enabled /\ round < MaxCollections
  /\ pc' = "spawn" /\ round' = round + 1 /\ spawned' = 0
  /\ UNCHANGED <<resume, main_epoch, state, mark_barrier, done_barrier, num_workers_active, thread>>

Spawn ==
  /\ pc = "spawn" /\ spawned < NumWorkers
  /\ spawned' = spawned + 1
  /\ thread' = [thread EXCEPT ![<<round, spawned + 1>>] =
                  [pc |-> "start", epoch |-> 0, par_gc |-> par_gc]]
  /\ UNCHANGED <<pc, resume, round, main_epoch, state, mark_barrier, done_barrier, num_workers_active>>

\* The main thread waits for the workers; then the lists are its own again.
MainArrive ==
  /\ pc = "spawn" /\ spawned = NumWorkers
  /\ done_barrier' = Arrive(done_barrier, NumWorkers + 1)
  /\ main_epoch' = done_barrier.epoch
  /\ pc' = IF IsLast(done_barrier) THEN "finalizers" ELSE "wait"
  /\ UNCHANGED <<resume, round, spawned, state, mark_barrier, num_workers_active, thread>>

MainLeave ==
  /\ pc = "wait" /\ done_barrier.epoch # main_epoch
  /\ pc' = "finalizers"
  /\ UNCHANGED <<resume, round, spawned, main_epoch, state, mark_barrier, done_barrier,
                 num_workers_active, thread>>

EndCollection ==
  /\ pc = "finalizers"
  /\ pc' = "idle"
  /\ UNCHANGED <<resume, round, spawned, main_epoch, state, mark_barrier, done_barrier,
                 num_workers_active, thread>>

\* The old implementation is put back first, then the state is destroyed.
Cinder_DisableParallelGC ==
  /\ pc \in {"idle", "finalizers"} /\ enabled
  /\ enabled' = FALSE
  /\ resume' = pc /\ pc' = "destroy"
  /\ UNCHANGED <<round, spawned, main_epoch, par_gc, freed, mark_barrier, done_barrier,
                 num_workers_active, thread>>

\* Mutant of Ci_ParGCState_Destroy: it does not wait for the workers.
DestroyAtOnce ==
  /\ pc = "destroy"
  /\ freed' = freed \cup {par_gc}
  /\ pc' = resume /\ resume' = "idle"
  /\ UNCHANGED <<round, spawned, main_epoch, par_gc, enabled, mark_barrier, done_barrier,
                 num_workers_active, thread>>

\* Ci_ParGCState_Destroy spins until no worker is active.
Ci_ParGCState_Destroy ==
  /\ pc = "destroy" /\ num_workers_active = 0
  /\ freed' = freed \cup {par_gc}
  /\ pc' = resume /\ resume' = "idle"
  /\ UNCHANGED <<round, spawned, main_epoch, par_gc, enabled, mark_barrier, done_barrier,
                 num_workers_active, thread>>

-----------------------------------------------------------------------------
(* Ci_ParGCWorker_Run.                                                      *)

At(t, from, to) ==
  /\ thread[t].pc = from
  /\ thread' = [thread EXCEPT ![t].pc = to]

Start(t) ==
  /\ At(t, "start", "subtract")
  /\ num_workers_active' = num_workers_active + 1
  /\ UNCHANGED <<main, state, mark_barrier, done_barrier>>

\* Mutant of MarkArrive: the thread does not wait for the others.
MarkArriveAlone(t) ==
  /\ thread[t].pc = "subtract"
  /\ mark_barrier' = Arrive(mark_barrier, NumWorkers)
  /\ thread' = [thread EXCEPT ![t].pc = "mark", ![t].epoch = mark_barrier.epoch]
  /\ UNCHANGED <<main, state, done_barrier, num_workers_active>>

MarkArrive(t) ==
  /\ thread[t].pc = "subtract"
  /\ mark_barrier' = Arrive(mark_barrier, NumWorkers)
  /\ thread' = [thread EXCEPT ![t].pc = IF IsLast(mark_barrier) THEN "mark" ELSE "mark_barrier",
                              ![t].epoch = mark_barrier.epoch]
  /\ UNCHANGED <<main, state, done_barrier, num_workers_active>>

MarkLeave(t) ==
  /\ mark_barrier.epoch # thread[t].epoch
  /\ At(t, "mark_barrier", "mark")
  /\ UNCHANGED <<main, state, mark_barrier, done_barrier, num_workers_active>>

DoneArrive(t) ==
  /\ thread[t].pc = "mark"
  /\ done_barrier' = Arrive(done_barrier, NumWorkers + 1)
  /\ thread' = [thread EXCEPT ![t].pc = IF IsLast(done_barrier) THEN "exit" ELSE "done_barrier",
                              ![t].epoch = done_barrier.epoch]
  /\ UNCHANGED <<main, state, mark_barrier, num_workers_active>>

DoneLeave(t) ==
  /\ done_barrier.epoch # thread[t].epoch
  /\ At(t, "done_barrier", "exit")
  /\ UNCHANGED <<main, state, mark_barrier, done_barrier, num_workers_active>>

\* Mutant of Exit: the worker is never counted out.
ExitActive(t) ==
  /\ At(t, "exit", "gone")
  /\ UNCHANGED <<main, state, mark_barrier, done_barrier, num_workers_active>>

\* The last thing a worker does with the state.
Exit(t) ==
  /\ At(t, "exit", "gone")
  /\ num_workers_active' = num_workers_active - 1
  /\ UNCHANGED <<main, state, mark_barrier, done_barrier>>

Ci_ParGCWorker_Run(t) ==
  Start(t) \/ MarkArrive(t) \/ MarkLeave(t) \/ DoneArrive(t) \/ DoneLeave(t) \/ Exit(t)

\* What the main thread does without being asked to.
MainStep ==
  Spawn \/ MainArrive \/ MainLeave \/ EndCollection \/ Ci_ParGCState_Destroy

Next ==
  \/ Cinder_EnableParallelGC \/ EnableRefused \/ Cinder_DisableParallelGC
  \/ CollectSerial \/ CollectParallel \/ MainStep
  \/ \E t \in Thread : Ci_ParGCWorker_Run(t)

Spec == Init /\ [][Next]_vars

-----------------------------------------------------------------------------
Live == {t \in Thread : thread[t].pc \notin {"none", "gone"}}
Started == {t \in Live : thread[t].pc # "start"}

\* Ci_ParGCState_Destroy: a state is freed only when no thread will touch it
\* again, not even one that sleeps in done_barrier since an earlier collection.
NoUseAfterFree ==
  /\ \A t \in Live : thread[t].par_gc \notin freed
  /\ enabled => par_gc \notin freed

\* The main thread changes the gc lists and hands out new slices only while
\* every thread of every collection is past its marking.  A thread left over
\* from an earlier collection has been released: it can never be counted in
\* the barrier of the current one, nor wait for it.
ListsOwned ==
  /\ pc \notin {"spawn", "wait"} =>
       \A t \in Live : thread[t].pc \in {"done_barrier", "exit"}
  /\ \A t \in Live : t[1] < round =>
       /\ thread[t].pc \in {"done_barrier", "exit"}
       /\ thread[t].pc = "done_barrier" => thread[t].epoch # done_barrier.epoch

\* No thread marks while another of its collection still subtracts: the
\* mark_barrier holds for every collection, not only the first.
MarkAfterSubtract ==
  \A t, u \in Thread :
    t[1] = u[1] /\ thread[t].pc = "mark" => thread[u].pc \notin {"start", "subtract"}

\* A collection that has begun ends: the main thread leaves done_barrier.
CollectionEnds == (pc \in {"spawn", "wait"}) ~> (pc = "finalizers")

\* Ci_ParGCState_Destroy stops spinning on num_workers_active: every thread
\* it waits for wakes up and exits.
DestroyEnds == (pc = "destroy") ~> (pc # "destroy")
=============================================================================
