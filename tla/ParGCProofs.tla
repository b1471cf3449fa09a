----------------------------- MODULE ParGCProofs -----------------------------
(***************************************************************************)
(* The two barriers and the count of active workers keep a collection, the *)
(* ones before it and the destruction of the state apart, for every number *)
(* of workers, collections and states: what ParGCLife promises.  It holds  *)
(* in the composition ParGC too, where the interpreter gets its spaces     *)
(* back: SpacesRestored for every number of workers, of collections and of *)
(* objects.                                                                *)
(***************************************************************************)
EXTENDS ParGC, FiniteSetTheorems, TLAPS

WorkerPC == {"none", "start", "subtract", "mark_barrier", "mark", "done_barrier", "exit", "gone"}
Record == [pc : WorkerPC, epoch : Nat, par_gc : Nat]
Barrier == [num_left : Nat, epoch : Nat]

TypeOK ==
  /\ pc \in {"idle", "spawn", "wait", "finalizers", "destroy"}
  /\ resume \in {"idle", "finalizers"}
  /\ par_gc \in Nat /\ enabled \in BOOLEAN /\ freed \in SUBSET Nat
  /\ round \in Nat /\ spawned \in Nat /\ main_epoch \in Nat
  /\ mark_barrier \in Barrier /\ done_barrier \in Barrier
  /\ thread \in [Thread -> Record]

Collecting == pc \in {"spawn", "wait"}

\* Released from done_barrier, and asleep in it at most because it has not yet
\* noticed.
Past(t) ==
  /\ thread[t].pc \in {"done_barrier", "exit", "gone"}
  /\ thread[t].pc = "done_barrier" => thread[t].epoch < done_barrier.epoch

\* Threads of earlier collections are past their work, those of later ones do
\* not exist, and those of the current one are started in order.
RoundsInv ==
  /\ Collecting => round \in Round /\ spawned \in 0 .. NumWorkers
  /\ \A t \in Thread : t[1] > round => thread[t].pc = "none"
  /\ \A t \in Thread : t[1] < round \/ (t[1] = round /\ ~Collecting) => Past(t)
  /\ pc = "spawn" => \A w \in Worker : thread[<<round, w>>].pc = "none" <=> w > spawned
  /\ pc = "wait" => \A w \in Worker : thread[<<round, w>>].pc # "none"

\* The workers of the current collection that have been at a barrier.
MarkArrived ==
  {w \in Worker : thread[<<round, w>>].pc \in {"mark_barrier", "mark", "done_barrier", "exit", "gone"}}
DoneArrived ==
  {w \in Worker : thread[<<round, w>>].pc \in {"done_barrier", "exit", "gone"}}

\* Until the last worker has arrived the others wait in mark_barrier, in its
\* epoch; afterwards it is as before the collection.
MarkInv ==
  /\ Collecting /\ MarkArrived # Worker =>
       /\ mark_barrier.num_left = NumWorkers - Cardinality(MarkArrived)
       /\ \A w \in MarkArrived : /\ thread[<<round, w>>].pc = "mark_barrier"
                                 /\ thread[<<round, w>>].epoch = mark_barrier.epoch
  /\ enabled /\ (Collecting => MarkArrived = Worker) => mark_barrier.num_left = NumWorkers

\* The main thread has been released from done_barrier, or need not wait.
Released == pc = "wait" /\ done_barrier.epoch # main_epoch

DoneInv ==
  /\ Collecting /\ ~Released =>
       /\ done_barrier.num_left =
            NumWorkers + (IF pc = "spawn" THEN 1 ELSE 0) - Cardinality(DoneArrived)
       /\ pc = "wait" => DoneArrived # Worker
       /\ \A w \in DoneArrived : /\ thread[<<round, w>>].pc = "done_barrier"
                                 /\ thread[<<round, w>>].epoch = done_barrier.epoch
  /\ Released => \A w \in Worker : Past(<<round, w>>)
  /\ enabled /\ (Collecting => Released) => done_barrier.num_left = NumWorkers + 1

\* A thread works for the latest state, which is not freed while a thread or
\* the interpreter has it.
StateInv ==
  /\ Collecting => enabled
  /\ pc = "destroy" => ~enabled
  /\ \A s \in freed : s <= par_gc
  /\ enabled \/ pc = "destroy" => par_gc \notin freed
  /\ \A t \in Live : thread[t].par_gc = par_gc /\ (enabled \/ pc = "destroy")
  /\ num_workers_active = Cardinality(Started)

LifeInv == TypeOK /\ RoundsInv /\ MarkInv /\ DoneInv /\ StateInv

-----------------------------------------------------------------------------
(* Counting.                                                                *)

LEMMA Counting ==
  ASSUME NEW A \in SUBSET Worker
  PROVE  /\ IsFiniteSet(A) /\ Cardinality(A) \in 0 .. NumWorkers
         /\ Cardinality(A) = NumWorkers <=> A = Worker
<1>1. IsFiniteSet(Worker) /\ Cardinality(Worker) = NumWorkers
  BY FS_Interval, LifeAssumption DEF Worker
<1>2. IsFiniteSet(A) /\ Cardinality(A) <= NumWorkers /\ (NumWorkers = Cardinality(A) => A = Worker)
  BY <1>1, FS_Subset
<1>3. Cardinality(A) \in Nat
  BY <1>2, FS_CardinalityType
<1> QED
  BY <1>1, <1>2, <1>3, LifeAssumption

LEMMA OneMore ==
  ASSUME NEW A \in SUBSET Worker, NEW w \in Worker, w \notin A
  PROVE  /\ A # Worker /\ Cardinality(A) \in 0 .. NumWorkers - 1
         /\ Cardinality(A \cup {w}) = Cardinality(A) + 1
         /\ Cardinality(A) + 1 = NumWorkers <=> A \cup {w} = Worker
<1>1. A # Worker
  OBVIOUS
<1>2. Cardinality(A) \in 0 .. NumWorkers - 1
  BY <1>1, Counting, LifeAssumption
<1>3. Cardinality(A \cup {w}) = Cardinality(A) + 1
  BY Counting, FS_AddElement
<1>4. Cardinality(A \cup {w}) = NumWorkers <=> A \cup {w} = Worker
  <2>1. (A \cup {w}) \in SUBSET Worker
    OBVIOUS
  <2> QED
    BY <2>1, Counting
<1> QED
  BY <1>1, <1>2, <1>3, <1>4

LEMMA ThreadsFinite == ASSUME NEW S \in SUBSET Thread PROVE IsFiniteSet(S)
<1>1. IsFiniteSet(Worker) /\ IsFiniteSet(Round)
  BY FS_Interval, LifeAssumption DEF Worker, Round
<1> QED
  BY <1>1, FS_Product, FS_Subset DEF Thread

-----------------------------------------------------------------------------
(* Steps of one worker.                                                     *)

Moved(t, p, e) ==
  /\ thread' \in [Thread -> Record]
  /\ thread'[t].pc = p /\ thread'[t].epoch = e /\ thread'[t].par_gc = thread[t].par_gc
  /\ \A u \in Thread : u # t => thread'[u] = thread[u]

LEMMA AtMoves ==
  ASSUME TypeOK, NEW t \in Thread, NEW from \in WorkerPC, NEW to \in WorkerPC, At(t, from, to)
  PROVE  Moved(t, to, thread[t].epoch)
BY DEF TypeOK, At, Moved, Record

LEMMA ArriveMoves ==
  ASSUME TypeOK, NEW t \in Thread, NEW p \in WorkerPC, NEW e \in Nat,
         thread' = [thread EXCEPT ![t].pc = p, ![t].epoch = e]
  PROVE  Moved(t, p, e)
BY DEF TypeOK, Moved, Record

LEMMA ArriveBarrier ==
  ASSUME NEW b \in Barrier, NEW capacity \in Nat, b.num_left > 0
  PROVE  /\ Arrive(b, capacity) \in Barrier
         /\ IsLast(b) => /\ Arrive(b, capacity).num_left = capacity
                         /\ Arrive(b, capacity).epoch = b.epoch + 1
         /\ ~IsLast(b) => /\ Arrive(b, capacity).num_left = b.num_left - 1
                          /\ Arrive(b, capacity).epoch = b.epoch
BY DEF Barrier, Arrive, IsLast

\* A worker that has not passed done_barrier is of the current collection.
LEMMA Current ==
  ASSUME TypeOK, RoundsInv, NEW t \in Thread,
         thread[t].pc \in {"start", "subtract", "mark_barrier", "mark"}
  PROVE  /\ Collecting /\ t[1] = round /\ t[2] \in Worker /\ t = <<round, t[2]>>
<1>1. t[1] \in Nat /\ t[2] \in Worker /\ t = <<t[1], t[2]>>
  BY LifeAssumption DEF Thread, Round
<1>2. ~(t[1] > round)
  BY DEF RoundsInv
<1>3. ~(t[1] < round \/ (t[1] = round /\ ~Collecting))
  BY DEF RoundsInv, Past
<1> QED
  BY <1>1, <1>2, <1>3 DEF TypeOK

LEMMA LifeInit == Init => LifeInv
<1> SUFFICES ASSUME Init PROVE LifeInv
  OBVIOUS
<1>1. TypeOK
  BY LifeAssumption DEF Init, TypeOK, Ci_Barrier_Init, Barrier, Idle, Record, WorkerPC
<1>2. RoundsInv
  BY LifeAssumption DEF Init, RoundsInv, Collecting, Idle, Thread, Round
<1>3. MarkInv /\ DoneInv
  BY DEF Init, MarkInv, DoneInv, Collecting, Released
<1>4. Live = {} /\ Started = {}
  BY DEF Init, Live, Started, Idle
<1>5. StateInv
  BY <1>4, FS_EmptySet DEF Init, StateInv, Collecting
<1> QED
  BY <1>1, <1>2, <1>3, <1>5 DEF LifeInv

-----------------------------------------------------------------------------
(* The main thread.                                                         *)

LEMMA ThreadOfRound ==
  ASSUME NEW t \in Thread PROVE t[1] \in Nat /\ t[2] \in Worker /\ t = <<t[1], t[2]>>
BY LifeAssumption DEF Thread, Round

LEMMA EnableLife == ASSUME LifeInv, Cinder_EnableParallelGC PROVE LifeInv'
<1> USE DEF LifeInv, Cinder_EnableParallelGC, Ci_Barrier_Init, main
<1>1. TypeOK'
  BY LifeAssumption DEF TypeOK, Barrier
<1>2. ~Collecting /\ ~Collecting' /\ ~Released'
  BY DEF Collecting, Released
<1>3. Live = {} /\ Live' = {}
  BY DEF StateInv, Live
<1>4. \A t \in Thread : Past(t) => Past(t)'
  BY <1>3 DEF Past, Live
<1>5. RoundsInv'
  BY <1>2, <1>4 DEF RoundsInv, Collecting
<1>6. MarkInv' /\ DoneInv'
  BY <1>2 DEF MarkInv, DoneInv
<1>7. StateInv'
  <2>1. par_gc' \notin freed' /\ \A s \in freed' : s <= par_gc'
    BY DEF StateInv, TypeOK
  <2>2. Started' = {}
    BY <1>3 DEF Started
  <2> QED
    BY <1>2, <1>3, <2>1, <2>2, FS_EmptySet DEF StateInv
<1> QED
  BY <1>1, <1>5, <1>6, <1>7

\* What moves the main thread only, outside of a parallel collection.
LEMMA QuietLife ==
  ASSUME LifeInv, ~Collecting, ~Collecting', TypeOK', StateInv', enabled' => enabled,
         UNCHANGED <<round, mark_barrier, done_barrier, thread>>
  PROVE  LifeInv'
<1>1. RoundsInv'
  BY DEF LifeInv, RoundsInv, Collecting, Past
<1>2. MarkInv' /\ DoneInv'
  BY DEF LifeInv, MarkInv, DoneInv, Released, Collecting
<1> QED
  BY <1>1, <1>2 DEF LifeInv

LEMMA RequestLife ==
  ASSUME LifeInv, CollectSerial \/ EndCollection \/ Cinder_DisableParallelGC PROVE LifeInv'
<1> USE DEF LifeInv, CollectSerial, EndCollection, Cinder_DisableParallelGC, state
<1>1. TypeOK' /\ ~Collecting /\ ~Collecting'
  BY DEF TypeOK, Collecting
<1>2. StateInv'
  BY DEF StateInv, Collecting, Live, Started
<1> QED
  BY <1>1, <1>2, QuietLife

LEMMA DestroyLife == ASSUME LifeInv, Ci_ParGCState_Destroy PROVE LifeInv'
<1> USE DEF LifeInv, Ci_ParGCState_Destroy
<1>1. TypeOK' /\ ~Collecting /\ ~Collecting'
  BY DEF TypeOK, Collecting
<1>2. Started \in SUBSET Thread
  BY DEF Started, Live
<1>3. Started = {}
  BY <1>2, ThreadsFinite, FS_EmptySet DEF StateInv
<1>4. ASSUME NEW t \in Live PROVE FALSE
  <2>1. t \in Thread /\ thread[t].pc = "start"
    BY <1>3, <1>4 DEF Started, Live
  <2> QED
    BY <1>1, <2>1, Current
<1>5. Live' = {} /\ Started' = Started
  BY <1>4 DEF Live, Started
<1>6. StateInv'
  <2>1. ~enabled' /\ pc' # "destroy"
    BY DEF StateInv, TypeOK
  <2>2. \A s \in freed' : s <= par_gc'
    BY DEF StateInv, TypeOK
  <2>3. num_workers_active' = Cardinality(Started)'
    BY <1>5 DEF StateInv
  <2> QED
    BY <1>1, <1>5, <2>1, <2>2, <2>3 DEF StateInv
<1> QED
  BY <1>1, <1>6, QuietLife

LEMMA RefusedLife == ASSUME LifeInv, EnableRefused PROVE LifeInv'
<1> USE DEF LifeInv, EnableRefused, main
<1>1. par_gc \in Nat /\ freed' = freed \cup {par_gc + 1} /\ par_gc' = par_gc + 1
  BY DEF TypeOK
<1>2. TypeOK' /\ ~Collecting /\ ~Collecting'
  BY <1>1 DEF TypeOK, Collecting
<1>3. Live = {} /\ Live' = {} /\ Started' = Started
  BY DEF StateInv, Live, Started
<1>4. \A s \in freed' : s <= par_gc'
  BY <1>1 DEF StateInv, TypeOK
<1>5. StateInv'
  BY <1>2, <1>3, <1>4 DEF StateInv
<1> QED
  BY <1>2, <1>5, QuietLife

LEMMA CollectLife == ASSUME LifeInv, CollectParallel PROVE LifeInv'
<1> USE DEF LifeInv, CollectParallel, state
<1>1. TypeOK' /\ ~Collecting /\ Collecting' /\ ~Released' /\ round \in Nat /\ round' = round + 1
  BY DEF TypeOK, Collecting, Released
<1>2. \A w \in Worker : <<round', w>> \in Thread /\ thread'[<<round', w>>].pc = "none"
  BY <1>1, LifeAssumption DEF RoundsInv, Thread, Round
<1>3. RoundsInv'
  <2>1. \A t \in Thread : t[1] > round' => thread'[t].pc = "none"
    BY <1>1, ThreadOfRound DEF RoundsInv
  <2>2. \A t \in Thread : t[1] < round' => Past(t)'
    BY <1>1, ThreadOfRound DEF RoundsInv, Past
  <2>3. round' \in Round /\ spawned' \in 0 .. NumWorkers
    BY <1>1, LifeAssumption DEF Round
  <2>4. \A w \in Worker : w > spawned'
    BY DEF Worker
  <2> QED
    BY <1>1, <1>2, <2>1, <2>2, <2>3, <2>4 DEF RoundsInv
<1>4. MarkArrived' = {} /\ DoneArrived' = {}
  BY <1>2 DEF MarkArrived, DoneArrived
<1>5. mark_barrier.num_left = NumWorkers /\ done_barrier.num_left = NumWorkers + 1 /\ enabled
  BY <1>1 DEF MarkInv, DoneInv
<1>6. Cardinality({}) = 0 /\ {} # Worker
  BY FS_EmptySet, LifeAssumption DEF Worker
<1>7. MarkInv'
  BY <1>1, <1>4, <1>5, <1>6, LifeAssumption DEF MarkInv
<1>8. DoneInv'
  BY <1>1, <1>4, <1>5, <1>6, LifeAssumption DEF DoneInv
<1>9. StateInv'
  BY <1>1, <1>5 DEF StateInv, Live, Started
<1> QED
  BY <1>1, <1>3, <1>7, <1>8, <1>9

LEMMA SpawnLife == ASSUME LifeInv, Spawn PROVE LifeInv'
<1> USE DEF LifeInv, Spawn, state
<1> DEFINE new == <<round, spawned + 1>>
<1>0. PICK t : t = new
  OBVIOUS
<1>1. t \in Thread /\ spawned + 1 \in Worker /\ thread[t].pc = "none"
  BY <1>0, LifeAssumption DEF RoundsInv, Collecting, Thread, Worker
<1>2. /\ thread' \in [Thread -> Record]
      /\ thread'[t].pc = "start" /\ thread'[t].par_gc = par_gc
      /\ \A u \in Thread : u # t => thread'[u] = thread[u]
  BY <1>0, <1>1 DEF TypeOK, Record, WorkerPC
<1>3. TypeOK' /\ Collecting /\ Collecting' /\ ~Released /\ ~Released' /\ round' = round
  BY <1>2 DEF TypeOK, Collecting, Released
<1>4. RoundsInv'
  <2>1. \A u \in Thread : u[1] # round => thread'[u] = thread[u]
    BY <1>0, <1>2
  <2>2. \A u \in Thread : u[1] > round' => thread'[u].pc = "none"
    BY <1>3, <2>1 DEF RoundsInv, TypeOK
  <2>3. \A u \in Thread : u[1] < round' => Past(u)'
    BY <1>3, <2>1, ThreadOfRound DEF RoundsInv, Past, TypeOK
  <2>4. \A w \in Worker : thread'[<<round', w>>].pc = "none" <=> w > spawned'
    <3> SUFFICES ASSUME NEW w \in Worker
                 PROVE  thread'[<<round, w>>].pc = "none" <=> w > spawned + 1
      BY <1>3
    <3>1. <<round, w>> \in Thread /\ w \in Nat /\ spawned \in Nat
      BY <1>3 DEF RoundsInv, Thread, Worker, TypeOK
    <3>2. CASE w = spawned + 1
      BY <1>0, <1>2, <3>1, <3>2
    <3>3. CASE w # spawned + 1
      BY <1>0, <1>2, <3>1, <3>3 DEF RoundsInv
    <3> QED
      BY <3>2, <3>3
  <2> QED
    BY <1>1, <1>3, <2>2, <2>3, <2>4 DEF RoundsInv, Worker
<1>5. MarkArrived' = MarkArrived /\ DoneArrived' = DoneArrived
  BY <1>0, <1>1, <1>2, <1>3 DEF MarkArrived, DoneArrived, RoundsInv, Thread
<1>6. \A w \in MarkArrived : thread'[<<round, w>>] = thread[<<round, w>>]
  BY <1>0, <1>1, <1>2, <1>3 DEF MarkArrived, RoundsInv, Thread
<1>7. DoneArrived \subseteq MarkArrived
  BY DEF DoneArrived, MarkArrived
<1>8. MarkInv'
  BY <1>3, <1>5, <1>6 DEF MarkInv
<1>9. DoneInv'
  BY <1>3, <1>5, <1>6, <1>7 DEF DoneInv
<1>10. StateInv'
  <2>1. Started' = Started
    BY <1>1, <1>2 DEF Started, Live
  <2>2. \A u \in Live' : thread'[u].par_gc = par_gc'
    BY <1>1, <1>2 DEF StateInv, Live
  <2> QED
    BY <1>3, <2>1, <2>2 DEF StateInv
<1> QED
  BY <1>3, <1>4, <1>8, <1>9, <1>10

\* All workers are past done_barrier, so they were at mark_barrier as well.
LEMMA ReleasedMain ==
  ASSUME LifeInv, Collecting, TypeOK', pc' = "finalizers",
         \A w \in Worker : Past(<<round, w>>)',
         \A t \in Thread : Past(t) => Past(t)',
         done_barrier'.num_left = NumWorkers + 1,
         UNCHANGED <<round, spawned, state, mark_barrier, num_workers_active, thread>>
  PROVE  LifeInv'
<1> USE DEF LifeInv
<1>1. RoundsInv'
  BY ThreadOfRound DEF RoundsInv, Collecting
<1>2. MarkArrived = Worker
  BY DEF MarkArrived, Past
<1>3. MarkInv' /\ DoneInv'
  BY <1>2 DEF MarkInv, DoneInv, StateInv, Released, Collecting, state
<1>4. StateInv'
  BY DEF StateInv, Collecting, Live, Started, state
<1> QED
  BY <1>1, <1>3, <1>4

LEMMA MainArriveLife == ASSUME LifeInv, MainArrive PROVE LifeInv'
<1> USE DEF LifeInv, MainArrive
<1>1. Collecting /\ ~Released /\ enabled /\ DoneArrived \in SUBSET Worker
  BY DEF Collecting, Released, StateInv, DoneArrived
<1>2. /\ Cardinality(DoneArrived) \in 0 .. NumWorkers
      /\ Cardinality(DoneArrived) = NumWorkers <=> DoneArrived = Worker
  BY <1>1, Counting
<1>3. done_barrier.num_left = NumWorkers + 1 - Cardinality(DoneArrived)
  BY <1>1 DEF DoneInv
<1>4. /\ done_barrier \in Barrier /\ done_barrier.num_left > 0
      /\ IsLast(done_barrier) <=> DoneArrived = Worker
      /\ done_barrier.epoch \in Nat
  BY <1>2, <1>3, LifeAssumption DEF TypeOK, IsLast, Barrier
<1>5. /\ done_barrier' \in Barrier
      /\ IsLast(done_barrier) => done_barrier'.num_left = NumWorkers + 1 /\ done_barrier'.epoch = done_barrier.epoch + 1
      /\ ~IsLast(done_barrier) => done_barrier'.num_left = done_barrier.num_left - 1 /\ done_barrier'.epoch = done_barrier.epoch
  BY <1>4, ArriveBarrier, LifeAssumption
<1>6. TypeOK'
  BY <1>4, <1>5 DEF TypeOK, state
<1>7. \A t \in Thread : Past(t) => Past(t)'
  BY <1>4, <1>5 DEF Past, TypeOK, Record
<1>8. CASE DoneArrived = Worker
  <2>1. \A w \in Worker : Past(<<round, w>>)'
    BY <1>1, <1>4, <1>5, <1>8 DEF DoneInv, Past
  <2> QED
    BY <1>1, <1>4, <1>5, <1>6, <1>7, <1>8, <2>1, ReleasedMain
<1>9. CASE DoneArrived # Worker
  <2>1. pc' = "wait" /\ Collecting' /\ ~Released' /\ UNCHANGED <<round, spawned, state, mark_barrier, num_workers_active, thread>>
    BY <1>4, <1>5, <1>9 DEF Collecting, Released
  <2>2. \A w \in Worker : ~(w > spawned)
    BY LifeAssumption DEF Worker
  <2>3. RoundsInv'
    BY <1>1, <1>7, <2>1, <2>2 DEF RoundsInv
  <2>4. MarkInv'
    BY <1>1, <2>1 DEF MarkInv, MarkArrived, state
  <2>5. DoneArrived' = DoneArrived
    BY <2>1 DEF DoneArrived
  <2>6. DoneInv'
    BY <1>1, <1>2, <1>3, <1>4, <1>5, <1>9, <2>1, <2>5, LifeAssumption DEF DoneInv
  <2>7. StateInv'
    BY <1>1, <2>1 DEF StateInv, Live, Started, state
  <2> QED
    BY <1>6, <2>3, <2>4, <2>6, <2>7
<1> QED
  BY <1>8, <1>9

LEMMA MainLeaveLife == ASSUME LifeInv, MainLeave PROVE LifeInv'
<1>1. Collecting /\ Released /\ enabled
  BY DEF LifeInv, MainLeave, Collecting, Released, StateInv
<1>2. TypeOK'
  BY DEF LifeInv, MainLeave, TypeOK, state
<1>3. \A t : Past(t) => Past(t)'
  BY DEF MainLeave, Past
<1>4. \A w \in Worker : Past(<<round, w>>)'
  BY <1>1 DEF LifeInv, DoneInv, MainLeave, Past
<1> QED
  BY <1>1, <1>2, <1>3, <1>4, ReleasedMain DEF LifeInv, MainLeave, DoneInv

-----------------------------------------------------------------------------
(* The workers.                                                             *)

LEMMA StartLife == ASSUME LifeInv, NEW t \in Thread, Start(t) PROVE LifeInv'
<1> USE DEF LifeInv
<1>1. /\ thread[t].pc = "start" /\ Moved(t, "subtract", thread[t].epoch)
      /\ UNCHANGED <<main, state, mark_barrier, done_barrier>>
      /\ num_workers_active' = num_workers_active + 1
  BY AtMoves DEF Start, At, WorkerPC
<1>2. Collecting /\ Collecting' /\ t[1] = round /\ t[2] \in Worker /\ t = <<round, t[2]>>
  BY <1>1, Current DEF main, Collecting
<1>3. TypeOK'
  BY <1>1 DEF TypeOK, Moved, main, state
<1>4. RoundsInv'
  BY <1>1, <1>2 DEF RoundsInv, Moved, Past, main, Thread, TypeOK
<1>5. MarkArrived' = MarkArrived /\ DoneArrived' = DoneArrived
  BY <1>1, <1>2 DEF MarkArrived, DoneArrived, Moved, RoundsInv, main, Thread
<1>6. \A w \in MarkArrived : thread'[<<round, w>>] = thread[<<round, w>>]
  BY <1>1, <1>2 DEF MarkArrived, Moved, RoundsInv, Thread
<1>7. MarkInv'
  BY <1>1, <1>2, <1>5, <1>6 DEF MarkInv, main, state
<1>8. DoneInv'
  <2>1. DoneArrived \subseteq MarkArrived
    BY DEF DoneArrived, MarkArrived
  <2>2. Released' = Released /\ round' = round
    BY <1>1 DEF Released, main
  <2>3. ~Released
    BY <1>1, <1>2 DEF DoneInv, Past
  <2> QED
    BY <1>1, <1>2, <1>5, <1>6, <2>1, <2>2, <2>3 DEF DoneInv, main, state
<1>9. StateInv'
  <2>1. Started' = Started \cup {t} /\ t \notin Started /\ Started \in SUBSET Thread /\ Live' = Live
    BY <1>1 DEF Started, Live, Moved
  <2>2. Cardinality(Started') = Cardinality(Started) + 1
    BY <2>1, ThreadsFinite, FS_AddElement
  <2>3. \A u \in Live' : thread'[u].par_gc = par_gc
    BY <1>1, <2>1 DEF StateInv, Moved, Live
  <2> QED
    BY <1>1, <1>2, <2>1, <2>2, <2>3 DEF StateInv, main, state
<1> QED
  BY <1>3, <1>4, <1>7, <1>8, <1>9

\* Steps between two barriers leave the count of active workers alone.
LEMMA StillStarted ==
  ASSUME LifeInv, NEW t \in Thread, NEW p \in {"mark_barrier", "mark", "done_barrier", "exit"}, NEW e,
         thread[t].pc \in {"subtract", "mark_barrier", "mark", "done_barrier"},
         Moved(t, p, e), UNCHANGED <<main, state, num_workers_active>>
  PROVE  StateInv'
<1>1. Live' = Live /\ Started' = Started
  BY DEF Live, Started, Moved
<1>2. \A u \in Live' : thread'[u].par_gc = par_gc
  BY <1>1 DEF LifeInv, StateInv, Moved, Live
<1> QED
  BY <1>1, <1>2 DEF LifeInv, StateInv, Collecting, main, state

LEMMA MarkArriveLife == ASSUME LifeInv, NEW t \in Thread, MarkArrive(t) PROVE LifeInv'
<1> USE DEF LifeInv
<1>1. thread[t].pc = "subtract" /\ UNCHANGED <<main, state, done_barrier, num_workers_active>>
  BY DEF MarkArrive
<1>2. /\ Collecting /\ Collecting' /\ t[1] = round /\ t[2] \in Worker /\ t = <<round, t[2]>>
      /\ round' = round /\ enabled /\ enabled' = enabled
  BY <1>1, Current DEF main, state, Collecting, StateInv
<1>3. MarkArrived \in SUBSET Worker /\ t[2] \notin MarkArrived
  BY <1>1, <1>2 DEF MarkArrived
<1>4. /\ MarkArrived # Worker /\ Cardinality(MarkArrived) \in 0 .. NumWorkers - 1
      /\ Cardinality(MarkArrived \cup {t[2]}) = Cardinality(MarkArrived) + 1
      /\ Cardinality(MarkArrived) + 1 = NumWorkers <=> MarkArrived \cup {t[2]} = Worker
  BY <1>2, <1>3, OneMore
<1>5. /\ mark_barrier.num_left = NumWorkers - Cardinality(MarkArrived)
      /\ \A w \in MarkArrived : /\ thread[<<round, w>>].pc = "mark_barrier"
                                /\ thread[<<round, w>>].epoch = mark_barrier.epoch
  BY <1>2, <1>4 DEF MarkInv
<1>6. /\ mark_barrier \in Barrier /\ mark_barrier.num_left > 0 /\ mark_barrier.epoch \in Nat
      /\ IsLast(mark_barrier) <=> MarkArrived \cup {t[2]} = Worker
  BY <1>4, <1>5, LifeAssumption DEF TypeOK, IsLast, Barrier
<1>7. /\ mark_barrier' \in Barrier
      /\ IsLast(mark_barrier) => mark_barrier'.num_left = NumWorkers
      /\ ~IsLast(mark_barrier) => /\ mark_barrier'.num_left = mark_barrier.num_left - 1
                                  /\ mark_barrier'.epoch = mark_barrier.epoch
  BY <1>6, ArriveBarrier, LifeAssumption DEF MarkArrive
<1>8. PICK p \in {"mark_barrier", "mark"} :
        /\ p = IF IsLast(mark_barrier) THEN "mark" ELSE "mark_barrier"
        /\ Moved(t, p, mark_barrier.epoch)
  BY <1>6, ArriveMoves DEF MarkArrive, WorkerPC
<1>9. TypeOK'
  BY <1>1, <1>7, <1>8 DEF TypeOK, Moved, main, state
<1>10. RoundsInv'
  BY <1>1, <1>2, <1>8 DEF RoundsInv, Moved, Past, main, Thread, TypeOK
<1>11. MarkArrived' = MarkArrived \cup {t[2]} /\ DoneArrived' = DoneArrived
  BY <1>1, <1>2, <1>8 DEF MarkArrived, DoneArrived, Moved, RoundsInv, Thread
<1>12. \A w \in MarkArrived : thread'[<<round, w>>] = thread[<<round, w>>]
  BY <1>2, <1>3, <1>8 DEF Moved, RoundsInv, Thread
<1>13. MarkInv'
  <2>1. CASE IsLast(mark_barrier)
    BY <1>2, <1>6, <1>7, <1>11, <2>1 DEF MarkInv
  <2>2. CASE ~IsLast(mark_barrier)
    <3>1. \A w \in MarkArrived' : /\ thread'[<<round, w>>].pc = "mark_barrier"
                                  /\ thread'[<<round, w>>].epoch = mark_barrier'.epoch
      BY <1>2, <1>5, <1>7, <1>8, <1>11, <1>12, <2>2 DEF Moved
    <3>2. mark_barrier'.num_left = NumWorkers - Cardinality(MarkArrived')
      BY <1>4, <1>5, <1>7, <1>11, <2>2, LifeAssumption
    <3> QED
      BY <1>2, <1>6, <1>11, <2>2, <3>1, <3>2 DEF MarkInv
  <2> QED
    BY <2>1, <2>2
<1>14. DoneInv'
  <2>1. DoneArrived \subseteq MarkArrived
    BY DEF DoneArrived, MarkArrived
  <2>2. Released' = Released
    BY <1>1 DEF Released, main
  <2>3. ~Released
    BY <1>1, <1>2 DEF DoneInv, Past
  <2> QED
    BY <1>1, <1>2, <1>11, <1>12, <2>1, <2>2, <2>3 DEF DoneInv, main
<1>15. StateInv'
  BY <1>1, <1>8, StillStarted
<1> QED
  BY <1>9, <1>10, <1>13, <1>14, <1>15

LEMMA MarkLeaveLife == ASSUME LifeInv, NEW t \in Thread, MarkLeave(t) PROVE LifeInv'
<1> USE DEF LifeInv
<1>1. /\ thread[t].pc = "mark_barrier" /\ Moved(t, "mark", thread[t].epoch)
      /\ mark_barrier.epoch # thread[t].epoch
      /\ UNCHANGED <<main, state, mark_barrier, done_barrier, num_workers_active>>
  BY AtMoves DEF MarkLeave, At, WorkerPC
<1>2. /\ Collecting /\ Collecting' /\ t[1] = round /\ t[2] \in Worker /\ t = <<round, t[2]>>
      /\ round' = round
  BY <1>1, Current DEF main, Collecting
<1>3. MarkArrived = Worker
  BY <1>1, <1>2 DEF MarkInv, MarkArrived
<1>4. TypeOK'
  BY <1>1 DEF TypeOK, Moved, main, state
<1>5. RoundsInv'
  BY <1>1, <1>2 DEF RoundsInv, Moved, Past, main, Thread, TypeOK
<1>6. MarkArrived' = MarkArrived /\ DoneArrived' = DoneArrived
  BY <1>1, <1>2 DEF MarkArrived, DoneArrived, Moved, RoundsInv, Thread
<1>7. \A w \in DoneArrived : thread'[<<round, w>>] = thread[<<round, w>>]
  BY <1>1, <1>2 DEF DoneArrived, Moved, RoundsInv, Thread
<1>8. MarkInv'
  BY <1>1, <1>2, <1>3, <1>6 DEF MarkInv, main, state
<1>9. DoneInv'
  <2>1. Released' = Released
    BY <1>1 DEF Released, main
  <2>2. ~Released
    BY <1>1, <1>2 DEF DoneInv, Past
  <2> QED
    BY <1>1, <1>2, <1>6, <1>7, <2>1, <2>2 DEF DoneInv, main
<1>10. StateInv'
  BY <1>1, StillStarted
<1> QED
  BY <1>4, <1>5, <1>8, <1>9, <1>10

LEMMA DoneArriveLife == ASSUME LifeInv, NEW t \in Thread, DoneArrive(t) PROVE LifeInv'
<1> USE DEF LifeInv
<1>1. thread[t].pc = "mark" /\ UNCHANGED <<main, state, mark_barrier, num_workers_active>>
  BY DEF DoneArrive
<1>2. /\ Collecting /\ Collecting' /\ t[1] = round /\ t[2] \in Worker /\ t = <<round, t[2]>>
      /\ round' = round /\ pc' = pc /\ enabled /\ enabled' = enabled /\ main_epoch' = main_epoch
      /\ round \in Round
  BY <1>1, Current DEF main, state, Collecting, StateInv, RoundsInv
<1>3. DoneArrived \in SUBSET Worker /\ t[2] \notin DoneArrived /\ ~Released /\ MarkArrived = Worker
  BY <1>1, <1>2 DEF DoneArrived, DoneInv, Past, MarkInv, MarkArrived
<1>4. /\ DoneArrived # Worker /\ Cardinality(DoneArrived) \in 0 .. NumWorkers - 1
      /\ Cardinality(DoneArrived \cup {t[2]}) = Cardinality(DoneArrived) + 1
      /\ Cardinality(DoneArrived) + 1 = NumWorkers <=> DoneArrived \cup {t[2]} = Worker
  BY <1>2, <1>3, OneMore
<1>5. /\ done_barrier.num_left =
           NumWorkers + (IF pc = "spawn" THEN 1 ELSE 0) - Cardinality(DoneArrived)
      /\ \A w \in DoneArrived : /\ thread[<<round, w>>].pc = "done_barrier"
                                /\ thread[<<round, w>>].epoch = done_barrier.epoch
  BY <1>2, <1>3 DEF DoneInv
<1>6. /\ done_barrier \in Barrier /\ done_barrier.num_left > 0 /\ done_barrier.epoch \in Nat
      /\ IsLast(done_barrier) <=> (pc = "wait" /\ DoneArrived \cup {t[2]} = Worker)
  BY <1>2, <1>4, <1>5, LifeAssumption DEF TypeOK, IsLast, Barrier, Collecting
<1>7. /\ done_barrier' \in Barrier
      /\ IsLast(done_barrier) => /\ done_barrier'.num_left = NumWorkers + 1
                                 /\ done_barrier'.epoch = done_barrier.epoch + 1
      /\ ~IsLast(done_barrier) => /\ done_barrier'.num_left = done_barrier.num_left - 1
                                  /\ done_barrier'.epoch = done_barrier.epoch
  BY <1>6, ArriveBarrier, LifeAssumption DEF DoneArrive
<1>8. PICK p \in {"done_barrier", "exit"} :
        /\ p = IF IsLast(done_barrier) THEN "exit" ELSE "done_barrier"
        /\ Moved(t, p, done_barrier.epoch)
  BY <1>6, ArriveMoves DEF DoneArrive, WorkerPC
<1>9. TypeOK'
  BY <1>1, <1>7, <1>8 DEF TypeOK, Moved, main, state
<1>10. \A u \in Thread : u # t /\ Past(u) => Past(u)'
  BY <1>6, <1>7, <1>8 DEF Past, Moved, TypeOK, Record
<1>11. RoundsInv'
  <2>1. \A u \in Thread : u[1] > round' => thread'[u].pc = "none"
    BY <1>2, <1>8, ThreadOfRound DEF RoundsInv, Moved, TypeOK
  <2>2. \A u \in Thread : u[1] < round' => Past(u)'
    BY <1>2, <1>10, ThreadOfRound DEF RoundsInv, TypeOK
  <2>3. \A w \in Worker : thread'[<<round, w>>].pc = "none" <=> thread[<<round, w>>].pc = "none"
    BY <1>1, <1>2, <1>8 DEF Moved, Thread
  <2> QED
    BY <1>1, <1>2, <2>1, <2>2, <2>3 DEF RoundsInv, main
<1>12. MarkArrived' = MarkArrived /\ DoneArrived' = DoneArrived \cup {t[2]}
  BY <1>1, <1>2, <1>8 DEF MarkArrived, DoneArrived, Moved, Thread
<1>13. \A w \in DoneArrived : thread'[<<round, w>>] = thread[<<round, w>>]
  BY <1>2, <1>3, <1>8 DEF Moved, Thread
<1>14. MarkInv'
  BY <1>1, <1>2, <1>3, <1>12 DEF MarkInv
<1>15. DoneInv'
  <2>1. CASE IsLast(done_barrier)
    <3>1. Released' /\ DoneArrived \cup {t[2]} = Worker
      BY <1>2, <1>3, <1>6, <1>7, <2>1 DEF Released
    <3>2. ASSUME NEW w \in Worker PROVE Past(<<round, w>>)'
      <4>1. CASE w = t[2]
        BY <1>2, <1>8, <2>1, <4>1 DEF Past, Moved
      <4>2. CASE w \in DoneArrived
        <5>1. /\ thread'[<<round, w>>].pc = "done_barrier"
              /\ thread'[<<round, w>>].epoch = done_barrier.epoch
          BY <1>5, <1>13, <4>2
        <5> QED
          BY <1>2, <1>6, <1>7, <2>1, <5>1 DEF Past
      <4> QED
        BY <3>1, <4>1, <4>2
    <3> QED
      BY <1>7, <2>1, <3>1, <3>2 DEF DoneInv
  <2>2. CASE ~IsLast(done_barrier)
    <3>1. ~Released'
      BY <1>2, <1>3, <1>7, <2>2 DEF Released
    <3>2. \A w \in DoneArrived' : /\ thread'[<<round, w>>].pc = "done_barrier"
                                  /\ thread'[<<round, w>>].epoch = done_barrier'.epoch
      BY <1>2, <1>5, <1>7, <1>8, <1>12, <1>13, <2>2 DEF Moved
    <3>3. done_barrier'.num_left =
            NumWorkers + (IF pc = "spawn" THEN 1 ELSE 0) - Cardinality(DoneArrived')
      BY <1>4, <1>5, <1>7, <1>12, <2>2, LifeAssumption
    <3>4. pc = "wait" => DoneArrived' # Worker
      BY <1>6, <1>12, <2>2
    <3> QED
      BY <1>2, <3>1, <3>2, <3>3, <3>4 DEF DoneInv
  <2> QED
    BY <2>1, <2>2
<1>16. StateInv'
  BY <1>1, <1>8, StillStarted
<1> QED
  BY <1>9, <1>11, <1>14, <1>15, <1>16

\* A released thread, of this or an earlier collection, goes on.
LEMMA PastMoves ==
  ASSUME LifeInv, NEW t \in Thread, NEW p \in {"exit", "gone"},
         \/ thread[t].pc = "done_barrier" /\ done_barrier.epoch # thread[t].epoch
         \/ thread[t].pc = "exit",
         Moved(t, p, thread[t].epoch), UNCHANGED <<main, state, mark_barrier, done_barrier>>
  PROVE  TypeOK' /\ RoundsInv' /\ MarkInv' /\ DoneInv'
<1> USE DEF LifeInv
<1>1. /\ Collecting' = Collecting /\ Released' = Released /\ round' = round /\ pc' = pc
      /\ enabled' = enabled /\ spawned' = spawned
  BY DEF Collecting, Released, main, state
<1>2. TypeOK'
  BY DEF TypeOK, Moved, main, state
<1>3. \A u \in Thread : Past(u) => Past(u)'
  BY DEF Past, Moved
<1>4. t[1] \in Nat /\ t[2] \in Worker /\ t = <<t[1], t[2]>> /\ ~(t[1] > round)
  BY ThreadOfRound DEF RoundsInv
<1>5. Collecting /\ t[1] = round => Released /\ MarkArrived = Worker
  BY <1>4 DEF DoneInv, DoneArrived, MarkInv, MarkArrived
<1>6. Collecting => round \in Round
  BY DEF RoundsInv
<1>7. ASSUME Collecting
      PROVE  /\ MarkArrived' = MarkArrived /\ DoneArrived' = DoneArrived
             /\ \A w \in Worker : thread'[<<round, w>>].pc = "none" <=> thread[<<round, w>>].pc = "none"
  BY <1>1, <1>6, <1>7 DEF MarkArrived, DoneArrived, Moved, Thread
<1>8. ASSUME Collecting, t[1] # round, NEW w \in Worker
      PROVE  thread'[<<round, w>>] = thread[<<round, w>>]
  BY <1>6, <1>8 DEF Moved, Thread
<1>9. RoundsInv'
  <2>1. \A u \in Thread : u[1] > round => thread'[u].pc = "none"
    BY <1>4 DEF RoundsInv, Moved
  <2> QED
    BY <1>1, <1>3, <1>7, <2>1 DEF RoundsInv, Collecting
<1>10. MarkInv'
  <2>1. MarkArrived \subseteq Worker
    BY DEF MarkArrived
  <2> QED
    BY <1>1, <1>5, <1>7, <1>8, <2>1 DEF MarkInv
<1>11. DoneInv'
  <2>1. DoneArrived \subseteq Worker
    BY DEF DoneArrived
  <2>2. ASSUME Released PROVE \A w \in Worker : Past(<<round, w>>)'
    <3>1. \A w \in Worker : <<round, w>> \in Thread
      BY <1>6, <2>2 DEF Released, Collecting, Thread
    <3> QED
      BY <1>1, <1>3, <2>2, <3>1 DEF DoneInv, Past, Moved
  <2>3. ASSUME Collecting, ~Released, NEW w \in DoneArrived
        PROVE  thread'[<<round, w>>] = thread[<<round, w>>]
    BY <1>5, <1>8, <2>1, <2>3
  <2>4. done_barrier' = done_barrier
    OBVIOUS
  <2> QED
    BY <1>1, <1>7, <2>2, <2>3, <2>4 DEF DoneInv, Released, Collecting
<1> QED
  BY <1>2, <1>9, <1>10, <1>11

LEMMA DoneLeaveLife == ASSUME LifeInv, NEW t \in Thread, DoneLeave(t) PROVE LifeInv'
<1>1. /\ thread[t].pc = "done_barrier" /\ Moved(t, "exit", thread[t].epoch)
      /\ done_barrier.epoch # thread[t].epoch
      /\ UNCHANGED <<main, state, mark_barrier, done_barrier, num_workers_active>>
  BY AtMoves DEF LifeInv, DoneLeave, At, WorkerPC
<1> QED
  BY <1>1, PastMoves, StillStarted DEF LifeInv

LEMMA ExitLife == ASSUME LifeInv, NEW t \in Thread, Exit(t) PROVE LifeInv'
<1>1. /\ thread[t].pc = "exit" /\ Moved(t, "gone", thread[t].epoch)
      /\ UNCHANGED <<main, state, mark_barrier, done_barrier>>
      /\ num_workers_active' = num_workers_active - 1
  BY AtMoves DEF LifeInv, Exit, At, WorkerPC
<1>2. StateInv'
  <2>1. /\ Started' = Started \ {t} /\ t \in Started /\ Started \in SUBSET Thread
        /\ Live' = Live \ {t}
    BY <1>1 DEF Started, Live, Moved
  <2>2. Cardinality(Started') = Cardinality(Started) - 1
    BY <2>1, ThreadsFinite, FS_RemoveElement
  <2>3. \A u \in Live' : thread'[u].par_gc = par_gc
    BY <1>1, <2>1 DEF LifeInv, StateInv, Moved, Live
  <2> QED
    BY <1>1, <2>1, <2>2, <2>3 DEF LifeInv, StateInv, Collecting, main, state
<1> QED
  BY <1>1, <1>2, PastMoves DEF LifeInv

LEMMA LifeNext == LifeInv /\ [Next]_vars => LifeInv'
<1>1. ASSUME LifeInv, UNCHANGED vars PROVE LifeInv'
  BY <1>1 DEF vars, main, state, LifeInv, TypeOK, RoundsInv, MarkInv, DoneInv, StateInv, Collecting,
              Past, MarkArrived, DoneArrived, Released, Live, Started
<1> QED
  BY <1>1, EnableLife, RefusedLife, RequestLife, DestroyLife, CollectLife, SpawnLife, MainArriveLife, MainLeaveLife,
     StartLife, MarkArriveLife, MarkLeaveLife, DoneArriveLife, DoneLeaveLife, ExitLife
     DEF Next, MainStep, Ci_ParGCWorker_Run

LEMMA LifeInvHolds == Spec => []LifeInv
BY LifeInit, LifeNext, PTL DEF Spec

-----------------------------------------------------------------------------
\* Ci_ParGCState_Destroy frees the state and its barriers only when no thread
\* of any collection will touch them again: the spin on num_workers_active is
\* enough, although no thread is joined and a thread counts itself in.
THEOREM StatesOutliveThreads == Spec => []NoUseAfterFree
<1>1. LifeInv => NoUseAfterFree
  BY DEF LifeInv, StateInv, NoUseAfterFree, Live
<1> QED
  BY <1>1, LifeInvHolds, PTL

\* Whoever oversleeps in done_barrier, the main thread has the gc lists to
\* itself outside of the threads' part of a collection, and no thread of an
\* earlier collection counts in the barriers of the current one.
THEOREM MainOwnsLists == Spec => []ListsOwned
<1>1. ASSUME LifeInv, NEW t \in Live PROVE
        /\ t \in Thread /\ thread[t].pc \in WorkerPC \ {"none", "gone"}
        /\ t[1] < round \/ (t[1] = round /\ ~Collecting) => Past(t)
        /\ t[1] \in Nat /\ round \in Nat /\ ~(t[1] > round)
  BY <1>1, ThreadOfRound DEF LifeInv, TypeOK, RoundsInv, Live, Record
<1>2. ASSUME LifeInv, NEW t \in Live, Past(t)
      PROVE  /\ thread[t].pc \in {"done_barrier", "exit"}
             /\ thread[t].pc = "done_barrier" => thread[t].epoch # done_barrier.epoch
  BY <1>1, <1>2 DEF Past, LifeInv, TypeOK, Record, Barrier
<1>3. LifeInv => ListsOwned
  BY <1>1, <1>2 DEF ListsOwned, Collecting
<1> QED
  BY <1>3, LifeInvHolds, PTL

\* In every collection, with whatever state was enabled before it, a worker
\* starts to mark only when all workers have subtracted their references.
THEOREM NoEarlyMark == Spec => []MarkAfterSubtract
<1>1. ASSUME LifeInv, NEW t \in Thread, NEW u \in Thread, t[1] = u[1], thread[t].pc = "mark"
      PROVE  thread[u].pc \notin {"start", "subtract"}
  <2>1. Collecting /\ t[1] = round /\ t[2] \in Worker /\ t = <<round, t[2]>>
    BY <1>1, Current DEF LifeInv
  <2>2. u[2] \in Worker /\ u = <<round, u[2]>>
    BY <1>1, <2>1, ThreadOfRound
  <2>3. MarkArrived = Worker
    BY <1>1, <2>1 DEF LifeInv, MarkInv, MarkArrived
  <2> QED
    BY <2>2, <2>3 DEF MarkArrived
<1>2. LifeInv => MarkAfterSubtract
  BY <1>1 DEF MarkAfterSubtract
<1> QED
  BY <1>2, LifeInvHolds, PTL

-----------------------------------------------------------------------------
(* The spaces.                                                              *)

GCSpec == GCInit /\ [][GCNext]_gcvars

\* The inductive invariant.  A collection is under way (old) exactly while the
\* main thread is between the two searches for unreachable objects, whether or
\* not a finalizer has the collector destroyed.  Objects that were found
\* unreachable have no bit, so that whatever the collection puts back into old
\* space 0 is as it should be.
SpacesInv ==
  /\ DOMAIN list = Obj /\ DOMAIN bit = Obj
  /\ resume \in {"idle", "finalizers"}
  /\ pc = "destroy" => ~enabled
  /\ converted <=> (enabled \/ pc = "destroy")
  /\ old # "idle" <=> (pc = "finalizers" \/ (pc = "destroy" /\ resume = "finalizers"))
  /\ converted => visited_space = 0
  /\ old \in {"idle", "old0", "old1"}
  /\ \A o \in Obj : list[o] = "unreachable" => bit[o] = 0
  /\ ~converted =>
       \A o \in Obj : /\ list[o] = "old0" => bit[o] = 0
                      /\ list[o] = "old1" => bit[o] = 1 \/ o \in strays

LEMMA SpacesInit == GCInit => SpacesInv
BY DEF GCInit, Init, Spaces!Init, SpacesInv

LEMMA SpacesNext == SpacesInv /\ [GCNext]_gcvars => SpacesInv'
<1> SUFFICES ASSUME SpacesInv, [GCNext]_gcvars PROVE SpacesInv'
  OBVIOUS
<1>1. CASE Enable
  BY <1>1 DEF SpacesInv, Enable, Cinder_EnableParallelGC, Spaces!Cinder_EnableParallelGC, main
<1>2. CASE Destroy
  BY <1>2 DEF SpacesInv, Destroy, Ci_ParGCState_Destroy, Spaces!Ci_ParGCState_Destroy,
              Spaces!RestoreSpaces
<1>10. CASE Refused
  BY <1>10 DEF SpacesInv, Refused, EnableRefused, Spaces!EnableRefused, Spaces!RestoreSpaces, main
<1>3. CASE Deduced
  <2>1. enabled' = enabled /\ pc' = "finalizers" /\ pc \in {"idle", "spawn", "wait"}
    BY <1>3 DEF Deduced, CollectSerial, MainLeave, MainArrive, state
  <2>2. /\ DOMAIN list' = Obj /\ DOMAIN bit' = Obj
    BY <1>3 DEF Deduced, Spaces!CollectBegin
  <2>3. resume' = resume
    BY <1>3 DEF Deduced, CollectSerial, MainLeave, MainArrive
  <2>4. /\ converted /\ converted' = converted /\ old' \in {"old0", "old1"}
        /\ visited_space' = visited_space
    BY <1>3 DEF Deduced, Spaces!CollectBegin, Spaces!GEN_HEAD
  <2>5. \A o \in Obj : list'[o] = "unreachable" => bit'[o] = 0
    BY <1>3, <2>4 DEF SpacesInv, Deduced, Spaces!CollectBegin
  <2> QED
    BY <2>1, <2>2, <2>3, <2>4, <2>5 DEF SpacesInv
<1>4. CASE Finish
  <2>1. /\ UNCHANGED <<resume, enabled, converted, visited_space>>
        /\ pc = "finalizers" /\ pc' = "idle" /\ old' = "idle" /\ old \in {"old0", "old1"}
    BY <1>4 DEF SpacesInv, Finish, EndCollection, Spaces!CollectEnd, state
  <2>2. /\ DOMAIN list' = Obj /\ DOMAIN bit' = Obj
        /\ \A o \in Obj : bit'[o] = IF list'[o] = "none" THEN 0 ELSE bit[o]
        /\ \A o \in Obj : IF list[o] = "unreachable" THEN list'[o] \in {old, "none"}
                           ELSE list'[o] = list[o]
    BY <1>4 DEF Finish, Spaces!CollectEnd, Spaces!In
  <2>3. ~converted => strays' = strays \cup {o \in Spaces!In("unreachable") : list'[o] = "old1"}
    BY <1>4 DEF Finish
  <2>4. \A o \in Obj : list'[o] # "unreachable"
    BY <2>1, <2>2
  <2>5. ASSUME ~converted, NEW o \in Obj
        PROVE  /\ list'[o] = "old0" => bit'[o] = 0
               /\ list'[o] = "old1" => bit'[o] = 1 \/ o \in strays'
    BY <2>1, <2>2, <2>3, <2>5 DEF SpacesInv, Spaces!In
  <2> QED
    BY <2>1, <2>2, <2>4, <2>5 DEF SpacesInv
<1>5. CASE MainAlone
  BY <1>5 DEF SpacesInv, MainAlone, Alone, Spawn, MainArrive, state, spaces
<1>6. CASE Request
  BY <1>6 DEF SpacesInv, Request, Alone, CollectParallel, Cinder_DisableParallelGC, state, spaces
<1>7. CASE Interpreter
  <2>1. UNCHANGED <<pc, resume, enabled, converted, old>>
    BY <1>7 DEF Interpreter, vars, main, state, Spaces!FlipSpaces, Spaces!Track, Spaces!IncrementalMove
  <2>2. CASE Spaces!FlipSpaces /\ UNCHANGED strays
    BY <2>1, <2>2 DEF SpacesInv, Spaces!FlipSpaces
  <2>3. ASSUME NEW o \in Obj, Spaces!Track(o), UNCHANGED strays PROVE SpacesInv'
    BY <2>1, <2>3 DEF SpacesInv, Spaces!Track
  <2>4. ASSUME NEW o \in Obj, Spaces!IncrementalMove(o), strays' = strays \ {o}
        PROVE  SpacesInv'
    <3>1. PICK s \in {0, 1} : /\ list' = [list EXCEPT ![o] = Spaces!GEN_HEAD(s + 1)]
                              /\ bit' = [bit EXCEPT ![o] = s]
      BY <2>4 DEF Spaces!IncrementalMove
    <3>2. Spaces!GEN_HEAD(0 + 1) = "old0" /\ Spaces!GEN_HEAD(1 + 1) = "old1"
      BY DEF Spaces!GEN_HEAD
    <3>3. list'[o] = (IF s = 0 THEN "old0" ELSE "old1") /\ bit'[o] = s
      BY <3>1, <3>2 DEF SpacesInv
    <3>4. \A x \in Obj : x # o => /\ list'[x] = list[x] /\ bit'[x] = bit[x]
                                  /\ x \in strays' <=> x \in strays
      BY <2>4, <3>1
    <3>5. DOMAIN list' = Obj /\ DOMAIN bit' = Obj /\ visited_space' = visited_space
      BY <2>4, <3>1 DEF SpacesInv, Spaces!IncrementalMove
    <3> QED
      BY <2>1, <3>3, <3>4, <3>5 DEF SpacesInv
  <2> QED
    BY <1>7, <2>2, <2>3, <2>4 DEF Interpreter
<1>8. ASSUME NEW t \in Thread, WorkerRun(t) PROVE SpacesInv'
  BY <1>8 DEF SpacesInv, WorkerRun, Alone, Ci_ParGCWorker_Run, Start, MarkArrive, MarkLeave,
              DoneArrive, DoneLeave, Exit, main, state, spaces
<1>9. CASE UNCHANGED gcvars
  BY <1>9 DEF SpacesInv, gcvars, vars, main, state, spaces
<1> QED
  BY <1>1, <1>2, <1>3, <1>4, <1>5, <1>6, <1>7, <1>8, <1>9, <1>10 DEF GCNext

\* Whatever enables, collects, disables or is refused in whatever order: the
\* assertion on visited_space holds whenever an installed collector is
\* destroyed, and the incremental collector finds every object of an old space
\* marked with the number of that space, but for those that a collection put
\* back after one of its finalizers had destroyed the collector.
THEOREM SpacesComeBack == GCSpec => []SpacesRestored
<1>1. SpacesInv => SpacesRestored
  BY DEF SpacesInv, SpacesRestored, Spaces!FlippedWhileEnabled
<1> QED
  BY <1>1, SpacesInit, SpacesNext, PTL DEF GCSpec

\* Converting the generations never makes the main thread or a worker do what
\* they do not do by themselves, so the threads of the composed collector are
\* safe: no state is freed under a thread, no list is changed under one, and
\* no worker marks early (Cinder_EnableParallelGC, Ci_ParGCState_Destroy).
THEOREM ThreadsSafeInGC == GCSpec => [](NoUseAfterFree /\ ListsOwned /\ MarkAfterSubtract)
<1>1. [GCNext]_gcvars => [Next]_vars
  BY DEF GCNext, gcvars, Enable, Refused, Destroy, Deduced, Finish, MainAlone, Request, Interpreter, Alone,
         WorkerRun, Next, MainStep
<1>2. GCSpec => Spec
  BY <1>1, PTL DEF GCSpec, GCInit, Spec
<1> QED
  BY <1>2, StatesOutliveThreads, MainOwnsLists, NoEarlyMark, PTL
==============================================================================
