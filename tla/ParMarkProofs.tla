---------------------------- MODULE ParMarkProofs ----------------------------
(***************************************************************************)
(* Proofs about ParMark, for every heap and any number of objects and      *)
(* workers: the parallel collector marks exactly what is reachable, and    *)
(* does not stop before.                                                   *)
(*                                                                         *)
(* Two arguments meet.  The barriers, the semaphore and the counter        *)
(* num_workers_marking tell which worker can be where: the counter is the  *)
(* number of marking workers and of wake-ups on their way, so that 0 means *)
(* that nobody has an object left to visit.  And during marking everything *)
(* a marked object refers to is marked too, or some worker has still to    *)
(* visit the reference; every unmarked root is still ahead of the worker   *)
(* in whose slice it is.  When nobody has anything left to visit, the      *)
(* marked objects are therefore closed under references.                   *)
(***************************************************************************)
EXTENDS ParMark, FiniteSetTheorems, TLAPS

Early == {"none", "run", "subtract"}
Visits == {"visit", "visit_mark", "visit_push"}
Busy == {"slice", "slice_mark", "take", "steal"} \cup Visits
Coords == {"coord", "coord_last", "coord_size", "coord_post", "coord_drop"}
Finished == {"done_wait", "leave", "exited"}

Locs ==
  {"none", "run", "subtract", "mark_wait", "slice", "slice_mark", "visit",
   "visit_mark", "visit_push", "take", "steal", "quit", "sema", "coord",
   "coord_last", "coord_size", "coord_post", "coord_drop", "loop", "done",
   "done_wait", "leave", "exited"}

TypeHeap ==
  /\ num_workers \in 1 .. MaxWorkers
  /\ refs \in [Obj -> SUBSET Obj]
  /\ ext \in [Obj -> {0, 1}]

TypeShared ==
  /\ gc_refs \in [Obj -> Int]
  /\ collecting \in [Obj -> BOOLEAN]
  /\ num_workers_marking \in Nat
  /\ tokens_left \in Nat
  /\ steal_coordinator \in Worker \cup {NoWorker}
  /\ num_left \in [mark : Int, done : Int]
  /\ epoch \in [mark : {0, 1}, done : {0, 1}]
  /\ deque \in [AnyWorker -> Seq(Obj)]
  /\ mpc \in {"start", "barrier", "wait", "move", "end"}
  /\ started \in 0 .. num_workers

TypePc == pc \in [AnyWorker -> Locs]

TypeLocals ==
  /\ ep \in [AnyWorker -> Nat]
  /\ pos \in [AnyWorker -> Nat]
  /\ obj \in [AnyWorker -> Nat]
  /\ todo \in [AnyWorker -> SUBSET Obj]
  /\ ret \in [AnyWorker -> {"slice", "take"}]
  /\ start \in [AnyWorker -> Nat]
  /\ n \in [AnyWorker -> Nat]
  /\ work \in [AnyWorker -> Nat]

TypeInv == TypeHeap /\ TypeShared /\ TypePc /\ TypeLocals

\* w has still to scan its slice for roots, from pos[w] on.
Scanning(w) ==
  \/ pc[w] \in {"mark_wait", "slice", "slice_mark"}
  \/ pc[w] \in Visits /\ ret[w] = "slice"

\* What a worker's own state looks like at each label.
LocalOK(w) ==
  /\ pc[w] = "subtract" \/ Scanning(w) => pos[w] \in SliceStart(w) .. SliceEnd(w)
  /\ pc[w] = "slice_mark" => pos[w] # SliceEnd(w)
  /\ pc[w] \in {"visit_mark", "visit_push"} => obj[w] \in todo[w]
  /\ todo[w] # {} => pc[w] \in Visits
  /\ deque[w] # <<>> => pc[w] \in {"slice", "slice_mark", "take"} \cup Visits
  /\ pc[w] = "mark_wait" => ep[w] = 0 /\ pos[w] = SliceStart(w)

LocalInv == \A w \in Worker : LocalOK(w)

\* Threads are started in order.
StartInv ==
  /\ (mpc = "start") <=> (started # num_workers)
  /\ \A w \in Worker : pc[w] = "none" <=> w >= started

\* There is one coordinator.  One that has read 1 still reads 1.
CoordInv ==
  /\ \A w \in Worker : pc[w] \in Coords <=> steal_coordinator = w
  /\ \A w \in Worker : pc[w] = "coord_last" => num_workers_marking = 1 /\ n[w] = 1

\* num_workers_marking while there are marking workers and afterwards.  Not
\* everybody who counts is about to quit: whoever goes to sleep leaves a
\* coordinator behind.
CountInv ==
  /\ num_workers_marking = 0 =>
       \A w \in Worker :
         pc[w] \in {"sema", "loop", "coord_post", "coord_drop", "done"} \cup Finished
  /\ num_workers_marking # 0 =>
       /\ num_workers_marking = Cardinality(Marking) + tokens_left + posting
       /\ \A w \in Worker : pc[w] \notin {"done"} \cup Finished
       /\ \E w \in Worker : pc[w] \notin {"sema", "quit"}

MarkBarrierInv ==
  /\ epoch["mark"] = 0 =>
       /\ \A w \in Worker : pc[w] \in Early \cup {"mark_wait"}
       /\ num_left["mark"] = Cardinality({w \in Worker : pc[w] \in Early})
  /\ epoch["mark"] = 1 => \A w \in Worker : pc[w] \notin Early

DoneBarrierInv ==
  /\ epoch["done"] = 0 =>
       /\ mpc \in {"start", "barrier", "wait"}
       /\ num_left["done"] = Cardinality({w \in Worker : pc[w] \notin Finished})
                               + (IF mpc = "wait" THEN 0 ELSE 1)
  /\ epoch["done"] = 1 =>
       /\ mpc \notin {"start", "barrier"}
       /\ \A w \in Worker : pc[w] \in Finished

\* The objects whose references are still in the counts.
Unsubtracted ==
  {p \in Obj : \E w \in Worker :
     /\ p \in Slice(w)
     /\ pc[w] \in {"none", "run"} \/ (pc[w] = "subtract" /\ pos[w] <= p)}

SubtractInv ==
  epoch["mark"] = 0 =>
    \A o \in Obj :
      /\ collecting[o]
      /\ gc_refs[o] = ext[o] + Cardinality({p \in Unsubtracted : o \in refs[p]})

Elems(s) == {s[i] : i \in 1 .. Len(s)}

\* Worker w has still to visit the reference of p to q.
Grey(w, p, q) ==
  \/ p \in Elems(deque[w])
  \/ pc[w] = "visit_push" /\ obj[w] = p
  \/ q \in todo[w]

\* During marking: gc_refs of an object is 1 when it is marked and else tells
\* whether it is a root.
MarksOK == \A o \in Obj : gc_refs[o] = IF collecting[o] THEN ext[o] ELSE 1

MarkedOK == \A o \in Obj : ~ collecting[o] => o \in Reachable

\* What a worker holds is marked or reachable.
HeldOK(w) ==
  /\ pc[w] = "slice_mark" => ext[pos[w]] = 1
  /\ todo[w] \subseteq Reachable
  /\ \A o \in Elems(deque[w]) : ~ collecting[o]
  /\ pc[w] = "visit_push" => ~ collecting[obj[w]]

\* A root that is not marked yet is ahead of the worker of its slice.
RootsOK ==
  \A o \in Obj : ext[o] = 1 /\ collecting[o] =>
    \E w \in Worker : o \in Slice(w) /\ Scanning(w) /\ pos[w] <= o

\* A reference from a marked object leads to a marked one or is to be visited.
EdgesOK ==
  \A p \in Obj, q \in Obj :
    ~ collecting[p] /\ q \in refs[p] /\ collecting[q] =>
      \E w \in Worker : Grey(w, p, q)

MarkInv ==
  epoch["mark"] = 1 =>
    MarksOK /\ MarkedOK /\ (\A w \in Worker : HeldOK(w)) /\ RootsOK /\ EdgesOK

IInv ==
  /\ TypeInv /\ LocalInv /\ StartInv /\ CoordInv /\ CountInv
  /\ MarkBarrierInv /\ DoneBarrierInv /\ SubtractInv /\ MarkInv

LEMMA Numbers ==
  /\ 0 # 1 /\ 1 # 0 /\ 0 \in {0, 1} /\ 1 \in {0, 1} /\ 1 > 0
  /\ 0 \in Nat /\ 1 \in Nat /\ Nat \subseteq Int /\ {0, 1} \subseteq Nat
OBVIOUS

\* A nonempty set of naturals has a least element.
LEMMA LeastNat ==
  ASSUME NEW S \in SUBSET Nat, S # {}
  PROVE  \E m \in S : \A y \in S : m <= y
  <1>1. IsWellFoundedOn(OpToRel(<, Nat), Nat)
    BY NatLessThanWellFounded, Zenon
  <1>2. PICK m \in S : \A y \in S : ~ (<<y, m>> \in OpToRel(<, Nat))
    BY <1>1, WFMin, Zenon
  <1>3. \A y \in S : <<y, m>> \in OpToRel(<, Nat) <=> y < m
    BY <1>2, Zenon DEF OpToRel
  <1>4. \A y \in S : ~ (y < m)
    BY <1>2, <1>3, Zenon
  <1> QED
    BY <1>4

LEMMA MinFacts ==
  ASSUME NEW S \in SUBSET Nat, S # {}
  PROVE  Min(S) \in S /\ \A y \in S : Min(S) <= y
  BY LeastNat, Zenon DEF Min

LEMMA MaxFacts ==
  ASSUME NEW S \in SUBSET Nat, NEW b \in Nat, \A x \in S : x <= b, S # {}
  PROVE  Max(S) \in S /\ \A y \in S : y <= Max(S)
  <1> DEFINE T == {b - x : x \in S}
  <1>1. T \subseteq Nat /\ T # {}
    <2>1. \A x \in S : b - x \in Nat
      OBVIOUS
    <2> QED
      BY <2>1, Zenon
  <1>2. PICK t \in T : \A y \in T : t <= y
    BY <1>1, LeastNat, Zenon
  <1>3. PICK m \in S : t = b - m
    BY <1>2, Zenon
  <1>4. ASSUME NEW y \in S PROVE y <= m
    <2>1. t <= b - y
      BY <1>2, Zenon
    <2> QED
      BY <1>3, <2>1
  <1> QED
    BY <1>3, <1>4, Zenon DEF Max

LEMMA DivNat ==
  ASSUME NEW a \in Nat, NEW c \in Nat \ {0}
  PROVE  a \div c \in Nat
  OBVIOUS

LEMMA DivMonotone ==
  ASSUME NEW a \in Nat, NEW b \in Nat, NEW c \in Nat \ {0}, a <= b
  PROVE  a \div c <= b \div c
  OBVIOUS

LEMMA DivExact ==
  ASSUME NEW w \in Nat, NEW c \in Nat \ {0}
  PROVE  (w * c) \div c = w
  OBVIOUS

LEMMA DivBound ==
  ASSUME NEW a \in Nat, NEW c \in Nat \ {0}, c <= a
  PROVE  a \div c \in Nat \ {0} /\ c * (a \div c) <= a
  OBVIOUS

SliceIndex(o) ==
  LET per == NumObjs \div num_workers
  IN IF (o - 1) \div per < num_workers THEN (o - 1) \div per ELSE num_workers - 1

LEMMA SliceIndexFacts ==
  ASSUME num_workers \in 1 .. MaxWorkers
  PROVE  /\ \A o \in Obj : SliceIndex(o) \in Worker
         /\ \A o \in Obj, p \in Obj : o <= p => SliceIndex(o) <= SliceIndex(p)
         /\ \A w \in Worker : \E o \in Obj : SliceIndex(o) = w
         /\ \A w \in Worker : Slice(w) = {o \in Obj : SliceIndex(o) = w}
  <1> DEFINE per == NumObjs \div num_workers
             q(o) == (o - 1) \div per
  <1>1. per \in Nat \ {0} /\ num_workers * per <= NumObjs
    BY DivBound, NumObjsAssumption, MaxWorkersAssumption
  <1>2. \A o \in Obj : o - 1 \in Nat
    BY NumObjsAssumption DEF Obj
  <1>3. \A o \in Obj : q(o) \in Nat
    BY <1>1, <1>2, DivNat, Zenon
  <1>4. \A o \in Obj, p \in Obj : o <= p => q(o) <= q(p)
    <2> SUFFICES ASSUME NEW o \in Obj, NEW p \in Obj, o <= p PROVE q(o) <= q(p)
      BY Zenon
    <2>1. o - 1 <= p - 1
      BY NumObjsAssumption DEF Obj
    <2> QED
      BY <1>1, <1>2, <2>1, DivMonotone, Zenon
  <1>5. \A w \in Worker : \E o \in Obj : q(o) = w
    <2> SUFFICES ASSUME NEW w \in Worker PROVE w * per + 1 \in Obj /\ q(w * per + 1) = w
      BY Zenon
    <2>1. w \in Nat /\ w + 1 <= num_workers
      BY MaxWorkersAssumption DEF Worker
    <2>2. w * per \in Nat /\ (w * per + 1) - 1 = w * per
      BY <1>1, <2>1
    <2>3. w * per + per <= num_workers * per
      BY <1>1, <2>1, MaxWorkersAssumption
    <2>4. w * per + 1 \in Obj
      BY <1>1, <2>2, <2>3, NumObjsAssumption, MaxWorkersAssumption DEF Obj
    <2> QED
      BY <1>1, <2>1, <2>2, <2>4, DivExact, Zenon
  <1>6. \A o \in Obj : SliceIndex(o) = IF q(o) < num_workers THEN q(o) ELSE num_workers - 1
    BY Zenon DEF SliceIndex
  <1>7. \A w \in Worker : Slice(w) = {o \in Obj : SliceIndex(o) = w}
    BY Zenon DEF Slice, SliceIndex
  <1> HIDE DEF q, per
  <1>8. \A o \in Obj : SliceIndex(o) \in Worker
    BY <1>3, <1>6, MaxWorkersAssumption DEF Worker
  <1>9. \A o \in Obj, p \in Obj : o <= p => SliceIndex(o) <= SliceIndex(p)
    BY <1>3, <1>4, <1>6, MaxWorkersAssumption
  <1>10. \A w \in Worker : \E o \in Obj : SliceIndex(o) = w
    BY <1>5, <1>6, MaxWorkersAssumption DEF Worker
  <1> QED
    BY <1>7, <1>8, <1>9, <1>10, Zenon

LEMMA SliceFacts ==
  ASSUME num_workers \in 1 .. MaxWorkers, NEW w \in Worker
  PROVE  /\ SliceStart(w) \in Obj
         /\ SliceEnd(w) \in Nat /\ SliceEnd(w) <= NumObjs + 1
         /\ SliceStart(w) < SliceEnd(w)
         /\ \A o \in Nat : o \in Slice(w) <=> SliceStart(w) <= o /\ o < SliceEnd(w)
  <1>1. Slice(w) # {} /\ Slice(w) \in SUBSET Nat /\ Slice(w) \in SUBSET Obj
    BY SliceIndexFacts DEF Obj
  <1>2. SliceStart(w) \in Slice(w) /\ \A y \in Slice(w) : SliceStart(w) <= y
    BY <1>1, MinFacts, Zenon DEF SliceStart
  <1>3. Max(Slice(w)) \in Slice(w) /\ \A y \in Slice(w) : y <= Max(Slice(w))
    <2>1. \A x \in Slice(w) : x <= NumObjs
      BY <1>1, NumObjsAssumption DEF Obj
    <2> QED
      BY <1>1, <2>1, MaxFacts, NumObjsAssumption, Zenon
  <1> DEFINE m == Max(Slice(w))
  <1>4. SliceEnd(w) = m + 1 /\ m \in Slice(w) /\ \A y \in Slice(w) : y <= m
    BY <1>3, Zenon DEF SliceEnd
  <1> HIDE DEF m
  <1>5. ASSUME NEW o \in Nat, SliceStart(w) <= o, o <= m PROVE o \in Slice(w)
    <2>1. o \in Obj
      BY <1>1, <1>2, <1>4, <1>5, NumObjsAssumption DEF Obj
    <2>2. SliceIndex(SliceStart(w)) = w /\ SliceIndex(m) = w
      BY <1>2, <1>4, SliceIndexFacts, Zenon
    <2>3. SliceIndex(o) \in Worker /\ w <= SliceIndex(o) /\ SliceIndex(o) <= w
      BY <2>1, <2>2, <1>1, <1>2, <1>4, <1>5, SliceIndexFacts, Zenon
    <2>4. SliceIndex(o) = w
      BY <2>3 DEF Worker
    <2> QED
      BY <2>1, <2>4, SliceIndexFacts, Zenon
  <1>6. SliceStart(w) \in Obj /\ m \in Obj /\ SliceStart(w) <= m
    BY <1>1, <1>2, <1>4, Zenon
  <1> QED
    BY <1>2, <1>4, <1>5, <1>6, NumObjsAssumption DEF Obj
-----------------------------------------------------------------------------
(* Types.                                                                   *)

LEMMA WorkerFacts ==
  ASSUME TypeHeap
  PROVE  /\ Worker \subseteq AnyWorker
         /\ NoWorker \notin Worker
         /\ num_workers \in Nat \ {0}
         /\ Worker # {}
  BY MaxWorkersAssumption DEF TypeHeap, Worker, AnyWorker, NoWorker

\* What the step of a worker may use of the invariant.
LEMMA Known ==
  ASSUME IInv, NEW w \in Worker
  PROVE  /\ w \in AnyWorker /\ w \in Worker
         /\ TypeHeap /\ TypeShared /\ TypePc /\ TypeLocals /\ LocalOK(w)
         /\ num_workers \in Nat /\ num_workers \in 1 .. MaxWorkers
         /\ SliceStart(w) \in Nat /\ SliceEnd(w) \in Nat /\ SliceStart(w) < SliceEnd(w)
  <1>1. TypeHeap /\ TypeShared /\ TypePc /\ TypeLocals /\ LocalOK(w)
    BY Zenon DEF IInv, TypeInv, LocalInv
  <1>2. w \in AnyWorker /\ num_workers \in Nat /\ num_workers \in 1 .. MaxWorkers
    BY <1>1, WorkerFacts, Zenon DEF TypeHeap
  <1>3. SliceStart(w) \in Nat /\ SliceEnd(w) \in Nat /\ SliceStart(w) < SliceEnd(w)
    BY <1>2, SliceFacts, NumObjsAssumption DEF Obj
  <1> QED
    BY <1>1, <1>2, <1>3, Zenon

LEMMA SliceBounds ==
  ASSUME NEW a \in Nat, NEW b \in Nat, a < b
  PROVE  a \in a .. b /\ a # b /\ \A p \in a .. b : p # b => p + 1 \in a .. b
OBVIOUS

LEMMA VictimFacts ==
  ASSUME TypeHeap, TypeLocals, NEW w \in Worker
  PROVE  Victim(w) \in Worker
  <1>1. start[w] + pos[w] \in Nat
    BY WorkerFacts DEF TypeLocals
  <1>2. num_workers \in Nat \ {0}
    BY MaxWorkersAssumption DEF TypeHeap
  <1> QED
    BY <1>1, <1>2 DEF Victim, Worker

\* The object that a worker marks.
LEMMA MarkTarget ==
  ASSUME IInv, NEW w \in Worker
  PROVE  /\ pc[w] = "slice_mark" => pos[w] \in Slice(w) /\ pos[w] \in Obj
         /\ pc[w] \in {"visit_mark", "visit_push"} => obj[w] \in Obj
  <1>1. pos[w] \in Nat /\ todo[w] \in SUBSET Obj
    BY Known, Zenon DEF TypeLocals
  <1>2. ASSUME pc[w] = "slice_mark" PROVE pos[w] \in Slice(w) /\ pos[w] \in Obj
    <2>1. pos[w] \in SliceStart(w) .. SliceEnd(w) /\ pos[w] # SliceEnd(w)
      BY <1>2, Known, Zenon DEF LocalOK, Scanning
    <2>2. SliceStart(w) <= pos[w] /\ pos[w] < SliceEnd(w)
      BY <2>1, <1>1, Known
    <2>3. pos[w] \in Slice(w)
      BY <2>2, <1>1, SliceFacts, Known, Zenon
    <2> QED
      BY <2>3, Zenon DEF Slice
  <1> QED
    BY <1>1, <1>2, Known, Zenon DEF LocalOK

LEMMA MarkReachableFacts ==
  ASSUME gc_refs \in [Obj -> Int], collecting \in [Obj -> BOOLEAN], NEW o \in Obj, MarkReachable(o)
  PROVE  /\ gc_refs' \in [Obj -> Int] /\ collecting' \in [Obj -> BOOLEAN]
         /\ \A x \in Obj : x # o => gc_refs'[x] = gc_refs[x] /\ collecting'[x] = collecting[x]
         /\ gc_refs'[o] = 1 /\ collecting'[o] = FALSE
  <1>1. gc_refs' = [gc_refs EXCEPT ![o] = 1]
    BY Zenon DEF MarkReachable
  <1>2. collecting' = [collecting EXCEPT ![o] = FALSE]
    BY Zenon DEF MarkReachable
  <1>3. gc_refs' \in [Obj -> Int] /\ gc_refs'[o] = 1 /\ \A x \in Obj : x # o => gc_refs'[x] = gc_refs[x]
    BY Numbers, <1>1, Zenon
  <1>4. collecting' \in [Obj -> BOOLEAN]
    BY <1>2, Zenon
  <1>5. collecting'[o] = FALSE /\ \A x \in Obj : x # o => collecting'[x] = collecting[x]
    BY <1>2, Zenon
  <1> QED
    BY <1>3, <1>4, <1>5, Zenon

-----------------------------------------------------------------------------
(* Steps of a worker w: what they leave alone.                              *)

PcOnly(w) == \A v \in Worker : v # w => pc'[v] = pc[v]

\* What belongs to v.  The deque of v may lose an element to a thief.
Same(v) ==
  /\ pc'[v] = pc[v] /\ ep'[v] = ep[v] /\ pos'[v] = pos[v] /\ obj'[v] = obj[v]
  /\ todo'[v] = todo[v] /\ ret'[v] = ret[v] /\ n'[v] = n[v] /\ work'[v] = work[v]
  /\ deque'[v] = deque[v] \/ (deque[v] # <<>> /\ deque'[v] = Tail(deque[v]))

SameOthers(w) == \A v \in Worker : v # w => Same(v)

LEMMA SliceSame ==
  ASSUME num_workers' = num_workers
  PROVE  /\ Worker' = Worker
         /\ \A w : Slice(w)' = Slice(w) /\ SliceStart(w)' = SliceStart(w) /\ SliceEnd(w)' = SliceEnd(w)
  BY Zenon DEF Worker, Slice, SliceStart, SliceEnd

LEMMA LocalFrame ==
  ASSUME IInv, NEW w \in Worker, UNCHANGED heap, SameOthers(w), LocalOK(w)'
  PROVE  LocalInv'
  <1>1. num_workers' = num_workers
    BY Zenon DEF heap
  <1>2. ASSUME NEW v \in Worker, v # w PROVE LocalOK(v)'
    BY <1>1, <1>2, SliceSame DEF IInv, LocalInv, LocalOK, SameOthers, Same, Scanning
  <1> QED
    BY <1>1, <1>2, SliceSame, Zenon DEF LocalInv

LEMMA StartFrame ==
  ASSUME IInv, NEW w \in Worker, UNCHANGED heap, UNCHANGED main, PcOnly(w),
         pc[w] # "none", pc'[w] # "none"
  PROVE  StartInv'
  BY SliceSame, Zenon DEF IInv, StartInv, PcOnly, heap, main

LEMMA MarkBarrierFrame ==
  ASSUME IInv, NEW w \in Worker, UNCHANGED heap, UNCHANGED barriers, PcOnly(w),
         \/ pc[w] \in Early /\ pc'[w] \in Early
         \/ epoch["mark"] = 1 /\ pc'[w] \notin Early
  PROVE  MarkBarrierInv'
  <1>1. Worker' = Worker /\ epoch' = epoch /\ num_left' = num_left
    BY SliceSame, Zenon DEF heap, barriers
  <1>2. CASE pc[w] \in Early /\ pc'[w] \in Early
    <2>1. {v \in Worker : pc[v] \in Early}' = {v \in Worker : pc[v] \in Early}
      BY <1>1, <1>2, Zenon DEF PcOnly
    <2> QED
      BY <1>1, <1>2, <2>1, Zenon DEF IInv, MarkBarrierInv, PcOnly
  <1>3. CASE epoch["mark"] = 1 /\ pc'[w] \notin Early
    BY Numbers, <1>1, <1>3, Zenon DEF IInv, MarkBarrierInv, PcOnly
  <1> QED
    BY <1>2, <1>3, Zenon

LEMMA DoneBarrierFrame ==
  ASSUME IInv, NEW w \in Worker, UNCHANGED heap, mpc' = mpc, PcOnly(w),
         num_left'["done"] = num_left["done"], epoch'["done"] = epoch["done"],
         pc[w] \in Finished <=> pc'[w] \in Finished
  PROVE  DoneBarrierInv'
  <1>1. Worker' = Worker
    BY SliceSame, Zenon DEF heap
  <1>2. {v \in Worker : pc[v] \notin Finished}' = {v \in Worker : pc[v] \notin Finished}
    BY <1>1, Zenon DEF PcOnly
  <1> QED
    BY <1>1, <1>2, Zenon DEF IInv, DoneBarrierInv, PcOnly

\* A worker that has left the mark barrier has seen everybody arrive.
LEMMA LateEpoch ==
  ASSUME IInv, NEW w \in Worker, pc[w] \notin Early \cup {"mark_wait"}
  PROVE  epoch["mark"] = 1 /\ SubtractInv
  BY Known, Zenon DEF IInv, MarkBarrierInv, TypeShared, SubtractInv
-----------------------------------------------------------------------------
(* Counting the workers.                                                    *)

LEMMA MarkingFacts ==
  ASSUME TypeHeap
  PROVE  IsFiniteSet(Worker) /\ IsFiniteSet(Marking) /\ Cardinality(Marking) \in Nat
  <1>1. IsFiniteSet(Worker)
    BY FS_Interval, MaxWorkersAssumption DEF Worker, TypeHeap
  <1>2. IsFiniteSet(Marking)
    BY <1>1, FS_Subset, Zenon DEF Marking
  <1> QED
    BY <1>1, <1>2, FS_CardinalityType, Zenon

LEMMA PostingType ==
  ASSUME IInv
  PROVE  posting \in Nat /\ tokens_left \in Nat
  BY WorkerFacts, Zenon DEF posting, IInv, TypeInv, TypeShared, TypeLocals

\* Two workers that count as marking are counted.
LEMMA TwoMarking ==
  ASSUME IInv, NEW v \in Marking, NEW w \in Marking, v # w, num_workers_marking # 0
  PROVE  num_workers_marking >= 2
  <1>1. Cardinality({v, w}) = 2
    <2>1. IsFiniteSet({v}) /\ Cardinality({v}) = 1
      BY FS_Singleton, Zenon
    <2>2. Cardinality({v} \cup {w}) = 2
      BY <2>1, FS_AddElement
    <2>3. {v} \cup {w} = {v, w}
      BY Zenon
    <2> QED
      BY <2>2, <2>3, Zenon
  <1>2. TypeHeap
    BY Zenon DEF IInv, TypeInv
  <1>3. Cardinality(Marking) >= 2 /\ Cardinality(Marking) \in Nat
    BY <1>1, <1>2, MarkingFacts, FS_Subset
  <1>4. num_workers_marking = Cardinality(Marking) + tokens_left + posting
    BY Zenon DEF IInv, CountInv
  <1> QED
    BY <1>3, <1>4, PostingType

\* A worker that quits is not the last one.
LEMMA QuitCount ==
  ASSUME IInv, NEW w \in Worker, pc[w] = "quit"
  PROVE  num_workers_marking >= 2
  <1>1. num_workers_marking # 0
    BY Zenon DEF IInv, CountInv, Finished
  <1>2. PICK v \in Worker : pc[v] \notin {"sema", "quit"}
    BY <1>1, Zenon DEF IInv, CountInv
  <1>3. v # w /\ v \in Marking /\ w \in Marking
    BY <1>1, <1>2, Zenon DEF IInv, CountInv, Marking, Finished
  <1> QED
    BY <1>1, <1>3, TwoMarking, Zenon

\* The coordinator that has read 1 is alone: the others wait for a token and
\* there is none.
LEMMA LastAlone ==
  ASSUME IInv, NEW w \in Worker, pc[w] = "coord_last"
  PROVE  /\ \A v \in Worker : v # w => pc[v] = "sema"
         /\ num_workers_marking = 1 /\ n[w] = 1
  <1>1. num_workers_marking = 1 /\ n[w] = 1
    BY Zenon DEF IInv, CoordInv
  <1>2. w \in Marking
    BY Zenon DEF Marking
  <1>3. ASSUME NEW v \in Worker, v # w PROVE v \notin Marking
    BY <1>1, <1>2, <1>3, TwoMarking
  <1> QED
    BY <1>1, <1>3, Zenon DEF IInv, CountInv, Marking, Finished

LEMMA WakeFacts ==
  ASSUME NEW a \in Nat, NEW b \in Nat, a # 0, b # 0
  PROVE  Min({a, b}) \in Nat \ {0}
  BY MinFacts, Zenon

LEMMA WakeCount ==
  ASSUME IInv, NEW w \in Worker, CoordWake(w)
  PROVE  \E wake \in Nat \ {0} :
           /\ work' = Set(work, w, wake)
           /\ num_workers_marking' = num_workers_marking + wake
  <1>1. work[w] # 0 /\ num_workers - n[w] > 0
    BY Zenon DEF CoordWake
  <1>2. work[w] \in Nat /\ n[w] \in Nat /\ num_workers \in Nat
    BY Known, Zenon DEF TypeLocals
  <1>3. num_workers - n[w] \in Nat /\ num_workers - n[w] # 0
    BY <1>1, <1>2
  <1>4. Min({work[w], num_workers - n[w]}) \in Nat \ {0}
    BY <1>1, <1>2, <1>3, WakeFacts, Zenon
  <1> QED
    BY <1>4, Zenon DEF CoordWake

\* The set of marking workers after a step of w.
LEMMA MarkingStep ==
  ASSUME IInv, NEW w \in Worker, UNCHANGED heap, PcOnly(w)
  PROVE  /\ (w \in Marking <=> w \in Marking') => Marking' = Marking
         /\ w \in Marking /\ w \notin Marking' => Cardinality(Marking') = Cardinality(Marking) - 1
         /\ w \notin Marking /\ w \in Marking' => Cardinality(Marking') = Cardinality(Marking) + 1
         /\ Cardinality(Marking) \in Nat
  <1>1. Worker' = Worker /\ TypeHeap
    BY SliceSame, Zenon DEF heap, IInv, TypeInv
  <1>2. \A v \in Worker : v # w => (v \in Marking <=> v \in Marking')
    BY <1>1, Zenon DEF Marking, PcOnly
  <1>3. Marking \subseteq Worker /\ Marking' \subseteq Worker
    BY <1>1, Zenon DEF Marking
  <1>4. IsFiniteSet(Marking) /\ Cardinality(Marking) \in Nat
    BY <1>1, MarkingFacts, Zenon
  <1>5. ASSUME w \in Marking, w \notin Marking'
        PROVE  Cardinality(Marking') = Cardinality(Marking) - 1
    <2>1. Marking' = Marking \ {w}
      BY <1>2, <1>3, <1>5, Zenon
    <2> QED
      BY <1>4, <1>5, <2>1, FS_RemoveElement, Zenon
  <1>6. ASSUME w \notin Marking, w \in Marking'
        PROVE  Cardinality(Marking') = Cardinality(Marking) + 1
    <2>1. Marking' = Marking \cup {w}
      BY <1>2, <1>3, <1>6, Zenon
    <2> QED
      BY <1>4, <1>6, <2>1, FS_AddElement, Zenon
  <1>7. (w \in Marking <=> w \in Marking') => Marking' = Marking
    BY <1>2, <1>3
  <1> QED
    BY <1>4, <1>5, <1>6, <1>7, Zenon

Working == Early \cup {"mark_wait"} \cup Busy

LEMMA CountFrame ==
  ASSUME IInv, NEW w \in Worker, UNCHANGED heap, UNCHANGED coord, PcOnly(w),
         num_workers_marking' = num_workers_marking,
         n' = n, work' = work, pc[w] \in Working, pc'[w] \in Working
  PROVE  CoordInv' /\ CountInv'
  <1>1. Worker' = Worker /\ steal_coordinator' = steal_coordinator /\ tokens_left' = tokens_left
    BY SliceSame, Zenon DEF heap, coord
  <1>2. pc[w] \notin Coords /\ pc'[w] \notin Coords /\ pc[w] # "coord_last" /\ pc'[w] # "coord_last"
    BY Zenon DEF Working, Early, Busy, Visits, Coords
  <1>3. CoordInv'
    BY <1>1, <1>2, Zenon DEF IInv, CoordInv, PcOnly
  <1>4. num_workers_marking # 0
    BY Zenon DEF IInv, CountInv, Working, Early, Busy, Visits, Finished
  <1>5. w \in Marking /\ w \in Marking'
    BY <1>1, Zenon DEF Marking, Working, Early, Busy, Visits
  <1>6. Marking' = Marking
    BY <1>5, MarkingStep, Zenon
  <1>7. posting' = posting
    <2>1. steal_coordinator # w
      BY <1>2, Zenon DEF IInv, CoordInv
    <2>2. steal_coordinator \in Worker \cup {NoWorker}
      BY Zenon DEF IInv, TypeInv, TypeShared
    <2> QED
      BY <1>1, <2>1, <2>2, Zenon DEF posting, PcOnly
  <1>8. \A v \in Worker : pc'[v] \notin {"done"} \cup Finished
    BY <1>4, Zenon DEF IInv, CountInv, PcOnly, Working, Early, Busy, Visits, Finished
  <1>9. pc'[w] \notin {"sema", "quit"}
    BY Zenon DEF Working, Early, Busy, Visits
  <1>10. num_workers_marking = Cardinality(Marking) + tokens_left + posting
    BY <1>4, Zenon DEF IInv, CountInv
  <1> QED
    BY <1>1, <1>3, <1>4, <1>6, <1>7, <1>8, <1>9, <1>10, Zenon DEF CountInv

\* The control state when a worker moves about in marking, stealing aside.
LEMMA BusyControl ==
  ASSUME IInv, NEW w \in Worker, UNCHANGED <<heap, counts, coord, barriers, main>>,
         PcOnly(w), n' = n, work' = work, pc[w] \in Busy, pc'[w] \in Busy
  PROVE  /\ StartInv' /\ CoordInv' /\ CountInv' /\ MarkBarrierInv' /\ DoneBarrierInv'
         /\ SubtractInv' /\ epoch["mark"] = 1
  <1>1. pc[w] \notin Early \cup {"mark_wait"} /\ pc'[w] \notin Early
    BY Zenon DEF Busy, Early, Visits
  <1>2. epoch["mark"] = 1 /\ epoch' = epoch
    BY <1>1, LateEpoch, Zenon DEF barriers
  <1>3. StartInv'
    BY <1>1, StartFrame, Zenon DEF Early
  <1>4. CoordInv' /\ CountInv'
    BY CountFrame, Zenon DEF counts, Working
  <1>5. MarkBarrierInv'
    BY <1>1, <1>2, MarkBarrierFrame, Zenon
  <1>6. pc[w] \notin Finished /\ pc'[w] \notin Finished
    BY Zenon DEF Busy, Finished, Visits
  <1>7. DoneBarrierInv'
    BY <1>6, DoneBarrierFrame, Zenon DEF barriers, main
  <1>8. SubtractInv'
    BY Numbers, <1>2, Zenon DEF SubtractInv
  <1> QED
    BY <1>2, <1>3, <1>4, <1>5, <1>7, <1>8, Zenon
-----------------------------------------------------------------------------
(* Reachability, and the elements of a deque.                               *)

LEMMA ReachFacts ==
  ASSUME TypeHeap
  PROVE  /\ \A o \in Obj : ext[o] = 1 => o \in Reachable
         /\ \A p \in Reachable : refs[p] \subseteq Reachable
         /\ \A S \in SUBSET Obj : ClosedSet(S) => Reachable \subseteq S
  <1>1. ASSUME NEW o \in Obj, ext[o] = 1 PROVE o \in Reachable
    BY Numbers, <1>1, Zenon DEF Reachable, ClosedSet
  <1>2. ASSUME NEW p \in Reachable, NEW q \in refs[p] PROVE q \in Reachable
    <2>1. p \in Obj /\ q \in Obj
      BY <1>2, Zenon DEF TypeHeap, Reachable
    <2>2. ASSUME NEW S \in SUBSET Obj, ClosedSet(S) PROVE q \in S
      <3>1. p \in S
        BY <2>2, Zenon DEF Reachable
      <3> QED
        BY <2>2, <3>1, Zenon DEF ClosedSet
    <2> QED
      BY <2>1, <2>2, Zenon DEF Reachable
  <1>3. ASSUME NEW S \in SUBSET Obj, ClosedSet(S) PROVE Reachable \subseteq S
    BY <1>3, Zenon DEF Reachable
  <1> QED
    BY <1>1, <1>2, <1>3, Zenon

LEMMA ReachSame ==
  ASSUME UNCHANGED heap
  PROVE  Reachable' = Reachable
  BY Zenon DEF heap, Reachable, ClosedSet

LEMMA ElemsFacts ==
  ASSUME NEW s \in Seq(Obj)
  PROVE  /\ Elems(s) \subseteq Obj
         /\ s = <<>> => Elems(s) = {}
         /\ \A o \in Obj : Elems(Append(s, o)) = Elems(s) \cup {o}
         /\ s # <<>> => /\ Elems(s) = Elems(Tail(s)) \cup {Head(s)}
                        /\ Head(s) \in Obj
         /\ s # <<>> => /\ Elems(s) = Elems(SubSeq(s, 1, Len(s) - 1)) \cup {s[Len(s)]}
                        /\ s[Len(s)] \in Obj
  <1>1. Elems(s) \subseteq Obj /\ (s = <<>> => Elems(s) = {})
    BY DEF Elems
  <1>2. ASSUME NEW o \in Obj PROVE Elems(Append(s, o)) = Elems(s) \cup {o}
    <2>1. Len(Append(s, o)) = Len(s) + 1 /\ Len(s) \in Nat
      OBVIOUS
    <2>2. \A i \in 1 .. Len(s) : Append(s, o)[i] = s[i]
      OBVIOUS
    <2>3. Append(s, o)[Len(s) + 1] = o
      OBVIOUS
    <2>4. \A i \in 1 .. Len(s) + 1 : i \in 1 .. Len(s) \/ i = Len(s) + 1
      BY <2>1
    <2>5. \A i \in 1 .. Len(s) : i \in 1 .. Len(s) + 1
      BY <2>1
    <2>6. Len(s) + 1 \in 1 .. Len(s) + 1
      BY <2>1
    <2>7. Elems(Append(s, o)) = {Append(s, o)[i] : i \in 1 .. Len(s) + 1}
      BY <2>1, Zenon DEF Elems
    <2> QED
      BY <2>2, <2>3, <2>4, <2>5, <2>6, <2>7, Zenon DEF Elems
  <1>3. ASSUME s # <<>> PROVE Elems(s) = Elems(Tail(s)) \cup {Head(s)} /\ Head(s) \in Obj
    <2>1. Tail(s) \in Seq(Obj) /\ Len(Tail(s)) = Len(s) - 1 /\ Len(s) \in Nat \ {0} /\ Head(s) = s[1]
      BY <1>3
    <2>2. \A i \in 1 .. Len(s) - 1 : Tail(s)[i] = s[i + 1]
      BY <1>3
    <2>3. Elems(Tail(s)) = {Tail(s)[i] : i \in 1 .. Len(s) - 1}
      BY <2>1, Zenon DEF Elems
    <2>4. Elems(Tail(s)) = {s[i + 1] : i \in 1 .. Len(s) - 1}
      BY <2>2, <2>3, Zenon
    <2>5. ASSUME NEW i \in 1 .. Len(s) PROVE s[i] \in Elems(Tail(s)) \cup {Head(s)}
      <3>1. CASE i = 1
        BY <2>1, <3>1, Zenon
      <3>2. CASE i # 1
        <4>1. i - 1 \in 1 .. Len(s) - 1 /\ (i - 1) + 1 = i
          BY <2>1, <3>2
        <4> QED
          BY <2>4, <4>1, Zenon
      <3> QED
        BY <3>1, <3>2, Zenon
    <2>6. ASSUME NEW i \in 1 .. Len(s) - 1 PROVE s[i + 1] \in Elems(s)
      <3>1. i + 1 \in 1 .. Len(s)
        BY <2>1
      <3> QED
        BY <3>1, Zenon DEF Elems
    <2>7. Head(s) \in Elems(s)
      BY <2>1 DEF Elems
    <2>8. Elems(s) \subseteq Elems(Tail(s)) \cup {Head(s)}
      BY <2>5, Zenon DEF Elems
    <2> QED
      BY <2>4, <2>6, <2>7, <2>8, <1>1, Zenon
  <1>4. ASSUME s # <<>>
        PROVE  Elems(s) = Elems(SubSeq(s, 1, Len(s) - 1)) \cup {s[Len(s)]} /\ s[Len(s)] \in Obj
    <2> DEFINE t == SubSeq(s, 1, Len(s) - 1)
    <2>1. t \in Seq(Obj) /\ Len(t) = Len(s) - 1 /\ Len(s) \in Nat \ {0}
      BY <1>4, SMTT(60)
    <2>2. \A i \in 1 .. Len(s) - 1 : t[i] = s[i]
      BY <1>4
    <2> HIDE DEF t
    <2>3. Elems(t) = {s[i] : i \in 1 .. Len(s) - 1}
      BY <2>1, <2>2, Zenon DEF Elems
    <2>4. \A i \in 1 .. Len(s) : i \in 1 .. Len(s) - 1 \/ i = Len(s)
      BY <2>1
    <2>5. \A i \in 1 .. Len(s) - 1 : i \in 1 .. Len(s)
      BY <2>1
    <2>6. Len(s) \in 1 .. Len(s)
      BY <2>1
    <2>7. Elems(s) = Elems(t) \cup {s[Len(s)]}
      BY <2>3, <2>4, <2>5, <2>6, Zenon DEF Elems
    <2>8. s[Len(s)] \in Obj
      BY <2>6
    <2> QED
      BY <2>7, <2>8, Zenon DEF t
  <1> QED
    BY <1>1, <1>2, <1>3, <1>4, Zenon
-----------------------------------------------------------------------------
(* Marking: what a step of worker w preserves.                              *)

\* Marks are only ever added.
MarksGrow == \A o \in Obj : collecting'[o] => collecting[o]

LEMMA MarkingNow ==
  ASSUME IInv, epoch["mark"] = 1
  PROVE  MarksOK /\ MarkedOK /\ (\A w \in Worker : HeldOK(w)) /\ RootsOK /\ EdgesOK
  BY Zenon DEF IInv, MarkInv

LEMMA DequeFacts ==
  ASSUME IInv, NEW v \in Worker
  PROVE  deque[v] \in Seq(Obj) /\ Elems(deque[v]) \subseteq Obj
  BY Known, ElemsFacts, Zenon DEF TypeShared

LEMMA HeldFrame ==
  ASSUME IInv, epoch["mark"] = 1, NEW w \in Worker, UNCHANGED heap, SameOthers(w),
         MarksGrow, HeldOK(w)'
  PROVE  (\A v \in Worker : HeldOK(v))'
  <1>1. Worker' = Worker /\ Reachable' = Reachable /\ ext' = ext
    BY SliceSame, ReachSame, Zenon DEF heap
  <1>2. ASSUME NEW v \in Worker, v # w PROVE HeldOK(v)'
    <2>1. HeldOK(v) /\ Same(v)
      BY <1>2, MarkingNow, Zenon DEF SameOthers
    <2>2. Elems(deque'[v]) \subseteq Elems(deque[v]) /\ Elems(deque[v]) \subseteq Obj
      BY <2>1, DequeFacts, ElemsFacts, Zenon DEF Same
    <2>3. pc[v] = "visit_push" => obj[v] \in Obj
      BY MarkTarget, Zenon
    <2>4. \A o \in Elems(deque'[v]) : ~ collecting'[o]
      BY <2>1, <2>2, Zenon DEF HeldOK, MarksGrow
    <2>5. pc'[v] = "visit_push" => ~ collecting'[obj'[v]]
      BY <2>1, <2>3, Zenon DEF HeldOK, MarksGrow, Same
    <2> QED
      BY <1>1, <2>1, <2>4, <2>5, Zenon DEF HeldOK, Same
  <1> QED
    BY <1>1, <1>2, Zenon

LEMMA RootsFrame ==
  ASSUME IInv, epoch["mark"] = 1, NEW w \in Worker, UNCHANGED heap, SameOthers(w), MarksGrow,
         \A o \in Slice(w) : /\ Scanning(w) /\ pos[w] <= o
                             /\ ext[o] = 1 /\ collecting'[o]
                             => Scanning(w)' /\ pos'[w] <= o
  PROVE  RootsOK'
  <1>1. Worker' = Worker /\ ext' = ext /\ \A v : Slice(v)' = Slice(v)
    BY SliceSame, Zenon DEF heap
  <1>2. ASSUME NEW o \in Obj, ext[o] = 1, collecting'[o]
        PROVE  \E v \in Worker : o \in Slice(v) /\ Scanning(v)' /\ pos'[v] <= o
    <2>1. PICK v \in Worker : o \in Slice(v) /\ Scanning(v) /\ pos[v] <= o
      BY <1>2, MarkingNow, Zenon DEF RootsOK, MarksGrow
    <2>2. CASE v = w
      BY <1>2, <2>1, <2>2, Zenon
    <2>3. CASE v # w
      BY <2>1, <2>3, Zenon DEF SameOthers, Same, Scanning
    <2> QED
      BY <2>2, <2>3, Zenon
  <1> QED
    BY <1>1, <1>2, Zenon DEF RootsOK

\* A reference stays to be visited, by the same worker or by the thief w.
LEMMA EdgesStep ==
  ASSUME IInv, epoch["mark"] = 1, NEW w \in Worker, UNCHANGED heap, SameOthers(w), MarksGrow,
         \A v \in Worker : v # w =>
           \A p \in Elems(deque[v]), q \in Obj :
             q \in refs[p] => p \in Elems(deque'[v]) \/ q \in todo'[w],
         \A p \in Obj, q \in Obj :
           q \in refs[p] /\ collecting'[q] /\ Grey(w, p, q) => Grey(w, p, q)',
         \A p \in Obj, q \in Obj :
           collecting[p] /\ ~ collecting'[p] /\ q \in refs[p] /\ collecting'[q] => Grey(w, p, q)'
  PROVE  EdgesOK'
  <1>1. Worker' = Worker /\ refs' = refs
    BY SliceSame, Zenon DEF heap
  <1>2. ASSUME NEW p \in Obj, NEW q \in Obj, ~ collecting'[p], q \in refs[p], collecting'[q]
        PROVE  \E v \in Worker : Grey(v, p, q)'
    <2>1. CASE collecting[p]
      BY <1>2, <2>1, Zenon
    <2>2. CASE ~ collecting[p]
      <3>1. PICK v \in Worker : Grey(v, p, q)
        BY <1>2, <2>2, MarkingNow, Zenon DEF EdgesOK, MarksGrow
      <3>2. CASE v = w
        BY <1>2, <3>1, <3>2, Zenon
      <3>3. CASE v # w
        BY <1>2, <3>1, <3>3 DEF SameOthers, Same, Grey
      <3> QED
        BY <3>2, <3>3, Zenon
    <2> QED
      BY <2>1, <2>2, Zenon
  <1> QED
    BY <1>1, <1>2, Zenon DEF EdgesOK

LEMMA EdgesFrame ==
  ASSUME IInv, epoch["mark"] = 1, NEW w \in Worker, UNCHANGED heap, SameOthers(w), MarksGrow,
         \A v \in Worker : v # w => deque'[v] = deque[v],
         \A p \in Obj, q \in Obj :
           q \in refs[p] /\ collecting'[q] /\ Grey(w, p, q) => Grey(w, p, q)',
         \A p \in Obj, q \in Obj :
           collecting[p] /\ ~ collecting'[p] /\ q \in refs[p] /\ collecting'[q] => Grey(w, p, q)'
  PROVE  EdgesOK'
  BY EdgesStep, Zenon

LEMMA MarksFrame ==
  ASSUME IInv, epoch["mark"] = 1, UNCHANGED heap, UNCHANGED marks
  PROVE  MarksOK' /\ MarkedOK' /\ MarksGrow
  BY MarkingNow, ReachSame, Zenon DEF heap, marks, MarksOK, MarkedOK, MarksGrow

\* Marking object o, which is reachable.
LEMMA MarksStep ==
  ASSUME IInv, epoch["mark"] = 1, UNCHANGED heap, NEW o \in Obj, MarkReachable(o), o \in Reachable
  PROVE  /\ MarksOK' /\ MarkedOK' /\ MarksGrow
         /\ ~ collecting'[o] /\ \A x \in Obj : x # o => collecting'[x] = collecting[x]
  <1>1. gc_refs \in [Obj -> Int] /\ collecting \in [Obj -> BOOLEAN]
    BY Zenon DEF IInv, TypeInv, TypeShared
  <1>2. /\ \A x \in Obj : x # o => gc_refs'[x] = gc_refs[x] /\ collecting'[x] = collecting[x]
        /\ gc_refs'[o] = 1 /\ collecting'[o] = FALSE
    BY <1>1, MarkReachableFacts, Zenon
  <1>3. ext' = ext /\ Reachable' = Reachable
    BY ReachSame, Zenon DEF heap
  <1>4. MarksOK'
    BY <1>2, <1>3, MarkingNow, Zenon DEF MarksOK
  <1>5. MarkedOK'
    BY <1>2, <1>3, MarkingNow, Zenon DEF MarkedOK
  <1> QED
    BY <1>2, <1>4, <1>5, Zenon DEF MarksGrow

MarkLabels == {"mark_wait", "slice", "slice_mark"} \cup Visits

\* A step of a worker that holds nothing.
LEMMA MarkQuiet ==
  ASSUME IInv, NEW w \in Worker, UNCHANGED heap, UNCHANGED marks, SameOthers(w), epoch'["mark"] = epoch["mark"],
         deque' = deque, todo' = todo, pc[w] \notin MarkLabels, pc'[w] \notin MarkLabels
  PROVE  MarkInv'
  <1> SUFFICES ASSUME epoch["mark"] = 1 PROVE (MarksOK /\ MarkedOK /\ (\A v \in Worker : HeldOK(v)) /\ RootsOK /\ EdgesOK)'
    BY Zenon DEF MarkInv
  <1>1. MarksOK' /\ MarkedOK' /\ MarksGrow
    BY MarksFrame, Zenon
  <1>2. HeldOK(w)'
    BY MarkingNow, ReachSame, Zenon DEF HeldOK, MarkLabels, Visits, marks
  <1>3. ~ Scanning(w)
    BY Zenon DEF Scanning, MarkLabels, Visits
  <1>4. RootsOK'
    BY <1>1, <1>3, RootsFrame, Zenon
  <1>5. \A p \in Obj, q \in Obj : Grey(w, p, q) => Grey(w, p, q)'
    BY Zenon DEF Grey, MarkLabels, Visits
  <1>6. collecting' = collecting
    BY Zenon DEF marks
  <1>7. EdgesOK'
    BY <1>1, <1>5, <1>6, EdgesFrame, Zenon
  <1> QED
    BY <1>1, <1>2, <1>4, <1>7, HeldFrame, Zenon
-----------------------------------------------------------------------------
(* Every step of a marking worker preserves the invariant.                  *)

\* The parts of the invariant that concern the marking worker itself.
LEMMA BusyStep ==
  ASSUME IInv, NEW w \in Worker, UNCHANGED <<heap, counts, coord, barriers, main>>,
         SameOthers(w), n' = n, work' = work, pc[w] \in Busy, pc'[w] \in Busy,
         TypeInv', LocalOK(w)',
         epoch["mark"] = 1 => MarksOK' /\ MarkedOK' /\ MarksGrow /\ HeldOK(w)' /\ RootsOK' /\ EdgesOK'
  PROVE  IInv'
  <1>1. PcOnly(w)
    BY Zenon DEF SameOthers, Same, PcOnly
  <1>2. /\ StartInv' /\ CoordInv' /\ CountInv' /\ MarkBarrierInv' /\ DoneBarrierInv'
        /\ SubtractInv' /\ epoch["mark"] = 1
    BY <1>1, BusyControl, Zenon
  <1>3. UNCHANGED heap /\ epoch' = epoch
    BY Zenon DEF barriers
  <1>4. LocalInv'
    BY <1>3, LocalFrame, Zenon
  <1>5. (\A v \in Worker : HeldOK(v))'
    BY <1>2, <1>3, HeldFrame, Zenon
  <1>6. MarkInv'
    BY <1>2, <1>3, <1>5, Zenon DEF MarkInv
  <1> QED
    BY <1>2, <1>4, <1>6, Zenon DEF IInv

LEMMA TypeBusy ==
  ASSUME IInv, NEW w \in Worker, UNCHANGED <<heap, counts, coord, barriers, main>>,
         gc_refs' \in [Obj -> Int], collecting' \in [Obj -> BOOLEAN],
         deque' \in [AnyWorker -> Seq(Obj)], TypePc', TypeLocals'
  PROVE  TypeInv'
  <1>1. TypeHeap' /\ Worker' = Worker
    BY SliceSame, Zenon DEF IInv, TypeInv, TypeHeap, heap
  <1> QED
    BY <1>1, Zenon DEF IInv, TypeInv, TypeShared, heap, counts, coord, barriers, main

LEMMA SliceLoadStep ==
  ASSUME IInv, NEW w \in Worker, SliceLoad(w)
  PROVE  IInv'
  <1>0. /\ w \in AnyWorker /\ TypeHeap /\ TypeShared /\ TypePc /\ TypeLocals /\ LocalOK(w)
        /\ SliceStart(w) \in Nat /\ SliceEnd(w) \in Nat /\ SliceStart(w) < SliceEnd(w)
    BY Known, Zenon
  <1>1. /\ UNCHANGED <<heap, marks, counts, coord, barriers, deque, main>>
        /\ UNCHANGED <<ep, obj, todo, ret, start, n, work>>
        /\ pc[w] = "slice" /\ pos[w] < SliceEnd(w)
    BY Zenon DEF SliceLoad
  <1>2. \/ pc' = [pc EXCEPT ![w] = "slice_mark"] /\ pos' = pos /\ collecting[pos[w]] /\ gc_refs[pos[w]] > 0
        \/ pc' = pc /\ pos' = [pos EXCEPT ![w] = pos[w] + 1] /\ ~ (collecting[pos[w]] /\ gc_refs[pos[w]] > 0)
    BY Zenon DEF SliceLoad, Goto, Set
  <1>3. SameOthers(w) /\ pc'[w] \in {"slice", "slice_mark"}
    BY <1>0, <1>1, <1>2, WorkerFacts, Zenon DEF SameOthers, Same, TypePc, TypeLocals
  <1>4. TypePc' /\ TypeLocals'
    BY <1>0, <1>1, <1>2 DEF TypePc, TypeLocals, Locs
  <1>5. TypeInv'
    BY <1>0, <1>1, <1>4, TypeBusy, Zenon DEF TypeShared, marks
  <1>6. pos[w] \in Nat /\ SliceStart(w) <= pos[w] /\ pos[w] \in Slice(w) /\ pos[w] \in Obj
    <2>1. pos[w] \in Nat /\ SliceStart(w) <= pos[w]
      BY <1>0, <1>1 DEF LocalOK, Scanning, TypeLocals
    <2>2. pos[w] \in Slice(w)
      BY <1>1, <2>1, SliceFacts, Known, Zenon
    <2> QED
      BY <2>1, <2>2, Zenon DEF Slice
  <1>7. \/ pc'[w] = "slice_mark" /\ pos'[w] = pos[w] /\ collecting[pos[w]] /\ gc_refs[pos[w]] > 0
        \/ pc'[w] = "slice" /\ pos'[w] = pos[w] + 1 /\ ~ (collecting[pos[w]] /\ gc_refs[pos[w]] > 0)
    BY <1>0, <1>1, <1>2, Zenon DEF TypePc, TypeLocals
  <1>8. UNCHANGED heap /\ num_workers' = num_workers
    BY <1>1, Zenon DEF heap
  <1>9. LocalOK(w)'
    BY <1>0, <1>1, <1>6, <1>7, <1>8, SliceSame DEF LocalOK, Scanning, Visits
  <1>10. ASSUME epoch["mark"] = 1
         PROVE  MarksOK' /\ MarkedOK' /\ MarksGrow /\ HeldOK(w)' /\ RootsOK' /\ EdgesOK'
    <2>1. MarksOK' /\ MarkedOK' /\ MarksGrow
      BY <1>1, <1>10, MarksFrame, Zenon
    <2>2. gc_refs[pos[w]] = IF collecting[pos[w]] THEN ext[pos[w]] ELSE 1
      BY <1>6, <1>10, MarkingNow, Zenon DEF MarksOK
    <2>3. ext[pos[w]] \in {0, 1}
      BY <1>0, <1>6, Zenon DEF TypeHeap
    <2>4. HeldOK(w)'
      <3>1. pc'[w] = "slice_mark" => ext[pos[w]] = 1
        BY <1>7, <2>2, <2>3
      <3>2. HeldOK(w)
        BY <1>10, MarkingNow, Zenon
      <3> QED
        BY <1>1, <1>7, <1>8, <3>1, <3>2, ReachSame, Zenon DEF HeldOK, heap, marks
    <2>5. \A o \in Slice(w) : o \in Nat
      BY NumObjsAssumption DEF Slice, Obj
    <2>6. ASSUME NEW o \in Slice(w), pos[w] <= o, ext[o] = 1, collecting'[o]
          PROVE  Scanning(w)' /\ pos'[w] <= o
      <3>1. collecting[o] /\ o \in Nat
        BY <1>1, <2>5, <2>6, Zenon DEF marks
      <3>2. CASE pc'[w] = "slice_mark"
        BY <1>7, <2>6, <3>2, Zenon DEF Scanning
      <3>3. CASE pc'[w] # "slice_mark"
        <4>1. ~ (collecting[pos[w]] /\ gc_refs[pos[w]] > 0) /\ pos'[w] = pos[w] + 1 /\ pc'[w] = "slice"
          BY <1>7, <3>3, Zenon
        <4>2. o # pos[w]
          BY Numbers, <2>2, <2>6, <3>1, <4>1, Zenon
        <4> QED
          BY <1>6, <2>6, <3>1, <4>1, <4>2 DEF Scanning
      <3> QED
        BY <3>2, <3>3, Zenon
    <2>7. RootsOK'
      BY <1>3, <1>8, <1>10, <2>1, <2>6, RootsFrame, Zenon
    <2>8. \A p \in Obj, q \in Obj : Grey(w, p, q) => Grey(w, p, q)'
      BY <1>1, <1>7, Zenon DEF Grey
    <2>9. collecting' = collecting /\ deque' = deque
      BY <1>1, Zenon DEF marks
    <2>10. EdgesOK'
      BY <1>3, <1>8, <1>10, <2>1, <2>8, <2>9, EdgesFrame, Zenon
    <2> QED
      BY <2>1, <2>4, <2>7, <2>10, Zenon
  <1> QED
    BY <1>1, <1>3, <1>5, <1>9, <1>10, BusyStep, Zenon DEF Busy

LEMMA SliceMarkStep ==
  ASSUME IInv, NEW w \in Worker, SliceMark(w)
  PROVE  IInv'
  <1>0. /\ w \in AnyWorker /\ TypeHeap /\ TypeShared /\ TypePc /\ TypeLocals /\ LocalOK(w)
        /\ SliceStart(w) \in Nat /\ SliceEnd(w) \in Nat /\ SliceStart(w) < SliceEnd(w)
        /\ pos[w] \in Nat
    BY Known, Zenon DEF TypeLocals
  <1>1. /\ UNCHANGED <<heap, counts, coord, barriers, deque, main>>
        /\ UNCHANGED <<ep, obj, start, n, work>>
        /\ pc[w] = "slice_mark" /\ MarkReachable(pos[w])
    BY Zenon DEF SliceMark
  <1>2. /\ pc' = [pc EXCEPT ![w] = "visit"] /\ pos' = [pos EXCEPT ![w] = pos[w] + 1]
        /\ todo' = [todo EXCEPT ![w] = refs[pos[w]]] /\ ret' = [ret EXCEPT ![w] = "slice"]
    BY Zenon DEF SliceMark, Goto, Set
  <1>3. SameOthers(w)
    BY <1>0, <1>1, <1>2, WorkerFacts, Zenon DEF SameOthers, Same, TypePc, TypeLocals
  <1>4. pos[w] \in Slice(w) /\ pos[w] \in Obj /\ refs[pos[w]] \in SUBSET Obj
    BY <1>0, <1>1, MarkTarget, Zenon DEF TypeHeap
  <1>5. TypePc' /\ TypeLocals'
    BY <1>0, <1>1, <1>2, <1>4 DEF TypePc, TypeLocals, Locs
  <1>6. TypeInv'
    <2>1. gc_refs' \in [Obj -> Int] /\ collecting' \in [Obj -> BOOLEAN]
      BY <1>0, <1>1, <1>4, MarkReachableFacts, Zenon DEF TypeShared
    <2> QED
      BY <1>0, <1>1, <1>5, <2>1, TypeBusy, Zenon DEF TypeShared
  <1>7. /\ pc'[w] = "visit" /\ pos'[w] = pos[w] + 1
        /\ todo'[w] = refs[pos[w]] /\ ret'[w] = "slice" /\ todo[w] = {}
    BY <1>0, <1>1, <1>2, Zenon DEF TypePc, TypeLocals, LocalOK, Visits
  <1>8. UNCHANGED heap /\ num_workers' = num_workers
    BY <1>1, Zenon DEF heap
  <1>9. LocalOK(w)'
    BY <1>0, <1>1, <1>7, <1>8, SliceSame DEF LocalOK, Scanning, Visits
  <1>10. ASSUME epoch["mark"] = 1
         PROVE  MarksOK' /\ MarkedOK' /\ MarksGrow /\ HeldOK(w)' /\ RootsOK' /\ EdgesOK'
    <2>1. HeldOK(w)
      BY <1>10, MarkingNow, Zenon
    <2>2. pos[w] \in Reachable /\ refs[pos[w]] \subseteq Reachable
      BY <1>0, <1>1, <1>4, <2>1, ReachFacts, Zenon DEF HeldOK
    <2>3. /\ MarksOK' /\ MarkedOK' /\ MarksGrow
          /\ ~ collecting'[pos[w]] /\ \A x \in Obj : x # pos[w] => collecting'[x] = collecting[x]
      BY <1>1, <1>4, <1>10, <2>2, MarksStep, Zenon
    <2>4. HeldOK(w)'
      <3>1. \A o \in Elems(deque[w]) : o \in Obj /\ ~ collecting'[o]
        BY <2>1, <2>3, DequeFacts, Zenon DEF HeldOK, MarksGrow
      <3> QED
        BY <1>1, <1>7, <1>8, <2>2, <3>1, ReachSame, Zenon DEF HeldOK
    <2>5. ASSUME NEW o \in Slice(w), pos[w] <= o, collecting'[o]
          PROVE  Scanning(w)' /\ pos'[w] <= o
      <3>1. o \in Nat /\ o # pos[w]
        BY <2>3, <2>5, NumObjsAssumption DEF Slice, Obj
      <3> QED
        BY <1>0, <1>7, <2>5, <3>1 DEF Scanning, Visits
    <2>6. RootsOK'
      BY <1>3, <1>8, <1>10, <2>3, <2>5, RootsFrame, Zenon
    <2>7. \A p \in Obj, q \in Obj : Grey(w, p, q) => Grey(w, p, q)'
      BY <1>1, <1>7, Zenon DEF Grey
    <2>8. \A p \in Obj, q \in Obj :
            collecting[p] /\ ~ collecting'[p] /\ q \in refs[p] => Grey(w, p, q)'
      BY <1>7, <2>3, Zenon DEF Grey
    <2>9. \A v \in Worker : deque'[v] = deque[v]
      BY <1>1, Zenon
    <2>10. EdgesOK'
      BY Numbers, <1>3, <1>8, <1>10, <2>3, <2>7, <2>8, <2>9, EdgesFrame, Zenon
    <2> QED
      BY <2>3, <2>4, <2>6, <2>10, Zenon
  <1> QED
    BY <1>1, <1>3, <1>6, <1>7, <1>9, <1>10, BusyStep, Zenon DEF Busy, Visits

LEMMA SliceDoneStep ==
  ASSUME IInv, NEW w \in Worker, SliceDone(w)
  PROVE  IInv'
  <1>0. /\ w \in AnyWorker /\ TypeHeap /\ TypeShared /\ TypePc /\ TypeLocals /\ LocalOK(w)
    BY Known, Zenon
  <1>1. /\ UNCHANGED <<heap, marks, counts, coord, barriers, deque, main>>
        /\ UNCHANGED <<ep, obj, todo, start, n, work>>
        /\ pc[w] = "slice" /\ pos[w] = SliceEnd(w)
        /\ pc' = [pc EXCEPT ![w] = "take"] /\ pos' = [pos EXCEPT ![w] = 0] /\ ret' = [ret EXCEPT ![w] = "take"]
    BY Zenon DEF SliceDone, Goto, Set
  <1>2. SameOthers(w)
    BY <1>0, <1>1, WorkerFacts, Zenon DEF SameOthers, Same, TypePc, TypeLocals
  <1>3. TypePc' /\ TypeLocals'
    BY <1>0, <1>1, Zenon DEF TypePc, TypeLocals, Locs
  <1>4. TypeInv'
    BY <1>0, <1>1, <1>3, TypeBusy, Zenon DEF TypeShared, marks
  <1>5. pc'[w] = "take"
    BY <1>0, <1>1, Zenon DEF TypePc
  <1>6. LocalOK(w)'
    BY <1>0, <1>1, <1>5, Zenon DEF LocalOK, Scanning, Visits
  <1>7. ASSUME epoch["mark"] = 1
        PROVE  MarksOK' /\ MarkedOK' /\ MarksGrow /\ HeldOK(w)' /\ RootsOK' /\ EdgesOK'
    <2>1. MarksOK' /\ MarkedOK' /\ MarksGrow /\ collecting' = collecting
      BY <1>1, <1>7, MarksFrame, Zenon DEF marks
    <2>2. HeldOK(w)'
      BY <1>1, <1>5, <1>7, <2>1, MarkingNow, ReachSame, Zenon DEF HeldOK
    <2>3. \A o \in Slice(w) : ~ (pos[w] <= o)
      <3>1. \A o \in Slice(w) : o \in Nat /\ o < SliceEnd(w)
        BY Known, SliceFacts, NumObjsAssumption DEF Slice, Obj
      <3> QED
        BY <1>1, <3>1, Known
    <2>4. RootsOK'
      BY <1>1, <1>2, <1>7, <2>1, <2>3, RootsFrame, Zenon
    <2>5. \A p \in Obj, q \in Obj : Grey(w, p, q) => Grey(w, p, q)'
      BY <1>1, Zenon DEF Grey
    <2>6. EdgesOK'
      BY <1>1, <1>2, <1>7, <2>1, <2>5, EdgesFrame, Zenon
    <2> QED
      BY <2>1, <2>2, <2>4, <2>6, Zenon
  <1> QED
    BY <1>1, <1>2, <1>4, <1>5, <1>6, <1>7, BusyStep, Zenon DEF Busy

\* A step inside a traversal leaves the slice of the worker to be scanned.
LEMMA VisitRoots ==
  ASSUME IInv, epoch["mark"] = 1, NEW w \in Worker, UNCHANGED heap, SameOthers(w), MarksGrow,
         pos'[w] = pos[w], ret'[w] = ret[w], pc[w] \in Visits, pc'[w] \in Visits
  PROVE  RootsOK'
  <1>1. Scanning(w) => Scanning(w)'
    BY Zenon DEF Scanning, Visits
  <1> QED
    BY <1>1, RootsFrame, Zenon

LEMMA VisitLoadStep ==
  ASSUME IInv, NEW w \in Worker, VisitLoad(w)
  PROVE  IInv'
  <1>0. /\ w \in AnyWorker /\ TypeHeap /\ TypeShared /\ TypePc /\ TypeLocals /\ LocalOK(w)
    BY Known, Zenon
  <1>1. /\ UNCHANGED <<heap, marks, counts, coord, barriers, deque, main>>
        /\ UNCHANGED <<ep, pos, ret, start, n, work>>
        /\ pc[w] = "visit" /\ todo[w] # {}
    BY Zenon DEF VisitLoad
  <1>2. PICK o \in todo[w] :
          \/ obj' = [obj EXCEPT ![w] = o] /\ pc' = [pc EXCEPT ![w] = "visit_mark"] /\ todo' = todo
          \/ ~ collecting[o] /\ todo' = [todo EXCEPT ![w] = todo[w] \ {o}] /\ obj' = obj /\ pc' = pc
    <2>1. todo[w] \in SUBSET Nat
      BY <1>0, NumObjsAssumption DEF TypeLocals, Obj
    <2>2. Min(todo[w]) \in todo[w]
      BY <1>1, <2>1, MinFacts, Zenon
    <2> QED
      BY <2>2, Zenon DEF VisitLoad, Set, Goto
  <1>3. o \in Obj /\ o \in Nat
    BY <1>0, NumObjsAssumption DEF TypeLocals, Obj
  <1>4. SameOthers(w)
    BY <1>0, <1>1, <1>2, WorkerFacts, Zenon DEF SameOthers, Same, TypePc, TypeLocals
  <1>5. TypePc' /\ TypeLocals'
    BY <1>0, <1>1, <1>2, <1>3 DEF TypePc, TypeLocals, Locs
  <1>6. TypeInv'
    BY <1>0, <1>1, <1>5, TypeBusy, Zenon DEF TypeShared, marks
  <1>7. \/ obj'[w] = o /\ pc'[w] = "visit_mark" /\ todo'[w] = todo[w]
        \/ ~ collecting[o] /\ todo'[w] = todo[w] \ {o} /\ pc'[w] = "visit"
    BY <1>0, <1>1, <1>2, Zenon DEF TypePc, TypeLocals
  <1>8. LocalOK(w)'
    <2>1. num_workers' = num_workers
      BY <1>1, Zenon DEF heap
    <2> QED
      BY <1>0, <1>1, <1>7, <2>1, SliceSame, Zenon DEF LocalOK, Scanning, Visits
  <1>9. ASSUME epoch["mark"] = 1
        PROVE  MarksOK' /\ MarkedOK' /\ MarksGrow /\ HeldOK(w)' /\ RootsOK' /\ EdgesOK'
    <2>1. MarksOK' /\ MarkedOK' /\ MarksGrow /\ collecting' = collecting
      BY <1>1, <1>9, MarksFrame, Zenon DEF marks
    <2>2. HeldOK(w)'
      BY <1>1, <1>7, <1>9, <2>1, MarkingNow, ReachSame, Zenon DEF HeldOK
    <2>3. RootsOK'
      BY <1>1, <1>4, <1>7, <1>9, <2>1, VisitRoots, Zenon DEF Visits
    <2>4. \A p \in Obj, q \in Obj : collecting[q] /\ Grey(w, p, q) => Grey(w, p, q)'
      BY <1>1, <1>7, Zenon DEF Grey
    <2>5. EdgesOK'
      BY <1>1, <1>4, <1>9, <2>1, <2>4, EdgesFrame, Zenon
    <2> QED
      BY <2>1, <2>2, <2>3, <2>5, Zenon
  <1> QED
    BY <1>1, <1>4, <1>6, <1>7, <1>8, <1>9, BusyStep, Zenon DEF Busy, Visits

LEMMA VisitMarkStep ==
  ASSUME IInv, NEW w \in Worker, VisitMark(w)
  PROVE  IInv'
  <1>0. /\ w \in AnyWorker /\ TypeHeap /\ TypeShared /\ TypePc /\ TypeLocals /\ LocalOK(w)
    BY Known, Zenon
  <1>1. /\ UNCHANGED <<heap, counts, coord, barriers, deque, main>>
        /\ UNCHANGED <<ep, pos, obj, todo, ret, start, n, work>>
        /\ pc[w] = "visit_mark" /\ pc' = [pc EXCEPT ![w] = "visit_push"]
        /\ MarkReachable(obj[w])
    BY Zenon DEF VisitMark, Goto, locals
  <1>2. obj[w] \in Obj /\ obj[w] \in todo[w]
    BY <1>0, <1>1, MarkTarget, Zenon DEF LocalOK
  <1>3. SameOthers(w) /\ pc'[w] = "visit_push"
    BY <1>0, <1>1, WorkerFacts, Zenon DEF SameOthers, Same, TypePc
  <1>4. TypeInv'
    <2>1. gc_refs' \in [Obj -> Int] /\ collecting' \in [Obj -> BOOLEAN]
      BY <1>0, <1>1, <1>2, MarkReachableFacts, Zenon DEF TypeShared
    <2>2. TypePc' /\ TypeLocals'
      BY Numbers, <1>0, <1>1, Zenon DEF TypePc, TypeLocals, Locs
    <2> QED
      BY <1>0, <1>1, <2>1, <2>2, TypeBusy, Zenon DEF TypeShared
  <1>5. LocalOK(w)'
    <2>1. num_workers' = num_workers
      BY <1>1, Zenon DEF heap
    <2> QED
      BY <1>0, <1>1, <1>3, <2>1, SliceSame, Zenon DEF LocalOK, Scanning, Visits
  <1>6. ASSUME epoch["mark"] = 1
        PROVE  MarksOK' /\ MarkedOK' /\ MarksGrow /\ HeldOK(w)' /\ RootsOK' /\ EdgesOK'
    <2>1. HeldOK(w)
      BY <1>6, MarkingNow, Zenon
    <2>2. /\ MarksOK' /\ MarkedOK' /\ MarksGrow
          /\ ~ collecting'[obj[w]] /\ \A x \in Obj : x # obj[w] => collecting'[x] = collecting[x]
      BY <1>1, <1>2, <1>6, <2>1, MarksStep, Zenon DEF HeldOK
    <2>3. \A o \in Elems(deque[w]) : ~ collecting'[o]
      BY <2>1, <2>2, DequeFacts, Zenon DEF HeldOK, MarksGrow
    <2>4. HeldOK(w)'
      BY <1>1, <1>3, <2>1, <2>2, <2>3, ReachSame, Zenon DEF HeldOK
    <2>5. RootsOK'
      BY <1>1, <1>3, <1>6, <2>2, VisitRoots, Zenon DEF Visits
    <2>6. \A p \in Obj, q \in Obj : Grey(w, p, q) => Grey(w, p, q)'
      BY <1>1, Zenon DEF Grey
    <2>7. \A p \in Obj, q \in Obj : collecting[p] /\ ~ collecting'[p] => Grey(w, p, q)'
      BY <1>1, <1>3, <2>2, Zenon DEF Grey
    <2>8. EdgesOK'
      BY <1>1, <1>3, <1>6, <2>2, <2>6, <2>7, EdgesFrame, Zenon
    <2> QED
      BY <2>2, <2>4, <2>5, <2>8, Zenon
  <1> QED
    BY <1>1, <1>3, <1>4, <1>5, <1>6, BusyStep, Zenon DEF Busy, Visits

LEMMA VisitPushStep ==
  ASSUME IInv, NEW w \in Worker, VisitPush(w)
  PROVE  IInv'
  <1>0. /\ w \in AnyWorker /\ TypeHeap /\ TypeShared /\ TypePc /\ TypeLocals /\ LocalOK(w)
    BY Known, Zenon
  <1>1. /\ UNCHANGED <<heap, marks, counts, coord, barriers, main>>
        /\ UNCHANGED <<ep, pos, ret, start, n, work>>
        /\ pc[w] = "visit_push" /\ pc' = [pc EXCEPT ![w] = "visit"]
        /\ deque' = [deque EXCEPT ![w] = Append(deque[w], obj[w])]
        /\ todo' = [todo EXCEPT ![w] = todo[w] \ {obj[w]}]
        /\ obj' = [obj EXCEPT ![w] = 0]
    BY Zenon DEF VisitPush, Goto, Set
  <1>2. obj[w] \in Obj /\ deque[w] \in Seq(Obj)
    BY <1>1, MarkTarget, DequeFacts, Zenon
  <1>3. SameOthers(w) /\ \A v \in Worker : v # w => deque'[v] = deque[v]
    BY <1>0, <1>1, WorkerFacts, Zenon DEF SameOthers, Same, TypePc, TypeLocals, TypeShared
  <1>4. TypeInv'
    <2>1. deque' \in [AnyWorker -> Seq(Obj)]
      BY <1>0, <1>1, <1>2 DEF TypeShared
    <2>2. TypePc' /\ TypeLocals'
      BY <1>0, <1>1, Zenon DEF TypePc, TypeLocals, Locs
    <2> QED
      BY <1>0, <1>1, <2>1, <2>2, TypeBusy, Zenon DEF TypeShared, marks
  <1>5. pc'[w] = "visit" /\ todo'[w] = todo[w] \ {obj[w]} /\ Elems(deque'[w]) = Elems(deque[w]) \cup {obj[w]}
    BY <1>0, <1>1, <1>2, ElemsFacts, Zenon DEF TypePc, TypeLocals, TypeShared
  <1>6. LocalOK(w)'
    <2>1. num_workers' = num_workers
      BY <1>1, Zenon DEF heap
    <2> QED
      BY <1>0, <1>1, <1>5, <2>1, SliceSame, Zenon DEF LocalOK, Scanning, Visits
  <1>7. ASSUME epoch["mark"] = 1
        PROVE  MarksOK' /\ MarkedOK' /\ MarksGrow /\ HeldOK(w)' /\ RootsOK' /\ EdgesOK'
    <2>1. HeldOK(w)
      BY <1>7, MarkingNow, Zenon
    <2>2. MarksOK' /\ MarkedOK' /\ MarksGrow /\ collecting' = collecting
      BY <1>1, <1>7, MarksFrame, Zenon DEF marks
    <2>3. HeldOK(w)'
      BY <1>1, <1>5, <2>1, <2>2, ReachSame, Zenon DEF HeldOK
    <2>4. RootsOK'
      BY <1>1, <1>3, <1>5, <1>7, <2>2, VisitRoots, Zenon DEF Visits
    <2>5. \A p \in Obj, q \in Obj : collecting[q] /\ Grey(w, p, q) => Grey(w, p, q)'
      BY <1>1, <1>5, <2>1, Zenon DEF Grey, HeldOK
    <2>6. EdgesOK'
      BY <1>1, <1>3, <1>7, <2>2, <2>5, EdgesFrame, Zenon
    <2> QED
      BY <2>2, <2>3, <2>4, <2>6, Zenon
  <1> QED
    BY <1>1, <1>3, <1>4, <1>5, <1>6, <1>7, BusyStep, Zenon DEF Busy, Visits

LEMMA VisitDoneStep ==
  ASSUME IInv, NEW w \in Worker, VisitDone(w)
  PROVE  IInv'
  <1>0. /\ w \in AnyWorker /\ TypeHeap /\ TypeShared /\ TypePc /\ TypeLocals /\ LocalOK(w)
    BY Known, Zenon
  <1>1. /\ UNCHANGED <<heap, marks, counts, coord, barriers, deque, main>>
        /\ UNCHANGED <<ep, pos, obj, todo, ret, start, n, work>>
        /\ pc[w] = "visit" /\ todo[w] = {} /\ pc' = [pc EXCEPT ![w] = ret[w]]
    BY Zenon DEF VisitDone, Goto, locals
  <1>2. ret[w] \in {"slice", "take"}
    BY <1>0, Zenon DEF TypeLocals
  <1>3. SameOthers(w) /\ pc'[w] = ret[w]
    BY <1>0, <1>1, WorkerFacts, Zenon DEF SameOthers, Same, TypePc
  <1>4. TypePc' /\ TypeLocals'
    BY <1>0, <1>1, <1>2, Zenon DEF TypePc, TypeLocals, Locs
  <1>5. TypeInv'
    BY <1>0, <1>1, <1>4, TypeBusy, Zenon DEF TypeShared, marks
  <1>6. LocalOK(w)'
    <2>1. num_workers' = num_workers
      BY <1>1, Zenon DEF heap
    <2> QED
      BY <1>0, <1>1, <1>2, <1>3, <2>1, SliceSame, Zenon DEF LocalOK, Scanning, Visits
  <1>7. ASSUME epoch["mark"] = 1
        PROVE  MarksOK' /\ MarkedOK' /\ MarksGrow /\ HeldOK(w)' /\ RootsOK' /\ EdgesOK'
    <2>1. MarksOK' /\ MarkedOK' /\ MarksGrow /\ collecting' = collecting
      BY <1>1, <1>7, MarksFrame, Zenon DEF marks
    <2>2. HeldOK(w)'
      BY <1>1, <1>2, <1>3, <1>7, <2>1, MarkingNow, ReachSame, Zenon DEF HeldOK
    <2>3. Scanning(w) => Scanning(w)' /\ pos'[w] = pos[w]
      BY <1>1, <1>3, Zenon DEF Scanning, Visits
    <2>4. RootsOK'
      BY <1>1, <1>3, <1>7, <2>1, <2>3, RootsFrame, Zenon
    <2>5. \A p \in Obj, q \in Obj : Grey(w, p, q) => Grey(w, p, q)'
      BY <1>1, Zenon DEF Grey
    <2>6. EdgesOK'
      BY <1>1, <1>3, <1>7, <2>1, <2>5, EdgesFrame, Zenon
    <2> QED
      BY <2>1, <2>2, <2>4, <2>6, Zenon
  <1> QED
    BY <1>1, <1>2, <1>3, <1>5, <1>6, <1>7, BusyStep, Zenon DEF Busy, Visits

\* Traversing an object that was in a deque: it is marked, so its referents
\* are reachable.
LEMMA TraverseHeld ==
  ASSUME IInv, epoch["mark"] = 1, NEW v \in Worker, NEW o \in Elems(deque[v])
  PROVE  refs[o] \subseteq Reachable
  <1>1. o \in Obj /\ ~ collecting[o]
    BY MarkingNow, DequeFacts, Zenon DEF HeldOK
  <1> QED
    BY <1>1, MarkingNow, ReachFacts, Zenon DEF MarkedOK, IInv, TypeInv

LEMMA TakeStep ==
  ASSUME IInv, NEW w \in Worker, Take(w)
  PROVE  IInv'
  <1> DEFINE o == deque[w][Len(deque[w])]
             rest == SubSeq(deque[w], 1, Len(deque[w]) - 1)
  <1>0. /\ w \in AnyWorker /\ TypeHeap /\ TypeShared /\ TypePc /\ TypeLocals /\ LocalOK(w)
    BY Known, Zenon
  <1>1. /\ UNCHANGED <<heap, marks, counts, coord, barriers, main>>
        /\ UNCHANGED <<ep, pos, obj, start, n, work>>
        /\ pc[w] = "take" /\ deque[w] # <<>> /\ pc' = [pc EXCEPT ![w] = "visit"]
        /\ deque' = [deque EXCEPT ![w] = rest]
        /\ todo' = [todo EXCEPT ![w] = refs[o]] /\ ret' = [ret EXCEPT ![w] = "take"]
    BY Zenon DEF Take, Traverse, Goto, Set
  <1>2. deque[w] \in Seq(Obj) /\ o \in Obj /\ Elems(deque[w]) = Elems(rest) \cup {o} /\ rest \in Seq(Obj)
    BY <1>1, DequeFacts, ElemsFacts
  <1> HIDE DEF o, rest
  <1>3. SameOthers(w) /\ \A v \in Worker : v # w => deque'[v] = deque[v]
    BY <1>0, <1>1, WorkerFacts, Zenon DEF SameOthers, Same, TypePc, TypeLocals, TypeShared
  <1>4. TypeInv'
    <2>1. refs[o] \in SUBSET Obj
      BY <1>0, <1>2, Zenon DEF TypeHeap
    <2>2. deque' \in [AnyWorker -> Seq(Obj)]
      BY <1>0, <1>1, <1>2, Zenon DEF TypeShared
    <2>3. TypePc' /\ TypeLocals'
      BY <1>0, <1>1, <2>1, Zenon DEF TypePc, TypeLocals, Locs
    <2> QED
      BY <1>0, <1>1, <2>2, <2>3, TypeBusy, Zenon DEF TypeShared, marks
  <1>5. pc'[w] = "visit" /\ ret'[w] = "take" /\ todo'[w] = refs[o] /\ deque'[w] = rest /\ todo[w] = {}
    BY <1>0, <1>1, Zenon DEF TypePc, TypeLocals, TypeShared, LocalOK, Visits
  <1>6. LocalOK(w)'
    BY <1>5, Zenon DEF LocalOK, Scanning, Visits
  <1>7. ASSUME epoch["mark"] = 1
        PROVE  MarksOK' /\ MarkedOK' /\ MarksGrow /\ HeldOK(w)' /\ RootsOK' /\ EdgesOK'
    <2>1. MarksOK' /\ MarkedOK' /\ MarksGrow /\ collecting' = collecting
      BY <1>1, <1>7, MarksFrame, Zenon DEF marks
    <2>2. refs[o] \subseteq Reachable
      BY <1>2, <1>7, TraverseHeld, Zenon
    <2>3. HeldOK(w)'
      BY <1>1, <1>2, <1>5, <1>7, <2>1, <2>2, MarkingNow, ReachSame, Zenon DEF HeldOK
    <2>4. RootsOK'
      BY Numbers, <1>1, <1>3, <1>7, <2>1, RootsFrame, Zenon DEF Scanning, Visits
    <2>5. \A p \in Obj, q \in Obj : q \in refs[p] /\ Grey(w, p, q) => Grey(w, p, q)'
      BY <1>1, <1>2, <1>5, Zenon DEF Grey
    <2>6. EdgesOK'
      BY <1>1, <1>3, <1>7, <2>1, <2>5, EdgesFrame, Zenon
    <2> QED
      BY <2>1, <2>3, <2>4, <2>6, Zenon
  <1> QED
    BY <1>1, <1>3, <1>4, <1>5, <1>6, <1>7, BusyStep, Zenon DEF Busy, Visits

LEMMA StealStep ==
  ASSUME IInv, NEW w \in Worker, Steal(w)
  PROVE  IInv'
  <1> DEFINE u == Victim(w)
             o == Head(deque[u])
             rest == Tail(deque[u])
  <1>0. /\ w \in AnyWorker /\ TypeHeap /\ TypeShared /\ TypePc /\ TypeLocals /\ LocalOK(w)
        /\ u \in Worker /\ u \in AnyWorker
    BY Known, VictimFacts, WorkerFacts, Zenon
  <1>1. /\ UNCHANGED <<heap, marks, counts, coord, barriers, main>>
        /\ UNCHANGED <<ep, obj, n, work>>
        /\ pc[w] = "steal" /\ u # w /\ deque[u] # <<>> /\ pc' = [pc EXCEPT ![w] = "visit"]
        /\ deque' = [deque EXCEPT ![u] = rest]
        /\ todo' = [todo EXCEPT ![w] = refs[o]] /\ ret' = [ret EXCEPT ![w] = "take"]
        /\ pos' = [pos EXCEPT ![w] = 0] /\ start' = [start EXCEPT ![w] = 0]
    BY Zenon DEF Steal, Traverse, Goto, Set
  <1> HIDE DEF u
  <1>2. deque[u] \in Seq(Obj) /\ o \in Obj /\ Elems(deque[u]) = Elems(rest) \cup {o} /\ rest \in Seq(Obj)
    BY <1>0, <1>1, DequeFacts, ElemsFacts
  <1> HIDE DEF o, rest
  <1>3. SameOthers(w) /\ deque'[w] = deque[w] /\ \A v \in Worker : deque'[v] = IF v = u THEN rest ELSE deque[v]
    <2>1. deque'[w] = deque[w] /\ \A v \in Worker : deque'[v] = IF v = u THEN rest ELSE deque[v]
      BY <1>0, <1>1, WorkerFacts, Zenon DEF TypeShared
    <2>2. SameOthers(w)
      BY <1>0, <1>1, <2>1, WorkerFacts, Zenon DEF SameOthers, Same, TypePc, TypeLocals, rest
    <2> QED
      BY <2>1, <2>2, Zenon
  <1>4. TypeInv'
    <2>1. refs[o] \in SUBSET Obj
      BY <1>0, <1>2, Zenon DEF TypeHeap
    <2>2. deque' \in [AnyWorker -> Seq(Obj)]
      BY <1>0, <1>1, <1>2, Zenon DEF TypeShared
    <2>3. TypePc' /\ TypeLocals'
      BY <1>0, <1>1, <2>1, Zenon DEF TypePc, TypeLocals, Locs
    <2> QED
      BY <1>0, <1>1, <2>2, <2>3, TypeBusy, Zenon DEF TypeShared, marks
  <1>5. pc'[w] = "visit" /\ ret'[w] = "take" /\ todo'[w] = refs[o] /\ todo[w] = {} /\ deque[w] = <<>>
    BY <1>0, <1>1, Zenon DEF TypePc, TypeLocals, LocalOK, Visits
  <1>6. LocalOK(w)'
    BY <1>5, Zenon DEF LocalOK, Scanning, Visits
  <1>7. ASSUME epoch["mark"] = 1
        PROVE  MarksOK' /\ MarkedOK' /\ MarksGrow /\ HeldOK(w)' /\ RootsOK' /\ EdgesOK'
    <2>1. MarksOK' /\ MarkedOK' /\ MarksGrow /\ collecting' = collecting
      BY Numbers, <1>1, <1>7, MarksFrame, Zenon DEF marks
    <2>2. refs[o] \subseteq Reachable
      BY <1>0, <1>2, <1>7, TraverseHeld, Zenon
    <2>3. HeldOK(w)'
      BY <1>1, <1>3, <1>5, <1>7, <2>1, <2>2, MarkingNow, ReachSame, Zenon DEF HeldOK
    <2>4. RootsOK'
      BY <1>1, <1>3, <1>7, <2>1, RootsFrame, Zenon DEF Scanning, Visits
    <2>5. \A p \in Obj, q \in Obj : q \in refs[p] /\ Grey(w, p, q) => Grey(w, p, q)'
      BY <1>1, <1>3, <1>5, Zenon DEF Grey
    <2>6. \A v \in Worker : v # w =>
            \A p \in Elems(deque[v]), q \in Obj :
              q \in refs[p] => p \in Elems(deque'[v]) \/ q \in todo'[w]
      BY <1>2, <1>3, <1>5, Zenon
    <2>7. EdgesOK'
      BY <1>1, <1>3, <1>7, <2>1, <2>5, <2>6, EdgesStep, Zenon
    <2> QED
      BY <2>1, <2>3, <2>4, <2>7, Zenon
  <1> QED
    BY <1>1, <1>3, <1>4, <1>5, <1>6, <1>7, BusyStep, Zenon DEF Busy, Visits

\* Looking for work: only pos and start change.
LEMMA SearchStep ==
  ASSUME IInv, NEW w \in Worker, TakeNull(w) \/ StealMiss(w)
  PROVE  IInv'
  <1>0. /\ w \in AnyWorker /\ TypeHeap /\ TypeShared /\ TypePc /\ TypeLocals /\ LocalOK(w)
    BY Known, Zenon
  <1>1. /\ UNCHANGED <<heap, marks, counts, coord, barriers, deque, main>>
        /\ UNCHANGED <<ep, obj, todo, ret, n, work>>
        /\ pc[w] \in {"take", "steal"} /\ (deque[w] = <<>> \/ pc[w] = "steal")
        /\ pc' = [pc EXCEPT ![w] = "steal"]
    BY <1>0, Zenon DEF TakeNull, StealMiss, Goto, TypePc
  <1>2. /\ \E k \in Nat : start' = [start EXCEPT ![w] = k]
        /\ \E k \in Nat : pos' = [pos EXCEPT ![w] = k]
    BY <1>0 DEF TakeNull, StealMiss, Set, TypeLocals, Worker
  <1>3. SameOthers(w) /\ pc'[w] = "steal" /\ PcOnly(w)
    BY <1>0, <1>1, <1>2, WorkerFacts, Zenon DEF SameOthers, Same, PcOnly, TypePc, TypeLocals
  <1>4. TypePc' /\ TypeLocals'
    BY <1>0, <1>1, <1>2, SMTT(60) DEF TypePc, TypeLocals, Locs
  <1>5. TypeInv'
    BY <1>0, <1>1, <1>4, TypeBusy, Zenon DEF TypeShared, marks
  <1>6. LocalOK(w)'
    BY <1>0, <1>1, <1>3, Zenon DEF LocalOK, Scanning, Visits
  <1>7. LocalInv'
    BY <1>1, <1>3, <1>6, LocalFrame, Zenon
  <1>8. MarkInv'
    BY <1>1, <1>3, MarkQuiet, Zenon DEF MarkLabels, Visits, barriers
  <1> QED
    BY <1>1, <1>3, <1>5, <1>7, <1>8, BusyControl, Zenon DEF IInv, Busy
-----------------------------------------------------------------------------
(* Stealing, the semaphore and the coordinator.                             *)

Quiet == {"steal", "take", "quit", "sema", "loop", "done"} \cup Coords

\* A worker without work moves: only the counting can be disturbed.
LEMMA QuietStep ==
  ASSUME IInv, NEW w \in Worker, UNCHANGED <<heap, marks, barriers, deque, main>>, todo' = todo,
         SameOthers(w), pc[w] \in Quiet \ {"take"}, pc'[w] \in Quiet,
         num_workers_marking' \in Nat, tokens_left' \in Nat,
         steal_coordinator' \in Worker \cup {NoWorker}, TypePc', TypeLocals',
         CoordInv', CountInv'
  PROVE  IInv'
  <1>1. LocalOK(w) /\ UNCHANGED heap /\ Worker' = Worker
    BY Known, SliceSame, Zenon DEF heap
  <1>2. TypeInv'
    <2>1. TypeHeap'
      BY Zenon DEF IInv, TypeInv, TypeHeap, heap
    <2> QED
      BY <1>1, <2>1, Zenon DEF IInv, TypeInv, TypeShared, heap, marks, barriers, main
  <1>3. /\ pc[w] \notin Early \cup Finished \cup MarkLabels
        /\ pc'[w] \notin Early \cup Finished \cup MarkLabels
    BY Zenon DEF Quiet, Coords, Early, Finished, MarkLabels, Visits
  <1>4. PcOnly(w)
    BY Zenon DEF PcOnly, SameOthers, Same
  <1>5. epoch["mark"] = 1 /\ epoch' = epoch /\ num_left' = num_left
    BY <1>3, LateEpoch, Zenon DEF barriers, MarkLabels
  <1>6. LocalOK(w)'
    <2>1. todo'[w] = {} /\ deque'[w] = <<>>
      BY <1>1, Zenon DEF LocalOK, Quiet, Coords, Visits
    <2> QED
      BY <1>3, <2>1, Zenon DEF LocalOK, Scanning, MarkLabels, Early, Visits
  <1>7. LocalInv'
    BY <1>1, <1>6, LocalFrame, Zenon
  <1>8. StartInv'
    BY Numbers, <1>1, <1>3, <1>4, StartFrame, Zenon DEF Early
  <1>9. MarkBarrierInv'
    BY <1>1, <1>3, <1>4, <1>5, MarkBarrierFrame, Zenon
  <1>10. DoneBarrierInv'
    BY <1>1, <1>3, <1>4, <1>5, DoneBarrierFrame, Zenon DEF main
  <1>11. SubtractInv'
    BY Numbers, <1>5, Zenon DEF SubtractInv
  <1>12. MarkInv'
    BY <1>1, <1>3, <1>5, MarkQuiet, Zenon
  <1> QED
    BY <1>2, <1>7, <1>8, <1>9, <1>10, <1>11, <1>12, Zenon DEF IInv

LEMMA TakeStealCoordinatorStep ==
  ASSUME IInv, NEW w \in Worker, TakeStealCoordinator(w)
  PROVE  IInv'
  <1>0. /\ w \in AnyWorker /\ TypeShared /\ TypePc /\ TypeLocals /\ TypeHeap
    BY Known, Zenon
  <1>1. /\ UNCHANGED <<heap, marks, barriers, deque, main>> /\ todo' = todo
        /\ UNCHANGED <<num_workers_marking, tokens_left>>
        /\ UNCHANGED <<ep, obj, ret, n, work>> /\ pc[w] = "steal"
        /\ pos' = [pos EXCEPT ![w] = 0] /\ start' = [start EXCEPT ![w] = 0]
    BY Zenon DEF TakeStealCoordinator, counts, Set
  <1>2. \/ steal_coordinator = NoWorker /\ steal_coordinator' = w /\ pc' = [pc EXCEPT ![w] = "coord"]
        \/ steal_coordinator # NoWorker /\ steal_coordinator' = steal_coordinator /\ pc' = [pc EXCEPT ![w] = "quit"]
    BY Zenon DEF TakeStealCoordinator, Goto
  <1>3. SameOthers(w) /\ PcOnly(w)
    BY <1>0, <1>1, <1>2, WorkerFacts, Zenon DEF SameOthers, Same, PcOnly, TypePc, TypeLocals
  <1>4. \/ steal_coordinator = NoWorker /\ steal_coordinator' = w /\ pc'[w] = "coord"
        \/ steal_coordinator # NoWorker /\ steal_coordinator' = steal_coordinator /\ pc'[w] = "quit"
    BY <1>0, <1>2, Zenon DEF TypePc
  <1>5. TypePc' /\ TypeLocals'
    BY <1>0, <1>1, <1>2, Zenon DEF TypePc, TypeLocals, Locs
  <1>6. Worker' = Worker /\ UNCHANGED heap /\ w # NoWorker
    BY <1>0, <1>1, SliceSame, WorkerFacts, Zenon DEF heap
  <1>7. CoordInv /\ CountInv /\ steal_coordinator \in Worker \cup {NoWorker}
    BY <1>0, Zenon DEF IInv, TypeShared
  <1>8. steal_coordinator # w
    BY Numbers, <1>1, <1>7, Zenon DEF CoordInv, Coords
  <1>9. CoordInv'
    <2>1. \A v \in Worker : pc'[v] \in Coords <=> steal_coordinator' = v
      BY <1>0, <1>1, <1>3, <1>4, <1>7, <1>8, WorkerFacts, Zenon DEF CoordInv, PcOnly, Coords
    <2>2. \A v \in Worker : pc'[v] = "coord_last" => pc[v] = "coord_last"
      BY <1>3, <1>4, Zenon DEF PcOnly
    <2> QED
      BY <1>1, <1>6, <1>7, <2>1, <2>2, Zenon DEF CoordInv
  <1>10. CountInv'
    <2>1. num_workers_marking # 0
      BY <1>1, <1>7, Zenon DEF CountInv, Finished
    <2>2. Marking' = Marking
      <3>1. w \in Marking /\ w \in Marking'
        BY <1>1, <1>4, <1>6, Zenon DEF Marking
      <3> QED
        BY <1>3, <1>6, <3>1, MarkingStep, Zenon
    <2>3. posting' = posting
      BY <1>1, <1>3, <1>4, <1>6, <1>7, <1>8, Zenon DEF posting, PcOnly
    <2>4. \A v \in Worker : pc'[v] \notin {"done"} \cup Finished
      BY <1>3, <1>4, <1>7, <2>1, Zenon DEF CountInv, PcOnly, Finished
    <2>5. \E v \in Worker : pc'[v] \notin {"sema", "quit"}
      <3>1. CASE pc'[w] = "coord"
        BY <3>1, Zenon
      <3>2. CASE pc'[w] # "coord"
        <4>1. steal_coordinator \in Worker /\ steal_coordinator # w
          BY <1>4, <1>7, <1>8, <3>2, Zenon
        <4>2. pc'[steal_coordinator] \in Coords
          BY <1>3, <1>7, <4>1, Zenon DEF CoordInv, PcOnly
        <4> QED
          BY <4>1, <4>2, Zenon DEF Coords
      <3> QED
        BY <3>1, <3>2, Zenon
    <2> QED
      BY <1>1, <1>6, <1>7, <2>1, <2>2, <2>3, <2>4, <2>5, Zenon DEF CountInv
  <1>11. pc'[w] \in Quiet /\ pc[w] \in Quiet \ {"take"} /\ steal_coordinator' \in Worker \cup {NoWorker}
    BY Numbers, <1>1, <1>4, <1>7, Zenon DEF Quiet, Coords
  <1> QED
    BY <1>0, <1>1, <1>3, <1>5, <1>9, <1>10, <1>11, QuietStep, Zenon DEF TypeShared

LEMMA QuitStep ==
  ASSUME IInv, NEW w \in Worker, Quit(w)
  PROVE  IInv'
  <1>0. /\ w \in AnyWorker /\ TypeShared /\ TypePc /\ TypeLocals /\ TypeHeap
    BY Known, Zenon
  <1>1. /\ UNCHANGED <<heap, marks, barriers, deque, main>> /\ todo' = todo /\ UNCHANGED locals
        /\ num_workers_marking' = num_workers_marking - 1 /\ UNCHANGED <<steal_coordinator, tokens_left>>
        /\ pc[w] = "quit" /\ pc' = [pc EXCEPT ![w] = "sema"]
    BY Zenon DEF Quit, coord, locals, Goto
  <1>2. SameOthers(w) /\ PcOnly(w) /\ pc'[w] = "sema"
    BY <1>0, <1>1, WorkerFacts, Zenon DEF SameOthers, Same, PcOnly, TypePc, locals
  <1>3. TypePc' /\ TypeLocals'
    BY <1>0, <1>1, Zenon DEF TypePc, TypeLocals, Locs, locals
  <1>4. Worker' = Worker /\ UNCHANGED heap /\ n' = n /\ work' = work
    BY <1>1, SliceSame, Zenon DEF heap, locals
  <1>5. CoordInv /\ CountInv /\ steal_coordinator \in Worker \cup {NoWorker}
    BY <1>0, Zenon DEF IInv, TypeShared
  <1>6. num_workers_marking >= 2 /\ num_workers_marking \in Nat
    BY <1>0, <1>1, QuitCount, Zenon DEF TypeShared
  <1>7. CoordInv'
    <2>1. \A v \in Worker : (pc'[v] \in Coords <=> pc[v] \in Coords) /\ (pc'[v] = "coord_last" => pc[v] = "coord_last")
      BY <1>1, <1>2, Zenon DEF PcOnly, Coords
    <2> QED
      BY <1>1, <1>4, <1>5, <1>6, <2>1 DEF CoordInv
  <1>8. CountInv'
    <2>1. Cardinality(Marking') = Cardinality(Marking) - 1 /\ Cardinality(Marking) \in Nat
      <3>1. w \in Marking /\ w \notin Marking'
        BY <1>1, <1>2, <1>4, Zenon DEF Marking
      <3> QED
        BY <1>2, <1>4, <3>1, MarkingStep, Zenon
    <2>2. posting' = posting
      <3>1. steal_coordinator # w
        BY <1>1, <1>5, Zenon DEF CoordInv, Coords
      <3> QED
        BY <1>1, <1>2, <1>4, <1>5, <3>1, Zenon DEF posting, PcOnly
    <2>3. \A v \in Worker : pc'[v] \notin {"done"} \cup Finished
      BY <1>2, <1>5, <1>6 DEF CountInv, PcOnly, Finished
    <2>4. \E v \in Worker : pc'[v] \notin {"sema", "quit"}
      BY <1>1, <1>2, <1>5, <1>6 DEF CountInv, PcOnly
    <2>5. num_workers_marking = Cardinality(Marking) + tokens_left + posting
      BY <1>5, <1>6 DEF CountInv
    <2>6. num_workers_marking' = Cardinality(Marking') + tokens_left' + posting' /\ num_workers_marking' # 0
      BY <1>1, <1>6, <2>1, <2>2, <2>5, PostingType
    <2> QED
      BY <1>4, <2>3, <2>4, <2>6, Zenon DEF CountInv
  <1>9. num_workers_marking' \in Nat /\ pc'[w] \in Quiet /\ pc[w] \in Quiet \ {"take"}
    BY <1>1, <1>2, <1>6 DEF Quiet
  <1> QED
    BY <1>0, <1>1, <1>2, <1>3, <1>5, <1>7, <1>8, <1>9, QuietStep, Zenon DEF TypeShared

LEMMA SemaWaitStep ==
  ASSUME IInv, NEW w \in Worker, SemaWait(w)
  PROVE  IInv'
  <1>0. /\ w \in AnyWorker /\ TypeShared /\ TypePc /\ TypeLocals /\ TypeHeap
    BY Known, Zenon
  <1>1. /\ UNCHANGED <<heap, marks, barriers, deque, main>> /\ todo' = todo /\ UNCHANGED locals
        /\ UNCHANGED <<num_workers_marking, steal_coordinator>> /\ pc[w] = "sema"
    BY Zenon DEF SemaWait, counts, locals
  <1>2. \/ tokens_left > 0 /\ tokens_left' = tokens_left - 1 /\ pc' = [pc EXCEPT ![w] = "loop"]
        \/ tokens_left' = tokens_left /\ pc' = [pc EXCEPT ![w] = "sema"]
    BY <1>0, <1>1, Zenon DEF SemaWait, Goto, TypePc
  <1>3. SameOthers(w) /\ PcOnly(w)
    BY <1>0, <1>1, <1>2, WorkerFacts, Zenon DEF SameOthers, Same, PcOnly, TypePc, locals
  <1>4. \/ tokens_left > 0 /\ tokens_left' = tokens_left - 1 /\ pc'[w] = "loop"
        \/ tokens_left' = tokens_left /\ pc'[w] = "sema"
    BY <1>0, <1>2, Zenon DEF TypePc
  <1>5. TypePc' /\ TypeLocals'
    BY <1>0, <1>1, <1>2, Zenon DEF TypePc, TypeLocals, Locs, locals
  <1>6. Worker' = Worker /\ UNCHANGED heap /\ n' = n /\ work' = work
    BY <1>1, SliceSame, Zenon DEF heap, locals
  <1>7. CoordInv /\ CountInv /\ steal_coordinator \in Worker \cup {NoWorker}
    BY <1>0, Zenon DEF IInv, TypeShared
  <1>8. CoordInv'
    <2>1. \A v \in Worker : (pc'[v] \in Coords <=> pc[v] \in Coords) /\ (pc'[v] = "coord_last" => pc[v] = "coord_last")
      BY <1>1, <1>3, <1>4, Zenon DEF PcOnly, Coords
    <2> QED
      BY <1>1, <1>6, <1>7, <2>1, Zenon DEF CoordInv
  <1>9. CountInv'
    <2>1. ASSUME num_workers_marking = 0 PROVE CountInv'
      BY <1>1, <1>3, <1>4, <1>6, <1>7, <2>1, Zenon DEF CountInv, PcOnly
    <2>2. ASSUME num_workers_marking # 0 PROVE CountInv'
      <3>1. posting' = posting
        <4>1. steal_coordinator # w
          BY Numbers, <1>1, <1>7, Zenon DEF CoordInv, Coords
        <4> QED
          BY <1>1, <1>3, <1>6, <1>7, <4>1, Zenon DEF posting, PcOnly
      <3>2. \A v \in Worker : pc'[v] \notin {"done"} \cup Finished
        BY <1>3, <1>4, <1>7, <2>2, Zenon DEF CountInv, PcOnly, Finished
      <3>3. \E v \in Worker : pc'[v] \notin {"sema", "quit"}
        BY <1>1, <1>3, <1>4, <1>7, <2>2, Zenon DEF CountInv, PcOnly
      <3>4. Cardinality(Marking') + tokens_left' = Cardinality(Marking) + tokens_left
        <4>1. w \notin Marking /\ (w \in Marking' <=> pc'[w] = "loop")
          BY <1>1, <1>4, <1>6, Zenon DEF Marking
        <4> QED
          BY <1>0, <1>3, <1>4, <1>6, <4>1, MarkingStep DEF TypeShared
      <3>5. num_workers_marking' = Cardinality(Marking') + tokens_left' + posting'
        BY <1>1, <1>7, <2>2, <3>1, <3>4, Zenon DEF CountInv
      <3> QED
        BY <1>1, <1>6, <2>2, <3>2, <3>3, <3>5, Zenon DEF CountInv
    <2> QED
      BY <2>1, <2>2, Zenon
  <1>10. tokens_left' \in Nat /\ pc'[w] \in Quiet /\ pc[w] \in Quiet \ {"take"}
    BY <1>0, <1>1, <1>4 DEF Quiet, TypeShared
  <1> QED
    BY <1>0, <1>1, <1>3, <1>5, <1>7, <1>8, <1>9, <1>10, QuietStep, Zenon DEF TypeShared
\* A worker that counts as marking before and after moves.
LEMMA CountStep ==
  ASSUME IInv, NEW w \in Worker, UNCHANGED heap, PcOnly(w),
         pc[w] \notin {"sema", "done"} \cup Finished,
         pc'[w] \notin {"sema", "quit", "done"} \cup Finished,
         num_workers_marking # 0, num_workers_marking' # 0,
         num_workers_marking' = num_workers_marking + (tokens_left' - tokens_left) + (posting' - posting),
         tokens_left' \in Nat, posting' \in Nat
  PROVE  CountInv'
  <1>1. CountInv /\ Worker' = Worker
    BY SliceSame, Zenon DEF IInv, heap
  <1>2. Marking' = Marking /\ Cardinality(Marking) \in Nat
    <2>1. w \in Marking /\ w \in Marking'
      BY <1>1, Zenon DEF Marking, Finished
    <2> QED
      BY <2>1, MarkingStep, Zenon
  <1>3. posting \in Nat /\ tokens_left \in Nat
    BY PostingType, Zenon
  <1>4. num_workers_marking = Cardinality(Marking) + tokens_left + posting
    BY <1>1, Zenon DEF CountInv
  <1>5. num_workers_marking' = Cardinality(Marking') + tokens_left' + posting'
    BY <1>2, <1>3, <1>4
  <1>6. \A v \in Worker : pc'[v] \notin {"done"} \cup Finished
    BY <1>1, Zenon DEF CountInv, PcOnly
  <1> QED
    BY <1>1, <1>5, <1>6, Zenon DEF CountInv

\* The coordinator, and only it, is in CoordinateStealing.
LEMMA CoordFacts ==
  ASSUME IInv, NEW w \in Worker, pc[w] \in Coords
  PROVE  /\ steal_coordinator = w /\ w # NoWorker
         /\ \A v \in Worker : v # w => pc[v] \notin Coords
         /\ pc[w] \notin {"coord_post", "coord_drop"} => num_workers_marking # 0
         /\ posting = IF pc[w] = "coord_post" THEN work[w] ELSE 0
  <1>1. CoordInv /\ CountInv /\ w # NoWorker
    BY Known, WorkerFacts, Zenon DEF IInv
  <1>2. steal_coordinator = w /\ \A v \in Worker : v # w => pc[v] \notin Coords
    BY <1>1, Zenon DEF CoordInv
  <1>3. pc[w] \notin {"coord_post", "coord_drop"} => num_workers_marking # 0
    BY <1>1, Zenon DEF CountInv, Coords, Finished
  <1> QED
    BY <1>1, <1>2, <1>3, Zenon DEF posting

\* The coordinator moves on without changing a count.
LEMMA CoordinateStep ==
  ASSUME IInv, NEW w \in Worker, UNCHANGED heap, PcOnly(w), \A v \in Worker : v # w => n'[v] = n[v],
         UNCHANGED <<num_workers_marking, tokens_left, steal_coordinator>>,
         pc[w] \in {"coord", "coord_size"}, pc'[w] \in Coords \ {"coord_post"},
         pc'[w] = "coord_last" => num_workers_marking = 1 /\ n'[w] = 1
  PROVE  CoordInv' /\ CountInv'
  <1>1. Worker' = Worker /\ pc[w] \in Coords /\ pc'[w] \in Coords
    BY SliceSame, Zenon DEF heap, Coords
  <1>2. /\ steal_coordinator = w /\ w # NoWorker
        /\ \A v \in Worker : v # w => pc[v] \notin Coords
        /\ num_workers_marking # 0 /\ posting = 0
    BY <1>1, CoordFacts, Zenon
  <1>3. CoordInv'
    <2>1. \A v \in Worker : pc'[v] \in Coords <=> v = w
      BY <1>1, <1>2, Zenon DEF PcOnly
    <2> QED
      BY <1>1, <1>2, <2>1, Zenon DEF CoordInv, Coords
  <1>4. posting' = 0
    BY <1>2, Zenon DEF posting
  <1>5. num_workers_marking \in Nat /\ tokens_left \in Nat
    BY Known, Zenon DEF TypeShared
  <1>6. num_workers_marking' = num_workers_marking + (tokens_left' - tokens_left) + (posting' - posting)
    BY <1>2, <1>4, <1>5
  <1>7. CountInv'
    BY <1>2, <1>4, <1>5, <1>6, CountStep, Zenon DEF Coords, Finished
  <1> QED
    BY <1>3, <1>7, Zenon

LEMMA CoordLoadStep ==
  ASSUME IInv, NEW w \in Worker, CoordLoad(w)
  PROVE  IInv'
  <1>0. /\ w \in AnyWorker /\ TypeShared /\ TypePc /\ TypeLocals
    BY Known, Zenon
  <1>1. /\ UNCHANGED <<heap, marks, barriers, deque, main>> /\ todo' = todo /\ UNCHANGED heap
        /\ UNCHANGED <<num_workers_marking, tokens_left, steal_coordinator>>
        /\ UNCHANGED <<ep, obj, ret, start>> /\ pc[w] = "coord"
        /\ pos' = [pos EXCEPT ![w] = 0] /\ work' = [work EXCEPT ![w] = 0]
        /\ n' = [n EXCEPT ![w] = num_workers_marking]
        /\ pc' = [pc EXCEPT ![w] = IF num_workers_marking = 1 THEN "coord_last" ELSE "coord_size"]
    BY Zenon DEF CoordLoad, counts, coord, Set, Goto
  <1>2. /\ TypePc' /\ TypeLocals' /\ n'[w] = num_workers_marking
        /\ pc'[w] = IF num_workers_marking = 1 THEN "coord_last" ELSE "coord_size"
    BY <1>0, <1>1, Zenon DEF TypePc, TypeLocals, TypeShared, Locs
  <1>3. SameOthers(w) /\ PcOnly(w) /\ \A v \in Worker : v # w => n'[v] = n[v]
    BY <1>0, <1>1, Known, WorkerFacts, Zenon DEF SameOthers, Same, PcOnly, TypePc, TypeLocals
  <1>4. /\ pc'[w] \in Quiet /\ pc[w] \in Quiet \ {"take"} /\ pc'[w] \in Coords \ {"coord_post"}
        /\ pc'[w] = "coord_last" => num_workers_marking = 1 /\ n'[w] = 1
    BY <1>1, <1>2 DEF Quiet, Coords
  <1>5. CoordInv' /\ CountInv'
    BY <1>1, <1>3, <1>4, CoordinateStep, Zenon
  <1> QED
    BY <1>0, <1>1, <1>2, <1>3, <1>4, <1>5, QuietStep, Zenon DEF TypeShared

LEMMA CoordSizeStep ==
  ASSUME IInv, NEW w \in Worker, CoordSize(w)
  PROVE  IInv'
  <1>0. /\ w \in AnyWorker /\ w \in Worker /\ TypeShared /\ TypePc /\ TypeLocals /\ num_workers \in Nat
    BY Known, Zenon
  <1>1. /\ UNCHANGED <<heap, marks, barriers, deque, main>> /\ todo' = todo /\ UNCHANGED heap
        /\ UNCHANGED <<num_workers_marking, tokens_left, steal_coordinator>>
        /\ UNCHANGED <<pc, ep, obj, ret, start, n>> /\ pc[w] = "coord_size"
        /\ pos' = [pos EXCEPT ![w] = pos[w] + 1] /\ pos[w] < num_workers
    BY Zenon DEF CoordSize, counts, coord, Set
  <1>2. PICK lowered \in {0, 1} :
          /\ lowered = 1 => deque[pos[w]] # <<>>
          /\ work' = [work EXCEPT ![w] = work[w] + Len(deque[pos[w]]) - lowered]
    BY Zenon DEF CoordSize, Set
  <1>3. pos[w] \in Worker /\ deque[pos[w]] \in Seq(Obj) /\ work[w] \in Nat
    <2>1. pos[w] \in Worker
      BY <1>0, <1>1 DEF TypeLocals, Worker
    <2> QED
      BY Numbers, <1>0, <2>1, DequeFacts, Zenon DEF TypeLocals
  <1>4. work[w] + Len(deque[pos[w]]) - lowered \in Nat
    <2>1. Len(deque[pos[w]]) \in Nat /\ (deque[pos[w]] # <<>> => Len(deque[pos[w]]) # 0)
      BY <1>3
    <2> QED
      BY <1>2, <1>3, <2>1
  <1>5. TypePc' /\ TypeLocals' /\ pc'[w] = "coord_size"
    BY <1>0, <1>1, <1>2, <1>4, SMTT(60) DEF TypePc, TypeLocals
  <1>6. SameOthers(w) /\ PcOnly(w) /\ \A v \in Worker : v # w => n'[v] = n[v]
    BY <1>0, <1>1, <1>2, Known, WorkerFacts, Zenon DEF SameOthers, Same, PcOnly, TypePc, TypeLocals
  <1>7. pc'[w] \in Quiet /\ pc[w] \in Quiet \ {"take"} /\ pc'[w] \in Coords \ {"coord_post"}
    BY <1>1, <1>5, Zenon DEF Quiet, Coords
  <1>8. CoordInv' /\ CountInv'
    BY <1>1, <1>5, <1>6, <1>7, CoordinateStep, Zenon
  <1> QED
    BY <1>0, <1>1, <1>5, <1>6, <1>7, <1>8, QuietStep, Zenon DEF TypeShared

LEMMA CoordNoWakeStep ==
  ASSUME IInv, NEW w \in Worker, CoordNoWake(w)
  PROVE  IInv'
  <1>0. /\ w \in AnyWorker /\ TypeShared /\ TypePc /\ TypeLocals
    BY Known, Zenon
  <1>1. /\ UNCHANGED <<heap, marks, barriers, deque, main>> /\ todo' = todo /\ UNCHANGED heap
        /\ UNCHANGED <<num_workers_marking, tokens_left, steal_coordinator>>
        /\ UNCHANGED locals /\ n' = n /\ pc[w] = "coord_size"
        /\ pc' = [pc EXCEPT ![w] = IF work[w] = 0 THEN "coord" ELSE "coord_drop"]
    BY Zenon DEF CoordNoWake, counts, coord, locals, Goto
  <1>2. /\ TypePc' /\ TypeLocals'
        /\ pc'[w] = IF work[w] = 0 THEN "coord" ELSE "coord_drop"
    BY <1>0, <1>1, Zenon DEF TypePc, TypeLocals, Locs, locals
  <1>3. SameOthers(w) /\ PcOnly(w)
    BY <1>0, <1>1, Known, WorkerFacts, Zenon DEF SameOthers, Same, PcOnly, TypePc, locals
  <1>4. pc'[w] \in Quiet /\ pc[w] \in Quiet \ {"take"} /\ pc'[w] \in Coords \ {"coord_post", "coord_last"}
    BY <1>1, <1>2 DEF Quiet, Coords
  <1>5. CoordInv' /\ CountInv'
    BY <1>1, <1>3, <1>4, CoordinateStep, Zenon
  <1> QED
    BY <1>0, <1>1, <1>2, <1>3, <1>4, <1>5, QuietStep, Zenon DEF TypeShared
LEMMA CoordLastStep ==
  ASSUME IInv, NEW w \in Worker, CoordLast(w)
  PROVE  IInv'
  <1>0. /\ w \in AnyWorker /\ TypeShared /\ TypePc /\ TypeLocals /\ num_workers \in Nat \ {0}
    BY Known, WorkerFacts, Zenon
  <1>1. /\ UNCHANGED <<heap, marks, barriers, deque, main>> /\ todo' = todo /\ UNCHANGED heap
        /\ num_workers_marking' = num_workers_marking - 1 /\ UNCHANGED <<tokens_left, steal_coordinator>>
        /\ UNCHANGED <<ep, pos, obj, ret, start, n>> /\ pc[w] = "coord_last"
        /\ work' = [work EXCEPT ![w] = num_workers - n[w]]
        /\ pc' = [pc EXCEPT ![w] = "coord_post"]
    BY Zenon DEF CoordLast, coord, Set, Goto
  <1>2. /\ \A v \in Worker : v # w => pc[v] = "sema"
        /\ num_workers_marking' = 0 /\ n[w] = 1
    BY <1>1, LastAlone
  <1>3. TypePc' /\ TypeLocals' /\ pc'[w] = "coord_post"
    BY <1>0, <1>1, <1>2 DEF TypePc, TypeLocals, Locs
  <1>4. SameOthers(w) /\ PcOnly(w) /\ Worker' = Worker
    BY <1>0, <1>1, Known, WorkerFacts, SliceSame, Zenon DEF SameOthers, Same, PcOnly, TypePc, TypeLocals, heap
  <1>5. steal_coordinator = w
    BY <1>1, CoordFacts, Zenon DEF Coords
  <1>6. CoordInv' /\ CountInv'
    BY <1>1, <1>2, <1>3, <1>4, <1>5, Zenon DEF CoordInv, CountInv, PcOnly, Coords
  <1>7. pc'[w] \in Quiet /\ pc[w] \in Quiet \ {"take"}
    BY Numbers, <1>1, <1>3, Zenon DEF Quiet, Coords
  <1> QED
    BY Numbers, <1>0, <1>1, <1>2, <1>3, <1>4, <1>6, <1>7, QuietStep, Zenon DEF TypeShared

LEMMA CoordWakeStep ==
  ASSUME IInv, NEW w \in Worker, CoordWake(w)
  PROVE  IInv'
  <1>0. /\ w \in AnyWorker /\ TypeShared /\ TypePc /\ TypeLocals
    BY Known, Zenon
  <1>1. /\ UNCHANGED <<heap, marks, barriers, deque, main>> /\ todo' = todo /\ UNCHANGED heap
        /\ UNCHANGED <<tokens_left, steal_coordinator>>
        /\ UNCHANGED <<ep, pos, obj, ret, start, n>> /\ pc[w] = "coord_size"
        /\ pc' = [pc EXCEPT ![w] = "coord_post"]
    BY Zenon DEF CoordWake, coord, Goto
  <1>2. PICK wake \in Nat \ {0} :
          /\ work' = [work EXCEPT ![w] = wake]
          /\ num_workers_marking' = num_workers_marking + wake
    BY WakeCount, Zenon DEF Set
  <1>3. TypePc' /\ TypeLocals' /\ pc'[w] = "coord_post" /\ work'[w] = wake
    BY <1>0, <1>1, <1>2, Zenon DEF TypePc, TypeLocals, Locs
  <1>4. SameOthers(w) /\ PcOnly(w) /\ Worker' = Worker
    BY <1>0, <1>1, <1>2, Known, WorkerFacts, SliceSame, Zenon DEF SameOthers, Same, PcOnly, TypePc, TypeLocals, heap
  <1>5. /\ steal_coordinator = w /\ w # NoWorker /\ num_workers_marking # 0 /\ posting = 0
        /\ \A v \in Worker : v # w => pc[v] \notin Coords
    BY <1>1, CoordFacts, Zenon DEF Coords
  <1>6. CoordInv'
    BY <1>1, <1>3, <1>4, <1>5, Zenon DEF CoordInv, PcOnly, Coords
  <1>7. posting' = wake
    BY <1>1, <1>3, <1>5, Zenon DEF posting
  <1>8. num_workers_marking \in Nat /\ tokens_left \in Nat
    BY <1>0, Zenon DEF TypeShared
  <1>9. /\ num_workers_marking' = num_workers_marking + (tokens_left' - tokens_left) + (posting' - posting)
        /\ num_workers_marking' \in Nat \ {0} /\ tokens_left' \in Nat /\ posting' \in Nat
    BY <1>1, <1>2, <1>5, <1>7, <1>8
  <1>10. CountInv'
    BY <1>1, <1>3, <1>4, <1>5, <1>9, CountStep, Zenon DEF Finished
  <1>11. pc'[w] \in Quiet /\ pc[w] \in Quiet \ {"take"}
    BY Numbers, <1>1, <1>3, Zenon DEF Quiet, Coords
  <1> QED
    BY <1>0, <1>1, <1>3, <1>4, <1>6, <1>9, <1>10, <1>11, QuietStep, Zenon DEF TypeShared

LEMMA CoordPostStep ==
  ASSUME IInv, NEW w \in Worker, CoordPost(w)
  PROVE  IInv'
  <1>0. /\ w \in AnyWorker /\ TypeShared /\ TypePc /\ TypeLocals
    BY Known, Zenon
  <1>1. /\ UNCHANGED <<heap, marks, barriers, deque, main>> /\ todo' = todo /\ UNCHANGED heap
        /\ UNCHANGED <<num_workers_marking, steal_coordinator>> /\ UNCHANGED locals /\ n' = n /\ work' = work
        /\ tokens_left' = tokens_left + work[w] /\ pc[w] = "coord_post"
        /\ pc' = [pc EXCEPT ![w] = "coord_drop"]
    BY Zenon DEF CoordPost, Ci_Sema_Post, counts, locals, Goto
  <1>2. TypePc' /\ TypeLocals' /\ pc'[w] = "coord_drop"
    BY <1>0, <1>1, Zenon DEF TypePc, TypeLocals, Locs, locals
  <1>3. SameOthers(w) /\ PcOnly(w) /\ Worker' = Worker
    BY <1>0, <1>1, Known, WorkerFacts, SliceSame, Zenon DEF SameOthers, Same, PcOnly, TypePc, locals, heap
  <1>4. work[w] \in Nat /\ num_workers_marking \in Nat /\ tokens_left \in Nat
    BY <1>0, Zenon DEF TypeLocals, TypeShared
  <1>5. /\ steal_coordinator = w /\ w # NoWorker /\ posting = work[w]
        /\ \A v \in Worker : v # w => pc[v] \notin Coords
    BY <1>1, CoordFacts, Zenon DEF Coords
  <1>6. CoordInv'
    BY <1>1, <1>2, <1>3, <1>5, Zenon DEF CoordInv, PcOnly, Coords
  <1>7. posting' = 0
    BY <1>1, <1>2, <1>5, Zenon DEF posting
  <1>8. /\ num_workers_marking' = num_workers_marking + (tokens_left' - tokens_left) + (posting' - posting)
        /\ tokens_left' \in Nat /\ posting' \in Nat
    BY <1>1, <1>4, <1>5, <1>7
  <1>9. CountInv'
    <2>1. CASE num_workers_marking # 0
      BY <1>1, <1>2, <1>3, <1>8, <2>1, CountStep, Zenon DEF Finished
    <2>2. CASE num_workers_marking = 0
      BY <1>1, <1>2, <1>3, <2>2, Zenon DEF IInv, CountInv, PcOnly
    <2> QED
      BY <2>1, <2>2, Zenon
  <1>10. pc'[w] \in Quiet /\ pc[w] \in Quiet \ {"take"}
    BY <1>1, <1>2, Zenon DEF Quiet, Coords
  <1> QED
    BY <1>0, <1>1, <1>2, <1>3, <1>6, <1>8, <1>9, <1>10, QuietStep, Zenon DEF TypeShared

LEMMA DropStealCoordinatorStep ==
  ASSUME IInv, NEW w \in Worker, DropStealCoordinator(w)
  PROVE  IInv'
  <1>0. /\ w \in AnyWorker /\ TypeShared /\ TypePc /\ TypeLocals /\ num_workers_marking \in Nat /\ tokens_left \in Nat
    BY Known, Zenon DEF TypeShared
  <1>1. /\ UNCHANGED <<heap, marks, barriers, deque, main>> /\ todo' = todo /\ UNCHANGED heap
        /\ UNCHANGED <<num_workers_marking, tokens_left>> /\ steal_coordinator' = NoWorker
        /\ UNCHANGED <<ep, obj, ret, start>> /\ pc[w] = "coord_drop"
        /\ pos' = [pos EXCEPT ![w] = 0] /\ n' = [n EXCEPT ![w] = 0] /\ work' = [work EXCEPT ![w] = 0]
        /\ pc' = [pc EXCEPT ![w] = "loop"]
    BY Zenon DEF DropStealCoordinator, counts, Set, Goto
  <1>2. TypePc' /\ TypeLocals' /\ pc'[w] = "loop"
    BY <1>0, <1>1, Zenon DEF TypePc, TypeLocals, Locs
  <1>3. SameOthers(w) /\ PcOnly(w) /\ Worker' = Worker /\ NoWorker \notin Worker
    BY <1>0, <1>1, Known, WorkerFacts, SliceSame, Zenon DEF SameOthers, Same, PcOnly, TypePc, TypeLocals, heap
  <1>4. posting = 0 /\ \A v \in Worker : v # w => pc[v] \notin Coords
    BY <1>1, CoordFacts, Zenon DEF Coords
  <1>5. CoordInv'
    BY <1>1, <1>2, <1>3, <1>4, Zenon DEF CoordInv, PcOnly, Coords
  <1>6. posting' = 0
    BY Numbers, <1>1, Zenon DEF posting
  <1>7. num_workers_marking' = num_workers_marking + (tokens_left' - tokens_left) + (posting' - posting)
    BY <1>0, <1>1, <1>4, <1>6
  <1>8. CountInv'
    <2>1. CASE num_workers_marking # 0
      BY <1>0, <1>1, <1>2, <1>3, <1>6, <1>7, <2>1, CountStep, Zenon DEF Finished
    <2>2. CASE num_workers_marking = 0
      BY Numbers, <1>1, <1>2, <1>3, <2>2, Zenon DEF IInv, CountInv, PcOnly
    <2> QED
      BY <2>1, <2>2, Zenon
  <1>9. pc'[w] \in Quiet /\ pc[w] \in Quiet \ {"take"}
    BY <1>1, <1>2, Zenon DEF Quiet, Coords
  <1> QED
    BY <1>0, <1>1, <1>2, <1>3, <1>5, <1>8, <1>9, QuietStep, Zenon

LEMMA LoopTestStep ==
  ASSUME IInv, NEW w \in Worker, LoopTest(w)
  PROVE  IInv'
  <1>0. /\ w \in AnyWorker /\ TypeShared /\ TypePc /\ TypeLocals /\ num_workers_marking \in Nat /\ tokens_left \in Nat
    BY Known, Zenon DEF TypeShared
  <1>1. /\ UNCHANGED <<heap, marks, barriers, deque, main>> /\ todo' = todo /\ UNCHANGED heap
        /\ UNCHANGED <<num_workers_marking, tokens_left, steal_coordinator>>
        /\ UNCHANGED locals /\ n' = n /\ work' = work /\ pc[w] = "loop"
        /\ pc' = [pc EXCEPT ![w] = IF num_workers_marking # 0 THEN "take" ELSE "done"]
    BY Numbers, Zenon DEF LoopTest, counts, coord, locals, Goto
  <1>2. TypePc' /\ TypeLocals' /\ pc'[w] = IF num_workers_marking # 0 THEN "take" ELSE "done"
    BY <1>0, <1>1, Zenon DEF TypePc, TypeLocals, Locs, locals
  <1>3. SameOthers(w) /\ PcOnly(w) /\ Worker' = Worker
    BY <1>0, <1>1, Known, WorkerFacts, SliceSame, Zenon DEF SameOthers, Same, PcOnly, TypePc, locals, heap
  <1>4. CoordInv /\ steal_coordinator \in Worker \cup {NoWorker} /\ posting \in Nat
    BY Numbers, <1>0, PostingType, Zenon DEF IInv, TypeShared
  <1>5. CoordInv'
    BY <1>1, <1>2, <1>3, <1>4 DEF CoordInv, PcOnly, Coords
  <1>6. posting' = posting
    BY Numbers, <1>1, <1>2, <1>3, <1>4, ZenonT(60) DEF posting, PcOnly, CoordInv, Coords
  <1>7. num_workers_marking' = num_workers_marking + (tokens_left' - tokens_left) + (posting' - posting)
    BY <1>0, <1>1, <1>4, <1>6
  <1>8. CountInv'
    <2>1. CASE num_workers_marking # 0
      BY <1>0, <1>1, <1>2, <1>3, <1>4, <1>6, <1>7, <2>1, CountStep DEF Finished
    <2>2. CASE num_workers_marking = 0
      BY <1>1, <1>2, <1>3, <2>2, Zenon DEF IInv, CountInv, PcOnly
    <2> QED
      BY <2>1, <2>2, Zenon
  <1>9. pc'[w] \in Quiet /\ pc[w] \in Quiet \ {"take"}
    BY <1>1, <1>2, Zenon DEF Quiet, Coords
  <1> QED
    BY Numbers, <1>0, <1>1, <1>2, <1>3, <1>4, <1>5, <1>8, <1>9, QuietStep, Zenon
-----------------------------------------------------------------------------
(* Up to the first barrier.                                                 *)

LEMMA EarlyFacts ==
  ASSUME IInv, NEW w \in Worker, pc[w] \in Early
  PROVE  epoch["mark"] = 0 /\ epoch["done"] = 0
  BY Known, Zenon DEF IInv, TypeShared, MarkBarrierInv, DoneBarrierInv, Early, Finished

LEMMA EarlyStep ==
  ASSUME IInv, NEW w \in Worker, UNCHANGED <<heap, coord, barriers>>,
         num_workers_marking' = num_workers_marking, n' = n, work' = work,
         SameOthers(w), pc[w] \in Early, pc'[w] \in Early,
         TypeInv', LocalOK(w)', StartInv', DoneBarrierInv', SubtractInv'
  PROVE  IInv'
  <1>1. UNCHANGED heap /\ PcOnly(w) /\ epoch' = epoch
    BY Zenon DEF SameOthers, Same, PcOnly, barriers
  <1>2. LocalInv'
    BY <1>1, LocalFrame, Zenon
  <1>3. MarkBarrierInv'
    BY <1>1, MarkBarrierFrame, Zenon
  <1>4. CoordInv' /\ CountInv'
    BY <1>1, CountFrame, Zenon DEF Working
  <1>5. MarkInv'
    BY Numbers, <1>1, EarlyFacts, Zenon DEF MarkInv
  <1> QED
    BY <1>2, <1>3, <1>4, <1>5, Zenon DEF IInv

LEMMA StartThreadStep ==
  ASSUME IInv, StartThread
  PROVE  IInv'
  <1>1. /\ UNCHANGED <<heap, coord, barriers>> /\ UNCHANGED <<marks, deque, locals>>
        /\ UNCHANGED heap
        /\ num_workers_marking' = num_workers_marking /\ mpc = "start"
        /\ started' = started + 1 /\ mpc' = IF started + 1 = num_workers THEN "barrier" ELSE "start"
        /\ pc' = [pc EXCEPT ![started] = "run"]
    BY Zenon DEF StartThread, counts, Goto
  <1>2. StartInv /\ started \in Nat /\ started < num_workers /\ num_workers \in Nat /\ TypeInv
    BY <1>1, WorkerFacts, SMTT(60) DEF IInv, TypeInv, TypeShared, StartInv
  <1>0. PICK w \in Worker : w = started
    BY <1>2 DEF Worker
  <1>3. pc[w] = "none" /\ Worker' = Worker /\ \A v \in Worker : v \in Nat
    BY <1>0, <1>1, <1>2, SliceSame DEF Worker, StartInv, heap
  <1>4. /\ w \in AnyWorker /\ TypeShared /\ TypePc /\ TypeLocals /\ TypeHeap /\ LocalOK(w)
    BY Known, Zenon
  <1>5. pc'[w] = "run" /\ \A v \in Worker : v # w => pc'[v] = pc[v]
    BY <1>0, <1>1, <1>4, WorkerFacts, Zenon DEF TypePc
  <1>6. SameOthers(w)
    BY <1>1, <1>5, Zenon DEF SameOthers, Same, locals
  <1>7. TypeInv'
    <2>1. TypeHeap' /\ TypeLocals'
      BY <1>1, <1>4, Zenon DEF TypeHeap, TypeLocals, heap, locals
    <2>2. TypePc'
      BY <1>0, <1>1, <1>4, Zenon DEF TypePc, Locs
    <2>3. started' \in 0 .. num_workers /\ mpc' \in {"start", "barrier"} /\ num_workers' = num_workers
      BY <1>1, <1>2 DEF heap
    <2>4. TypeShared'
      BY <1>1, <1>3, <1>4, <2>3, Zenon DEF TypeShared, marks, coord, barriers
    <2> QED
      BY <2>1, <2>2, <2>4, Zenon DEF TypeInv
  <1>8. LocalOK(w)'
    BY <1>1, <1>3, <1>4, <1>5, Zenon DEF LocalOK, Scanning, Visits, locals
  <1>9. StartInv'
    <2>1. \A v \in Worker : pc'[v] = "none" <=> v >= started + 1
      BY <1>0, <1>2, <1>3, <1>5 DEF StartInv
    <2>2. mpc' = "start" <=> started + 1 # num_workers
      BY <1>1, Zenon
    <2> QED
      BY <1>1, <1>3, <2>1, <2>2, Zenon DEF StartInv, heap
  <1>10. epoch["mark"] = 0 /\ epoch["done"] = 0
    BY <1>3, EarlyFacts, Zenon DEF Early
  <1>11. DoneBarrierInv'
    <2>1. {v \in Worker' : pc'[v] \notin Finished} = {v \in Worker : pc[v] \notin Finished}
      BY <1>3, <1>5, Zenon DEF Finished
    <2> QED
      BY Numbers, <1>1, <1>10, <2>1, Zenon DEF IInv, DoneBarrierInv, barriers
  <1>12. SubtractInv'
    <2>1. Unsubtracted' = Unsubtracted
      BY <1>1, <1>3, <1>5, SliceSame DEF Unsubtracted, locals, heap
    <2> QED
      BY <1>1, <2>1, Zenon DEF IInv, SubtractInv, marks, barriers, heap
  <1>13. pc[w] \in Early /\ pc'[w] \in Early /\ n' = n /\ work' = work
    BY <1>1, <1>3, <1>5, Zenon DEF Early, locals
  <1> QED
    BY <1>1, <1>3, <1>6, <1>7, <1>8, <1>9, <1>11, <1>12, <1>13, EarlyStep, Zenon

LEMMA RunStep ==
  ASSUME IInv, NEW w \in Worker, Run(w)
  PROVE  IInv'
  <1>0. /\ w \in AnyWorker /\ w \in Worker /\ TypeShared /\ TypePc /\ TypeLocals /\ LocalOK(w)
        /\ num_workers \in 1 .. MaxWorkers /\ SliceStart(w) \in Nat /\ SliceEnd(w) \in Nat /\ SliceStart(w) < SliceEnd(w)
    BY Known, Zenon
  <1>1. /\ UNCHANGED <<heap, coord, barriers>> /\ UNCHANGED <<marks, deque, main>> /\ UNCHANGED heap
        /\ num_workers_marking' = num_workers_marking /\ UNCHANGED <<ep, obj, todo, ret, start, n, work>>
        /\ pos' = [pos EXCEPT ![w] = SliceStart(w)] /\ pc[w] = "run" /\ pc' = [pc EXCEPT ![w] = "subtract"]
    BY Zenon DEF Run, Set, Goto
  <1>2. pc'[w] = "subtract" /\ pos'[w] = SliceStart(w) /\ TypePc' /\ TypeLocals'
    BY <1>0, <1>1, Zenon DEF TypePc, TypeLocals, Locs
  <1>3. SameOthers(w) /\ PcOnly(w)
    BY <1>0, <1>1, Known, WorkerFacts, Zenon DEF SameOthers, Same, PcOnly, TypePc, TypeLocals
  <1>4. TypeInv'
    <2>1. TypeHeap' /\ Worker' = Worker /\ num_workers' = num_workers
      BY Numbers, <1>1, SliceSame, Zenon DEF IInv, TypeInv, TypeHeap, heap
    <2>2. TypeShared'
      BY <1>0, <1>1, <2>1, Zenon DEF TypeShared, marks, coord, barriers, main
    <2> QED
      BY <1>2, <2>1, <2>2, Zenon DEF TypeInv
  <1>5. LocalOK(w)'
    <2>1. SliceStart(w)' = SliceStart(w) /\ SliceEnd(w)' = SliceEnd(w)
      BY <1>1, SliceSame, Zenon DEF heap
    <2> QED
      BY <1>0, <1>1, <1>2, <2>1 DEF LocalOK, Scanning, Visits
  <1>6. StartInv'
    BY <1>1, <1>2, <1>3, StartFrame, Zenon
  <1>7. DoneBarrierInv'
    BY <1>1, <1>2, <1>3, DoneBarrierFrame, Zenon DEF barriers, main, Finished
  <1>8. SubtractInv'
    <2>1. \A p \in Slice(w) : SliceStart(w) <= p
      BY <1>0, SliceFacts DEF Slice, Obj
    <2>2. Worker' = Worker /\ \A v : Slice(v)' = Slice(v)
      BY <1>1, SliceSame, Zenon DEF heap
    <2>3. \A v \in Worker : v # w => pc'[v] = pc[v] /\ pos'[v] = pos[v]
      BY <1>3, Zenon DEF SameOthers, Same
    <2>4. Unsubtracted' = Unsubtracted
      BY <1>1, <1>2, <2>1, <2>2, <2>3, Zenon DEF Unsubtracted
    <2> QED
      BY <1>1, <2>4, Zenon DEF IInv, SubtractInv, marks, barriers, heap
  <1> QED
    BY <1>1, <1>2, <1>3, <1>4, <1>5, <1>6, <1>7, <1>8, EarlyStep, Zenon DEF Early

LEMMA SubtractRefsStep ==
  ASSUME IInv, NEW w \in Worker, SubtractRefs(w)
  PROVE  IInv'
  <1>0. /\ w \in AnyWorker /\ w \in Worker /\ TypeHeap /\ TypeShared /\ TypePc /\ TypeLocals /\ LocalOK(w)
        /\ num_workers \in 1 .. MaxWorkers /\ SliceStart(w) \in Nat /\ SliceEnd(w) \in Nat
    BY Known, Zenon
  <1>1. /\ UNCHANGED <<heap, coord, barriers>> /\ UNCHANGED <<collecting, deque, main, pc>> /\ UNCHANGED heap
        /\ num_workers_marking' = num_workers_marking /\ UNCHANGED <<ep, obj, todo, ret, start, n, work>>
        /\ pos' = [pos EXCEPT ![w] = pos[w] + 1] /\ pc[w] = "subtract" /\ pos[w] < SliceEnd(w)
        /\ gc_refs' = [o \in Obj |-> IF o \in refs[pos[w]] /\ collecting[o] THEN gc_refs[o] - 1 ELSE gc_refs[o]]
    BY Zenon DEF SubtractRefs, Set, counts
  <1>2. pos'[w] = pos[w] + 1 /\ pos[w] \in Nat /\ TypePc' /\ TypeLocals'
    BY <1>0, <1>1 DEF TypePc, TypeLocals
  <1>3. SameOthers(w) /\ PcOnly(w)
    BY <1>0, <1>1, Known, WorkerFacts, Zenon DEF SameOthers, Same, PcOnly, TypePc, TypeLocals
  <1>4. TypeInv'
    <2>1. TypeHeap' /\ Worker' = Worker /\ num_workers' = num_workers
      BY <1>1, SliceSame, Zenon DEF IInv, TypeInv, TypeHeap, heap
    <2>2. gc_refs' \in [Obj -> Int]
      BY <1>0, <1>1 DEF TypeShared
    <2>3. TypeShared'
      BY <1>0, <1>1, <2>1, <2>2, Zenon DEF TypeShared, coord, barriers, main
    <2> QED
      BY <1>2, <2>1, <2>3, Zenon DEF TypeInv
  <1>5. pos[w] \in SliceStart(w) .. SliceEnd(w)
    BY <1>0, <1>1, Zenon DEF LocalOK
  <1>6. LocalOK(w)'
    <2>1. SliceStart(w)' = SliceStart(w) /\ SliceEnd(w)' = SliceEnd(w)
      BY <1>1, SliceSame, Zenon DEF heap
    <2>2. pos'[w] \in SliceStart(w) .. SliceEnd(w)
      BY <1>0, <1>1, <1>2, <1>5
    <2> QED
      BY <1>0, <1>1, <2>1, <2>2, Zenon DEF LocalOK, Scanning, Visits
  <1>7. StartInv'
    BY <1>1, <1>3, StartFrame, Zenon
  <1>8. DoneBarrierInv'
    BY <1>1, <1>3, DoneBarrierFrame, Zenon DEF barriers, main
  <1>9. pos[w] \in Slice(w) /\ pos[w] \in Obj
    BY <1>0, <1>1, <1>2, <1>5, SliceFacts DEF Slice
  <1>10. Unsubtracted' = Unsubtracted \ {pos[w]} /\ pos[w] \in Unsubtracted
    <2>1. Worker' = Worker /\ \A v : Slice(v)' = Slice(v)
      BY <1>1, SliceSame, Zenon DEF heap
    <2>2. \A v \in Worker : v # w => pc'[v] = pc[v] /\ pos'[v] = pos[v] /\ pos[w] \notin Slice(v)
      <3>1. \A v \in Worker : v # w => pos[w] \notin Slice(v)
        BY <1>0, <1>9, SliceIndexFacts, Zenon
      <3> QED
        BY <1>3, <3>1, Zenon DEF SameOthers, Same
    <2>3. \A p \in Obj : pos'[w] <= p <=> pos[w] <= p /\ p # pos[w]
      BY <1>2 DEF Obj
    <2>4. pos[w] \in Unsubtracted
      BY <1>1, <1>2, <1>9 DEF Unsubtracted
    <2>5. ASSUME NEW p \in Obj PROVE p \in Unsubtracted' <=> p \in Unsubtracted \ {pos[w]}
      BY <1>1, <2>1, <2>2, <2>3, Zenon DEF Unsubtracted
    <2> QED
      BY <2>4, <2>5, Zenon DEF Unsubtracted
  <1>11. SubtractInv'
    <2>1. SUFFICES ASSUME epoch["mark"] = 0, NEW o \in Obj
                   PROVE  collecting'[o] /\ gc_refs'[o] = ext'[o] + Cardinality({p \in Unsubtracted' : o \in refs'[p]})
      BY <1>1, Zenon DEF SubtractInv, barriers
    <2> DEFINE S == {p \in Unsubtracted : o \in refs[p]}
    <2>2. collecting[o] /\ gc_refs[o] = ext[o] + Cardinality(S) /\ ext[o] \in Int
      BY Numbers, <1>0, <2>1, Zenon DEF IInv, SubtractInv, TypeHeap
    <2>3. IsFiniteSet(S)
      <3>1. IsFiniteSet(Obj) /\ S \subseteq Obj
        BY Numbers, FS_Interval, NumObjsAssumption, Zenon DEF Obj, Unsubtracted
      <3> QED
        BY <3>1, FS_Subset, Zenon
    <2>4. {p \in Unsubtracted' : o \in refs'[p]} = S \ {pos[w]}
      BY <1>1, <1>10, Zenon DEF heap
    <2>5. CASE o \in refs[pos[w]]
      <3>1. pos[w] \in S
        BY <1>10, <2>5, Zenon
      <3>2. Cardinality(S \ {pos[w]}) = Cardinality(S) - 1 /\ Cardinality(S) \in Nat
        BY <2>3, <3>1, FS_RemoveElement, FS_CardinalityType, Zenon
      <3>3. gc_refs'[o] = gc_refs[o] - 1 /\ collecting'[o] /\ ext'[o] = ext[o]
        BY <1>1, <2>2, <2>5, Zenon DEF heap
      <3> HIDE DEF S
      <3>4. Cardinality({p \in Unsubtracted' : o \in refs'[p]}) = Cardinality(S) - 1
        BY <2>4, <3>2, Zenon
      <3> QED
        BY <2>2, <3>2, <3>3, <3>4, SMTT(60)
    <2>6. CASE o \notin refs[pos[w]]
      <3>1. S \ {pos[w]} = S
        BY <2>6, Zenon
      <3>3. gc_refs'[o] = gc_refs[o] /\ collecting'[o] /\ ext'[o] = ext[o]
        BY <1>1, <2>2, <2>6, Zenon DEF heap
      <3> HIDE DEF S
      <3> QED
        BY <2>2, <2>4, <3>1, <3>3, Zenon
    <2> QED
      BY <2>5, <2>6, Zenon
  <1> QED
    BY <1>1, <1>3, <1>4, <1>6, <1>7, <1>8, <1>11, EarlyStep, Zenon DEF Early
-----------------------------------------------------------------------------
(* The first barrier: subtraction ends, marking begins.                     *)

LEMMA MarkBarrierArrive ==
  ASSUME IInv, NEW w \in Worker, pc[w] = "subtract", Arrive("mark", num_workers)
  PROVE  /\ epoch["mark"] = 0
         /\ num_left' \in [mark : Int, done : Int]
         /\ epoch' \in [mark : {0, 1}, done : {0, 1}]
         /\ num_left'["done"] = num_left["done"] /\ epoch'["done"] = epoch["done"]
         /\ num_left["mark"] = 1 => epoch'["mark"] = 1
         /\ num_left["mark"] # 1 => epoch'["mark"] = 0 /\ num_left'["mark"] = num_left["mark"] - 1
  <1>1. epoch["mark"] = 0 /\ TypeShared /\ num_workers \in Int
    BY Numbers, EarlyFacts, Known, Zenon DEF Early
  <1> QED
    BY <1>1, SMTT(60) DEF TypeShared, Arrive

LEMMA MarkBarrierStep ==
  ASSUME IInv, NEW w \in Worker, MarkBarrier(w)
  PROVE  IInv'
  <1>0. /\ w \in AnyWorker /\ w \in Worker /\ TypeHeap /\ TypeShared /\ TypePc /\ TypeLocals /\ LocalOK(w)
        /\ num_workers \in 1 .. MaxWorkers /\ SliceStart(w) \in Nat /\ SliceEnd(w) \in Nat /\ SliceStart(w) < SliceEnd(w)
    BY Known, Zenon
  <1>1. /\ UNCHANGED heap /\ UNCHANGED <<marks, coord, deque>> /\ UNCHANGED main /\ UNCHANGED coord
        /\ num_workers_marking' = num_workers_marking /\ UNCHANGED <<obj, todo, ret, start, n, work>>
        /\ Arrive("mark", num_workers)
        /\ pos' = [pos EXCEPT ![w] = SliceStart(w)] /\ ep' = [ep EXCEPT ![w] = epoch["mark"]]
        /\ pc[w] = "subtract" /\ pos[w] = SliceEnd(w)
        /\ pc' = [pc EXCEPT ![w] = IF num_left["mark"] = 1 THEN "slice" ELSE "mark_wait"]
    BY Zenon DEF MarkBarrier, Set, Goto, counts
  <1>2. /\ epoch["mark"] = 0
        /\ num_left' \in [mark : Int, done : Int]
        /\ epoch' \in [mark : {0, 1}, done : {0, 1}]
        /\ num_left'["done"] = num_left["done"] /\ epoch'["done"] = epoch["done"]
        /\ num_left["mark"] = 1 => epoch'["mark"] = 1
        /\ num_left["mark"] # 1 => epoch'["mark"] = 0 /\ num_left'["mark"] = num_left["mark"] - 1
    BY <1>1, MarkBarrierArrive, Zenon
  <1>3. /\ pc'[w] = IF num_left["mark"] = 1 THEN "slice" ELSE "mark_wait"
        /\ pos'[w] = SliceStart(w) /\ ep'[w] = 0 /\ TypePc' /\ TypeLocals'
    BY Numbers, <1>0, <1>1, <1>2, Zenon DEF TypePc, TypeLocals, Locs
  <1>4. SameOthers(w) /\ PcOnly(w)
    BY <1>0, <1>1, Known, WorkerFacts, Zenon DEF SameOthers, Same, PcOnly, TypePc, TypeLocals
  <1>5. /\ Worker' = Worker /\ num_workers' = num_workers
        /\ \A v : Slice(v)' = Slice(v) /\ SliceStart(v)' = SliceStart(v) /\ SliceEnd(v)' = SliceEnd(v)
    BY <1>1, SliceSame, Zenon DEF heap
  <1>6. TypeInv'
    <2>1. TypeHeap'
      BY <1>0, <1>1, Zenon DEF TypeHeap, heap
    <2>2. TypeShared'
      BY <1>0, <1>1, <1>2, <1>5, Zenon DEF TypeShared, marks, coord, main
    <2> QED
      BY <1>3, <2>1, <2>2, Zenon DEF TypeInv
  <1>7. todo[w] = {} /\ deque[w] = <<>> /\ todo'[w] = {} /\ deque'[w] = <<>>
    BY <1>0, <1>1, Zenon DEF LocalOK, Visits
  <1>8. LocalInv'
    <2>1. pos'[w] \in SliceStart(w) .. SliceEnd(w) /\ pc'[w] \in {"slice", "mark_wait"}
      BY <1>0, <1>3, SliceBounds, Zenon
    <2>2. SliceStart(w)' = SliceStart(w) /\ SliceEnd(w)' = SliceEnd(w)
      BY <1>5, Zenon
    <2>3. LocalOK(w)'
      BY <1>3, <1>7, <2>1, <2>2, Zenon DEF LocalOK, Scanning, Visits
    <2> QED
      BY <1>1, <1>4, <2>3, LocalFrame, Zenon
  <1>9. StartInv'
    BY <1>1, <1>3, <1>4, StartFrame
  <1>10. CoordInv' /\ CountInv'
    BY <1>1, <1>3, <1>4, CountFrame, Zenon DEF Working, Early, Busy
  <1>11. DoneBarrierInv'
    BY <1>1, <1>2, <1>3, <1>4, DoneBarrierFrame, SMTT(60) DEF main, Finished
  <1> DEFINE E == {v \in Worker : pc[v] \in Early}
  <1>12. /\ IsFiniteSet(E) /\ Cardinality(E) \in Nat /\ w \in E
         /\ Cardinality(E \ {w}) = Cardinality(E) - 1
         /\ num_left["mark"] = Cardinality(E)
         /\ \A v \in Worker : pc[v] \in Early \cup {"mark_wait"}
    <2>1. IsFiniteSet(E) /\ w \in E
      BY <1>0, <1>1, MarkingFacts, FS_Subset, Zenon DEF Early
    <2> QED
      BY <1>2, <2>1, FS_RemoveElement, FS_CardinalityType, Zenon DEF IInv, MarkBarrierInv
  <1>13. CASE num_left["mark"] # 1
    <2>1. MarkBarrierInv'
      <3>1. {v \in Worker' : pc'[v] \in Early} = E \ {w}
        BY <1>3, <1>4, <1>5, <1>13, Zenon DEF PcOnly, Early
      <3>2. num_left'["mark"] = Cardinality({v \in Worker' : pc'[v] \in Early})
        BY <1>2, <1>12, <1>13, <3>1, Zenon
      <3>3. \A v \in Worker : pc'[v] \in Early \cup {"mark_wait"}
        BY <1>3, <1>4, <1>12, <1>13, Zenon DEF PcOnly
      <3> QED
        BY Numbers, <1>2, <1>5, <1>13, <3>2, <3>3, Zenon DEF MarkBarrierInv
    <2>2. SubtractInv'
      <3>1. \A p \in Slice(w) : ~ pos[w] <= p
        BY <1>0, <1>1, SliceFacts DEF Slice, Obj
      <3>2. \A v \in Worker : v # w => pc'[v] = pc[v] /\ pos'[v] = pos[v]
        BY <1>4, Zenon DEF SameOthers, Same
      <3>3. Unsubtracted' = Unsubtracted
        BY <1>1, <1>3, <1>5, <1>13, <3>1, <3>2, SMTT(60) DEF Unsubtracted
      <3> QED
        BY <1>1, <1>2, <3>3, ZenonT(60) DEF IInv, SubtractInv, marks, heap
    <2>3. MarkInv'
      BY Numbers, <1>2, <1>13, Zenon DEF MarkInv
    <2> QED
      BY <1>6, <1>8, <1>9, <1>10, <1>11, <2>1, <2>2, <2>3, Zenon DEF IInv
  <1>14. CASE num_left["mark"] = 1
    <2>1. \A v \in Worker : v # w => pc[v] = "mark_wait" /\ pc'[v] = "mark_wait"
      <3>1. E = {w}
        BY <1>12, <1>14, FS_Singleton
      <3>2. \A v \in Worker : v # w => pc[v] = "mark_wait"
        BY <1>12, <3>1, Zenon
      <3> QED
        BY <1>4, <3>2, Zenon DEF PcOnly
    <2>2. MarkBarrierInv'
      BY Numbers, <1>2, <1>3, <1>5, <1>14, <2>1, Zenon DEF MarkBarrierInv, Early
    <2>3. SubtractInv'
      BY Numbers, <1>2, <1>14, Zenon DEF SubtractInv
    <2>4. Unsubtracted = {}
      <3>1. \A p \in Slice(w) : ~ pos[w] <= p
        BY <1>0, <1>1, SliceFacts DEF Slice, Obj
      <3> QED
        BY <1>1, <2>1, <3>1, Zenon DEF Unsubtracted
    <2>5. \A o \in Obj : collecting'[o] /\ gc_refs'[o] = ext'[o]
      <3>1. ASSUME NEW o \in Obj PROVE collecting[o] /\ gc_refs[o] = ext[o]
        <4>1. {p \in Unsubtracted : o \in refs[p]} = {} /\ ext[o] \in Int
          BY Numbers, <1>0, <2>4, Zenon DEF TypeHeap
        <4>2. Cardinality({p \in Unsubtracted : o \in refs[p]}) = 0
          BY <4>1, FS_EmptySet, Zenon
        <4> QED
          BY <1>2, <4>1, <4>2 DEF IInv, SubtractInv
      <3> QED
        BY <1>1, <3>1, Zenon DEF marks, heap
    <2>6. MarksOK' /\ MarkedOK' /\ EdgesOK'
      BY <2>5, Zenon DEF MarksOK, MarkedOK, EdgesOK
    <2>7. RootsOK'
      <3>1. \A v \in Worker : Scanning(v)' /\ pos'[v] = SliceStart(v)
        <4>1. \A v \in Worker : v # w => pos'[v] = SliceStart(v)
          BY <1>4, <2>1, Known, Zenon DEF LocalOK, SameOthers, Same
        <4> QED
          BY <1>3, <1>14, <2>1, <4>1, Zenon DEF Scanning
      <3>2. ASSUME NEW o \in Obj PROVE \E v \in Worker : o \in Slice(v) /\ SliceStart(v) <= o
        <4>1. SliceIndex(o) \in Worker /\ o \in Slice(SliceIndex(o))
          BY <1>0, SliceIndexFacts, Zenon
        <4> QED
          BY <1>0, <4>1, SliceFacts DEF Obj
      <3> QED
        BY <1>5, <3>1, <3>2, Zenon DEF RootsOK
    <2>8. (\A v \in Worker : HeldOK(v))'
      <3>1. ASSUME NEW v \in Worker PROVE HeldOK(v)'
        <4>1. pc'[v] \in {"slice", "mark_wait"} /\ todo'[v] = {} /\ deque'[v] = <<>>
          BY <1>1, <1>3, <1>7, <1>14, <2>1, Known, Zenon DEF LocalOK, Visits
        <4>2. Elems(deque'[v]) = {}
          BY <4>1 DEF Elems
        <4> QED
          BY <4>1, <4>2, Zenon DEF HeldOK
      <3> QED
        BY <1>5, <3>1, Zenon
    <2> QED
      BY <1>6, <1>8, <1>9, <1>10, <1>11, <2>2, <2>3, <2>6, <2>7, <2>8, Zenon DEF IInv, MarkInv
  <1> QED
    BY <1>13, <1>14, Zenon

LEMMA MarkWakeStep ==
  ASSUME IInv, NEW w \in Worker, MarkWake(w)
  PROVE  IInv'
  <1>0. /\ w \in AnyWorker /\ w \in Worker /\ TypeHeap /\ TypeShared /\ TypePc /\ TypeLocals /\ LocalOK(w)
    BY Known, Zenon
  <1>1. /\ UNCHANGED heap /\ UNCHANGED marks /\ UNCHANGED main /\ UNCHANGED coord /\ UNCHANGED barriers /\ deque' = deque
        /\ num_workers_marking' = num_workers_marking /\ UNCHANGED <<pos, obj, todo, ret, start, n, work>>
        /\ ep' = [ep EXCEPT ![w] = 0] /\ epoch["mark"] # ep[w]
        /\ pc[w] = "mark_wait" /\ pc' = [pc EXCEPT ![w] = "slice"]
    BY Zenon DEF MarkWake, Set, Goto, counts
  <1>2. epoch["mark"] = 1 /\ epoch' = epoch /\ num_left' = num_left
    BY <1>0, <1>1, Zenon DEF LocalOK, TypeShared, barriers
  <1>3. pc'[w] = "slice" /\ TypePc' /\ TypeLocals'
    BY <1>0, <1>1, Zenon DEF TypePc, TypeLocals, Locs
  <1>4. SameOthers(w) /\ PcOnly(w)
    BY <1>0, <1>1, Known, WorkerFacts, Zenon DEF SameOthers, Same, PcOnly, TypePc, TypeLocals
  <1>5. /\ Worker' = Worker /\ num_workers' = num_workers
        /\ SliceStart(w)' = SliceStart(w) /\ SliceEnd(w)' = SliceEnd(w)
    BY <1>1, SliceSame, Zenon DEF heap
  <1>6. TypeInv'
    <2>1. TypeHeap'
      BY <1>0, <1>1, Zenon DEF TypeHeap, heap
    <2>2. TypeShared'
      BY <1>0, <1>1, <1>2, <1>5, Zenon DEF TypeShared, marks, coord, main
    <2> QED
      BY <1>3, <2>1, <2>2, Zenon DEF TypeInv
  <1>7. LocalInv'
    <2>1. LocalOK(w)'
      BY <1>0, <1>1, <1>3, <1>5, Zenon DEF LocalOK, Scanning, Visits
    <2> QED
      BY <1>1, <1>4, <2>1, LocalFrame, Zenon
  <1>8. StartInv' /\ MarkBarrierInv'
    BY Numbers, <1>1, <1>2, <1>3, <1>4, StartFrame, MarkBarrierFrame, Zenon DEF Early
  <1>9. CoordInv' /\ CountInv'
    BY <1>1, <1>3, <1>4, CountFrame, Zenon DEF Working, Early, Busy
  <1>10. DoneBarrierInv'
    BY <1>1, <1>2, <1>3, <1>4, DoneBarrierFrame, Zenon DEF main, Finished
  <1>11. SubtractInv'
    BY Numbers, <1>2, Zenon DEF SubtractInv
  <1>12. MarksOK' /\ MarkedOK' /\ MarksGrow
    BY <1>1, <1>2, MarksFrame, Zenon
  <1>13. (\A v \in Worker : HeldOK(v))'
    <2>1. HeldOK(w) /\ Reachable' = Reachable
      BY <1>1, <1>2, MarkingNow, ReachSame, Zenon
    <2>2. HeldOK(w)'
      BY <1>1, <1>3, <2>1, Zenon DEF HeldOK, marks
    <2> QED
      BY <1>1, <1>2, <1>4, <1>12, <2>2, HeldFrame, Zenon
  <1>14. RootsOK'
    <2>1. Scanning(w)' /\ pos' = pos
      BY <1>1, <1>3, Zenon DEF Scanning
    <2> QED
      BY Numbers, <1>1, <1>2, <1>4, <1>12, <2>1, RootsFrame, Zenon
  <1>15. EdgesOK'
    <2>1. \A p \in Obj, q \in Obj : Grey(w, p, q) => Grey(w, p, q)'
      BY <1>1, Zenon DEF Grey
    <2>2. collecting' = collecting
      BY <1>1, Zenon DEF marks
    <2> QED
      BY <1>1, <1>2, <1>4, <1>12, <2>1, <2>2, EdgesFrame, Zenon
  <1> QED
    BY <1>6, <1>7, <1>8, <1>9, <1>10, <1>11, <1>12, <1>13, <1>14, <1>15, Zenon DEF IInv, MarkInv
-----------------------------------------------------------------------------
(* The end of marking and the main thread.                                  *)

LEMMA DoneBarrierArrive ==
  ASSUME IInv, Arrive("done", num_workers + 1),
         mpc = "barrier" \/ \E w \in Worker : pc[w] = "done"
  PROVE  /\ epoch["done"] = 0
         /\ num_left' \in [mark : Int, done : Int]
         /\ epoch' \in [mark : {0, 1}, done : {0, 1}]
         /\ num_left'["mark"] = num_left["mark"] /\ epoch'["mark"] = epoch["mark"]
         /\ num_left["done"] = 1 => epoch'["done"] = 1
         /\ num_left["done"] # 1 => epoch'["done"] = 0 /\ num_left'["done"] = num_left["done"] - 1
  <1>1. TypeHeap /\ TypeShared /\ epoch["done"] = 0
    BY Zenon DEF IInv, TypeInv, TypeShared, DoneBarrierInv, Finished
  <1>2. num_workers \in Int
    BY <1>1, MaxWorkersAssumption DEF TypeHeap
  <1> QED
    BY <1>1, <1>2 DEF TypeShared, Arrive

\* A worker that has left the marking loop moves.
LEMMA FinishStep ==
  ASSUME IInv, NEW w \in Worker, UNCHANGED <<heap, marks, coord, deque, main>>,
         num_workers_marking' = num_workers_marking, UNCHANGED <<pos, obj, todo, ret, start, n, work>>,
         SameOthers(w), pc[w] \in {"done"} \cup Finished, pc'[w] \in Finished, TypePc', ep' \in [AnyWorker -> Nat],
         num_left' \in [mark : Int, done : Int], epoch' \in [mark : {0, 1}, done : {0, 1}],
         num_left'["mark"] = num_left["mark"], epoch'["mark"] = epoch["mark"],
         DoneBarrierInv'
  PROVE  IInv'
  <1>1. /\ TypeHeap /\ TypeShared /\ TypeLocals /\ LocalOK(w)
    BY Known, Zenon
  <1>2. UNCHANGED heap /\ UNCHANGED marks /\ UNCHANGED main /\ Worker' = Worker /\ num_workers' = num_workers
    BY SliceSame, Zenon DEF heap
  <1>3. TypeInv'
    <2>1. TypeHeap' /\ TypeLocals'
      BY <1>1, <1>2, Zenon DEF TypeHeap, TypeLocals, heap
    <2>2. TypeShared'
      BY <1>1, <1>2, Zenon DEF TypeShared, marks, coord, main
    <2> QED
      BY <2>1, <2>2, Zenon DEF TypeInv
  <1>4. pc[w] \notin Early \cup MarkLabels /\ pc'[w] \notin Early \cup MarkLabels
    BY Zenon DEF Finished, Early, MarkLabels, Visits
  <1>5. PcOnly(w) /\ epoch["mark"] = 1
    BY <1>4, LateEpoch, Zenon DEF SameOthers, Same, PcOnly, MarkLabels
  <1>6. LocalInv'
    <2>1. todo[w] = {} /\ deque[w] = <<>>
      BY <1>1, Zenon DEF LocalOK, Finished, Visits
    <2>2. LocalOK(w)'
      BY <1>4, <2>1, Zenon DEF LocalOK, Scanning, MarkLabels, Early, Visits
    <2> QED
      BY <1>2, <2>2, LocalFrame, Zenon
  <1>7. StartInv'
    BY <1>2, <1>4, <1>5, StartFrame, Zenon DEF Early
  <1>8. CoordInv' /\ CountInv'
    <2>1. CoordInv /\ CountInv /\ num_workers_marking = 0
      BY Zenon DEF IInv, CountInv
    <2>2. pc[w] \notin Coords /\ pc'[w] \notin Coords
      BY Zenon DEF Finished, Coords
    <2>3. \A v \in Worker : (pc'[v] \in Coords <=> pc[v] \in Coords) /\ (pc'[v] = "coord_last" => pc[v] = "coord_last")
      BY <1>5, <2>2, Zenon DEF PcOnly, Coords
    <2> QED
      BY <1>2, <1>5, <2>1, <2>3, Zenon DEF CoordInv, CountInv, PcOnly, coord
  <1>9. MarkBarrierInv'
    BY Numbers, <1>2, <1>4, <1>5, Zenon DEF IInv, MarkBarrierInv, PcOnly
  <1>10. SubtractInv'
    BY Numbers, <1>5, Zenon DEF SubtractInv
  <1>11. MarkInv'
    BY <1>2, <1>4, MarkQuiet, Zenon
  <1> QED
    BY <1>3, <1>6, <1>7, <1>8, <1>9, <1>10, <1>11, Zenon DEF IInv

LEMMA DoneBarrierStep ==
  ASSUME IInv, NEW w \in Worker, DoneBarrier(w)
  PROVE  IInv'
  <1>0. /\ w \in AnyWorker /\ TypeHeap /\ TypeShared /\ TypePc /\ TypeLocals
    BY Known, Zenon
  <1>1. /\ UNCHANGED <<heap, marks, coord, deque, main>> /\ UNCHANGED heap /\ mpc' = mpc
        /\ num_workers_marking' = num_workers_marking /\ UNCHANGED <<pos, obj, todo, ret, start, n, work>>
        /\ ep' = [ep EXCEPT ![w] = epoch["done"]] /\ Arrive("done", num_workers + 1)
        /\ pc[w] = "done" /\ pc' = [pc EXCEPT ![w] = IF num_left["done"] = 1 THEN "leave" ELSE "done_wait"]
    BY Zenon DEF DoneBarrier, Set, Goto, counts, main
  <1>2. /\ epoch["done"] = 0
        /\ num_left' \in [mark : Int, done : Int]
        /\ epoch' \in [mark : {0, 1}, done : {0, 1}]
        /\ num_left'["mark"] = num_left["mark"] /\ epoch'["mark"] = epoch["mark"]
        /\ num_left["done"] = 1 => epoch'["done"] = 1
        /\ num_left["done"] # 1 => epoch'["done"] = 0 /\ num_left'["done"] = num_left["done"] - 1
    BY <1>1, DoneBarrierArrive, Zenon
  <1>3. pc'[w] \in Finished /\ TypePc' /\ ep' \in [AnyWorker -> Nat]
    BY Numbers, <1>0, <1>1, <1>2, Zenon DEF TypePc, TypeLocals, Locs, Finished
  <1>4. SameOthers(w) /\ PcOnly(w) /\ Worker' = Worker
    BY <1>0, <1>1, Known, WorkerFacts, SliceSame, Zenon DEF SameOthers, Same, PcOnly, TypePc, TypeLocals, heap
  <1> DEFINE E == {v \in Worker : pc[v] \notin Finished}
  <1>5. /\ IsFiniteSet(E) /\ Cardinality(E) \in Nat /\ w \in E
        /\ Cardinality(E \ {w}) = Cardinality(E) - 1 /\ Cardinality(E) - 1 \in Nat
        /\ num_left["done"] = Cardinality(E) + (IF mpc = "wait" THEN 0 ELSE 1)
        /\ mpc \in {"start", "barrier", "wait"}
    <2>1. IsFiniteSet(E) /\ w \in E
      BY <1>0, <1>1, MarkingFacts, FS_Subset, Zenon DEF Finished
    <2>2. IsFiniteSet(E \ {w}) /\ Cardinality(E \ {w}) = Cardinality(E) - 1
      BY <2>1, FS_RemoveElement, Zenon
    <2> QED
      BY <1>2, <2>1, <2>2, FS_CardinalityType, Zenon DEF IInv, DoneBarrierInv
  <1>6. {v \in Worker' : pc'[v] \notin Finished} = E \ {w}
    BY <1>3, <1>4, Zenon DEF PcOnly
  <1>7. DoneBarrierInv'
    <2>1. CASE num_left["done"] # 1
      <3>1. num_left'["done"] = Cardinality({v \in Worker' : pc'[v] \notin Finished}) + (IF mpc' = "wait" THEN 0 ELSE 1)
        <4>1. PICK k \in {0, 1} : k = IF mpc = "wait" THEN 0 ELSE 1
          BY Zenon
        <4>2. num_left'["done"] = num_left["done"] - 1 /\ mpc' = mpc
          BY <1>1, <1>2, <2>1, Zenon
        <4>3. Cardinality(E) \in Nat /\ num_left["done"] = Cardinality(E) + k
          BY Numbers, <1>5, <4>1, Zenon
        <4>4. Cardinality({v \in Worker' : pc'[v] \notin Finished}) = Cardinality(E) - 1
          BY <1>5, <1>6, Zenon
        <4> HIDE DEF E
        <4> QED
          BY <4>1, <4>2, <4>3, <4>4
      <3>2. mpc' \in {"start", "barrier", "wait"} /\ epoch'["done"] = 0
        BY <1>1, <1>2, <1>5, <2>1, Zenon
      <3> QED
        BY Numbers, <3>1, <3>2, Zenon DEF DoneBarrierInv
    <2>2. CASE num_left["done"] = 1
      <3>1. mpc = "wait" /\ Cardinality(E) = 1
        <4> HIDE DEF E
        <4> QED
          BY <1>5, <2>2
      <3>2. E = {w}
        BY <1>5, <3>1, FS_Singleton
      <3>3. \A v \in Worker : pc'[v] \in Finished
        BY <1>4, <1>6, <3>2, Zenon
      <3> QED
        BY Numbers, <1>1, <1>2, <1>4, <2>2, <3>1, <3>3, Zenon DEF DoneBarrierInv
    <2> QED
      BY <2>1, <2>2, Zenon
  <1> QED
    BY <1>1, <1>2, <1>3, <1>4, <1>7, FinishStep, Zenon

LEMMA ExitStep ==
  ASSUME IInv, NEW w \in Worker, DoneWake(w) \/ Leave(w)
  PROVE  IInv'
  <1>0. /\ w \in AnyWorker /\ TypeHeap /\ TypeShared /\ TypePc /\ TypeLocals
    BY Known, Zenon
  <1>1. /\ UNCHANGED <<heap, marks, coord, deque, main>> /\ UNCHANGED heap /\ mpc' = mpc
        /\ num_workers_marking' = num_workers_marking
        /\ UNCHANGED <<pos, obj, todo, ret, start, n, work>> /\ ep' = ep
        /\ num_left' = num_left /\ epoch' = epoch
        /\ pc[w] \in Finished
        /\ pc' = [pc EXCEPT ![w] = "leave"] \/ pc' = [pc EXCEPT ![w] = "exited"]
    BY Zenon DEF DoneWake, Leave, Goto, counts, main, locals, barriers, Finished
  <1>3. pc'[w] \in Finished /\ TypePc' /\ ep' \in [AnyWorker -> Nat]
    BY <1>0, <1>1, Zenon DEF TypePc, TypeLocals, Locs, Finished
  <1>4. SameOthers(w) /\ PcOnly(w)
    BY <1>0, <1>1, Known, WorkerFacts, Zenon DEF SameOthers, Same, PcOnly, TypePc, TypeLocals
  <1>5. DoneBarrierInv'
    BY <1>1, <1>3, <1>4, DoneBarrierFrame, Zenon
  <1> QED
    BY <1>0, <1>1, <1>3, <1>4, <1>5, FinishStep, Zenon DEF TypeShared

\* The main thread moves.
LEMMA MainFrame ==
  ASSUME IInv, UNCHANGED <<heap, marks, deque, pc, locals>>,
         UNCHANGED <<num_workers_marking, tokens_left, steal_coordinator, started>>,
         num_left' \in [mark : Int, done : Int], epoch' \in [mark : {0, 1}, done : {0, 1}],
         num_left'["mark"] = num_left["mark"], epoch'["mark"] = epoch["mark"],
         mpc' \in {"start", "barrier", "wait", "move", "end"},
         mpc' = "start" <=> mpc = "start", DoneBarrierInv'
  PROVE  IInv'
  <1>1. UNCHANGED heap /\ Worker' = Worker /\ num_workers' = num_workers
        /\ \A v : Slice(v)' = Slice(v) /\ SliceStart(v)' = SliceStart(v) /\ SliceEnd(v)' = SliceEnd(v)
    BY SliceSame, Zenon DEF heap
  <1>2. TypeInv'
    <2>1. TypeHeap' /\ TypeLocals' /\ TypePc'
      BY Zenon DEF IInv, TypeInv, TypeHeap, TypeLocals, TypePc, heap, locals
    <2>2. TypeShared'
      BY <1>1, Zenon DEF IInv, TypeInv, TypeShared, marks
    <2> QED
      BY <2>1, <2>2, Zenon DEF TypeInv
  <1>3. LocalInv'
    BY <1>1, Zenon DEF IInv, LocalInv, LocalOK, Scanning, locals
  <1>4. StartInv' /\ CoordInv'
    BY <1>1, Zenon DEF IInv, StartInv, CoordInv, locals
  <1>5. CountInv'
    BY <1>1, Zenon DEF IInv, CountInv, Marking, posting, locals
  <1>6. MarkBarrierInv'
    BY <1>1, Zenon DEF IInv, MarkBarrierInv
  <1>7. SubtractInv'
    <2>1. Unsubtracted' = Unsubtracted
      BY <1>1, Zenon DEF Unsubtracted, locals
    <2> QED
      BY <2>1, Zenon DEF IInv, SubtractInv, marks, heap
  <1>8. MarkInv'
    <2>1. Reachable' = Reachable
      BY <1>1, ReachSame, Zenon
    <2>2. MarksOK' = MarksOK /\ MarkedOK' = MarkedOK /\ EdgesOK' = EdgesOK
      BY <1>1, <2>1, ZenonT(60) DEF MarksOK, MarkedOK, EdgesOK, Grey, marks, heap, locals
    <2>3. RootsOK' = RootsOK /\ (\A w \in Worker : HeldOK(w))' = (\A w \in Worker : HeldOK(w))
      BY <1>1, <2>1, Zenon DEF RootsOK, HeldOK, Scanning, marks, heap, locals
    <2> QED
      BY <2>2, <2>3, Zenon DEF IInv, MarkInv
  <1> QED
    BY Numbers, <1>2, <1>3, <1>4, <1>5, <1>6, <1>7, <1>8, Zenon DEF IInv

LEMMA MainArriveStep ==
  ASSUME IInv, MainArrive
  PROVE  IInv'
  <1>1. /\ UNCHANGED <<heap, marks, deque, pc, locals>> /\ mpc = "barrier"
        /\ UNCHANGED <<num_workers_marking, tokens_left, steal_coordinator, started>>
        /\ mpc' = (IF num_left["done"] = 1 THEN "move" ELSE "wait") /\ Arrive("done", num_workers + 1)
    BY Zenon DEF MainArrive, counts, coord
  <1>2. /\ epoch["done"] = 0
        /\ num_left' \in [mark : Int, done : Int]
        /\ epoch' \in [mark : {0, 1}, done : {0, 1}]
        /\ num_left'["mark"] = num_left["mark"] /\ epoch'["mark"] = epoch["mark"]
        /\ num_left["done"] = 1 => epoch'["done"] = 1
        /\ num_left["done"] # 1 => epoch'["done"] = 0 /\ num_left'["done"] = num_left["done"] - 1
    BY <1>1, DoneBarrierArrive, Zenon
  <1> DEFINE E == {v \in Worker : pc[v] \notin Finished}
  <1>3. IsFiniteSet(E) /\ Cardinality(E) \in Nat /\ num_left["done"] = Cardinality(E) + 1
    <2>1. IsFiniteSet(E)
      BY Numbers, MarkingFacts, FS_Subset, Zenon DEF IInv, TypeInv
    <2> QED
      BY <1>1, <1>2, <2>1, FS_CardinalityType, Zenon DEF IInv, DoneBarrierInv
  <1>4. Worker' = Worker /\ {v \in Worker' : pc'[v] \notin Finished} = E
    BY <1>1, SliceSame, Zenon DEF heap
  <1>5. DoneBarrierInv'
    <2>1. CASE num_left["done"] # 1
      <3>1. num_left'["done"] = Cardinality({v \in Worker' : pc'[v] \notin Finished}) + 0
        <4>1. num_left'["done"] = num_left["done"] - 1
          BY <1>2, <2>1, Zenon
        <4>2. Cardinality({v \in Worker' : pc'[v] \notin Finished}) = Cardinality(E)
          BY <1>4, Zenon
        <4> HIDE DEF E
        <4> QED
          BY <1>3, <4>1, <4>2
      <3> QED
        BY Numbers, <1>1, <1>2, <2>1, <3>1, Zenon DEF DoneBarrierInv
    <2>2. CASE num_left["done"] = 1
      <3>1. Cardinality(E) = 0
        <4> HIDE DEF E
        <4> QED
          BY <1>3, <2>2
      <3>2. E = {}
        BY <1>3, <3>1, FS_EmptySet, Zenon
      <3> QED
        BY Numbers, <1>1, <1>2, <1>4, <2>2, <3>2, Zenon DEF DoneBarrierInv
    <2> QED
      BY <2>1, <2>2, Zenon
  <1> QED
    BY <1>1, <1>2, <1>5, MainFrame, Zenon

LEMMA MainWakeStep ==
  ASSUME IInv, MainWake \/ (\E w \in Worker : SpuriousWakeup(w)) \/ UNCHANGED vars
  PROVE  IInv'
  <1>1. /\ UNCHANGED <<heap, marks, deque, pc, locals>> /\ num_workers' = num_workers
        /\ UNCHANGED <<num_workers_marking, tokens_left, steal_coordinator, started>>
        /\ num_left' = num_left /\ epoch' = epoch
        /\ mpc' = mpc \/ (mpc = "wait" /\ mpc' = "move" /\ epoch["done"] # 0)
    BY Zenon DEF MainWake, SpuriousWakeup, vars, counts, coord, barriers, main, heap
  <1>2. TypeShared /\ DoneBarrierInv
    BY Zenon DEF IInv, TypeInv
  <1>3. DoneBarrierInv'
    BY <1>1, <1>2, SliceSame, Zenon DEF DoneBarrierInv, TypeShared
  <1>4. mpc' \in {"start", "barrier", "wait", "move", "end"} /\ (mpc' = "start" <=> mpc = "start")
    BY <1>1, <1>2, Zenon DEF TypeShared
  <1> QED
    BY <1>1, <1>2, <1>3, <1>4, MainFrame, Zenon DEF TypeShared

LEMMA MoveStep ==
  ASSUME IInv, Ci_move_unreachable_parallel
  PROVE  IInv'
  <1>1. /\ UNCHANGED <<heap, deque, pc, locals>> /\ num_workers' = num_workers /\ UNCHANGED gc_refs
        /\ UNCHANGED <<num_workers_marking, tokens_left, steal_coordinator, started>>
        /\ num_left' = num_left /\ epoch' = epoch /\ mpc = "move" /\ mpc' = "end"
        /\ collecting' = [o \in Obj |-> collecting[o] /\ gc_refs[o] = 0]
    BY Zenon DEF Ci_move_unreachable_parallel, counts, coord, barriers, heap
  <1>2. TypeShared /\ TypeHeap /\ DoneBarrierInv
    BY Zenon DEF IInv, TypeInv
  <1>3. epoch["done"] = 1 /\ \A w \in Worker : pc[w] \in Finished
    BY <1>1, <1>2, Zenon DEF DoneBarrierInv, TypeShared
  <1>4. epoch["mark"] = 1
    <2>1. PICK w \in Worker : TRUE
      BY <1>2, WorkerFacts, Zenon
    <2> QED
      BY <1>3, LateEpoch, Zenon DEF Finished, Early
  <1>5. ASSUME NEW o \in Obj, collecting[o] PROVE gc_refs[o] = 0
    <2>1. gc_refs[o] = ext[o] /\ ext[o] \in {0, 1}
      BY Numbers, <1>2, <1>4, <1>5, MarkingNow, Zenon DEF MarksOK, TypeHeap
    <2>2. ext[o] # 1
      BY <1>3, <1>4, <1>5, MarkingNow, Zenon DEF RootsOK, Scanning, Finished, Visits
    <2> QED
      BY <2>1, <2>2, Zenon
  <1>6. collecting' = collecting
    <2>1. \A o \in Obj : collecting[o] \in BOOLEAN
      BY <1>2, Zenon DEF TypeShared
    <2>2. ASSUME NEW o \in Obj PROVE (collecting[o] /\ gc_refs[o] = 0) = collecting[o]
      BY <1>5, <2>1, Zenon
    <2>3. [o \in Obj |-> collecting[o] /\ gc_refs[o] = 0] = [o \in Obj |-> collecting[o]]
      BY <2>2, Zenon
    <2>4. [o \in Obj |-> collecting[o]] = collecting
      BY Numbers, <1>2, Zenon DEF TypeShared
    <2> QED
      BY <1>1, <2>3, <2>4, Zenon
  <1>7. DoneBarrierInv'
    BY Numbers, <1>1, <1>3, SliceSame, Zenon DEF DoneBarrierInv
  <1> QED
    BY <1>1, <1>2, <1>6, <1>7, MainFrame, Zenon DEF TypeShared, marks
-----------------------------------------------------------------------------
(* The invariant holds and gives the properties.                            *)

LEMMA InitInvariant == Init => IInv
  <1> SUFFICES ASSUME Init PROVE IInv
    BY Zenon
  <1>1. PICK h \in Heaps : /\ num_workers = h.workers
                           /\ refs = [o \in Obj |-> {p \in Obj : <<o, p>> \in h.edges}]
                           /\ ext = [o \in Obj |-> IF o \in h.roots THEN 1 ELSE 0]
    BY Zenon DEF Init
  <1>2. TypeHeap
    BY <1>1, HeapsAssumption, Zenon DEF TypeHeap
  <1>3. num_workers \in Nat \ {0} /\ Worker # {} /\ Worker \subseteq AnyWorker /\ NoWorker \notin Worker
        /\ num_workers \in 1 .. MaxWorkers
    BY <1>2, WorkerFacts, Zenon DEF TypeHeap
  <1>4. Cardinality(Worker) = num_workers
    BY <1>3, FS_Interval DEF Worker
  <1>5. IsFiniteSet(Obj)
    BY Numbers, FS_Interval, NumObjsAssumption, Zenon DEF Obj
  <1>6. /\ num_workers_marking = num_workers /\ steal_coordinator = NoWorker /\ tokens_left = 0
        /\ mpc = "start" /\ started = 0
        /\ num_left = [mark |-> num_workers, done |-> num_workers + 1] /\ epoch = [mark |-> 0, done |-> 0]
        /\ \A w \in Worker : pc[w] = "none" /\ deque[w] = <<>> /\ todo[w] = {}
    BY <1>3, Zenon DEF Init
  <1>7. gc_refs = [o \in Obj |-> ext[o] + Cardinality({p \in Obj : o \in refs[p]})] /\ collecting = [o \in Obj |-> TRUE]
    BY Zenon DEF Init, update_refs
  <1>8. TypeInv
    <2>1. TypePc /\ TypeLocals
      BY Zenon DEF Init, TypePc, TypeLocals, Locs
    <2>2. gc_refs \in [Obj -> Int]
      <3>1. ASSUME NEW o \in Obj PROVE Cardinality({p \in Obj : o \in refs[p]}) \in Nat
        BY <1>5, FS_Subset, FS_CardinalityType, Zenon
      <3>2. \A o \in Obj : ext[o] \in Int
        BY Numbers, <1>2, Zenon DEF TypeHeap
      <3> QED
        BY <1>7, <3>1, <3>2
    <2>3. deque \in [AnyWorker -> Seq(Obj)]
      BY DEF Init
    <2>4. num_left \in [mark : Int, done : Int] /\ epoch \in [mark : {0, 1}, done : {0, 1}]
      BY <1>3, <1>6
    <2>5. collecting \in [Obj -> BOOLEAN]
      BY <1>7, Zenon
    <2>6. num_workers_marking \in Nat /\ tokens_left \in Nat /\ started \in 0 .. num_workers
      BY <1>3, <1>6
    <2>7. TypeShared
      BY <1>6, <2>2, <2>3, <2>4, <2>5, <2>6, Zenon DEF TypeShared
    <2> QED
      BY <1>2, <2>1, <2>7, Zenon DEF TypeInv
  <1>9. LocalInv
    BY <1>6, Zenon DEF LocalInv, LocalOK, Scanning, Visits
  <1>10. StartInv
    BY <1>3, <1>6 DEF StartInv, Worker
  <1>11. CoordInv
    BY <1>3, <1>6, Zenon DEF CoordInv, Coords
  <1>12. CountInv
    <2>1. Marking = Worker /\ posting = 0
      BY <1>6, Zenon DEF Marking, posting
    <2> QED
      BY <1>3, <1>4, <1>6, <2>1 DEF CountInv, Finished
  <1>13. MarkBarrierInv /\ DoneBarrierInv
    <2>1. {w \in Worker : pc[w] \in Early} = Worker /\ {w \in Worker : pc[w] \notin Finished} = Worker
      BY <1>6, Zenon DEF Early, Finished
    <2>2. num_left["mark"] = num_workers /\ num_left["done"] = num_workers + 1 /\ epoch["mark"] = 0 /\ epoch["done"] = 0
      BY <1>6, Zenon
    <2>3. /\ num_left["mark"] = Cardinality({w \in Worker : pc[w] \in Early})
          /\ num_left["done"] = Cardinality({w \in Worker : pc[w] \notin Finished}) + 1
      BY <1>4, <2>1, <2>2, Zenon
    <2>4. MarkBarrierInv
      BY Numbers, <1>6, <2>2, <2>3, Zenon DEF MarkBarrierInv, Early
    <2>5. DoneBarrierInv
      BY Numbers, <1>6, <2>2, <2>3, Zenon DEF DoneBarrierInv
    <2> QED
      BY <2>4, <2>5, Zenon
  <1>14. SubtractInv
    <2>1. Unsubtracted = Obj
      BY <1>3, <1>6, SliceIndexFacts, Zenon DEF Unsubtracted
    <2> QED
      BY <1>7, <2>1, Zenon DEF SubtractInv
  <1>15. MarkInv
    BY Numbers, <1>6, Zenon DEF MarkInv
  <1> QED
    BY <1>8, <1>9, <1>10, <1>11, <1>12, <1>13, <1>14, <1>15, Zenon DEF IInv

LEMMA NextInvariant == IInv /\ [Next]_vars => IInv'
  <1> SUFFICES ASSUME IInv, [Next]_vars PROVE IInv'
    BY Zenon
  <1>1. ASSUME MainStep PROVE IInv'
    BY <1>1, StartThreadStep, MainArriveStep, MainWakeStep, MoveStep, Zenon DEF MainStep
  <1>2. ASSUME NEW w \in Worker,
               Run(w) \/ SubtractRefs(w) \/ MarkBarrier(w) \/ MarkWake(w)
        PROVE  IInv'
    BY <1>2, RunStep, SubtractRefsStep, MarkBarrierStep, MarkWakeStep, Zenon
  <1>3. ASSUME NEW w \in Worker,
               \/ SliceLoad(w) \/ SliceMark(w) \/ SliceDone(w)
               \/ VisitLoad(w) \/ VisitMark(w) \/ VisitPush(w) \/ VisitDone(w)
        PROVE  IInv'
    BY <1>3, SliceLoadStep, SliceMarkStep, SliceDoneStep, VisitLoadStep, VisitMarkStep, VisitPushStep, VisitDoneStep, Zenon
  <1>4. ASSUME NEW w \in Worker,
               \/ Take(w) \/ TakeNull(w) \/ Steal(w) \/ StealMiss(w)
               \/ TakeStealCoordinator(w) \/ Quit(w) \/ SemaWait(w)
        PROVE  IInv'
    BY <1>4, TakeStep, StealStep, SearchStep, TakeStealCoordinatorStep, QuitStep, SemaWaitStep, Zenon
  <1>5. ASSUME NEW w \in Worker,
               \/ CoordLoad(w) \/ CoordLast(w) \/ CoordSize(w) \/ CoordNoWake(w)
               \/ CoordWake(w) \/ CoordPost(w) \/ DropStealCoordinator(w)
        PROVE  IInv'
    BY Zenon, <1>5, CoordLoadStep, CoordLastStep, CoordSizeStep, CoordNoWakeStep, CoordWakeStep, CoordPostStep,
       DropStealCoordinatorStep
  <1>6. ASSUME NEW w \in Worker, LoopTest(w) \/ DoneBarrier(w) \/ DoneWake(w) \/ Leave(w)
        PROVE  IInv'
    BY <1>6, LoopTestStep, DoneBarrierStep, ExitStep, Zenon
  <1>7. ASSUME (\E w \in Worker : SpuriousWakeup(w)) \/ UNCHANGED vars PROVE IInv'
    BY <1>7, MainWakeStep, Zenon
  <1> QED
    BY <1>1, <1>2, <1>3, <1>4, <1>5, <1>6, <1>7, Zenon DEF Next, WorkerStep, Terminated

LEMMA MarkingInvariant == Spec => []IInv
  BY InitInvariant, NextInvariant, PTL DEF Spec

\* At the end every worker is past the second barrier, nobody scans or holds
\* anything, so the marked objects are closed under references.
LEMMA EndFacts ==
  ASSUME IInv
  PROVE  ExactlyUnreachable
  <1> SUFFICES ASSUME mpc = "end" PROVE {o \in Obj : collecting[o]} = Obj \ Reachable
    BY Zenon DEF ExactlyUnreachable
  <1>1. TypeHeap /\ TypeShared /\ LocalInv
    BY Zenon DEF IInv, TypeInv
  <1>2. \A w \in Worker : pc[w] \in Finished
    BY <1>1, Zenon DEF IInv, DoneBarrierInv, TypeShared
  <1>3. epoch["mark"] = 1
    BY Numbers, <1>1, <1>2, WorkerFacts, LateEpoch, Zenon DEF Finished, Early
  <1>4. MarkedOK /\ RootsOK /\ EdgesOK
    BY <1>3, MarkingNow, Zenon
  <1> DEFINE S == {o \in Obj : ~ collecting[o]}
  <1>5. ASSUME NEW o \in Obj, ext[o] > 0 PROVE o \in S
    BY <1>1, <1>2, <1>4, <1>5 DEF RootsOK, Scanning, Finished, Visits, TypeHeap
  <1>6. ASSUME NEW p \in S, NEW q \in refs[p] PROVE q \in S
    <2>1. q \in Obj
      BY <1>1, Zenon DEF TypeHeap
    <2>2. ASSUME NEW w \in Worker PROVE ~ Grey(w, p, q)
      <3>1. deque[w] = <<>> /\ todo[w] = {} /\ pc[w] # "visit_push"
        BY <1>1, <1>2, Zenon DEF LocalInv, LocalOK, Finished, Visits
      <3> QED
        BY <3>1 DEF Grey, Elems
    <2> QED
      BY <1>4, <2>1, <2>2, Zenon DEF EdgesOK
  <1>7. Reachable \subseteq S
    <2>1. ClosedSet(S) /\ S \in SUBSET Obj
      BY <1>5, <1>6, Zenon DEF ClosedSet
    <2> QED
      BY <1>1, <2>1, ReachFacts, Zenon
  <1>8. S \subseteq Reachable
    BY <1>4, Zenon DEF MarkedOK
  <1> QED
    BY <1>7, <1>8, Zenon

\* When the collection ends, the objects still marked as collecting, which
\* Ci_move_unreachable_parallel has put on the unreachable list, are exactly
\* those not reachable from outside the generation: for every number of
\* objects and workers, every heap, and every interleaving of the marking,
\* stealing and sleeping of the workers.
THEOREM UnreachableIsExact == Spec => []ExactlyUnreachable
  BY MarkingInvariant, EndFacts, PTL

\* From the first barrier of Ci_ParGCWorker_Run on, an object with positive
\* gc_refs is reachable, although several workers may store into the same
\* _gc_prev with plain stores.
THEOREM OnlyReachableMarked == Spec => []PositiveIsReachable
  <1>1. ASSUME IInv PROVE PositiveIsReachable
    <2> SUFFICES ASSUME NEW w \in Worker, pc[w] \notin {"none", "run", "subtract", "mark_wait"},
                        NEW o \in Obj, gc_refs[o] > 0
                 PROVE  o \in Reachable
      BY Zenon DEF PositiveIsReachable
    <2>1. epoch["mark"] = 1 /\ TypeHeap
      BY <1>1, LateEpoch, Known, Zenon DEF Early
    <2>2. MarksOK /\ MarkedOK
      BY <1>1, <2>1, MarkingNow, Zenon
    <2>3. CASE collecting[o]
      <3>1. gc_refs[o] = ext[o] /\ ext[o] \in {0, 1}
        BY <2>1, <2>2, <2>3, Zenon DEF MarksOK, TypeHeap
      <3> QED
        BY <2>1, <3>1, ReachFacts
    <2>4. CASE ~ collecting[o]
      BY <2>2, <2>4, Zenon DEF MarkedOK
    <2> QED
      BY <2>3, <2>4, Zenon
  <1> QED
    BY <1>1, MarkingInvariant, PTL

\* num_workers_marking is the number of marking workers and of wake-ups under
\* way, so a coordinator of CoordinateStealing that reads 1 is the only one
\* left; and once it is 0 no deque holds an object and no traversal is
\* unfinished: marking does not end early.
THEOREM MarkersAreCounted == Spec => []MarkingCounted
  <1>1. ASSUME IInv PROVE MarkingCounted
    <2>1. ASSUME num_workers_marking = 0, NEW w \in Worker PROVE deque[w] = <<>> /\ todo[w] = {}
      BY <1>1, <2>1, Zenon DEF IInv, CountInv, LocalInv, LocalOK, Finished, Visits
    <2> QED
      BY <1>1, <2>1, Zenon DEF IInv, CountInv, MarkingCounted
  <1> QED
    BY <1>1, MarkingInvariant, PTL
====
