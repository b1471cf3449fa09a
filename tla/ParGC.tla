-------------------------------- MODULE ParGC --------------------------------
(***************************************************************************)
(* The parallel collector of Python 3.14 as a whole: the life of its       *)
(* states and threads (ParGCLife) together with the old spaces it converts *)
(* (GCSpaces).  Enabling, collecting and destroying are one step of both.  *)
(* Obj are some of the objects, so a collection may be large enough for    *)
(* threads with few of them in its generation.                             *)
(***************************************************************************)
EXTENDS ParGCLife

CONSTANT Obj

VARIABLES
  list, bit, visited_space, old,   \* as in GCSpaces
  converted,   \* the generations are those of the parallel collector
  strays       \* history: objects put into old space 1 by a collection whose
               \* collector a finalizer had destroyed, and not moved since

Spaces == INSTANCE GCSpaces WITH enabled <- converted, FinalizersDisable <- TRUE

spaces == <<list, bit, visited_space, old, converted>>
gcvars == <<vars, spaces, strays>>

GCInit == Init /\ Spaces!Init /\ strays = {}

\* The new state is installed, then the generations are converted.
Enable ==
  /\ Cinder_EnableParallelGC /\ Spaces!Cinder_EnableParallelGC
  /\ strays' = {}

\* The new state is refused, and its destruction restores the spaces.
Refused == EnableRefused /\ Spaces!EnableRefused /\ strays' = {}

\* The spin on num_workers_active comes before the conversion.
Destroy ==
  /\ Ci_ParGCState_Destroy /\ Spaces!Ci_ParGCState_Destroy
  /\ UNCHANGED strays

\* gc_collect_main once the unreachable objects are known: serially, or by
\* threads that the main thread has waited for.
Deduced ==
  /\ CollectSerial \/ MainLeave \/ (MainArrive /\ IsLast(done_barrier))
  /\ \E generation \in 0 .. 2 : Spaces!CollectBegin(generation)
  /\ UNCHANGED strays

Finish ==
  /\ EndCollection /\ Spaces!CollectEnd
  /\ strays' = IF converted THEN strays
               ELSE strays \cup {o \in Spaces!In("unreachable") : list'[o] = "old1"}

\* What leaves the generations alone.
Alone(A) == A /\ UNCHANGED <<spaces, strays>>
MainAlone == Alone(Spawn \/ (MainArrive /\ ~IsLast(done_barrier)))
Request == Alone(CollectParallel \/ Cinder_DisableParallelGC)
WorkerRun(t) == Alone(Ci_ParGCWorker_Run(t))

\* The program and, when it is in charge, the incremental collector.
Interpreter ==
  /\ pc \in {"idle", "finalizers"}
  /\ \/ (Spaces!FlipSpaces \/ \E o \in Obj : Spaces!Track(o)) /\ UNCHANGED strays
     \/ \E o \in Obj : Spaces!IncrementalMove(o) /\ strays' = strays \ {o}
  /\ UNCHANGED vars

GCNext ==
  \/ Enable \/ Refused \/ Destroy \/ Deduced \/ Finish \/ MainAlone \/ Request \/ Interpreter
  \/ \E t \in Thread : WorkerRun(t)

\* What the main thread does without being asked to.
GCMainStep == (pc # "idle" /\ Deduced) \/ MainAlone \/ Destroy \/ Finish

\* The operating system runs every thread; finalizers return.
GCFairSpec ==
  /\ GCInit /\ [][GCNext]_gcvars
  /\ WF_gcvars(GCMainStep)
  /\ \A t \in Thread : WF_gcvars(WorkerRun(t))

-----------------------------------------------------------------------------
\* The conversion of the generations follows the life of the collector: they
\* are the parallel collector's from Enable to the end of Destroy, and while
\* they are visited_space is 0, which Ci_ParGCState_Destroy asserts ("we should
\* have flipped this when GC began").  "Restore space invariants expected by
\* the incremental GC": whenever they are not, after a refused Enable and in
\* the middle of a collection too, the bit of an object in an old space is the
\* number of the space.  Only what a collection has put back after a finalizer
\* destroyed its collector may lack it.
SpacesRestored ==
  /\ enabled => converted
  /\ converted => pc = "destroy" \/ enabled
  /\ Spaces!FlippedWhileEnabled
  /\ ~converted =>
       \A o \in Obj : /\ list[o] = "old0" => bit[o] = 0
                      /\ list[o] = "old1" => bit[o] = 1 \/ o \in strays
=============================================================================
