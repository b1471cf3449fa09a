------------------------------ MODULE GCSpaces -------------------------------
(***************************************************************************)
(* The generations of Python 3.14 and later under the parallel collector   *)
(* (ParallelGC/parallel_gc.c).  The interpreter's incremental collector    *)
(* keeps two old spaces and a bit in _gc_next that says which of the two   *)
(* an object is in.  The parallel collector uses them as generations 1 and *)
(* 2 and ignores the bit, so Cinder_EnableParallelGC and                   *)
(* Ci_ParGCState_Destroy convert between the two uses.                     *)
(***************************************************************************)
EXTENDS Integers

CONSTANTS
  Obj,
  FinalizersDisable   \* a finalizer may call Cinder_DisableParallelGC

VARIABLES
  list,           \* "young", "old0", "old1", "unreachable" or "none"
  bit,            \* _PyGC_NEXT_MASK_OLD_SPACE_1
  visited_space,
  enabled,        \* the parallel collector is the gc implementation
  old             \* where the running collection puts survivors, or "idle"

vars == <<list, bit, visited_space, enabled, old>>

In(l) == {o \in Obj : list[o] = l}

Init ==
  /\ list = [o \in Obj |-> "none"] /\ bit = [o \in Obj |-> 0]
  /\ visited_space = 0 /\ enabled = FALSE /\ old = "idle"

GEN_HEAD(n) == CASE n = 0 -> "young" [] n = 1 -> "old0" [] n = 2 -> "old1"

-----------------------------------------------------------------------------
(* The interpreter: allocation, and the incremental collector.              *)

\* The bit of a new object depends on visited_space.
Track(o) ==
  /\ list[o] = "none"
  /\ list' = [list EXCEPT ![o] = "young"]
  /\ \E b \in {0, 1} : bit' = [bit EXCEPT ![o] = b]
  /\ UNCHANGED <<visited_space, enabled, old>>

\* It moves objects into an old space and sets the bit accordingly.
IncrementalMove(o) ==
  /\ ~enabled /\ old = "idle" /\ list[o] # "none"
  /\ \E s \in {0, 1} : /\ list' = [list EXCEPT ![o] = GEN_HEAD(s + 1)]
                        /\ bit' = [bit EXCEPT ![o] = s]
  /\ UNCHANGED <<visited_space, enabled, old>>

FlipSpaces ==
  /\ ~enabled /\ old = "idle"
  /\ visited_space' = 1 - visited_space
  /\ UNCHANGED <<list, bit, enabled, old>>

-----------------------------------------------------------------------------
(* The parallel collector.                                                  *)

\* Generation 1 is merged into generation 2.
Cinder_EnableParallelGC ==
  /\ ~enabled /\ (old = "idle" \/ FinalizersDisable)
  /\ enabled' = TRUE
  /\ bit' = [o \in Obj |-> IF list[o] = "old1" \/ (list[o] = "young" /\ visited_space # 0)
                             THEN 0 ELSE bit[o]]
  /\ list' = [o \in Obj |-> IF list[o] = "old0" THEN "old1" ELSE list[o]]
  /\ visited_space' = 0
  /\ UNCHANGED old

\* Mutant of RestoreSpaces: the bits are set before generation 2 is merged.
RestoreMergedLast ==
  /\ list' = [o \in Obj |-> IF list[o] = "old1" THEN "old0" ELSE list[o]]
  /\ bit' = [o \in Obj |-> CASE list[o] \in {"young", "old0"} -> 0
                               [] list[o] = "old1" -> 1 [] OTHER -> bit[o]]

\* Generation 2 is merged into generation 1, then the bits are set; generation
\* 2 is empty at that point.
RestoreSpaces ==
  /\ list' = [o \in Obj |-> IF list[o] = "old1" THEN "old0" ELSE list[o]]
  /\ bit' = [o \in Obj |-> IF list[o] \in {"young", "old0", "old1"} THEN 0 ELSE bit[o]]

\* Cinder_DisableParallelGC.
Ci_ParGCState_Destroy ==
  /\ enabled /\ (old = "idle" \/ FinalizersDisable)
  /\ enabled' = FALSE
  /\ RestoreSpaces
  /\ UNCHANGED <<visited_space, old>>

\* Cinder_EnableParallelGC when Ci_PyGC_SetImpl fails: the spaces are restored
\* though they were never converted.  visited_space may be 1 here; a build
\* with assertions stops then.
EnableRefused ==
  /\ ~enabled /\ (old = "idle" \/ FinalizersDisable)
  /\ RestoreSpaces
  /\ UNCHANGED <<visited_space, enabled, old>>

\* gc_collect_main up to the finalizers.  move_unreachable links objects by
\* copying whole _gc_next words, so the bits of the survivors are mixed up;
\* the unreachable objects get fresh words.
CollectBegin(generation) ==
  /\ enabled /\ old = "idle"
  /\ old' = GEN_HEAD(IF generation < 2 THEN generation + 1 ELSE 2)
  /\ LET young == UNION {In(GEN_HEAD(n)) : n \in 0 .. generation} IN
     \E trash \in SUBSET young :
       \E copied \in [young \ trash -> {0, 1}] :
         /\ list' = [o \in Obj |-> IF o \in trash THEN "unreachable"
                                   ELSE IF o \in young THEN old' ELSE list[o]]
         /\ bit' = [o \in Obj |-> IF o \in trash THEN 0
                                  ELSE IF o \in young THEN copied[o] ELSE bit[o]]
  /\ UNCHANGED <<visited_space, enabled>>

\* Resurrected objects, and the ones a legacy finalizer keeps, join the
\* survivors; the others are freed.
CollectEnd ==
  /\ old # "idle"
  /\ \E kept \in SUBSET In("unreachable") :
       list' = [o \in Obj |-> IF o \in kept THEN old
                              ELSE IF list[o] = "unreachable" THEN "none" ELSE list[o]]
  /\ bit' = [o \in Obj |-> IF list'[o] = "none" THEN 0 ELSE bit[o]]
  /\ old' = "idle"
  /\ UNCHANGED <<visited_space, enabled>>

Next ==
  \/ \E o \in Obj : Track(o) \/ IncrementalMove(o)
  \/ FlipSpaces
  \/ Cinder_EnableParallelGC \/ EnableRefused \/ Ci_ParGCState_Destroy
  \/ \E generation \in 0 .. 2 : CollectBegin(generation)
  \/ CollectEnd

Spec == Init /\ [][Next]_vars

-----------------------------------------------------------------------------
\* The assertion of Ci_ParGCState_Destroy ("we should have flipped this when
\* GC began"): visited_space is 0 as long as the parallel collector is on.
FlippedWhileEnabled == enabled => visited_space = 0
=============================================================================
