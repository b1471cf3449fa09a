--------------------------- MODULE GCCollectProofs ---------------------------
(***************************************************************************)
(* Proofs about GCCollect, for every set of objects, every heap and any    *)
(* number of collections.                                                  *)
(*                                                                         *)
(* The argument rests on isolation: nothing outside a set U refers to U.   *)
(* The set that deduce_unreachable returns is isolated, and stays so when  *)
(* the objects legacy finalizers lead to are taken out.  Python code       *)
(* reaches only what its arguments, the roots and weak references lead to, *)
(* so it cannot get into an isolated set that no weak reference leads to;  *)
(* callbacks keep the trash isolated.  Finalizers do not, which is why     *)
(* handle_resurrected_objects deduces again.  During deletion references   *)
(* only go away, the doomed set stays isolated, and once all of it was     *)
(* cleared only members without tp_clear still refer to members; the       *)
(* others have been freed, as an object that exists is referred to by      *)
(* something.                                                              *)
(***************************************************************************)
EXTENDS GCCollect, TLAPS

Lists == GenList \cup {"wrcb_to_call", "unreachable", "finalizers", "seen", "final_unreachable", "freed"}

TypeHeap ==
  /\ refs \in [Obj -> SUBSET Obj]
  /\ ext \in SUBSET Obj
  /\ wr \in [WeakRef -> Obj \cup {NONE}]
  /\ where \in [Obj -> Lists]
  /\ collecting \in [Obj -> BOOLEAN]
  /\ finalized \in [Obj -> BOOLEAN]
  /\ fincalls \in [Obj -> Nat]
  /\ phase \in {"idle", "callbacks", "finalize", "delete"}
  /\ old \in GenList
  /\ doomed \in SUBSET Obj

\* Nothing refers to a freed object, and something to every other one: its
\* reference count is not zero.
HeapOK(r, e, alive) ==
  /\ e \subseteq alive
  /\ \A p \in alive : r[p] \subseteq alive
  /\ \A p \in Obj \ alive : r[p] = {}
  /\ \A o \in alive : o \in e \/ \E p \in alive : o \in r[p]

WeakOK == \A x \in WeakRef : wr[x] # NONE => wr[x] \in Alive /\ x \in Alive

\* The lists in use in each phase, and that the collecting flag marks those
\* that hold the candidates.
Candidates ==
  CASE phase = "idle" -> {}
    [] phase = "callbacks" -> {"unreachable"}
    [] phase = "finalize" -> {"unreachable", "seen"}
    [] phase = "delete" -> {"final_unreachable"}

Others ==
  CASE phase = "idle" -> {}
    [] phase = "callbacks" -> {"wrcb_to_call", "finalizers"}
    [] OTHER -> {"finalizers"}

ListsOK ==
  \A o \in Alive : /\ where[o] \in GenList \cup Candidates \cup Others
                   /\ collecting[o] <=> where[o] \in Candidates

\* Nothing outside U refers to U.
Isolated(U) == ext \cap U = {} /\ \A p \in Obj \ U : refs[p] \cap U = {}

\* While callbacks run, the trash is out of reach, also by weak references.
TrashInv ==
  phase = "callbacks" =>
    /\ Isolated(In("unreachable"))
    /\ In("unreachable") \cap LegacyDel = {}
    /\ TrashIsHidden

\* What is being deleted is out of reach, and what is left of it stays so; what
\* has been cleared refers to nothing any more, and nothing else has been.
DeleteInv ==
  /\ phase \in {"delete", "idle"} =>
       /\ Isolated(doomed)
       /\ \A o \in doomed \cap Alive :
            where[o] # "finalizers" /\ (where[o] # "final_unreachable" => refs[o] = {} \/ o \in NoClear)
  /\ phase = "delete" => IF saveall THEN doomed = {} ELSE In("final_unreachable") \subseteq doomed
  /\ cleared \cap Alive \subseteq (IF phase \in {"delete", "idle"} THEN doomed ELSE {})

FinalizeInv == \A o \in Obj : fincalls[o] = IF finalized[o] THEN 1 ELSE 0

IInv ==
  /\ TypeHeap /\ HeapOK(refs, ext, Alive) /\ WeakOK /\ ListsOK
  /\ TrashInv /\ DeleteInv /\ FinalizeInv
-----------------------------------------------------------------------------
(* Reachability and deallocation.                                           *)

LEMMA ClosureFacts ==
  ASSUME NEW r \in [Obj -> SUBSET Obj], NEW S \in SUBSET Obj
  PROVE  /\ Closure(S, r) \subseteq Obj /\ S \subseteq Closure(S, r)
         /\ \A p \in Closure(S, r) : r[p] \subseteq Closure(S, r)
         /\ \A C \in SUBSET Obj : S \subseteq C /\ (\A p \in C : r[p] \subseteq C) => Closure(S, r) \subseteq C
  <1>1. Closure(S, r) \subseteq Obj /\ S \subseteq Closure(S, r)
    BY DEF Closure
  <1>2. ASSUME NEW C \in SUBSET Obj, S \subseteq C, \A p \in C : r[p] \subseteq C
        PROVE  Closure(S, r) \subseteq C
    BY <1>2 DEF Closure
  <1>3. ASSUME NEW p \in Closure(S, r), NEW q \in r[p] PROVE q \in Closure(S, r)
    <2>1. p \in Obj /\ q \in Obj
      BY <1>1, <1>3
    <2>2. ASSUME NEW C \in SUBSET Obj, S \subseteq C, \A x \in C : r[x] \subseteq C PROVE q \in C
      BY <1>2, <1>3, <2>2
    <2> QED
      BY <2>1, <2>2 DEF Closure
  <1> QED
    BY <1>1, <1>2, <1>3

\* Deallocation: an object dies when nothing that stays refers to it, and only then.
LEMMA DeadFacts ==
  ASSUME NEW r \in [Obj -> SUBSET Obj], NEW e \in SUBSET Obj
  PROVE  /\ Dead(r, e) \subseteq Alive
         /\ Dead(r, e) = Unreferenced(r, e, Dead(r, e))
  <1> DEFINE U(D) == Unreferenced(r, e, D)
             dead == Dead(r, e)
  <1>1. Alive \in SUBSET Obj /\ \A D : U(D) \subseteq Alive
    BY DEF Alive, Unreferenced
  <1>2. dead \subseteq Alive /\ dead \in SUBSET Obj
    BY <1>1 DEF Dead
  <1>3. \A C, D : C \subseteq D => U(C) \subseteq U(D)
    BY DEF Unreferenced
  <1>4. ASSUME NEW D \in SUBSET Obj, U(D) \subseteq D PROVE dead \subseteq D
    BY <1>4 DEF Dead
  <1>5. U(dead) \subseteq dead
    <2>1. SUFFICES ASSUME NEW o \in U(dead), NEW D \in SUBSET Obj, U(D) \subseteq D PROVE o \in D
      BY <1>1 DEF Dead
    <2>2. U(dead) \subseteq U(D)
      BY <1>3, <1>4, <2>1
    <2> QED
      BY <2>1, <2>2
  <1>6. dead \subseteq U(dead)
    <2>1. U(U(dead)) \subseteq U(dead) /\ U(dead) \in SUBSET Obj
      BY <1>1, <1>3, <1>5
    <2> QED
      BY <1>4, <2>1
  <1> QED
    BY <1>2, <1>5, <1>6

\* What NewHeap makes of the lists l.
NewLists(l) == l \in [Obj -> Lists] /\ \A o \in Obj : l[o] = "freed" <=> where[o] = "freed"

LEMMA NewHeapFacts ==
  ASSUME TypeHeap, HeapOK(refs, ext, Alive), WeakOK,
         NEW r \in [Obj -> SUBSET Obj], NEW e \in SUBSET Obj, NEW l, NewHeap(r, e, l), NewLists(l),
         e \subseteq Alive, \A p \in Obj : r[p] \subseteq Alive, \A p \in Obj \ Alive : r[p] = {}
  PROVE  /\ refs' \in [Obj -> SUBSET Obj] /\ ext' = e /\ ext' \in SUBSET Obj
         /\ wr' \in [WeakRef -> Obj \cup {NONE}] /\ where' \in [Obj -> Lists]
         /\ Alive' \subseteq Alive
         /\ \A p \in Obj : refs'[p] \subseteq r[p]
         /\ \A x \in WeakRef : wr'[x] = wr[x] \/ wr'[x] = NONE
         /\ \A o \in Obj : where'[o] = l[o] \/ (where'[o] = "freed" /\ refs'[o] = {} /\ o \notin e)
         /\ HeapOK(refs, ext, Alive)' /\ WeakOK'
  <1> DEFINE dead == Dead(r, e)
  <1>1. /\ refs' = [o \in Obj |-> IF o \in dead THEN {} ELSE r[o]] /\ ext' = e
        /\ wr' = [w \in WeakRef |-> IF wr[w] \in dead \/ w \in dead THEN NONE ELSE wr[w]]
        /\ where' = [o \in Obj |-> IF o \in dead THEN "freed" ELSE l[o]]
    BY DEF NewHeap
  <1>2. dead \subseteq Alive /\ dead = Unreferenced(r, e, dead)
    BY DeadFacts
  <1> HIDE DEF dead
  <1>3. /\ refs' \in [Obj -> SUBSET Obj] /\ ext' \in SUBSET Obj
        /\ wr' \in [WeakRef -> Obj \cup {NONE}] /\ where' \in [Obj -> Lists]
    BY <1>1 DEF TypeHeap, NewLists, Lists
  <1>4. Alive' = Alive \ dead
    BY <1>1, <1>2 DEF Alive, NewLists
  <1>5. \A o \in dead : o \notin e /\ \A p \in Alive \ dead : o \notin r[p]
    BY <1>2 DEF Unreferenced
  <1>6. HeapOK(refs, ext, Alive)'
    <2>1. ext' \subseteq Alive'
      BY <1>1, <1>4, <1>5
    <2>2. \A p \in Alive' : refs'[p] \subseteq Alive'
      BY <1>1, <1>4, <1>5 DEF Alive
    <2>3. \A p \in Obj \ Alive' : refs'[p] = {}
      BY <1>1, <1>4
    <2>4. ASSUME NEW o \in Alive', o \notin ext' PROVE \E p \in Alive' : o \in refs'[p]
      <3>1. o \in Alive /\ o \notin e /\ o \notin Unreferenced(r, e, dead)
        BY <1>1, <1>2, <1>4, <2>4
      <3>2. PICK p \in Alive \ dead : o \in r[p]
        BY <3>1 DEF Unreferenced
      <3> QED
        BY <1>1, <1>4, <3>2 DEF Alive
    <2> QED
      BY <2>1, <2>2, <2>3, <2>4 DEF HeapOK
  <1>7. WeakOK'
    BY <1>1, <1>4 DEF WeakOK
  <1>8. /\ Alive' \subseteq Alive
        /\ \A p \in Obj : refs'[p] \subseteq r[p]
        /\ \A x \in WeakRef : wr'[x] = wr[x] \/ wr'[x] = NONE
    BY <1>1, <1>4
  <1>9. \A o \in Obj : where'[o] = l[o] \/ (where'[o] = "freed" /\ refs'[o] = {} /\ o \notin e)
    BY <1>1, <1>5
  <1> QED
    BY <1>1, <1>3, <1>6, <1>7, <1>8, <1>9

\* What update_refs, subtract_refs and move_unreachable find: nothing that is
\* not in the result refers to it.
LEMMA DeduceFacts ==
  ASSUME TypeHeap, HeapOK(refs, ext, Alive), NEW base \in SUBSET Alive
  PROVE  deduce_unreachable(base) \subseteq base /\ Isolated(deduce_unreachable(base))
  <1> DEFINE held == {o \in base : o \in ext \/ \E p \in Alive \ base : o \in refs[p]}
             r == [o \in Obj |-> refs[o] \cap base]
             C == Closure(held, r)
  <1>1. base \in SUBSET Obj /\ refs \in [Obj -> SUBSET Obj]
    BY DEF TypeHeap, Alive
  <1>2. held \in SUBSET Obj /\ r \in [Obj -> SUBSET Obj] /\ \A p \in Obj : r[p] = refs[p] \cap base
    BY <1>1
  <1>3. held \subseteq C /\ \A p \in C : r[p] \subseteq C
    <2> HIDE DEF held, r
    <2> QED
      BY <1>2, ClosureFacts
  <1>4. deduce_unreachable(base) = base \ C
    BY DEF deduce_unreachable
  <1> HIDE DEF r, C
  <1>5. ext \cap (base \ C) = {}
    BY <1>3
  <1>6. ASSUME NEW p \in Obj \ (base \ C) PROVE refs[p] \cap (base \ C) = {}
    <2>1. CASE p \in base
      BY <1>2, <1>3, <2>1
    <2>2. CASE p \in Alive \ base
      BY <1>3, <2>2
    <2>3. CASE p \in Obj \ Alive
      BY <2>3 DEF HeapOK
    <2> QED
      BY <2>1, <2>2, <2>3
  <1> QED
    BY <1>4, <1>5, <1>6 DEF Isolated
-----------------------------------------------------------------------------
(* The steps.                                                               *)

LEMMA GenFacts == GenList = {"gen0", "gen1", "gen2"} /\ \A g \in Generation : GEN_HEAD(g) \in GenList
  <1>1. Generation = {0, 1, 2}
    BY DEF Generation, NUM_GENERATIONS
  <1>2. GEN_HEAD(0) = "gen0" /\ GEN_HEAD(1) = "gen1" /\ GEN_HEAD(2) = "gen2"
    BY DEF GEN_HEAD
  <1> QED
    BY <1>1, <1>2 DEF GenList

\* Python code reaches only what S, the roots and weak references lead to.
LEMMA RunPythonFacts ==
  ASSUME TypeHeap, HeapOK(refs, ext, Alive), WeakOK, NEW S \in SUBSET Alive, NEW l, RunPython(S, l)
  PROVE  \E r \in [Obj -> SUBSET Obj], e \in SUBSET Alive :
           /\ NewHeap(r, e, l)
           /\ \A p \in Obj : r[p] \subseteq refs[p]
           /\ \A U \in SUBSET Obj :
                Isolated(U) /\ S \cap U = {} /\ (\A x \in WeakRef : wr[x] \notin U) => e \cap U = {}
  <1> DEFINE weak == {wr[w] : w \in (S \cup Live) \cap WeakRef} \ {NONE}
             R == S \cup ext \cup weak
             reach == Closure(R, refs)
             Safe(e) == \A U \in SUBSET Obj :
                          Isolated(U) /\ S \cap U = {} /\ (\A x \in WeakRef : wr[x] \notin U) => e \cap U = {}
  <1>1. refs \in [Obj -> SUBSET Obj] /\ ext \in SUBSET Alive /\ Alive \in SUBSET Obj
    BY DEF TypeHeap, HeapOK, Alive
  <1>2. weak \subseteq Alive
    BY DEF WeakOK
  <1>3. R \in SUBSET Obj /\ R \subseteq Alive
    BY <1>1, <1>2
  <1>4. reach \subseteq Alive
    <2>1. \A p \in Alive : refs[p] \subseteq Alive
      BY DEF HeapOK
    <2> HIDE DEF R
    <2> QED
      BY <1>1, <1>3, <2>1, ClosureFacts
  <1>5. Safe(reach)
    <2>1. SUFFICES ASSUME NEW U \in SUBSET Obj, Isolated(U), S \cap U = {}, \A x \in WeakRef : wr[x] \notin U
                   PROVE  reach \subseteq Obj \ U
      OBVIOUS
    <2>2. R \subseteq Obj \ U
      BY <1>3, <2>1 DEF Isolated
    <2>3. \A p \in Obj \ U : refs[p] \subseteq Obj \ U
      BY <1>1, <2>1 DEF Isolated
    <2>4. PICK C \in SUBSET Obj : C = Obj \ U
      OBVIOUS
    <2>5. R \subseteq C /\ \A p \in C : refs[p] \subseteq C
      BY <2>2, <2>3, <2>4
    <2> HIDE DEF R
    <2>6. reach \subseteq C
      BY <1>1, <1>3, <2>5, ClosureFacts
    <2> QED
      BY <2>4, <2>6
  <1>6. Safe(ext)
    BY DEF Isolated
  <1>7. \/ NewHeap(refs, ext, l)
        \/ \E o \in reach : NewHeap(refs, ext \cup {o}, l)
        \/ \E o \in ext : NewHeap(refs, ext \ {o}, l)
        \/ \E o \in reach : \E q \in refs[o] : NewHeap([refs EXCEPT ![o] = @ \ {q}], ext, l)
    BY DEF RunPython
  <1> HIDE DEF reach
  <1>8. CASE NewHeap(refs, ext, l)
    BY <1>1, <1>6, <1>8
  <1>9. CASE \E o \in reach : NewHeap(refs, ext \cup {o}, l)
    <2>1. PICK o \in reach : NewHeap(refs, ext \cup {o}, l)
      BY <1>9
    <2>2. ext \cup {o} \in SUBSET Alive /\ Safe(ext \cup {o})
      BY <1>1, <1>4, <1>5, <1>6
    <2> QED
      BY <1>1, <2>1, <2>2
  <1>10. CASE \E o \in ext : NewHeap(refs, ext \ {o}, l)
    <2>1. PICK o \in ext : NewHeap(refs, ext \ {o}, l)
      BY <1>10
    <2>2. ext \ {o} \in SUBSET Alive /\ Safe(ext \ {o})
      BY <1>1, <1>6
    <2> QED
      BY <1>1, <2>1, <2>2
  <1>11. CASE \E o \in reach : \E q \in refs[o] : NewHeap([refs EXCEPT ![o] = @ \ {q}], ext, l)
    <2>1. PICK o \in reach : \E q \in refs[o] : NewHeap([refs EXCEPT ![o] = @ \ {q}], ext, l)
      BY <1>11
    <2>2. PICK q \in refs[o] : NewHeap([refs EXCEPT ![o] = @ \ {q}], ext, l)
      BY <2>1
    <2> DEFINE r == [refs EXCEPT ![o] = @ \ {q}]
    <2>3. r \in [Obj -> SUBSET Obj] /\ \A p \in Obj : r[p] \subseteq refs[p]
      BY <1>1, <1>4
    <2>4. NewHeap(r, ext, l)
      BY <2>2
    <2> HIDE DEF r
    <2> QED
      BY <1>1, <1>6, <2>3, <2>4
  <1> QED
    BY <1>7, <1>8, <1>9, <1>10, <1>11

\* A step that frees some objects and moves at most object x to list t.
LEMMA HeapStep ==
  ASSUME IInv, NEW r \in [Obj -> SUBSET Obj], NEW e \in SUBSET Alive, NEW x \in Alive, NEW t \in Lists \ {"freed"},
         NewHeap(r, e, [where EXCEPT ![x] = t]), \A p \in Obj : r[p] \subseteq refs[p]
  PROVE  /\ refs' \in [Obj -> SUBSET Obj] /\ ext' = e /\ ext' \in SUBSET Obj
         /\ wr' \in [WeakRef -> Obj \cup {NONE}] /\ where' \in [Obj -> Lists]
         /\ Alive' \subseteq Alive
         /\ \A p \in Obj : refs'[p] \subseteq r[p]
         /\ \A y \in WeakRef : wr'[y] = wr[y] \/ wr'[y] = NONE
         /\ \A o \in Alive' : where'[o] = IF o = x THEN t ELSE where[o]
         /\ \A o \in Obj \ Alive' : refs'[o] = {}
         /\ HeapOK(refs, ext, Alive)' /\ WeakOK'
  <1> DEFINE l == [where EXCEPT ![x] = t]
  <1>1. TypeHeap /\ HeapOK(refs, ext, Alive) /\ WeakOK /\ Alive \in SUBSET Obj
    BY DEF IInv, Alive
  <1>2. NewLists(l) /\ \A o \in Obj : l[o] = IF o = x THEN t ELSE where[o]
    BY <1>1 DEF NewLists, TypeHeap, Alive
  <1>3. (\A p \in Obj : r[p] \subseteq Alive) /\ (\A p \in Obj \ Alive : r[p] = {})
    BY <1>1 DEF HeapOK
  <1> HIDE DEF l
  <1>4. /\ refs' \in [Obj -> SUBSET Obj] /\ ext' = e /\ ext' \in SUBSET Obj
        /\ wr' \in [WeakRef -> Obj \cup {NONE}] /\ where' \in [Obj -> Lists]
        /\ Alive' \subseteq Alive
        /\ \A p \in Obj : refs'[p] \subseteq r[p]
        /\ \A y \in WeakRef : wr'[y] = wr[y] \/ wr'[y] = NONE
        /\ \A o \in Obj : where'[o] = l[o] \/ (where'[o] = "freed" /\ refs'[o] = {} /\ o \notin e)
        /\ HeapOK(refs, ext, Alive)' /\ WeakOK'
    <2>1. NewHeap(r, e, l)
      BY DEF l
    <2> QED
      BY <1>1, <1>2, <1>3, <2>1, NewHeapFacts
  <1>5. \A o \in Alive' : o \in Obj /\ where'[o] # "freed"
    BY DEF Alive
  <1>6. \A o \in Obj \ Alive' : refs'[o] = {}
    BY <1>4 DEF HeapOK
  <1> QED
    BY <1>2, <1>4, <1>5, <1>6
LEMMA DropReferenceStep ==
  ASSUME IInv, NEW o \in Obj, DropReference(o)
  PROVE  IInv'
  <1>1. TypeHeap /\ ListsOK /\ DeleteInv /\ FinalizeInv /\ phase = "idle" /\ o \in Alive
    BY DEF IInv, DropReference, HeapOK
  <1>2. UNCHANGED <<collecting, finalized, saveall, phase, old, fincalls, cleared, doomed>>
    BY DEF DropReference
  <1>3. /\ refs \in [Obj -> SUBSET Obj] /\ ext \ {o} \in SUBSET Alive /\ where[o] \in Lists \ {"freed"}
        /\ where = [where EXCEPT ![o] = where[o]]
    BY <1>1 DEF IInv, TypeHeap, HeapOK, Alive
  <1>4. NewHeap(refs, ext \ {o}, [where EXCEPT ![o] = where[o]])
    BY <1>3 DEF DropReference
  <1>5. /\ refs' \in [Obj -> SUBSET Obj] /\ ext' \in SUBSET Obj
        /\ wr' \in [WeakRef -> Obj \cup {NONE}] /\ where' \in [Obj -> Lists]
        /\ Alive' \subseteq Alive /\ ext' \subseteq ext /\ \A p \in Obj : refs'[p] \subseteq refs[p]
        /\ \A x \in Alive' : where'[x] = where[x]
        /\ HeapOK(refs, ext, Alive)' /\ WeakOK'
    <2>1. PICK r \in [Obj -> SUBSET Obj], e \in SUBSET Alive, x \in Alive, t \in Lists \ {"freed"} :
             /\ NewHeap(r, e, [where EXCEPT ![x] = t]) /\ (\A p \in Obj : r[p] \subseteq refs[p]) /\ t = where[x]
             /\ e \subseteq ext
      BY <1>1, <1>3, <1>4
    <2>2. /\ refs' \in [Obj -> SUBSET Obj] /\ ext' = e /\ ext' \in SUBSET Obj
          /\ wr' \in [WeakRef -> Obj \cup {NONE}] /\ where' \in [Obj -> Lists]
          /\ Alive' \subseteq Alive
          /\ \A p \in Obj : refs'[p] \subseteq r[p]
          /\ \A y \in WeakRef : wr'[y] = wr[y] \/ wr'[y] = NONE
          /\ \A y \in Alive' : where'[y] = IF y = x THEN t ELSE where[y]
          /\ \A y \in Obj \ Alive' : refs'[y] = {}
          /\ HeapOK(refs, ext, Alive)' /\ WeakOK'
      <3>1. NewHeap(r, e, [where EXCEPT ![x] = t]) /\ (\A p \in Obj : r[p] \subseteq refs[p])
        BY <2>1
      <3> QED
        BY <3>1, HeapStep
    <2> QED
      BY <2>1, <2>2
  <1>6. TypeHeap'
    BY <1>1, <1>2, <1>5 DEF TypeHeap
  <1>7. ListsOK'
    BY <1>1, <1>2, <1>5 DEF ListsOK, Candidates, Others
  <1>8. TrashInv' /\ FinalizeInv'
    BY <1>1, <1>2 DEF TrashInv, FinalizeInv
  <1>9. DeleteInv'
    <2>1. Isolated(doomed)'
      BY <1>1, <1>2, <1>5 DEF DeleteInv, Isolated
    <2>2. \A x \in Alive' : x \in Obj
      BY DEF Alive
    <2> QED
      BY <1>1, <1>2, <1>5, <2>1, <2>2 DEF DeleteInv
  <1> QED
    BY <1>5, <1>6, <1>7, <1>8, <1>9 DEF IInv

\* What the program can reach has not been freed.
LEMMA LiveAlive ==
  ASSUME IInv
  PROVE  Live \subseteq Alive
  <1>1. /\ refs \in [Obj -> SUBSET Obj] /\ ext \in SUBSET Obj /\ Alive \in SUBSET Obj
        /\ ext \subseteq Alive /\ \A p \in Alive : refs[p] \subseteq Alive
    BY DEF IInv, TypeHeap, HeapOK, Alive
  <1> QED
    BY <1>1, ClosureFacts DEF Live

\* Nothing that is reachable from outside an isolated set is in it.
LEMMA OutOfReach ==
  ASSUME IInv, NEW U \in SUBSET Obj, \A p \in Obj \ U : refs[p] \cap U = {},
         NEW S \in SUBSET Obj, S \cap U = {}
  PROVE  Closure(S, refs) \cap U = {}
  <1>1. refs \in [Obj -> SUBSET Obj]
    BY DEF IInv, TypeHeap
  <1>2. PICK C \in SUBSET Obj : C = Obj \ U
    OBVIOUS
  <1>3. S \subseteq C /\ \A p \in C : refs[p] \subseteq C
    BY <1>1, <1>2
  <1>4. Closure(S, refs) \subseteq C
    BY <1>1, <1>3, ClosureFacts
  <1> QED
    BY <1>2, <1>4

LEMMA LinkStep ==
  ASSUME IInv, NEW p \in Obj, NEW q \in Obj, Link(p, q)
  PROVE  IInv'
  <1>1. TypeHeap /\ HeapOK(refs, ext, Alive) /\ WeakOK /\ ListsOK /\ DeleteInv /\ FinalizeInv /\ phase = "idle"
    BY DEF IInv, Link
  <1>2. /\ UNCHANGED <<ext, wr, where, collecting, finalized, saveall, phase, old, fincalls, cleared, doomed>>
        /\ refs' = [refs EXCEPT ![p] = @ \cup {q}] /\ p \in Alive /\ q \in Alive
    BY LiveAlive DEF Link
  <1>3. /\ refs' \in [Obj -> SUBSET Obj] /\ Alive' = Alive
        /\ \A x \in Obj : refs'[x] = IF x = p THEN refs[x] \cup {q} ELSE refs[x]
    BY <1>1, <1>2 DEF TypeHeap, Alive
  <1>4. TypeHeap'
    BY <1>1, <1>2, <1>3 DEF TypeHeap
  <1>5. HeapOK(refs, ext, Alive)'
    BY <1>1, <1>2, <1>3 DEF HeapOK, Alive
  <1>6. WeakOK' /\ ListsOK'
    BY <1>1, <1>2, <1>3 DEF WeakOK, ListsOK, Candidates, Others
  <1>7. TrashInv' /\ FinalizeInv'
    BY <1>1, <1>2 DEF TrashInv, FinalizeInv
  <1>8. p \notin doomed /\ q \notin doomed
    <2>1. /\ ext \cap doomed = {} /\ (\A x \in Obj \ doomed : refs[x] \cap doomed = {})
          /\ ext \in SUBSET Obj /\ doomed \in SUBSET Obj
      BY <1>1 DEF DeleteInv, TypeHeap, Isolated
    <2> QED
      BY <2>1, OutOfReach DEF Live, Link
  <1>9. DeleteInv'
    <2>1. Isolated(doomed)'
      BY <1>1, <1>2, <1>3, <1>8 DEF DeleteInv, Isolated
    <2>2. \A x \in Alive : x \in Obj
      BY DEF Alive
    <2> QED
      BY <1>1, <1>2, <1>3, <1>8, <2>1, <2>2 DEF DeleteInv
  <1> QED
    BY <1>4, <1>5, <1>6, <1>7, <1>9 DEF IInv

LEMMA CallBackStep ==
  ASSUME IInv, NEW x \in WeakRef, CallBack(x)
  PROVE  IInv'
  <1>1. TypeHeap /\ ListsOK /\ TrashInv /\ DeleteInv /\ FinalizeInv /\ phase = "callbacks"
    BY DEF IInv, CallBack
  <1>2. /\ UNCHANGED <<collecting, finalized, saveall, phase, old, fincalls, cleared, doomed>>
        /\ where[x] = "wrcb_to_call"
    BY DEF CallBack
  <1>3. /\ x \in Obj /\ {x} \in SUBSET Alive /\ x \in Alive
        /\ old \in Lists \ {"freed"} /\ old \in GenList /\ old # "unreachable"
    BY <1>1, <1>2, KindsAssumption, GenFacts DEF TypeHeap, Lists, Alive
  <1>4. RunPython({x}, [where EXCEPT ![x] = old])
    BY DEF CallBack
  <1>5. PICK r \in [Obj -> SUBSET Obj], e \in SUBSET Alive :
           /\ NewHeap(r, e, [where EXCEPT ![x] = old])
           /\ \A p \in Obj : r[p] \subseteq refs[p]
           /\ \A U \in SUBSET Obj :
                Isolated(U) /\ {x} \cap U = {} /\ (\A y \in WeakRef : wr[y] \notin U) => e \cap U = {}
    <2>0. PICK S \in SUBSET Alive : S = {x}
      BY <1>3
    <2>1. PICK l : l = [where EXCEPT ![x] = old]
      OBVIOUS
    <2>2. RunPython(S, l) /\ HeapOK(refs, ext, Alive) /\ WeakOK
      BY <1>4, <2>0, <2>1 DEF IInv
    <2>3. \E r \in [Obj -> SUBSET Obj], e \in SUBSET Alive :
             /\ NewHeap(r, e, l)
             /\ \A p \in Obj : r[p] \subseteq refs[p]
             /\ \A U \in SUBSET Obj :
                  Isolated(U) /\ S \cap U = {} /\ (\A y \in WeakRef : wr[y] \notin U) => e \cap U = {}
      BY <1>1, <2>2, RunPythonFacts
    <2> QED
      BY <2>0, <2>1, <2>3
  <1>6. /\ refs' \in [Obj -> SUBSET Obj] /\ ext' = e /\ ext' \in SUBSET Obj
        /\ wr' \in [WeakRef -> Obj \cup {NONE}] /\ where' \in [Obj -> Lists]
        /\ Alive' \subseteq Alive
        /\ \A p \in Obj : refs'[p] \subseteq r[p]
        /\ \A y \in WeakRef : wr'[y] = wr[y] \/ wr'[y] = NONE
        /\ \A o \in Alive' : where'[o] = IF o = x THEN old ELSE where[o]
        /\ \A o \in Obj \ Alive' : refs'[o] = {}
        /\ HeapOK(refs, ext, Alive)' /\ WeakOK'
    BY <1>3, <1>5, HeapStep
  <1>7. TypeHeap'
    BY <1>1, <1>2, <1>6 DEF TypeHeap
  <1>8. ListsOK'
    <2>1. Candidates' = {"unreachable"} /\ Candidates = {"unreachable"} /\ Others' = Others
      BY <1>1, <1>2 DEF Candidates, Others
    <2>2. \A o \in Alive : /\ where[o] \in GenList \cup {"unreachable"} \cup Others
                           /\ collecting[o] <=> where[o] = "unreachable"
      BY <1>1, <2>1 DEF ListsOK
    <2>3. \A o \in Alive' : /\ where'[o] \in GenList \cup {"unreachable"} \cup Others
                            /\ collecting'[o] <=> where'[o] = "unreachable"
      BY <1>2, <1>3, <1>6, <2>2
    <2> QED
      BY <2>1, <2>3 DEF ListsOK
  <1>9. TrashInv'
    <2> DEFINE U == In("unreachable")
               V == In("unreachable")'
    <2>1. U \in SUBSET Obj /\ Isolated(U) /\ x \notin U /\ U \cap LegacyDel = {} /\ \A y \in WeakRef : wr[y] \notin U
      BY <1>1, <1>2 DEF TrashInv, TrashIsHidden, In
    <2>2. V \subseteq U /\ V \in SUBSET Obj /\ \A o \in U \ V : o \notin Alive'
      <3>1. \A o \in Obj : o \in Alive' <=> where'[o] # "freed"
        BY DEF Alive
      <3> QED
        BY <1>2, <1>3, <1>6, <3>1 DEF In
    <2> HIDE DEF U, V
    <2>3. ext' \cap U = {}
      BY <1>5, <1>6, <2>1
    <2>4. ASSUME NEW p \in Obj \ V PROVE refs'[p] \cap V = {}
      <3>1. CASE p \in U
        BY <1>6, <2>2, <3>1
      <3>2. CASE p \notin U
        BY <1>5, <1>6, <2>1, <2>2, <3>2 DEF Isolated
      <3> QED
        BY <3>1, <3>2
    <2>5. \A y \in WeakRef : wr'[y] \notin V
      BY <1>6, <2>1, <2>2, KindsAssumption
    <2>6. (ext \cap In("unreachable") = {} /\ \A p \in Obj \ In("unreachable") : refs[p] \cap In("unreachable") = {})'
      BY <2>2, <2>3, <2>4 DEF V
    <2>7. Isolated(In("unreachable"))'
      BY <2>6 DEF Isolated
    <2>8. (In("unreachable") \cap LegacyDel = {})'
      BY <2>1, <2>2 DEF V
    <2>9. TrashIsHidden'
      BY <2>5 DEF V, TrashIsHidden
    <2> QED
      BY <2>7, <2>8, <2>9 DEF TrashInv
  <1>10. DeleteInv' /\ FinalizeInv'
    BY <1>1, <1>2, <1>6 DEF DeleteInv, FinalizeInv
  <1> QED
    BY <1>6, <1>7, <1>8, <1>9, <1>10 DEF IInv

LEMMA CallBacksDoneStep ==
  ASSUME IInv, CallBacksDone
  PROVE  IInv'
  <1>1. /\ UNCHANGED <<refs, ext, wr, where, collecting, finalized, saveall, old, fincalls, cleared, doomed>>
        /\ phase = "callbacks" /\ phase' = "finalize" /\ \A o \in Obj : where[o] # "wrcb_to_call"
    BY DEF CallBacksDone, In
  <1>2. Alive' = Alive
    BY <1>1 DEF Alive
  <1>3. TypeHeap' /\ HeapOK(refs, ext, Alive)' /\ WeakOK'
    BY <1>1, <1>2 DEF IInv, TypeHeap, HeapOK, WeakOK
  <1>4. ListsOK'
    <2>1. \A o \in Alive : /\ where[o] \in GenList \cup {"unreachable", "wrcb_to_call", "finalizers"}
                           /\ collecting[o] <=> where[o] = "unreachable"
      BY <1>1 DEF IInv, ListsOK, Candidates, Others
    <2>2. Candidates' = {"unreachable", "seen"} /\ Others' = {"finalizers"}
      BY <1>1 DEF Candidates, Others
    <2>3. \A o \in Alive : where[o] # "wrcb_to_call" /\ where[o] # "seen"
      BY <1>1, <2>1, GenFacts DEF Alive
    <2> QED
      BY <1>1, <1>2, <2>1, <2>2, <2>3 DEF ListsOK
  <1>5. TrashInv' /\ DeleteInv' /\ FinalizeInv'
    BY <1>1, <1>2 DEF IInv, TrashInv, DeleteInv, FinalizeInv
  <1> QED
    BY <1>3, <1>4, <1>5 DEF IInv
LEMMA FinalizeStep ==
  ASSUME IInv, NEW x \in Obj, Finalize(x)
  PROVE  IInv'
  <1>1. TypeHeap /\ ListsOK /\ DeleteInv /\ FinalizeInv /\ phase = "finalize" /\ where[x] = "unreachable"
    BY DEF IInv, Finalize
  <1>2. UNCHANGED <<collecting, saveall, phase, old, cleared, doomed>>
    BY DEF Finalize
  <1>3. {x} \in SUBSET Alive /\ x \in Alive /\ "seen" \in Lists \ {"freed"}
    BY <1>1 DEF Lists, Alive
  <1>4. /\ refs' \in [Obj -> SUBSET Obj] /\ ext' \in SUBSET Obj
        /\ wr' \in [WeakRef -> Obj \cup {NONE}] /\ where' \in [Obj -> Lists]
        /\ Alive' \subseteq Alive
        /\ \A y \in Alive' : where'[y] = IF y = x THEN "seen" ELSE where[y]
        /\ HeapOK(refs, ext, Alive)' /\ WeakOK'
    <2>1. CASE x \in Finalizable /\ ~finalized[x]
      <3>0. PICK S \in SUBSET Alive : S = {x}
        BY <1>3
      <3>1. PICK l : l = [where EXCEPT ![x] = "seen"]
        OBVIOUS
      <3>2. RunPython(S, l) /\ HeapOK(refs, ext, Alive) /\ WeakOK
        BY <2>1, <3>0, <3>1 DEF IInv, Finalize
      <3>3. PICK r \in [Obj -> SUBSET Obj], e \in SUBSET Alive :
               /\ NewHeap(r, e, l)
               /\ \A p \in Obj : r[p] \subseteq refs[p]
        BY <1>1, <3>2, RunPythonFacts
      <3>4. /\ NewHeap(r, e, [where EXCEPT ![x] = "seen"])
            /\ \A p \in Obj : r[p] \subseteq refs[p]
        BY <3>1, <3>3
      <3>5. /\ refs' \in [Obj -> SUBSET Obj] /\ ext' = e /\ ext' \in SUBSET Obj
            /\ wr' \in [WeakRef -> Obj \cup {NONE}] /\ where' \in [Obj -> Lists]
            /\ Alive' \subseteq Alive
            /\ \A p \in Obj : refs'[p] \subseteq r[p]
            /\ \A y \in WeakRef : wr'[y] = wr[y] \/ wr'[y] = NONE
            /\ \A y \in Alive' : where'[y] = IF y = x THEN "seen" ELSE where[y]
            /\ \A y \in Obj \ Alive' : refs'[y] = {}
            /\ HeapOK(refs, ext, Alive)' /\ WeakOK'
        BY <1>3, <3>4, HeapStep
      <3> QED
        BY <3>5
    <2>2. CASE ~(x \in Finalizable /\ ~finalized[x])
      <3>1. where' = [where EXCEPT ![x] = "seen"] /\ UNCHANGED <<refs, ext, wr>>
        BY <2>2 DEF Finalize
      <3>2. /\ where' \in [Obj -> Lists]
            /\ \A y \in Obj : where'[y] = IF y = x THEN "seen" ELSE where[y]
        BY <1>1, <1>3, <3>1 DEF TypeHeap
      <3>3. Alive' = Alive
        BY <1>1, <3>2 DEF Alive
      <3>4. HeapOK(refs, ext, Alive)' /\ WeakOK'
        BY <3>1, <3>3 DEF IInv, HeapOK, WeakOK
      <3> QED
        BY <1>1, <3>1, <3>2, <3>3, <3>4 DEF TypeHeap, Alive
    <2> QED
      BY <2>1, <2>2
  <1>5. finalized' \in [Obj -> BOOLEAN] /\ fincalls' \in [Obj -> Nat] /\ FinalizeInv'
    <2>1. CASE x \in Finalizable /\ ~finalized[x]
      <3>1. /\ finalized' = [finalized EXCEPT ![x] = TRUE] /\ fincalls' = [fincalls EXCEPT ![x] = @ + 1]
            /\ finalized \in [Obj -> BOOLEAN] /\ fincalls \in [Obj -> Nat]
        BY <1>1, <2>1 DEF Finalize, TypeHeap
      <3>2. finalized' \in [Obj -> BOOLEAN] /\ \A o \in Obj : finalized'[o] <=> (o = x \/ finalized[o])
        BY <3>1
      <3>3. fincalls' \in [Obj -> Nat] /\ \A o \in Obj : fincalls'[o] = IF o = x THEN fincalls[x] + 1 ELSE fincalls[o]
        BY <3>1
      <3>4. fincalls[x] = 0
        BY <1>1, <2>1 DEF FinalizeInv
      <3>5. ASSUME NEW o \in Obj PROVE fincalls'[o] = IF finalized'[o] THEN 1 ELSE 0
        <4>1. CASE o = x
          BY <3>2, <3>3, <3>4, <4>1
        <4>2. CASE o # x
          <5>1. fincalls[o] = IF finalized[o] THEN 1 ELSE 0
            BY <1>1 DEF FinalizeInv
          <5> QED
            BY <3>2, <3>3, <4>2, <5>1
        <4> QED
          BY <4>1, <4>2
      <3> QED
        BY <3>2, <3>3, <3>5 DEF FinalizeInv
    <2>2. CASE ~(x \in Finalizable /\ ~finalized[x])
      BY <1>1, <2>2 DEF Finalize, TypeHeap, FinalizeInv
    <2> QED
      BY <2>1, <2>2
  <1>6. TypeHeap'
    BY <1>1, <1>2, <1>4, <1>5 DEF TypeHeap
  <1>7. ListsOK'
    <2>1. Candidates' = {"unreachable", "seen"} /\ Candidates = {"unreachable", "seen"} /\ Others' = Others
      BY <1>1, <1>2 DEF Candidates, Others
    <2>2. \A o \in Alive : /\ where[o] \in GenList \cup {"unreachable", "seen"} \cup Others
                           /\ collecting[o] <=> where[o] \in {"unreachable", "seen"}
      BY <1>1, <2>1 DEF ListsOK
    <2>3. \A o \in Alive' : /\ where'[o] \in GenList \cup {"unreachable", "seen"} \cup Others
                            /\ collecting'[o] <=> where'[o] \in {"unreachable", "seen"}
      BY <1>1, <1>2, <1>4, <2>2
    <2> QED
      BY <2>1, <2>3 DEF ListsOK
  <1>8. TrashInv' /\ DeleteInv'
    BY <1>1, <1>2, <1>4 DEF TrashInv, DeleteInv
  <1> QED
    BY <1>4, <1>5, <1>6, <1>7, <1>8 DEF IInv

LEMMA ResurrectedStep ==
  ASSUME IInv, handle_resurrected_objects
  PROVE  IInv'
  <1> DEFINE seen == In("seen")
             still == deduce_unreachable(seen)
  <1>1. TypeHeap /\ HeapOK(refs, ext, Alive) /\ WeakOK /\ ListsOK /\ DeleteInv /\ FinalizeInv
    BY DEF IInv
  <1>2. /\ UNCHANGED <<refs, ext, wr, finalized, saveall, old, fincalls, cleared>>
        /\ where' = [o \in Obj |-> CASE o \in still -> "final_unreachable"
                                     [] o \in seen \ still -> old
                                     [] OTHER -> where[o]]
        /\ collecting' = [o \in Obj |-> IF o \in seen THEN o \in still ELSE collecting[o]]
        /\ doomed' = (IF saveall THEN {} ELSE still)
        /\ phase = "finalize" /\ phase' = "delete" /\ \A o \in Obj : where[o] # "unreachable"
    BY DEF handle_resurrected_objects, In
  <1>3. seen \in SUBSET Alive /\ \A o \in Obj : o \in seen <=> where[o] = "seen"
    BY DEF In, Alive
  <1>4. still \subseteq seen /\ Isolated(still)
    <2> HIDE DEF seen
    <2> QED
      BY <1>1, <1>3, DeduceFacts
  <1> HIDE DEF seen, still
  <1>5. old \in GenList /\ old # "final_unreachable" /\ old # "freed" /\ old # "finalizers"
        /\ "final_unreachable" \notin GenList
    BY <1>1, GenFacts DEF TypeHeap
  <1>6. \A o \in Obj : where'[o] = IF o \in still THEN "final_unreachable" ELSE IF o \in seen THEN old ELSE where[o]
    BY <1>2, <1>4
  <1>7. Alive' = Alive
    BY <1>3, <1>4, <1>5, <1>6 DEF Alive
  <1>8. TypeHeap'
    <2>1. where' \in [Obj -> Lists]
      BY <1>1, <1>2, <1>5, <1>6 DEF TypeHeap, Lists
    <2>2. collecting' \in [Obj -> BOOLEAN]
      <3>1. \A o \in Obj : collecting[o] \in BOOLEAN /\ (o \in still) \in BOOLEAN
        <4>1. \A o \in Obj : collecting[o] \in BOOLEAN
          BY <1>1 DEF TypeHeap
        <4>2. \A o \in Obj : (o \in still) \in BOOLEAN
          OBVIOUS
        <4> QED
          BY <4>1, <4>2
      <3> QED
        BY <1>2, <3>1
    <2>3. doomed' \in SUBSET Obj
      BY <1>2, <1>3, <1>4 DEF Alive
    <2> QED
      BY <1>1, <1>2, <2>1, <2>2, <2>3 DEF TypeHeap
  <1>9. HeapOK(refs, ext, Alive)' /\ WeakOK'
    BY <1>1, <1>2, <1>7 DEF HeapOK, WeakOK
  <1>10. \A o \in Alive : /\ where[o] \in GenList \cup {"seen", "finalizers"}
                          /\ collecting[o] <=> where[o] = "seen"
    BY <1>1, <1>2 DEF ListsOK, Candidates, Others, Alive
  <1>11. ListsOK'
    <2>1. Candidates' = {"final_unreachable"} /\ Others' = {"finalizers"}
      BY <1>2 DEF Candidates, Others
    <2>2. ASSUME NEW o \in Alive
          PROVE  /\ where'[o] \in GenList \cup {"final_unreachable", "finalizers"}
                 /\ collecting'[o] <=> where'[o] = "final_unreachable"
      <3>1. o \in Obj /\ (o \in seen <=> where[o] = "seen")
        BY <1>3 DEF Alive
      <3>2. collecting'[o] <=> IF o \in seen THEN o \in still ELSE collecting[o]
        BY <1>2, <3>1
      <3> QED
        BY <1>4, <1>5, <1>6, <1>10, <3>1, <3>2
    <2> QED
      BY <1>7, <2>1, <2>2 DEF ListsOK
  <1>12. DeleteInv'
    <2>1. doomed' \subseteq still /\ Isolated(doomed)'
      BY <1>2, <1>4 DEF Isolated
    <2>2. In("final_unreachable")' \subseteq still
      BY <1>5, <1>6, <1>7, <1>10 DEF In, Alive
    <2>3. \A o \in doomed' : o \in Obj => where'[o] = "final_unreachable"
      BY <1>6, <2>1
    <2>4. cleared' \cap Alive' = {}
      BY <1>1, <1>2, <1>7 DEF DeleteInv
    <2>5. \A o \in doomed' \cap Alive' : where'[o] = "final_unreachable"
      BY <1>7, <2>3 DEF Alive
    <2> QED
      BY <1>2, <2>1, <2>2, <2>4, <2>5 DEF DeleteInv
  <1>13. TrashInv' /\ FinalizeInv'
    BY <1>1, <1>2 DEF TrashInv, FinalizeInv
  <1> QED
    BY <1>8, <1>9, <1>11, <1>12, <1>13 DEF IInv
LEMMA DeleteGarbageStep ==
  ASSUME IInv, NEW x \in Obj, DeleteGarbage(x)
  PROVE  IInv'
  <1>1. TypeHeap /\ HeapOK(refs, ext, Alive) /\ ListsOK /\ DeleteInv /\ FinalizeInv
    BY DEF IInv
  <1>2. /\ UNCHANGED <<finalized, saveall, phase, old, fincalls, doomed>>
        /\ collecting' = [collecting EXCEPT ![x] = FALSE]
        /\ cleared' = IF saveall \/ x \in NoClear THEN cleared ELSE cleared \cup {x}
        /\ phase = "delete" /\ where[x] = "final_unreachable"
    BY DEF DeleteGarbage, Save, Clear
  <1>3. /\ x \in Alive /\ old \in Lists \ {"freed"} /\ old \in GenList
        /\ old # "final_unreachable" /\ old # "finalizers"
    BY <1>1, <1>2, GenFacts DEF TypeHeap, Lists, Alive
  <1>4. PICK r \in [Obj -> SUBSET Obj], e \in SUBSET Alive :
           /\ NewHeap(r, e, [where EXCEPT ![x] = old]) /\ \A p \in Obj : r[p] \subseteq refs[p]
           /\ ~saveall => e = ext /\ (r[x] = {} \/ x \in NoClear)
    <2>0. refs \in [Obj -> SUBSET Obj] /\ ext \in SUBSET Alive
      BY <1>1 DEF TypeHeap, HeapOK
    <2>1. CASE saveall
      <3>1. PICK e \in {ext, ext \cup {x}} : NewHeap(refs, e, [where EXCEPT ![x] = old])
        BY <2>1 DEF DeleteGarbage, Save
      <3>2. e \in SUBSET Alive
        BY <1>3, <2>0, <3>1
      <3> QED
        BY <2>0, <2>1, <3>1, <3>2
    <2>2. CASE ~saveall /\ x \in NoClear
      <3>1. NewHeap(refs, ext, [where EXCEPT ![x] = old])
        BY <2>2 DEF DeleteGarbage, Clear
      <3> QED
        BY <2>0, <2>2, <3>1
    <2>3. CASE ~saveall /\ x \notin NoClear
      <3>1. PICK r : r = [refs EXCEPT ![x] = {}]
        OBVIOUS
      <3>2. NewHeap(r, ext, [where EXCEPT ![x] = old])
        BY <2>3, <3>1 DEF DeleteGarbage, Clear
      <3>3. r \in [Obj -> SUBSET Obj] /\ r[x] = {} /\ \A p \in Obj : r[p] \subseteq refs[p]
        BY <2>0, <3>1
      <3> QED
        BY <2>0, <3>2, <3>3
    <2> QED
      BY <2>1, <2>2, <2>3
  <1>5. /\ refs' \in [Obj -> SUBSET Obj] /\ ext' = e /\ ext' \in SUBSET Obj
        /\ wr' \in [WeakRef -> Obj \cup {NONE}] /\ where' \in [Obj -> Lists]
        /\ Alive' \subseteq Alive
        /\ \A p \in Obj : refs'[p] \subseteq r[p]
        /\ \A y \in WeakRef : wr'[y] = wr[y] \/ wr'[y] = NONE
        /\ \A y \in Alive' : where'[y] = IF y = x THEN old ELSE where[y]
        /\ \A y \in Obj \ Alive' : refs'[y] = {}
        /\ HeapOK(refs, ext, Alive)' /\ WeakOK'
    <2>1. NewHeap(r, e, [where EXCEPT ![x] = old]) /\ \A p \in Obj : r[p] \subseteq refs[p]
      BY <1>4
    <2> QED
      BY <1>3, <2>1, HeapStep
  <1>6. collecting' \in [Obj -> BOOLEAN] /\ \A o \in Obj : collecting'[o] <=> (o # x /\ collecting[o])
    BY <1>1, <1>2 DEF TypeHeap
  <1>7. TypeHeap'
    BY <1>1, <1>2, <1>5, <1>6 DEF TypeHeap
  <1>8. ListsOK'
    <2>1. Candidates' = {"final_unreachable"} /\ Candidates = {"final_unreachable"} /\ Others' = Others
      BY <1>2 DEF Candidates, Others
    <2>2. \A o \in Alive : /\ where[o] \in GenList \cup {"final_unreachable"} \cup Others
                           /\ collecting[o] <=> where[o] = "final_unreachable"
      BY <1>1, <2>1 DEF ListsOK
    <2>3. \A o \in Alive' : o \in Alive /\ o \in Obj
      BY <1>5 DEF Alive
    <2>4. \A o \in Alive' : /\ where'[o] \in GenList \cup {"final_unreachable"} \cup Others
                            /\ collecting'[o] <=> where'[o] = "final_unreachable"
      BY <1>3, <1>5, <1>6, <2>2, <2>3
    <2> QED
      BY <2>1, <2>4 DEF ListsOK
  <1>9. DeleteInv'
    <2>1. /\ Isolated(doomed) /\ (IF saveall THEN doomed = {} ELSE In("final_unreachable") \subseteq doomed)
          /\ \A o \in doomed \cap Alive : where[o] # "finalizers" /\ (where[o] # "final_unreachable" => refs[o] = {} \/ o \in NoClear)
          /\ cleared \cap Alive \subseteq doomed
      BY <1>1, <1>2 DEF DeleteInv
    <2>2. CASE saveall
      BY <1>2, <1>5, <2>1, <2>2 DEF DeleteInv, Isolated
    <2>3. CASE ~saveall
      <3>1. ext' = ext /\ (r[x] = {} \/ x \in NoClear) /\ \A p \in Obj : refs'[p] \subseteq refs[p]
        BY <1>4, <1>5, <2>3
      <3>2. Isolated(doomed)'
        BY <1>2, <2>1, <3>1 DEF Isolated
      <3>3. \A o \in Obj : o \in Alive' <=> where'[o] # "freed"
        BY DEF Alive
      <3>4. x \in doomed /\ In("final_unreachable")' \subseteq doomed
        BY <1>2, <1>3, <1>5, <2>1, <2>3, <3>3 DEF In
      <3>5. ASSUME NEW o \in doomed \cap Alive'
            PROVE  where'[o] # "finalizers" /\ (where'[o] # "final_unreachable" => refs'[o] = {} \/ o \in NoClear)
        <4>1. o \in Obj /\ o \in Alive
          BY <1>5 DEF Alive
        <4>2. CASE o = x
          BY <1>3, <1>5, <3>1, <4>1, <4>2
        <4>3. CASE o # x
          BY <1>5, <2>1, <3>1, <4>1, <4>3
        <4> QED
          BY <4>2, <4>3
      <3>6. cleared' \cap Alive' \subseteq doomed
        BY <1>2, <1>5, <2>1, <3>4
      <3> QED
        BY <1>2, <2>3, <3>2, <3>4, <3>5, <3>6 DEF DeleteInv
    <2> QED
      BY <2>2, <2>3
  <1>10. TrashInv' /\ FinalizeInv'
    BY <1>1, <1>2 DEF TrashInv, FinalizeInv
  <1> QED
    BY <1>5, <1>7, <1>8, <1>9, <1>10 DEF IInv

LEMMA EndStep ==
  ASSUME IInv, End
  PROVE  IInv'
  <1>1. TypeHeap /\ HeapOK(refs, ext, Alive) /\ WeakOK /\ ListsOK /\ DeleteInv /\ FinalizeInv
    BY DEF IInv
  <1>2. /\ UNCHANGED <<refs, wr, collecting, finalized, saveall, old, fincalls, cleared, doomed>>
        /\ ext \subseteq ext' /\ ext' \subseteq ext \cup In("finalizers")
        /\ where' = [o \in Obj |-> IF o \in In("finalizers") THEN old ELSE where[o]]
        /\ phase = "delete" /\ phase' = "idle" /\ In("final_unreachable") = {}
    BY DEF End
  <1>3. old \in GenList /\ old # "freed" /\ "final_unreachable" \notin GenList
    BY <1>1, GenFacts DEF TypeHeap
  <1>4. \A o \in Obj : where'[o] = IF where[o] = "finalizers" THEN old ELSE where[o]
    BY <1>2 DEF In
  <1>5. Alive' = Alive /\ In("finalizers") \subseteq Alive
    BY <1>3, <1>4 DEF Alive, In
  <1>6. TypeHeap'
    BY <1>1, <1>2, <1>3, <1>4 DEF TypeHeap, Lists, In
  <1>7. HeapOK(refs, ext, Alive)' /\ WeakOK'
    BY <1>1, <1>2, <1>5 DEF HeapOK, WeakOK
  <1>8. \A o \in Alive : where[o] \in GenList \cup {"finalizers"} /\ ~collecting[o]
    BY <1>1, <1>2, <1>3 DEF ListsOK, Candidates, Others, In, Alive
  <1>9. ListsOK'
    BY <1>2, <1>3, <1>4, <1>5, <1>8 DEF ListsOK, Candidates, Others, Alive
  <1>10. DeleteInv'
    <2>1. /\ Isolated(doomed) /\ cleared \cap Alive \subseteq doomed
          /\ \A o \in doomed \cap Alive : where[o] # "finalizers" /\ (refs[o] = {} \/ o \in NoClear)
      BY <1>1, <1>2 DEF DeleteInv, In, Alive
    <2>2. In("finalizers") \cap doomed = {}
      BY <1>5, <2>1 DEF In
    <2>3. Isolated(doomed)'
      BY <1>2, <2>1, <2>2 DEF Isolated
    <2>4. \A o \in doomed \cap Alive : where'[o] = where[o]
      BY <1>4, <2>1 DEF Alive
    <2> QED
      BY <1>2, <1>5, <2>1, <2>3, <2>4 DEF DeleteInv
  <1>11. TrashInv' /\ FinalizeInv'
    BY <1>1, <1>2 DEF TrashInv, FinalizeInv
  <1> QED
    BY <1>6, <1>7, <1>9, <1>10, <1>11 DEF IInv
\* What a collection takes for trash: nothing else refers to it, and no object
\* with tp_del, nor anything such an object leads to, is part of it.
LEMMA TrashFacts ==
  ASSUME IInv, NEW young \in SUBSET Alive, NEW unreachable, NEW finalizers,
         unreachable = deduce_unreachable(young), finalizers = legacy_finalizers(unreachable)
  PROVE  /\ unreachable \subseteq young /\ finalizers \subseteq unreachable
         /\ Isolated(unreachable \ finalizers) /\ (unreachable \ finalizers) \cap LegacyDel = {}
  <1> DEFINE r == [o \in Obj |-> refs[o] \cap unreachable]
             S == unreachable \cap LegacyDel
  <1>1. unreachable \subseteq young /\ Isolated(unreachable)
    BY DeduceFacts DEF IInv
  <1>2. unreachable \in SUBSET Obj /\ refs \in [Obj -> SUBSET Obj]
    BY <1>1 DEF Alive, IInv, TypeHeap
  <1>3. S \in SUBSET Obj /\ r \in [Obj -> SUBSET Obj] /\ \A p \in Obj : r[p] = refs[p] \cap unreachable
    BY <1>2
  <1>4. finalizers = Closure(S, r)
    BY DEF legacy_finalizers
  <1>5. S \subseteq unreachable /\ \A p \in unreachable : r[p] \subseteq unreachable
    BY <1>2, <1>3
  <1> HIDE DEF S, r
  <1>6. /\ S \subseteq finalizers /\ finalizers \subseteq Obj /\ \A p \in finalizers : r[p] \subseteq finalizers
        /\ finalizers \subseteq unreachable
    BY <1>2, <1>3, <1>4, <1>5, ClosureFacts
  <1>7. Isolated(unreachable \ finalizers)
    <2>1. ext \cap (unreachable \ finalizers) = {}
      BY <1>1 DEF Isolated
    <2>2. ASSUME NEW p \in Obj \ (unreachable \ finalizers) PROVE refs[p] \cap (unreachable \ finalizers) = {}
      <3>1. CASE p \in finalizers
        BY <1>3, <1>6, <3>1
      <3>2. CASE p \notin unreachable
        BY <1>1, <3>2 DEF Isolated
      <3> QED
        BY <3>1, <3>2
    <2> QED
      BY <2>1, <2>2 DEF Isolated
  <1> QED
    BY <1>1, <1>6, <1>7 DEF S

LEMMA BeginStep ==
  ASSUME IInv, NEW g \in Generation, Begin(g)
  PROVE  IInv'
  <1>1. TypeHeap /\ HeapOK(refs, ext, Alive) /\ WeakOK /\ ListsOK /\ DeleteInv /\ FinalizeInv /\ phase = "idle"
    BY DEF IInv, Begin
  <1>2. PICK young, next, unreachable, finalizers, trash, callbacks :
           /\ young = {o \in Obj : where[o] \in {GEN_HEAD(i) : i \in 0 .. g}}
           /\ next = GEN_HEAD(IF g < NUM_GENERATIONS - 1 THEN g + 1 ELSE g)
           /\ unreachable = deduce_unreachable(young)
           /\ finalizers = legacy_finalizers(unreachable)
           /\ trash = unreachable \ finalizers
           /\ callbacks = {x \in WeakRef \ trash : wr[x] \in trash}
    OBVIOUS
  <1>3. /\ UNCHANGED <<refs, ext, finalized, saveall, fincalls>> /\ cleared' = {}
        /\ old' = next /\ doomed' = {} /\ phase' = "callbacks"
        /\ collecting' = [o \in Obj |-> o \in trash]
        /\ wr' = [x \in WeakRef |-> IF x \in trash \/ wr[x] \in trash THEN NONE ELSE wr[x]]
        /\ where' = [o \in Obj |->
                       CASE o \in callbacks -> "wrcb_to_call"
                         [] o \in trash -> "unreachable"
                         [] o \in finalizers \ callbacks -> "finalizers"
                         [] o \in young \ (unreachable \cup callbacks) -> next
                         [] OTHER -> where[o]]
    BY <1>2 DEF Begin, clear_weakrefs
  <1>4. \A o \in Alive : where[o] \in GenList
    BY <1>1 DEF ListsOK, Candidates, Others
  <1>5. next \in GenList /\ GenList = {"gen0", "gen1", "gen2"}
    <2>1. (IF g < NUM_GENERATIONS - 1 THEN g + 1 ELSE g) \in Generation
      BY DEF Generation, NUM_GENERATIONS
    <2> QED
      BY <1>2, <2>1, GenFacts
  <1>6. young \in SUBSET Alive
    <2>1. \A i \in 0 .. g : i \in Generation
      BY DEF Generation, NUM_GENERATIONS
    <2> QED
      BY <1>2, <2>1, GenFacts DEF Alive
  <1>7. /\ trash \subseteq unreachable /\ unreachable \subseteq young /\ finalizers \subseteq unreachable
        /\ Isolated(trash) /\ trash \cap LegacyDel = {}
    <2>1. unreachable = deduce_unreachable(young) /\ finalizers = legacy_finalizers(unreachable)
      BY <1>2
    <2>2. /\ unreachable \subseteq young /\ finalizers \subseteq unreachable
          /\ Isolated(unreachable \ finalizers) /\ (unreachable \ finalizers) \cap LegacyDel = {}
      BY <1>6, <2>1, TrashFacts
    <2>3. trash = unreachable \ finalizers
      BY <1>2
    <2> QED
      BY <2>2, <2>3
  <1>8. callbacks \subseteq Alive /\ callbacks \cap trash = {}
    <2>1. trash \subseteq Obj
      BY <1>6, <1>7 DEF Alive
    <2> QED
      BY <1>1, <1>2, <2>1, KindsAssumption DEF WeakOK
  <1>9. \A o \in Obj : where'[o] = IF o \in callbacks THEN "wrcb_to_call"
                                    ELSE IF o \in trash THEN "unreachable"
                                    ELSE IF o \in finalizers THEN "finalizers"
                                    ELSE IF o \in young THEN next ELSE where[o]
    <2>1. SUFFICES ASSUME NEW o \in Obj
                   PROVE  where'[o] = IF o \in callbacks THEN "wrcb_to_call"
                                      ELSE IF o \in trash THEN "unreachable"
                                      ELSE IF o \in finalizers THEN "finalizers"
                                      ELSE IF o \in young THEN next ELSE where[o]
      OBVIOUS
    <2>2. where'[o] = CASE o \in callbacks -> "wrcb_to_call"
                        [] o \in trash -> "unreachable"
                        [] o \in finalizers \ callbacks -> "finalizers"
                        [] o \in young \ (unreachable \cup callbacks) -> next
                        [] OTHER -> where[o]
      BY <1>3
    <2>3. o \in unreachable => o \in trash \/ o \in finalizers
      BY <1>2
    <2>4. CASE o \in callbacks
      BY <1>8, <2>2, <2>4
    <2>5. CASE o \in trash
      BY <1>2, <1>8, <2>2, <2>5
    <2>6. CASE o \in finalizers \ callbacks
      BY <1>2, <1>7, <2>2, <2>6
    <2>7. CASE o \notin unreachable /\ o \notin callbacks
      BY <1>7, <2>2, <2>7
    <2> QED
      BY <2>3, <2>4, <2>5, <2>6, <2>7
  <1>10. Alive' = Alive
    BY <1>5, <1>6, <1>7, <1>8, <1>9 DEF Alive
  <1>11. TypeHeap'
    <2>1. where' \in [Obj -> Lists]
      <3>1. \A o \in Obj : where'[o] \in Lists
        BY <1>1, <1>5, <1>9 DEF Lists, TypeHeap
      <3> QED
        BY <1>3, <3>1
    <2>2. collecting' \in [Obj -> BOOLEAN]
      <3>1. \A o \in Obj : (o \in trash) \in BOOLEAN
        OBVIOUS
      <3> QED
        BY <1>3, <3>1
    <2>3. wr' \in [WeakRef -> Obj \cup {NONE}]
      BY <1>1, <1>3 DEF TypeHeap
    <2> QED
      BY <1>1, <1>3, <1>5, <2>1, <2>2, <2>3 DEF TypeHeap
  <1>12. HeapOK(refs, ext, Alive)' /\ WeakOK'
    BY <1>1, <1>3, <1>10 DEF HeapOK, WeakOK
  <1>13. ListsOK'
    <2>1. Candidates' = {"unreachable"} /\ Others' = {"wrcb_to_call", "finalizers"}
      BY <1>3 DEF Candidates, Others
    <2>2. ASSUME NEW o \in Alive
          PROVE  /\ where'[o] \in GenList \cup {"unreachable", "wrcb_to_call", "finalizers"}
                 /\ collecting'[o] <=> where'[o] = "unreachable"
      <3>1. o \in Obj /\ (collecting'[o] <=> o \in trash)
        BY <1>3 DEF Alive
      <3> QED
        BY <1>4, <1>5, <1>8, <1>9, <3>1
    <2> QED
      BY <1>10, <2>1, <2>2 DEF ListsOK
  <1>14. In("unreachable")' = trash
    <2>1. \A o \in Obj \ Alive : where[o] = "freed"
      BY DEF Alive
    <2>2. \A o \in Obj : where'[o] = "unreachable" <=> o \in trash
      BY <1>4, <1>5, <1>8, <1>9, <2>1
    <2> QED
      BY <1>6, <1>7, <2>2 DEF In, Alive
  <1>15. TrashInv'
    <2>1. (ext \cap In("unreachable") = {} /\ \A p \in Obj \ In("unreachable") : refs[p] \cap In("unreachable") = {})'
      BY <1>3, <1>7, <1>14 DEF Isolated
    <2>2. Isolated(In("unreachable"))'
      BY <2>1 DEF Isolated
    <2>3. \A x \in WeakRef : wr'[x] \notin trash
      <3>1. NONE \notin trash
        BY <1>6, <1>7, KindsAssumption DEF Alive
      <3> QED
        BY <1>3, <3>1
    <2>4. TrashIsHidden'
      BY <1>14, <2>3 DEF TrashIsHidden
    <2> QED
      BY <1>7, <1>14, <2>2, <2>4 DEF TrashInv
  <1>16. DeleteInv' /\ FinalizeInv'
    BY <1>1, <1>3, <1>10 DEF DeleteInv, FinalizeInv
  <1> QED
    BY <1>11, <1>12, <1>13, <1>15, <1>16 DEF IInv
-----------------------------------------------------------------------------
(* The theorems.                                                            *)

LEMMA InitInvariant ==
  ASSUME Init
  PROVE  IInv
  <1>1. PICK h \in Heaps : refs = h.refs /\ ext = h.ext /\ wr = h.wr
    BY DEF Init
  <1>2. /\ refs \in [Obj -> SUBSET Obj] /\ ext \in SUBSET Obj /\ wr \in [WeakRef -> Obj \cup {NONE}]
        /\ \A o \in Obj : o \in ext \/ \E p \in Obj : o \in refs[p]
    BY <1>1, HeapsAssumption
  <1>3. GEN_HEAD(0) \in GenList /\ GenList = {"gen0", "gen1", "gen2"}
    <2>1. 0 \in Generation
      BY DEF Generation, NUM_GENERATIONS
    <2> QED
      BY <2>1, GenFacts
  <1>4. /\ where \in [Obj -> Lists] /\ \A o \in Obj : where[o] = GEN_HEAD(0)
        /\ Alive = Obj
    BY <1>3 DEF Init, Lists, Alive
  <1>5. /\ collecting \in [Obj -> BOOLEAN] /\ finalized \in [Obj -> BOOLEAN] /\ fincalls \in [Obj -> Nat]
        /\ \A o \in Obj : ~collecting[o] /\ ~finalized[o] /\ fincalls[o] = 0
        /\ phase = "idle" /\ old = GEN_HEAD(0) /\ cleared = {} /\ doomed = {}
    BY DEF Init
  <1>6. TypeHeap
    BY <1>2, <1>3, <1>4, <1>5 DEF TypeHeap
  <1>7. HeapOK(refs, ext, Alive) /\ WeakOK
    BY <1>2, <1>4, KindsAssumption DEF HeapOK, WeakOK
  <1>8. ListsOK
    BY <1>3, <1>4, <1>5 DEF ListsOK, Candidates, Others
  <1>9. TrashInv /\ DeleteInv /\ FinalizeInv
    BY <1>5 DEF TrashInv, DeleteInv, FinalizeInv, Isolated
  <1> QED
    BY <1>6, <1>7, <1>8, <1>9 DEF IInv

LEMMA NextInvariant ==
  ASSUME IInv, [Next]_vars
  PROVE  IInv'
  <1>1. ASSUME NEW o \in Obj, DropReference(o) \/ Finalize(o) \/ DeleteGarbage(o) PROVE IInv'
    BY <1>1, DropReferenceStep, FinalizeStep, DeleteGarbageStep
  <1>2. ASSUME NEW p \in Obj, NEW q \in Obj, Link(p, q) PROVE IInv'
    BY <1>2, LinkStep
  <1>3. ASSUME NEW g \in Generation, Begin(g) PROVE IInv'
    BY <1>3, BeginStep
  <1>4. ASSUME NEW x \in WeakRef, CallBack(x) PROVE IInv'
    BY <1>4, CallBackStep
  <1>5. CASE CallBacksDone \/ handle_resurrected_objects \/ End
    BY <1>5, CallBacksDoneStep, ResurrectedStep, EndStep
  <1>6. CASE UNCHANGED vars
    BY <1>6 DEF vars, IInv, TypeHeap, HeapOK, WeakOK, ListsOK, Candidates, Others, Isolated, TrashInv,
                TrashIsHidden, DeleteInv, FinalizeInv, In, Alive
  <1> QED
    BY <1>1, <1>2, <1>3, <1>4, <1>5, <1>6 DEF Next

\* What a collection relies on holds throughout, whatever the program, the
\* callbacks and the finalizers do (gc_collect_main).
THEOREM CollectInvariant == Spec => []IInv
  <1>1. Init => IInv
    BY InitInvariant
  <1>2. IInv /\ [Next]_vars => IInv'
    BY NextInvariant
  <1> QED
    BY <1>1, <1>2, PTL DEF Spec

\* For every heap and every behaviour of callbacks and finalizers, tp_clear is
\* never called on an object the program can reach (delete_garbage).
THEOREM OnlyTrashCleared == Spec => []ClearedIsTrash
  <1>1. ASSUME IInv PROVE ClearedIsTrash
    <2>1. Live \subseteq Alive
      BY <1>1, LiveAlive
    <2>2. CASE phase \in {"delete", "idle"}
      <3>1. /\ ext \cap doomed = {} /\ (\A p \in Obj \ doomed : refs[p] \cap doomed = {})
            /\ ext \in SUBSET Obj /\ doomed \in SUBSET Obj /\ cleared \cap Alive \subseteq doomed
        BY <1>1, <2>2 DEF IInv, DeleteInv, TypeHeap, Isolated
      <3>2. Live \cap doomed = {}
        BY <1>1, <3>1, OutOfReach DEF Live
      <3> QED
        BY <2>1, <3>1, <3>2 DEF ClearedIsTrash
    <2>3. CASE phase \notin {"delete", "idle"}
      BY <1>1, <2>1, <2>3 DEF IInv, DeleteInv, ClearedIsTrash
    <2> QED
      BY <2>2, <2>3
  <1> QED
    BY <1>1, CollectInvariant, PTL

\* For every heap, nothing that an object with tp_del leads to is treated as
\* trash (move_legacy_finalizers, move_legacy_finalizer_reachable).
THEOREM LegacyObjectsKept == Spec => []LegacyKeepsAlive
  <1>1. ASSUME IInv PROVE LegacyKeepsAlive
    <2>1. SUFFICES ASSUME phase = "callbacks"
                   PROVE  In("unreachable") \cap Closure(LegacyDel \cap Alive, refs) = {}
      BY DEF LegacyKeepsAlive
    <2>2. PICK U \in SUBSET Obj, S \in SUBSET Obj : U = In("unreachable") /\ S = LegacyDel \cap Alive
      BY DEF In, Alive
    <2>3. (\A p \in Obj \ U : refs[p] \cap U = {}) /\ S \cap U = {}
      BY <1>1, <2>1, <2>2 DEF IInv, TrashInv, Isolated
    <2>4. Closure(S, refs) \cap U = {}
      BY <1>1, <2>3, OutOfReach
    <2> QED
      BY <2>2, <2>4
  <1> QED
    BY <1>1, CollectInvariant, PTL

\* For every heap, no weak reference leads to trash while callbacks run, also
\* after callbacks changed the heap (handle_weakrefs).
THEOREM TrashStaysHidden == Spec => []TrashIsHidden
  <1>1. IInv => TrashIsHidden
    BY DEF IInv, TrashInv, TrashIsHidden
  <1> QED
    BY <1>1, CollectInvariant, PTL

\* For every heap and any number of collections, tp_finalize runs at most once
\* for an object, resurrected or not (finalize_garbage).
THEOREM FinalizersRunOnce == Spec => []FinalizedOnce
  <1>1. IInv => FinalizedOnce
    BY DEF IInv, FinalizeInv, FinalizedOnce
  <1> QED
    BY <1>1, CollectInvariant, PTL

\* For every heap, a collection frees all of final_unreachable that no object
\* without tp_clear refers to, and leaves the other objects in the generations
\* with the collecting flag clear (delete_garbage, handle_legacy_finalizers).
THEOREM CollectionsSettle == Spec => []CollectionSettled
  <1>1. ASSUME IInv, phase = "idle" PROVE CollectionSettled
    <2>1. \A o \in Alive : where[o] \in GenList /\ ~collecting[o]
      BY <1>1 DEF IInv, ListsOK, Candidates, Others
    \* Something refers to an object that is left; only a member of
    \* final_unreachable can, and one with tp_clear refers to nothing.
    <2>2. ASSUME NEW o \in doomed \cap Alive
          PROVE  \E p \in doomed \cap Alive \cap NoClear : o \in refs[p]
      <3>1. Isolated(doomed) /\ \A p \in doomed \cap Alive : where[p] # "final_unreachable" => refs[p] = {} \/ p \in NoClear
        BY <1>1 DEF IInv, DeleteInv
      <3>2. "final_unreachable" \notin GenList
        BY GenFacts
      <3>3. PICK p \in Alive : o \in refs[p]
        BY <1>1, <2>2, <3>1 DEF IInv, HeapOK, Isolated
      <3>4. p \in doomed
        BY <2>2, <3>1, <3>3 DEF Isolated, Alive
      <3> QED
        BY <2>1, <3>1, <3>2, <3>3, <3>4
    <2> QED
      BY <2>1, <2>2 DEF CollectionSettled
  <1>2. IInv => CollectionSettled
    BY <1>1 DEF CollectionSettled
  <1> QED
    BY <1>2, CollectInvariant, PTL
=============================================================================
