------------------------------ MODULE GCCollect ------------------------------
(***************************************************************************)
(* gc_collect_main of ParallelGC/parallel_gc.c: the phases of a collection *)
(* and the Python code that runs between them.                             *)
(*                                                                         *)
(* where[o] is the list that holds object o: generation 0, 1 or 2, one of  *)
(* the lists local to a collection, or "freed".  Everything up to the      *)
(* first weakref callback happens without running Python code and is one   *)
(* action; a callback, a finalizer and a tp_clear are one action each,     *)
(* with what they may do to the heap.                                      *)
(***************************************************************************)
EXTENDS Integers, Sequences, FiniteSets

CONSTANTS
  Obj,             \* container objects
  Heaps,           \* heaps to start from: [refs, ext, wr]
  Finalizable,     \* types with tp_finalize
  LegacyDel,       \* types with tp_del
  NoClear,         \* types without tp_clear
  WeakRef,         \* weak references that have a callback
  NONE,            \* no referent
  MaxCollections,  \* collections considered
  MaxMutations     \* heap changes by the program, callbacks and finalizers

ASSUME KindsAssumption ==
  /\ Finalizable \subseteq Obj /\ LegacyDel \subseteq Obj /\ WeakRef \subseteq Obj
  /\ NoClear \subseteq Obj \ WeakRef
  /\ NONE \notin Obj

\* An object that nothing refers to does not exist.
ASSUME HeapsAssumption ==
  \A h \in Heaps :
    /\ h.refs \in [Obj -> SUBSET Obj] /\ h.ext \in SUBSET Obj
    /\ h.wr \in [WeakRef -> Obj \cup {NONE}]
    /\ \A o \in Obj : o \in h.ext \/ \E p \in Obj : o \in h.refs[p]

NUM_GENERATIONS == 3
Generation == 0 .. NUM_GENERATIONS - 1
GEN_HEAD(g) == <<"gen0", "gen1", "gen2">>[g + 1]
GenList == {GEN_HEAD(g) : g \in Generation}

VARIABLES
  refs,         \* strong references between containers
  ext,          \* objects referenced from frames, globals and the like
  wr,           \* the referent of each weak reference
  where,        \* the list that holds the object
  collecting,   \* PREV_MASK_COLLECTING
  finalized,    \* _PyGC_FINALIZED
  saveall,      \* gc.DEBUG_SAVEALL
  phase, old,   \* where gc_collect_main is, and its `old` list
  collections, mutations,
  fincalls,     \* history: calls of tp_finalize
  cleared,      \* history: tp_clear was called in the last collection
  doomed        \* history: final_unreachable of the last collection

vars == <<refs, ext, wr, where, collecting, finalized, saveall, phase, old,
          collections, mutations, fincalls, cleared, doomed>>

In(l) == {o \in Obj : where[o] = l}
Alive == {o \in Obj : where[o] # "freed"}

\* What can be reached from S by the references r: the least set that holds S
\* and everything its members refer to.
Closure(S, r) ==
  {o \in Obj : \A C \in SUBSET Obj :
                 S \subseteq C /\ (\A p \in C : r[p] \subseteq C) => o \in C}

\* What the program can reach.
Live == Closure(ext, refs)

\* The objects that nothing refers to once those in D are gone.
Unreferenced(r, e, D) == {o \in Alive : o \notin e /\ \A p \in Alive \ D : o \notin r[p]}

\* tp_dealloc: objects whose reference count falls to zero when the heap
\* becomes r and e, and the ones only they refer to.
Dead(r, e) ==
  {o \in Obj : \A D \in SUBSET Obj : Unreferenced(r, e, D) \subseteq D => o \in D}

\* The heap becomes r and e and the lists l; dead objects are unlinked and weak
\* references to them cleared.
NewHeap(r, e, l) ==
  LET dead == Dead(r, e) IN
  /\ refs' = [o \in Obj |-> IF o \in dead THEN {} ELSE r[o]]
  /\ ext' = e
  /\ wr' = [w \in WeakRef |-> IF wr[w] \in dead \/ w \in dead THEN NONE ELSE wr[w]]
  /\ where' = [o \in Obj |-> IF o \in dead THEN "freed" ELSE l[o]]

Init ==
  /\ \E h \in Heaps : refs = h.refs /\ ext = h.ext /\ wr = h.wr
  /\ where = [o \in Obj |-> GEN_HEAD(0)]
  /\ collecting = [o \in Obj |-> FALSE]
  /\ finalized = [o \in Obj |-> FALSE]
  /\ saveall \in BOOLEAN
  /\ phase = "idle" /\ old = GEN_HEAD(0)
  /\ collections = 0 /\ mutations = 0
  /\ fincalls = [o \in Obj |-> 0]
  /\ cleared = {} /\ doomed = {}

-----------------------------------------------------------------------------
(* The program between collections.                                         *)

Mutated == mutations < MaxMutations /\ mutations' = mutations + 1

DropReference(o) ==
  /\ phase = "idle"
  /\ Mutated
  /\ o \in ext
  /\ NewHeap(refs, ext \ {o}, where)
  /\ UNCHANGED <<collecting, finalized, saveall, phase, old, collections,
                 fincalls, cleared, doomed>>

Link(p, q) ==
  /\ phase = "idle"
  /\ Mutated
  /\ p \in Live \ WeakRef /\ q \in Live
  /\ refs' = [refs EXCEPT ![p] = @ \cup {q}]
  /\ UNCHANGED <<ext, wr, where, collecting, finalized, saveall, phase, old,
                 collections, fincalls, cleared, doomed>>

-----------------------------------------------------------------------------
(* Deducing the unreachable objects of a list.                              *)

\* The objects of base that nothing outside base leads to.
deduce_unreachable(base) ==
  LET held == {o \in base : o \in ext \/ \E p \in Alive \ base : o \in refs[p]}
  IN base \ Closure(held, [o \in Obj |-> refs[o] \cap base])

\* Mutant of legacy_finalizers: only the objects with tp_del themselves.
legacy_finalizers_alone(unreachable) == unreachable \cap LegacyDel

\* move_legacy_finalizers and move_legacy_finalizer_reachable.
legacy_finalizers(unreachable) ==
  Closure(unreachable \cap LegacyDel, [o \in Obj |-> refs[o] \cap unreachable])

\* Mutant of clear_weakrefs: only the weak references that are trash.
clear_weakrefs_inside(trash) == [w \in WeakRef |-> IF w \in trash THEN NONE ELSE wr[w]]

\* handle_weakrefs, first pass.
clear_weakrefs(trash) ==
  [w \in WeakRef |-> IF w \in trash \/ wr[w] \in trash THEN NONE ELSE wr[w]]

-----------------------------------------------------------------------------
(* gc_collect_main.                                                         *)

\* Merge the younger generations, find the trash, move the survivors to the
\* next generation, set aside the objects with tp_del and what they lead to,
\* clear the weak references to the rest.  A weak reference that is not trash
\* itself is taken out of its list to have its callback called.
Begin(generation) ==
  /\ phase = "idle"
  /\ collections < MaxCollections
  /\ collections' = collections + 1
  /\ LET young == {o \in Obj : where[o] \in {GEN_HEAD(i) : i \in 0 .. generation}}
         next == GEN_HEAD(IF generation < NUM_GENERATIONS - 1 THEN generation + 1
                                                             ELSE generation)
         unreachable == deduce_unreachable(young)
         finalizers == legacy_finalizers(unreachable)
         trash == unreachable \ finalizers
         callbacks == {w \in WeakRef \ trash : wr[w] \in trash}
     IN /\ old' = next
        /\ collecting' = [o \in Obj |-> o \in trash]
        /\ wr' = clear_weakrefs(trash)
        /\ where' = [o \in Obj |->
                       CASE o \in callbacks -> "wrcb_to_call"
                         [] o \in trash -> "unreachable"
                         [] o \in finalizers \ callbacks -> "finalizers"
                         [] o \in young \ (unreachable \cup callbacks) -> next
                         [] OTHER -> where[o]]
  /\ phase' = "callbacks"
  /\ doomed' = {} /\ cleared' = {}
  /\ UNCHANGED <<refs, ext, finalized, saveall, mutations, fincalls>>

\* Python code with access to S: it may do nothing, store a new reference to
\* an object it can reach or get from a weak reference, or remove one.
RunPython(S, l) ==
  LET weak == {wr[w] : w \in (S \cup Live) \cap WeakRef} \ {NONE}
      reach == Closure(S \cup ext \cup weak, refs)
  IN \/ /\ NewHeap(refs, ext, l)
        /\ UNCHANGED mutations
     \/ /\ Mutated
        /\ \/ \E o \in reach : NewHeap(refs, ext \cup {o}, l)
           \/ \E o \in ext : NewHeap(refs, ext \ {o}, l)
           \/ \E o \in reach : \E q \in refs[o] :
                NewHeap([refs EXCEPT ![o] = @ \ {q}], ext, l)

\* handle_weakrefs, second pass: call a callback.  The weak reference is held
\* meanwhile and goes to old if it survives.
CallBack(w) ==
  /\ phase = "callbacks"
  /\ where[w] = "wrcb_to_call"
  /\ RunPython({w}, [where EXCEPT ![w] = old])
  /\ UNCHANGED <<collecting, finalized, saveall, phase, old, collections,
                 fincalls, cleared, doomed>>

CallBacksDone ==
  /\ phase = "callbacks"
  /\ In("wrcb_to_call") = {}
  /\ phase' = "finalize"
  /\ UNCHANGED <<refs, ext, wr, where, collecting, finalized, saveall, old,
                 collections, mutations, fincalls, cleared, doomed>>

\* Mutant of Finalize: the object is not flagged as finalized.
FinalizeUnflagged(o) ==
  /\ phase = "finalize"
  /\ where[o] = "unreachable"
  /\ LET seen == [where EXCEPT ![o] = "seen"] IN
     IF o \in Finalizable /\ ~finalized[o]
       THEN /\ fincalls' = [fincalls EXCEPT ![o] = @ + 1]
            /\ RunPython({o}, seen)
       ELSE /\ where' = seen
            /\ UNCHANGED <<refs, ext, wr, mutations, fincalls>>
  /\ UNCHANGED <<collecting, finalized, saveall, phase, old, collections, cleared, doomed>>

\* finalize_garbage: move the object to seen and call its finalizer, once.
Finalize(o) ==
  /\ phase = "finalize"
  /\ where[o] = "unreachable"
  /\ LET seen == [where EXCEPT ![o] = "seen"] IN
     IF o \in Finalizable /\ ~finalized[o]
       THEN /\ finalized' = [finalized EXCEPT ![o] = TRUE]
            /\ fincalls' = [fincalls EXCEPT ![o] = @ + 1]
            /\ RunPython({o}, seen)
       ELSE /\ where' = seen
            /\ UNCHANGED <<refs, ext, wr, mutations, finalized, fincalls>>
  /\ UNCHANGED <<collecting, saveall, phase, old, collections, cleared, doomed>>

\* Mutant of handle_resurrected_objects: what a finalizer made reachable again
\* is not looked for.
handle_resurrected_none ==
  /\ phase = "finalize"
  /\ In("unreachable") = {}
  /\ LET still == In("seen") IN
     /\ where' = [o \in Obj |-> IF o \in still THEN "final_unreachable" ELSE where[o]]
     /\ doomed' = still
  /\ phase' = "delete"
  /\ UNCHANGED <<refs, ext, wr, collecting, finalized, saveall, old, collections,
                 mutations, fincalls, cleared>>

\* Deduce again among the objects that were finalized; the others go to old.
handle_resurrected_objects ==
  /\ phase = "finalize"
  /\ In("unreachable") = {}
  /\ LET seen == In("seen")
         still == deduce_unreachable(seen)
     IN /\ where' = [o \in Obj |->
                       CASE o \in still -> "final_unreachable"
                         [] o \in seen \ still -> old
                         [] OTHER -> where[o]]
        /\ collecting' = [o \in Obj |-> IF o \in seen THEN o \in still ELSE collecting[o]]
        /\ doomed' = IF saveall THEN {} ELSE still
  /\ phase' = "delete"
  /\ UNCHANGED <<refs, ext, wr, finalized, saveall, old, collections, mutations,
                 fincalls, cleared>>

\* tp_clear drops what the object refers to, if its type has one.
Clear(o) ==
  IF o \in NoClear
    THEN UNCHANGED cleared /\ NewHeap(refs, ext, [where EXCEPT ![o] = old])
    ELSE /\ cleared' = cleared \cup {o}
         /\ NewHeap([refs EXCEPT ![o] = {}], ext, [where EXCEPT ![o] = old])

\* PyList_Append to gc.garbage; a failure is ignored.
Save(o) ==
  /\ \E e \in {ext, ext \cup {o}} : NewHeap(refs, e, [where EXCEPT ![o] = old])
  /\ UNCHANGED cleared

\* Mutant of DeleteGarbage: a survivor keeps the collecting flag.
DeleteGarbageFlagged(o) ==
  /\ phase = "delete"
  /\ where[o] = "final_unreachable"
  /\ IF saveall THEN Save(o) ELSE Clear(o)
  /\ UNCHANGED <<collecting, finalized, saveall, phase, old, collections,
                 mutations, fincalls, doomed>>

\* delete_garbage: tp_clear an object; if that did not free it, it goes to old
\* and may die later.  With DEBUG_SAVEALL it is saved in gc.garbage instead.
DeleteGarbage(o) ==
  /\ phase = "delete"
  /\ where[o] = "final_unreachable"
  /\ IF saveall THEN Save(o) ELSE Clear(o)
  /\ collecting' = [collecting EXCEPT ![o] = FALSE]
  /\ UNCHANGED <<finalized, saveall, phase, old, collections, mutations,
                 fincalls, doomed>>

\* handle_legacy_finalizers: objects with tp_del go to gc.garbage up to the
\* first append that fails, all of the finalizers list to old.
End ==
  /\ phase = "delete"
  /\ In("final_unreachable") = {}
  /\ LET finalizers == In("finalizers") IN
     /\ \E saved \in SUBSET (IF saveall THEN finalizers ELSE finalizers \cap LegacyDel) :
          ext' = ext \cup saved
     /\ where' = [o \in Obj |-> IF o \in finalizers THEN old ELSE where[o]]
  /\ phase' = "idle"
  /\ UNCHANGED <<refs, wr, collecting, finalized, saveall, old, collections,
                 mutations, fincalls, cleared, doomed>>

Next ==
  \/ \E o \in Obj : DropReference(o) \/ Finalize(o) \/ DeleteGarbage(o)
  \/ \E p, q \in Obj : Link(p, q)
  \/ \E g \in Generation : Begin(g)
  \/ \E w \in WeakRef : CallBack(w)
  \/ CallBacksDone \/ handle_resurrected_objects \/ End

Spec == Init /\ [][Next]_vars

-----------------------------------------------------------------------------
\* tp_clear is never called on an object the program can reach, whatever
\* callbacks and finalizers did before (delete_garbage); nor does one that
\* survives come into reach until the next collection.
ClearedIsTrash == cleared \cap Live = {}

\* Nothing that an object with tp_del leads to is treated as trash: it keeps
\* its weak references and is not finalized (move_legacy_finalizer_reachable).
LegacyKeepsAlive ==
  phase = "callbacks" =>
    In("unreachable") \cap Closure(LegacyDel \cap Alive, refs) = {}

\* While callbacks run, no weak reference leads to trash: Python code cannot
\* get at an object that is about to be finalized (handle_weakrefs).
TrashIsHidden ==
  phase = "callbacks" => {wr[w] : w \in WeakRef} \cap In("unreachable") = {}

\* tp_finalize runs at most once, also for an object that is resurrected and
\* becomes trash again in a later collection (finalize_garbage).
FinalizedOnce == \A o \in Obj : fincalls[o] <= 1

\* What a collection sets out to delete is gone when it ends, but for what an
\* object without tp_clear still refers to: breaking the cycles frees every
\* other object of final_unreachable (delete_garbage).  Every object left is in
\* a generation and has the collecting flag clear, as validate_list asserts; a
\* flag left set would hide it from the next collection.
CollectionSettled ==
  phase = "idle" =>
    /\ \A o \in doomed \cap Alive : \E p \in doomed \cap Alive \cap NoClear : o \in refs[p]
    /\ \A o \in Alive : where[o] \in GenList /\ ~collecting[o]
=============================================================================
