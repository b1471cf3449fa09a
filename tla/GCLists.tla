------------------------------- MODULE GCLists -------------------------------
(***************************************************************************)
(* The gc lists of ParallelGC/parallel_gc.c at the level of their          *)
(* pointers: deduce_unreachable, and the list work that                    *)
(* Ci_deduce_unreachable_parallel does around the workers.                 *)
(*                                                                         *)
(* _gc_prev holds a pointer between collections and gc_refs during one, so *)
(* pv[x] says which it holds; collecting is its flag.  umask is the flag   *)
(* NEXT_MASK_UNREACHABLE of _gc_next.  A list head is a node too.          *)
(***************************************************************************)
EXTENDS Integers, FiniteSets, Sequences

CONSTANTS
  NumObjs,      \* objects in the young list, 1 .. NumObjs
  Heaps,        \* [edges, roots, immortal]
  NumWorkers    \* of the parallel collector

ASSUME SizesAssumption == NumObjs \in Nat \ {0} /\ NumWorkers \in Nat \ {0}

Obj == 1 .. NumObjs

ASSUME HeapsAssumption == \A h \in Heaps : h.roots \subseteq Obj /\ h.immortal \subseteq Obj

YOUNG == 0
UNREACHABLE == -1
PERMANENT == -2
Node == Obj \cup {YOUNG, UNREACHABLE, PERMANENT}

VARIABLES
  refs, ext, immortal,         \* the heap
  next, umask, pv, collecting, \* _gc_next and _gc_prev
  parallel,                    \* Ci_should_use_par_gc
  pc, gc, prev, todo, num_seen

heap == <<refs, ext, immortal>>
links == <<next, umask, pv, collecting>>
vars == <<heap, links, parallel, pc, gc, prev, todo, num_seen>>

Ptr(x) == [ptr |-> TRUE, val |-> x]
Refs(n) == [ptr |-> FALSE, val |-> n]

GC_NEXT(x) == next[x]
GC_PREV(x) == pv[x].val

\* A pointer read as gc_refs is some number above 0.
gc_get_refs(x) == IF pv[x].ptr THEN 1 ELSE pv[x].val

Py_REFCNT(o) == (IF o \in ext THEN 1 ELSE 0) + Cardinality({p \in Obj : o \in refs[p]})

Init ==
  /\ \E h \in Heaps :
       /\ refs = [o \in Obj |-> {p \in Obj : <<o, p>> \in h.edges}]
       /\ ext = h.roots /\ immortal = h.immortal
  /\ next = [x \in Node |-> IF x \in Obj \cup {YOUNG} THEN (x + 1) % (NumObjs + 1) ELSE x]
  /\ pv = [x \in Node |-> Ptr(IF x = YOUNG THEN NumObjs ELSE IF x \in Obj THEN x - 1 ELSE x)]
  /\ umask = [x \in Node |-> FALSE]
  /\ collecting = [x \in Node |-> FALSE]
  /\ parallel \in BOOLEAN
  /\ pc = "update" /\ gc = GC_NEXT(YOUNG) /\ prev = YOUNG
  /\ todo = {} /\ num_seen = 0

-----------------------------------------------------------------------------
(* update_refs and subtract_refs.                                           *)

\* gc_list_move(gc, PERMANENT).  Objects before gc hold gc_refs already, gc
\* and the ones after it still hold pointers.
MoveImmortal ==
  /\ pc = "update" /\ gc # YOUNG /\ gc \in immortal
  /\ LET from_prev == GC_PREV(gc)
         from_next == GC_NEXT(gc)
         to_prev == GC_PREV(PERMANENT)
     IN /\ next' = [next EXCEPT ![from_prev] = from_next, ![to_prev] = gc, ![gc] = PERMANENT]
        /\ pv' = [pv EXCEPT ![from_next] = Ptr(from_prev), ![gc] = Ptr(to_prev),
                            ![PERMANENT] = Ptr(gc)]
        /\ gc' = from_next
  /\ UNCHANGED <<heap, umask, collecting, parallel, pc, prev, todo, num_seen>>

gc_reset_refs ==
  /\ pc = "update" /\ gc # YOUNG /\ gc \notin immortal
  /\ pv' = [pv EXCEPT ![gc] = Refs(Py_REFCNT(gc))]
  /\ collecting' = [collecting EXCEPT ![gc] = TRUE]
  /\ num_seen' = num_seen + 1
  /\ gc' = GC_NEXT(gc)
  /\ UNCHANGED <<heap, next, umask, parallel, pc, prev, todo>>

\* Serial, parallel, or parallel with too few objects.
UpdateRefsDone ==
  /\ pc = "update" /\ gc = YOUNG
  /\ pc' = IF ~parallel THEN "subtract"
           ELSE IF num_seen < NumWorkers THEN "restore" ELSE "mark"
  /\ gc' = GC_NEXT(YOUNG) /\ prev' = YOUNG
  /\ UNCHANGED <<heap, links, parallel, todo, num_seen>>

\* subtract_refs: traverse one object with visit_decref.
SubtractRefs ==
  /\ pc = "subtract" /\ gc # YOUNG
  /\ pv' = [o \in Node |-> IF o \in refs[gc] /\ collecting[o]
                             THEN Refs(pv[o].val - 1) ELSE pv[o]]
  /\ gc' = GC_NEXT(gc)
  /\ UNCHANGED <<heap, next, umask, collecting, parallel, pc, prev, todo, num_seen>>

\* gc_list_init(unreachable) and on to move_unreachable.
SubtractRefsDone ==
  /\ pc = "subtract" /\ gc = YOUNG
  /\ pc' = "move"
  /\ gc' = GC_NEXT(YOUNG) /\ prev' = YOUNG
  /\ UNCHANGED <<heap, links, parallel, todo, num_seen>>

-----------------------------------------------------------------------------
(* move_unreachable.                                                        *)

\* gc_refs is positive: traverse the object.
MoveTraverse ==
  /\ pc = "move" /\ gc # YOUNG
  /\ gc_get_refs(gc) > 0
  /\ todo' = refs[gc]
  /\ pc' = "visit"
  /\ UNCHANGED <<heap, links, parallel, gc, prev, num_seen>>

\* Mutant of visit_reachable: an object found reachable after it was moved to
\* unreachable stays there.
visit_reachable_right(o) ==
  /\ pc = "visit" /\ o \in todo
  /\ todo' = todo \ {o}
  /\ IF collecting[o] /\ ~umask[o] /\ gc_get_refs(o) = 0
       THEN pv' = [pv EXCEPT ![o] = Refs(1)] ELSE UNCHANGED pv
  /\ UNCHANGED <<heap, next, umask, collecting, parallel, pc, gc, prev, num_seen>>

\* visit_reachable: an object that was moved to unreachable goes back to the
\* end of young; one still to come is marked reachable.
visit_reachable(o) ==
  /\ pc = "visit" /\ o \in todo
  /\ todo' = todo \ {o}
  /\ IF collecting[o] /\ umask[o]
       THEN LET p == GC_PREV(o)
                n == next[o]
                last == GC_PREV(YOUNG)
            IN /\ next' = [next EXCEPT ![p] = n, ![last] = o, ![o] = YOUNG]
               /\ umask' = [umask EXCEPT ![p] = TRUE, ![o] = FALSE]
               /\ pv' = [pv EXCEPT ![n] = Ptr(p), ![YOUNG] = Ptr(o), ![o] = Refs(1)]
       ELSE /\ pv' = IF collecting[o] /\ gc_get_refs(o) = 0
                       THEN [pv EXCEPT ![o] = Refs(1)] ELSE pv
            /\ UNCHANGED <<next, umask>>
  /\ UNCHANGED <<heap, collecting, parallel, pc, gc, prev, num_seen>>

\* Mutant of MoveRelink: the object keeps the collecting flag.
MoveRelinkFlagged ==
  /\ pc = "visit" /\ todo = {}
  /\ pv' = [pv EXCEPT ![gc] = Ptr(prev)]
  /\ prev' = gc /\ gc' = GC_NEXT(gc)
  /\ pc' = "move"
  /\ UNCHANGED <<heap, next, umask, collecting, parallel, todo, num_seen>>

\* After the traversal: relink, and take the next object only now.
MoveRelink ==
  /\ pc = "visit" /\ todo = {}
  /\ pv' = [pv EXCEPT ![gc] = Ptr(prev)]
  /\ collecting' = [collecting EXCEPT ![gc] = FALSE]
  /\ prev' = gc /\ gc' = GC_NEXT(gc)
  /\ pc' = "move"
  /\ UNCHANGED <<heap, next, umask, parallel, todo, num_seen>>

\* Splice gc out of the young list and append it to unreachable, with masks.
ToUnreachable ==
  LET last == GC_PREV(UNREACHABLE) IN
  /\ next' = [next EXCEPT ![prev] = next[gc], ![last] = gc, ![gc] = UNREACHABLE]
  /\ umask' = [umask EXCEPT ![last] = TRUE, ![gc] = TRUE]
  /\ pv' = [pv EXCEPT ![gc] = Ptr(last), ![UNREACHABLE] = Ptr(gc)]
  /\ gc' = next[gc]

\* gc_refs is 0: assume it unreachable.
MoveUnreachable ==
  /\ pc = "move" /\ gc # YOUNG
  /\ gc_get_refs(gc) = 0
  /\ ToUnreachable
  /\ UNCHANGED <<heap, collecting, parallel, pc, prev, todo, num_seen>>

MoveDone ==
  /\ pc = "move" /\ gc = YOUNG
  /\ pv' = [pv EXCEPT ![YOUNG] = Ptr(prev)]
  /\ umask' = [umask EXCEPT ![YOUNG] = FALSE, ![UNREACHABLE] = FALSE]
  /\ pc' = "deduced"
  /\ UNCHANGED <<heap, next, collecting, parallel, gc, prev, todo, num_seen>>

-----------------------------------------------------------------------------
(* Ci_deduce_unreachable_parallel.                                          *)

\* What can be reached from outside the list: the least set that holds what
\* the roots and immortal objects refer to, and what its members refer to.
Roots == {o \in Obj \ immortal : o \in ext \/ \E p \in immortal : o \in refs[p]}

Reachable ==
  {o \in Obj \ immortal :
     \A C \in SUBSET (Obj \ immortal) :
       Roots \subseteq C /\ (\A p \in C : refs[p] \ immortal \subseteq C) => o \in C}

\* The workers (ParMark): gc_refs is positive and collecting clear for the
\* reachable objects, gc_refs is 0 for the others.
WorkersMark ==
  /\ pc = "mark"
  /\ pv' = [x \in Node |-> IF x \in Obj /\ collecting[x]
                             THEN Refs(IF x \in Reachable THEN 1 ELSE 0) ELSE pv[x]]
  /\ collecting' = [x \in Node |-> collecting[x] /\ x \notin Reachable]
  /\ pc' = "pmove"
  /\ UNCHANGED <<heap, next, umask, parallel, gc, prev, todo, num_seen>>

\* Ci_move_unreachable_parallel, one object.
PMoveUnreachable ==
  /\ pc = "pmove" /\ gc # YOUNG
  /\ gc_get_refs(gc) = 0
  /\ ToUnreachable
  /\ UNCHANGED <<heap, collecting, parallel, pc, prev, todo, num_seen>>

PMoveReachable ==
  /\ pc = "pmove" /\ gc # YOUNG
  /\ gc_get_refs(gc) # 0
  /\ pv' = [pv EXCEPT ![gc] = Ptr(prev)]
  /\ collecting' = [collecting EXCEPT ![gc] = FALSE]
  /\ prev' = gc /\ gc' = GC_NEXT(gc)
  /\ UNCHANGED <<heap, next, umask, parallel, pc, todo, num_seen>>

\* Mutant of PMoveDone: the head of the young list keeps its old _gc_prev.
PMoveDoneStale ==
  /\ pc = "pmove" /\ gc = YOUNG
  /\ umask' = [umask EXCEPT ![UNREACHABLE] = FALSE]
  /\ pc' = "deduced"
  /\ UNCHANGED <<heap, next, pv, collecting, parallel, gc, prev, todo, num_seen>>

PMoveDone ==
  /\ pc = "pmove" /\ gc = YOUNG
  /\ pv' = [pv EXCEPT ![YOUNG] = Ptr(prev)]
  /\ umask' = [umask EXCEPT ![UNREACHABLE] = FALSE]
  /\ pc' = "deduced"
  /\ UNCHANGED <<heap, next, collecting, parallel, gc, prev, todo, num_seen>>

\* Ci_restore_prev_ptrs, one object, when there are fewer objects than workers.
RestorePrev ==
  /\ pc = "restore" /\ gc # YOUNG
  /\ pv' = [pv EXCEPT ![gc] = Ptr(prev)]
  /\ collecting' = [collecting EXCEPT ![gc] = FALSE]
  /\ prev' = gc /\ gc' = GC_NEXT(gc)
  /\ UNCHANGED <<heap, next, umask, parallel, pc, todo, num_seen>>

\* Then the serial deduce_unreachable, from its own update_refs on.
RestoreDone ==
  /\ pc = "restore" /\ gc = YOUNG
  /\ pc' = "update" /\ parallel' = FALSE
  /\ gc' = GC_NEXT(YOUNG) /\ num_seen' = 0
  /\ UNCHANGED <<heap, links, prev, todo>>

\* clear_unreachable_mask (and the same loop in move_legacy_finalizers).
clear_unreachable_mask ==
  /\ pc = "deduced"
  /\ umask' = [x \in Node |-> umask[x] /\ ~collecting[x]]
  /\ pc' = "done"
  /\ UNCHANGED <<heap, next, pv, collecting, parallel, gc, prev, todo, num_seen>>

Done == pc = "done" /\ UNCHANGED vars

Next ==
  \/ MoveImmortal \/ gc_reset_refs \/ UpdateRefsDone
  \/ SubtractRefs \/ SubtractRefsDone
  \/ MoveTraverse \/ (\E o \in Obj : visit_reachable(o)) \/ MoveRelink
  \/ MoveUnreachable \/ MoveDone
  \/ WorkersMark \/ PMoveUnreachable \/ PMoveReachable \/ PMoveDone
  \/ RestorePrev \/ RestoreDone
  \/ clear_unreachable_mask \/ Done

Spec == Init /\ [][Next]_vars

-----------------------------------------------------------------------------
\* The nodes from x on, up to the head h, following _gc_next.
Nodes(x, h) ==
  {y \in Node : \A C \in SUBSET Node :
                  x \in C /\ (\A z \in C \ {h} : next[z] \in C) => y \in C} \ {h}

ListOf(h) == Nodes(next[h], h)

\* Serial, parallel or falling back: the unreachable list gets exactly the
\* objects that nothing outside the generation leads to, young keeps the
\* others and immortal objects are in the permanent generation.
ExactSplit ==
  pc \in {"deduced", "done"} =>
    /\ ListOf(YOUNG) = Reachable
    /\ ListOf(UNREACHABLE) = Obj \ (Reachable \cup immortal)
    /\ ListOf(PERMANENT) = immortal

\* validate_list: afterwards the lists are doubly linked again, every object
\* holds a pointer in _gc_prev, and the flags are as the callers expect them.
WellLinked ==
  pc \in {"deduced", "done"} =>
    /\ \A x \in Node : pv[x].ptr /\ GC_PREV(next[x]) = x
    /\ \A x \in Node : collecting[x] <=> x \in ListOf(UNREACHABLE)
    /\ \A x \in Node : umask[x] <=> pc = "deduced" /\ x \in ListOf(UNREACHABLE)

\* The invariant in the comment of move_unreachable: what is left of the
\* cursor is reachable and scanned, what was taken out has the mask, and the
\* object at the cursor holds gc_refs, not a pointer.  Every object is in one
\* of the two lists, and the list of unreachable objects stays doubly linked
\* although the young list is not: visit_reachable unlinks an object from the
\* middle of it.
ScanInvariant ==
  /\ pc \in {"move", "visit"} =>
       LET right == Nodes(gc, YOUNG)
           left == ListOf(YOUNG) \ right
           out == {o \in Obj : umask[o]}
       IN /\ left \subseteq Reachable /\ \A o \in left : ~collecting[o] /\ pv[o].ptr
          /\ \A o \in right : collecting[o] /\ ~pv[o].ptr
          /\ out = Obj \ (left \cup right \cup immortal)
          /\ ~umask[prev]
  /\ pc \in {"move", "visit", "pmove"} =>
       /\ ListOf(YOUNG) \cup ListOf(UNREACHABLE) = Obj \ immortal
       /\ ListOf(YOUNG) \cap ListOf(UNREACHABLE) = {}
       /\ \A x \in ListOf(UNREACHABLE) \cup {UNREACHABLE} :
            pv[next[x]].ptr /\ GC_PREV(next[x]) = x
=============================================================================
