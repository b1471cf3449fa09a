---------------------------- MODULE GCListsProofs ----------------------------
(***************************************************************************)
(* Proofs about GCLists: deduce_unreachable and the list work around the   *)
(* workers of the parallel collector leave exactly the unreachable objects *)
(* in the unreachable list, and every list doubly linked.                  *)
(*                                                                         *)
(* The inductive invariant follows the pointers: there are three sequences *)
(* of nodes, the paths along _gc_next from each list head back to itself,  *)
(* and a position in the first of them, the cursor gc.  What _gc_prev and  *)
(* the flags hold is then said by position: before the cursor, at it, or   *)
(* after it, one formula per phase of the code.  The list operations (an   *)
(* object taken out of one path and put at the end of another) are lemmas  *)
(* about paths, and every action has a lemma that uses them.               *)
(***************************************************************************)
EXTENDS GCLists, FiniteSetTheorems, TLAPS

-----------------------------------------------------------------------------
(* The lists as paths along _gc_next.                                       *)

\* p[1], ..., p[n] are the objects of the list with head h, in order.
Path(nx, p, n, h) ==
  /\ n \in Nat /\ p \in [0 .. n + 1 -> Node]
  /\ p[0] = h /\ p[n + 1] = h
  /\ \A k \in 0 .. n : nx[p[k]] = p[k + 1]
  /\ \A k \in 1 .. n : p[k] \in Obj
  /\ \A j, k \in 1 .. n : p[j] = p[k] => j = k

Elems(p, n) == {p[k] : k \in 1 .. n}

\* The nodes at positions lo to hi point back to the ones before them.
Back(v, p, lo, hi) == \A k \in lo .. hi : v[p[k]] = Ptr(p[k - 1])

Val == [ptr : BOOLEAN, val : Int]

TypeLists ==
  /\ refs \in [Obj -> SUBSET Obj] /\ immortal \in SUBSET Obj
  /\ next \in [Node -> Node] /\ pv \in [Node -> Val]
  /\ umask \in [Node -> BOOLEAN] /\ collecting \in [Node -> BOOLEAN]
  /\ todo \in SUBSET Obj
  /\ pc \in {"update", "subtract", "restore", "mark", "move", "visit", "pmove", "deduced", "done"}

\* Every object is in one of the three lists; two of them stay doubly linked.
Split(y, ny, u, nu, q, nq) ==
  /\ Path(next, y, ny, YOUNG) /\ Path(next, u, nu, UNREACHABLE) /\ Path(next, q, nq, PERMANENT)
  /\ Elems(y, ny) \cap Elems(u, nu) = {} /\ Elems(y, ny) \cap Elems(q, nq) = {}
  /\ Elems(u, nu) \cap Elems(q, nq) = {}
  /\ Elems(y, ny) \cup Elems(u, nu) \cup Elems(q, nq) = Obj
  /\ Back(pv, u, 1, nu + 1) /\ Back(pv, q, 1, nq + 1)

\* Where the flags are clear.
FlagsInv(y, ny, u, nu, q, nq) ==
  /\ \A x \in Node \ Obj : ~collecting[x]
  /\ \A x \in immortal : ~collecting[x] /\ ~umask[x]
  /\ ~umask[PERMANENT]
  /\ pc \in {"update", "restore", "subtract", "mark"} => nu = 0 /\ \A x \in Node : ~umask[x]
  /\ IF pc = "update" THEN Elems(q, nq) \subseteq immortal ELSE Elems(q, nq) = immortal

UpdateInv(y, ny, i) ==
  pc = "update" =>
    /\ \A k \in 1 .. i - 1 :
         y[k] \notin immortal /\ collecting[y[k]] /\ pv[y[k]] = Refs(Py_REFCNT(y[k]))
    /\ \A k \in i .. ny : ~collecting[y[k]]
    /\ Back(pv, y, i, ny + 1)

\* The references to o from outside and from objects that are not in S.
Left(o, S) == (IF o \in ext THEN 1 ELSE 0) + Cardinality({p \in Obj \ S : o \in refs[p]})

SubtractInv(y, ny, i) ==
  pc = "subtract" =>
    /\ \A k \in 1 .. ny : collecting[y[k]] /\ pv[y[k]] = Refs(Left(y[k], Elems(y, i - 1)))
    /\ pv[YOUNG] = Ptr(y[ny])

RestoreInv(y, ny, i) ==
  pc = "restore" =>
    /\ prev = y[i - 1] /\ Back(pv, y, 1, i - 1) /\ pv[YOUNG] = Ptr(y[ny])
    /\ \A k \in 1 .. i - 1 : ~collecting[y[k]]

MarkInv(y, ny, i) ==
  pc = "mark" => i = 1 /\ prev = YOUNG /\ \A k \in 1 .. ny : collecting[y[k]]

\* What is left of the cursor is reachable and linked again.
ScanInv(y, ny, u, nu, i) ==
  pc \in {"move", "visit", "pmove"} =>
    /\ prev = y[i - 1] /\ Back(pv, y, 1, i - 1)
    /\ \A k \in 1 .. i - 1 : ~collecting[y[k]] /\ y[k] \in Reachable
    /\ \A k \in i .. ny : ~pv[y[k]].ptr
    /\ \A k \in 1 .. ny : ~umask[y[k]]
    /\ ~umask[YOUNG]
    /\ \A k \in 1 .. nu : collecting[u[k]] /\ umask[u[k]]

\* o is left of the cursor, or known to be reachable.
Found(y, ny, i, o) == \E k \in 1 .. ny : o = y[k] /\ (k < i \/ pv[y[k]].val > 0)

MoveInv(y, ny, i) ==
  pc \in {"move", "visit"} =>
    /\ \A k \in i .. ny : /\ collecting[y[k]] /\ pv[y[k]].val \in Nat
                          /\ pv[y[k]].val > 0 => y[k] \in Reachable
    /\ i <= ny => pv[YOUNG] = Ptr(y[ny])
    /\ \A o \in Roots : Found(y, ny, i, o)
    /\ \A k \in 1 .. i - 1 : \A o \in refs[y[k]] \ immortal : Found(y, ny, i, o)

VisitInv(y, ny, i) ==
  pc = "visit" =>
    /\ i <= ny /\ pv[y[i]].val > 0 /\ todo \subseteq refs[y[i]]
    /\ \A o \in (refs[y[i]] \ immortal) \ todo : Found(y, ny, i, o)

PMoveInv(y, ny, u, nu, i) ==
  pc = "pmove" =>
    /\ \A k \in i .. ny : /\ pv[y[k]].val = IF y[k] \in Reachable THEN 1 ELSE 0
                          /\ y[k] \notin Reachable => collecting[y[k]]
    /\ \A k \in 1 .. nu : u[k] \notin Reachable

SplitInv(y, ny, u, nu) ==
  pc \in {"deduced", "done"} =>
    /\ Back(pv, y, 1, ny + 1)
    /\ Elems(y, ny) = Reachable /\ Elems(u, nu) = Obj \ (Reachable \cup immortal)
    /\ \A k \in 1 .. ny : ~collecting[y[k]]
    /\ \A k \in 1 .. nu : collecting[u[k]]
    /\ \A x \in Node : umask[x] <=> pc = "deduced" /\ x \in Elems(u, nu)

ListsInv(y, ny, u, nu, q, nq, i) ==
  /\ Split(y, ny, u, nu, q, nq)
  /\ i \in 1 .. ny + 1 /\ gc = y[i]
  /\ FlagsInv(y, ny, u, nu, q, nq)
  /\ UpdateInv(y, ny, i) /\ SubtractInv(y, ny, i) /\ RestoreInv(y, ny, i) /\ MarkInv(y, ny, i)
  /\ ScanInv(y, ny, u, nu, i) /\ MoveInv(y, ny, i) /\ VisitInv(y, ny, i)
  /\ PMoveInv(y, ny, u, nu, i) /\ SplitInv(y, ny, u, nu)

IInv == TypeLists /\ \E y, ny, u, nu, q, nq, i : ListsInv(y, ny, u, nu, q, nq, i)

-----------------------------------------------------------------------------
(* Facts about the operators.                                              *)

\* Positions in a list of n objects, the header at 0 and n + 1; i is an object's position.
LEMMA EndIndex ==
  ASSUME NEW n \in Nat
  PROVE  /\ 0 \in 0 .. n /\ 0 \in 0 .. n + 1 /\ n \in 0 .. n /\ n \in 0 .. n + 1
         /\ 1 \in 1 .. n + 1 /\ n + 1 \in 1 .. n + 1 /\ n + 1 \in 0 .. n + 1
         /\ 0 + 1 = 1 /\ 1 - 1 = 0 /\ (n + 1) - 1 = n /\ (n + 1) + 1 = n + 2
         /\ (\A k \in 1 .. 0 : FALSE) /\ (\A k \in 1 .. 1 - 1 : FALSE)
         /\ \A k \in 1 .. n : k \in 0 .. n /\ k \in 0 .. n + 1 /\ k \in 1 .. n + 1
         /\ \A k \in 0 .. n : k \in 0 .. n + 1 /\ k + 1 \in 1 .. n + 1 /\ (k + 1) - 1 = k
         /\ \A k \in 1 .. n + 1 : k \in 0 .. n + 1 /\ (k = n + 1 \/ k \in 1 .. n)
         /\ \A k \in 0 .. n + 1 : k = 0 \/ k = n + 1 \/ k \in 1 .. n
OBVIOUS

LEMMA AtIndex ==
  ASSUME NEW n \in Nat, NEW i \in 1 .. n
  PROVE  /\ i <= n /\ i # 0 /\ 0 # i /\ i + 1 # i /\ i - 1 # i /\ (i + 1) - 1 = i
         /\ i \in i .. n /\ i \in i .. n + 1 /\ i \in 0 .. n /\ i \in 0 .. n + 1 /\ i \in 1 .. n + 1
         /\ i - 1 \in 0 .. n /\ i - 1 \in 0 .. n + 1 /\ i - 1 \in 0 .. i - 1 /\ i \in 1 .. i
         /\ i + 1 \in 1 .. n + 1 /\ i + 1 \in 0 .. n + 1 /\ i \in 1 .. (n - 1) + 1 /\ (n - 1) + 1 = n
OBVIOUS

LEMMA BelowIndex ==
  ASSUME NEW n \in Nat, NEW i, i \in 1 .. n \/ i \in 1 .. n + 1
  PROVE  /\ \A k \in 1 .. i - 1 : /\ k \in 1 .. n /\ k \in 0 .. n /\ k \in 0 .. n + 1 /\ k \in 1 .. n + 1
                                  /\ k \in 0 .. i - 1 /\ k - 1 \in 0 .. i - 1 /\ k - 1 \in 0 .. n
                                  /\ k < i /\ k # i /\ k # i + 1 /\ k \notin i .. n
         /\ \A k \in 1 .. i : k = i \/ k \in 1 .. i - 1
         /\ \A k \in 1 .. (i + 1) - 1 : (i <= n => k \in 1 .. n) /\ (k = i \/ k \in 1 .. i - 1)
         /\ \A k \in 1 .. n : k < i => k \in 1 .. i - 1
OBVIOUS

LEMMA AboveIndex ==
  ASSUME NEW n \in Nat, NEW i, i \in 1 .. n \/ i \in 1 .. n + 1
  PROVE  /\ \A k \in i .. n : k \in 1 .. n /\ k \in 0 .. n + 1 /\ ~(k < i)
         /\ \A k \in i .. n + 1 : k \in 1 .. n + 1 /\ k \in 0 .. n + 1 /\ (k = n + 1 \/ k \in i .. n)
         /\ \A k \in (i + 1) .. n : /\ k \in i .. n /\ k \in (i + 1) .. n + 1 /\ k \in 1 .. n /\ k # i /\ (k - 1) + 1 = k
                                    /\ k - 1 \in 1 .. n - 1 /\ k - 1 \in i .. n
         /\ \A k \in (i + 1) .. n + 1 : k \in i .. n + 1 /\ k \in 0 .. n + 1 /\ k # i
         /\ \A k \in i .. n - 1 : /\ k \in i .. n /\ k + 1 \in i .. n /\ k + 1 # i /\ k + 1 \in 1 .. n
                                  /\ k + 1 \in 0 .. n + 1
         /\ \A k \in 1 .. n : /\ ~(k < i) => k \in i .. n
                              /\ ~(k < i) /\ k # i => k \in (i + 1) .. n
                              /\ k \in i .. n \/ k \in 1 .. i - 1
OBVIOUS

LEMMA NodeFacts ==
  /\ Obj \subseteq Node /\ Node \subseteq Int
  /\ YOUNG \in Node /\ UNREACHABLE \in Node /\ PERMANENT \in Node
  /\ YOUNG \notin Obj /\ UNREACHABLE \notin Obj /\ PERMANENT \notin Obj
  /\ YOUNG # UNREACHABLE /\ YOUNG # PERMANENT /\ UNREACHABLE # PERMANENT
BY SizesAssumption DEF Obj, Node, YOUNG, UNREACHABLE, PERMANENT

LEMMA ValFacts ==
  /\ \A x \in Int : Ptr(x) \in Val /\ Refs(x) \in Val
  /\ \A x : Ptr(x).ptr /\ Ptr(x).val = x /\ ~Refs(x).ptr /\ Refs(x).val = x
BY Zenon DEF Ptr, Refs, Val

\* What is reachable: the roots and what reachable objects refer to, only that.
LEMMA ReachableFacts ==
  ASSUME refs \in [Obj -> SUBSET Obj]
  PROVE  /\ Reachable \subseteq Obj \ immortal /\ Roots \subseteq Reachable
         /\ \A p \in Reachable : refs[p] \ immortal \subseteq Reachable
         /\ \A C \in SUBSET (Obj \ immortal) :
              Roots \subseteq C /\ (\A p \in C : refs[p] \ immortal \subseteq C) => Reachable \subseteq C
  <1>1. Reachable \subseteq Obj \ immortal /\ Roots \subseteq Obj \ immortal
    BY Zenon DEF Reachable, Roots
  <1>2. Roots \subseteq Reachable
    BY <1>1, Zenon DEF Reachable
  <1>3. ASSUME NEW C \in SUBSET (Obj \ immortal),
               Roots \subseteq C, \A p \in C : refs[p] \ immortal \subseteq C
        PROVE  Reachable \subseteq C
    BY <1>3, Zenon DEF Reachable
  <1>4. ASSUME NEW p \in Reachable, NEW o \in refs[p] \ immortal PROVE o \in Reachable
    <2>1. o \in Obj \ immortal
      BY <1>1, <1>4, Zenon
    <2>2. SUFFICES ASSUME NEW C \in SUBSET (Obj \ immortal),
                          Roots \subseteq C, \A r \in C : refs[r] \ immortal \subseteq C
                   PROVE  o \in C
      BY <2>1, Zenon DEF Reachable
    <2> QED
      BY <1>3, <2>2, Zenon
  <1> QED
    BY <1>1, <1>2, <1>3, <1>4, Zenon

-----------------------------------------------------------------------------
(* The steps.                                                               *)

\* Where the cursor is.
Cursor(y, ny, i) ==
  /\ ny \in Nat /\ i \in 1 .. ny + 1 /\ gc = y[i]
  /\ y \in [0 .. ny + 1 -> Node] /\ y[0] = YOUNG /\ y[ny + 1] = YOUNG
  /\ \A k \in 1 .. ny : y[k] \in Obj /\ y[k] \in Elems(y, ny)
  /\ \A j, k \in 1 .. ny : y[j] = y[k] => j = k
  /\ \A k \in 0 .. ny : next[y[k]] = y[k + 1]

LEMMA CursorFacts ==
  ASSUME NEW y, NEW ny, NEW u, NEW nu, NEW q, NEW nq, NEW i, ListsInv(y, ny, u, nu, q, nq, i)
  PROVE  /\ Cursor(y, ny, i)
         /\ nu \in Nat /\ u \in [0 .. nu + 1 -> Node] /\ u[0] = UNREACHABLE /\ u[nu + 1] = UNREACHABLE
         /\ \A k \in 1 .. nu : u[k] \in Obj /\ u[k] \in Elems(u, nu)
         /\ nq \in Nat /\ q \in [0 .. nq + 1 -> Node] /\ q[0] = PERMANENT /\ q[nq + 1] = PERMANENT
         /\ \A k \in 1 .. nq : q[k] \in Obj /\ q[k] \in Elems(q, nq)
  <1>1. Path(next, y, ny, YOUNG) /\ Path(next, u, nu, UNREACHABLE) /\ Path(next, q, nq, PERMANENT)
    BY Zenon DEF ListsInv, Split
  <1>2. i \in 1 .. ny + 1 /\ gc = y[i]
    BY Zenon DEF ListsInv
  <1>3. /\ ny \in Nat /\ y \in [0 .. ny + 1 -> Node] /\ y[0] = YOUNG /\ y[ny + 1] = YOUNG
        /\ (\A k \in 1 .. ny : y[k] \in Obj) /\ (\A j, k \in 1 .. ny : y[j] = y[k] => j = k)
        /\ \A k \in 0 .. ny : next[y[k]] = y[k + 1]
    BY <1>1, Zenon DEF Path
  <1>4. /\ nu \in Nat /\ u \in [0 .. nu + 1 -> Node] /\ u[0] = UNREACHABLE /\ u[nu + 1] = UNREACHABLE
        /\ \A k \in 1 .. nu : u[k] \in Obj
    BY <1>1, Zenon DEF Path
  <1>5. /\ nq \in Nat /\ q \in [0 .. nq + 1 -> Node] /\ q[0] = PERMANENT /\ q[nq + 1] = PERMANENT
        /\ \A k \in 1 .. nq : q[k] \in Obj
    BY <1>1, Zenon DEF Path
  <1> QED
    BY <1>2, <1>3, <1>4, <1>5, Zenon DEF Elems, Cursor

LEMMA AtObject ==
  ASSUME NEW y, NEW ny, NEW i, Cursor(y, ny, i), gc # YOUNG
  PROVE  /\ i \in 1 .. ny /\ gc \in Obj /\ gc \in Elems(y, ny) /\ next[gc] = y[i + 1]
         /\ \A k \in 0 .. ny + 1 : y[k] \in Node /\ (k # i => y[k] # gc)
  <1>1. i \in 1 .. ny
    BY EndIndex, Zenon DEF Cursor
  <1>2. gc \in Obj /\ gc \in Elems(y, ny) /\ next[gc] = y[i + 1]
    BY EndIndex, <1>1, Zenon DEF Cursor
  <1>3. ASSUME NEW k \in 0 .. ny + 1, k # i PROVE y[k] # gc
    <2>1. CASE k = 0 \/ k = ny + 1
      BY <1>2, <2>1, NodeFacts, Zenon DEF Cursor
    <2>2. CASE k \in 1 .. ny
      BY <1>1, <1>3, <2>2, Zenon DEF Cursor
    <2> QED
      BY EndIndex, <1>1, <2>1, <2>2, Zenon DEF Cursor
  <1> QED
    BY <1>1, <1>2, <1>3, Zenon DEF Cursor

LEMMA AtEnd ==
  ASSUME NEW y, NEW ny, NEW i, Cursor(y, ny, i), gc = YOUNG
  PROVE  ny \in Nat /\ i = ny + 1
  <1>1. ny \in Nat /\ i \in 1 .. ny + 1 /\ gc = y[i] /\ \A k \in 1 .. ny : y[k] \in Obj
    BY Zenon DEF Cursor
  <1>2. i \notin 1 .. ny
    BY <1>1, NodeFacts, Zenon
  <1> QED
    BY EndIndex, <1>1, <1>2, Zenon

LEMMA HeapFrame ==
  ASSUME UNCHANGED heap
  PROVE  /\ Reachable' = Reachable /\ Roots' = Roots
         /\ \A o : Py_REFCNT(o)' = Py_REFCNT(o)
         /\ \A o, S : Left(o, S)' = Left(o, S)
  <1>1. refs' = refs /\ ext' = ext /\ immortal' = immortal
    BY Zenon DEF heap
  <1>2. Roots' = Roots
    BY <1>1, Zenon DEF Roots
  <1>3. Reachable' = Reachable
    BY <1>1, <1>2, Zenon DEF Reachable
  <1> QED
    BY <1>1, <1>2, <1>3, Zenon DEF Py_REFCNT, Left

\* A step that writes _gc_prev of nodes of the young list only.
LEMMA SplitFrame ==
  ASSUME NEW y, NEW ny, NEW u, NEW nu, NEW q, NEW nq, NEW i, ListsInv(y, ny, u, nu, q, nq, i), next' = next,
         \A x \in Node : x \notin Elems(y, ny) \cup {YOUNG} => pv'[x] = pv[x]
  PROVE  Split(y, ny, u, nu, q, nq)'
  <1>1. Split(y, ny, u, nu, q, nq)
    BY Zenon DEF ListsInv
  <1>2. \A k \in 1 .. nu + 1 : u[k] \in Node /\ u[k] \notin Elems(y, ny) \cup {YOUNG}
    <2>1. Elems(y, ny) \subseteq Obj /\ Elems(y, ny) \cap Elems(u, nu) = {}
      BY <1>1, CursorFacts, Zenon DEF Split, Elems, Cursor
    <2>2. /\ nu \in Nat /\ u \in [0 .. nu + 1 -> Node] /\ u[nu + 1] = UNREACHABLE
          /\ \A k \in 1 .. nu : u[k] \in Obj /\ u[k] \in Elems(u, nu)
      BY CursorFacts
    <2> QED
      BY <2>1, <2>2, NodeFacts
  <1>3. \A k \in 1 .. nq + 1 : q[k] \in Node /\ q[k] \notin Elems(y, ny) \cup {YOUNG}
    <2>1. Elems(y, ny) \subseteq Obj /\ Elems(y, ny) \cap Elems(q, nq) = {}
      BY <1>1, CursorFacts, Zenon DEF Split, Elems, Cursor
    <2>2. /\ nq \in Nat /\ q \in [0 .. nq + 1 -> Node] /\ q[nq + 1] = PERMANENT
          /\ \A k \in 1 .. nq : q[k] \in Obj /\ q[k] \in Elems(q, nq)
      BY CursorFacts
    <2> QED
      BY <2>1, <2>2, NodeFacts
  <1>4. Back(pv', u, 1, nu + 1) /\ Back(pv', q, 1, nq + 1)
    BY <1>1, <1>2, <1>3, Zenon DEF Split, Back
  <1> QED
    BY <1>1, <1>4, Zenon DEF Split, Elems

LEMMA StutterStep ==
  ASSUME IInv, UNCHANGED vars
  PROVE  IInv'
  <1>1. PICK y, ny, u, nu, q, nq, i : ListsInv(y, ny, u, nu, q, nq, i)
    BY Zenon DEF IInv
  <1>2. /\ refs' = refs /\ ext' = ext /\ immortal' = immortal /\ next' = next /\ umask' = umask /\ pv' = pv
        /\ collecting' = collecting /\ pc' = pc /\ gc' = gc /\ prev' = prev /\ todo' = todo
    BY Zenon DEF vars, heap, links
  <1>3. Reachable' = Reachable /\ Roots' = Roots /\ (\A o : Py_REFCNT(o)' = Py_REFCNT(o))
        /\ \A o, S : Left(o, S)' = Left(o, S)
    BY <1>2, HeapFrame, Zenon DEF heap
  <1>4. TypeLists'
    BY <1>2, Zenon DEF IInv, TypeLists
  <1>5. Split(y, ny, u, nu, q, nq)' /\ FlagsInv(y, ny, u, nu, q, nq)' /\ gc' = y[i] /\ i \in 1 .. ny + 1
    BY <1>1, <1>2, Zenon DEF ListsInv, Split, FlagsInv
  <1>6. UpdateInv(y, ny, i)'
    BY <1>1, <1>2, <1>3, Zenon DEF ListsInv, UpdateInv
  <1>7. SubtractInv(y, ny, i)' /\ RestoreInv(y, ny, i)' /\ MarkInv(y, ny, i)'
    BY <1>1, <1>2, <1>3, Zenon DEF ListsInv, SubtractInv, RestoreInv, MarkInv
  <1>8. ScanInv(y, ny, u, nu, i)' /\ MoveInv(y, ny, i)'
    BY <1>1, <1>2, <1>3, ZenonT(60) DEF ListsInv, ScanInv, MoveInv, Found
  <1>9. VisitInv(y, ny, i)' /\ PMoveInv(y, ny, u, nu, i)' /\ SplitInv(y, ny, u, nu)'
    BY <1>1, <1>2, <1>3, ZenonT(60) DEF ListsInv, VisitInv, PMoveInv, SplitInv, Found
  <1>10. ListsInv(y, ny, u, nu, q, nq, i)'
    BY <1>5, <1>6, <1>7, <1>8, <1>9, Zenon DEF ListsInv
  <1> QED
    BY <1>4, <1>10, Zenon DEF IInv

LEMMA InitLists ==
  ASSUME Init
  PROVE  IInv
  <1>1. NumObjs \in Nat \ {0} /\ Obj = 1 .. NumObjs /\ YOUNG = 0
    BY SizesAssumption, Zenon DEF Obj, YOUNG
  <1>2. \A x \in 0 .. NumObjs : (x + 1) % (NumObjs + 1) = IF x = NumObjs THEN 0 ELSE x + 1
    BY <1>1
  <1>3. /\ next = [x \in Node |-> IF x \in Obj \cup {YOUNG} THEN (x + 1) % (NumObjs + 1) ELSE x]
        /\ pv = [x \in Node |-> Ptr(IF x = YOUNG THEN NumObjs ELSE IF x \in Obj THEN x - 1 ELSE x)]
        /\ umask = [x \in Node |-> FALSE] /\ collecting = [x \in Node |-> FALSE]
        /\ pc = "update" /\ gc = next[YOUNG] /\ todo = {}
    BY Zenon DEF Init, GC_NEXT
  <1>4. refs \in [Obj -> SUBSET Obj] /\ immortal \in SUBSET Obj
    BY HeapsAssumption, Zenon DEF Init
  <1>5. /\ \A x \in 0 .. NumObjs : x \in Node /\ next[x] = IF x = NumObjs THEN 0 ELSE x + 1
        /\ next[UNREACHABLE] = UNREACHABLE /\ next[PERMANENT] = PERMANENT
    <2>1. \A x \in 0 .. NumObjs : x \in Obj \cup {YOUNG} /\ x \in Node
      BY <1>1, NodeFacts
    <2> QED
      BY <1>2, <1>3, <2>1, NodeFacts, Zenon
  <1>6. \A x \in Node : x \in 0 .. NumObjs \/ x = UNREACHABLE \/ x = PERMANENT
    BY <1>1 DEF Node
  <1>7. next \in [Node -> Node]
    <2>1. \A x \in 0 .. NumObjs : next[x] \in Node
      BY <1>1, <1>5
    <2>2. \A x \in Node : next[x] \in Node
      BY <1>5, <1>6, <2>1, NodeFacts, Zenon
    <2> QED
      BY <1>3, <2>2, Zenon
  <1>8. pv \in [Node -> Val]
    <2>1. \A x \in Node : (IF x = YOUNG THEN NumObjs ELSE IF x \in Obj THEN x - 1 ELSE x) \in Int
      BY <1>1, NodeFacts
    <2> QED
      BY <1>3, <2>1, ValFacts, Zenon
  <1>9. TypeLists
    BY <1>3, <1>4, <1>7, <1>8, Zenon DEF TypeLists
  <1>10. PICK y : y = [k \in 0 .. NumObjs + 1 |-> IF k = NumObjs + 1 THEN 0 ELSE k]
    BY Zenon
  <1>11. PICK u : u = [k \in 0 .. 1 |-> UNREACHABLE]
    BY Zenon
  <1>12. PICK q : q = [k \in 0 .. 1 |-> PERMANENT]
    BY Zenon
  <1>13. Path(next, y, NumObjs, YOUNG)
    <2>1. \A k \in 0 .. NumObjs + 1 : k = NumObjs + 1 \/ k \in 0 .. NumObjs
      BY <1>1
    <2>2. y \in [0 .. NumObjs + 1 -> Node] /\ y[0] = YOUNG /\ y[NumObjs + 1] = YOUNG
      BY EndIndex, <1>1, <1>5, <1>10, <2>1, NodeFacts, Zenon
    <2>3. \A k \in 0 .. NumObjs : y[k] = k /\ y[k + 1] = IF k = NumObjs THEN 0 ELSE k + 1
      BY <1>1, <1>10
    <2>4. \A k \in 0 .. NumObjs : next[y[k]] = y[k + 1]
      BY <1>5, <2>3, Zenon
    <2>5. \A k \in 1 .. NumObjs : k \in 0 .. NumObjs
      BY EndIndex, <1>1, Zenon
    <2> QED
      BY <1>1, <2>2, <2>3, <2>4, <2>5, Zenon DEF Path
  <1>14. Path(next, u, 0, UNREACHABLE) /\ Back(pv, u, 1, 0 + 1)
    <2>1. u \in [0 .. 0 + 1 -> Node] /\ u[0] = UNREACHABLE /\ u[0 + 1] = UNREACHABLE
      BY EndIndex, <1>11, NodeFacts, Zenon
    <2>2. Path(next, u, 0, UNREACHABLE)
      BY <1>5, <2>1 DEF Path
    <2>3. pv[UNREACHABLE] = Ptr(UNREACHABLE)
      BY <1>3, NodeFacts, Zenon
    <2>4. \A k \in 1 .. 0 + 1 : k = 1 /\ k - 1 = 0 /\ 0 + 1 = 1
      BY EndIndex, Zenon
    <2> QED
      BY <2>1, <2>2, <2>3, <2>4, Zenon DEF Back
  <1>15. Path(next, q, 0, PERMANENT) /\ Back(pv, q, 1, 0 + 1)
    <2>1. q \in [0 .. 0 + 1 -> Node] /\ q[0] = PERMANENT /\ q[0 + 1] = PERMANENT
      BY EndIndex, <1>12, NodeFacts, Zenon
    <2>2. Path(next, q, 0, PERMANENT)
      BY <1>5, <2>1 DEF Path
    <2>3. pv[PERMANENT] = Ptr(PERMANENT)
      BY <1>3, NodeFacts, Zenon
    <2>4. \A k \in 1 .. 0 + 1 : k = 1 /\ k - 1 = 0 /\ 0 + 1 = 1
      BY EndIndex, Zenon
    <2> QED
      BY <2>1, <2>2, <2>3, <2>4, Zenon DEF Back
  <1>16. Split(y, NumObjs, u, 0, q, 0)
    <2>1. Elems(u, 0) = {} /\ Elems(q, 0) = {}
      BY DEF Elems
    <2>2. \A k \in 1 .. NumObjs : y[k] = k
      BY <1>1, <1>10
    <2>3. Elems(y, NumObjs) = Obj
      BY <1>1, <2>2, Zenon DEF Elems
    <2> QED
      BY <1>13, <1>14, <1>15, <2>1, <2>3, Zenon DEF Split
  <1>17. FlagsInv(y, NumObjs, u, 0, q, 0)
    <2>1. immortal \subseteq Node /\ Elems(q, 0) = {}
      BY <1>4, NodeFacts DEF Elems
    <2> QED
      BY <1>3, <2>1, NodeFacts, Zenon DEF FlagsInv
  <1>18. UpdateInv(y, NumObjs, 1)
    <2>1. \A k \in 1 .. NumObjs : y[k] = k /\ y[k - 1] = k - 1 /\ k \in Obj /\ k \in Node /\ k # YOUNG
      BY <1>1, <1>10, NodeFacts
    <2>2. y[NumObjs + 1] = YOUNG /\ y[(NumObjs + 1) - 1] = NumObjs
      BY <1>1, <1>10
    <2>3. Back(pv, y, 1, NumObjs + 1)
      <3>1. \A k \in 1 .. NumObjs : pv[y[k]] = Ptr(y[k - 1])
        BY <1>3, <2>1, Zenon
      <3>2. pv[YOUNG] = Ptr(NumObjs)
        BY <1>3, NodeFacts, Zenon
      <3>3. \A k \in 1 .. NumObjs + 1 : k = NumObjs + 1 \/ k \in 1 .. NumObjs
        BY EndIndex, <1>1, Zenon
      <3> QED
        BY <2>2, <3>1, <3>2, <3>3, Zenon DEF Back
    <2> QED
      BY <1>3, <2>1, <2>3 DEF UpdateInv
  <1>19. /\ SubtractInv(y, NumObjs, 1) /\ RestoreInv(y, NumObjs, 1) /\ MarkInv(y, NumObjs, 1)
         /\ ScanInv(y, NumObjs, u, 0, 1) /\ MoveInv(y, NumObjs, 1) /\ VisitInv(y, NumObjs, 1)
         /\ PMoveInv(y, NumObjs, u, 0, 1) /\ SplitInv(y, NumObjs, u, 0)
    BY <1>3, Zenon DEF SubtractInv, RestoreInv, MarkInv, ScanInv, MoveInv, VisitInv, PMoveInv, SplitInv
  <1>20. 1 \in 1 .. NumObjs + 1 /\ gc = y[1]
    <2>1. 0 \in 0 .. NumObjs /\ 0 + 1 = 1 /\ y[0] = YOUNG
      BY EndIndex, <1>1, <1>10, Zenon
    <2>2. next[y[0]] = y[0 + 1]
      BY <1>13, <2>1, Zenon DEF Path
    <2> QED
      BY EndIndex, <1>1, <1>3, <2>1, <2>2, Zenon
  <1>21. ListsInv(y, NumObjs, u, 0, q, 0, 1)
    BY <1>16, <1>17, <1>18, <1>19, <1>20, Zenon DEF ListsInv
  <1> QED
    BY <1>9, <1>21, Zenon DEF IInv

\* visit_reachable of an object that is not in the unreachable list.
LEMMA VisitYoungStep ==
  ASSUME IInv, NEW o \in Obj, visit_reachable(o), ~(collecting[o] /\ umask[o])
  PROVE  IInv'
  <1>1. PICK y, ny, u, nu, q, nq, i : ListsInv(y, ny, u, nu, q, nq, i)
    BY Zenon DEF IInv
  <1>2. /\ TypeLists /\ Split(y, ny, u, nu, q, nq) /\ FlagsInv(y, ny, u, nu, q, nq) /\ ScanInv(y, ny, u, nu, i)
        /\ MoveInv(y, ny, i) /\ VisitInv(y, ny, i)
    BY <1>1, Zenon DEF IInv, ListsInv
  <1>3. /\ pc = "visit" /\ o \in todo /\ todo' = todo \ {o} /\ UNCHANGED heap
        /\ UNCHANGED <<next, umask, collecting, pc, gc, prev>>
        /\ pv' = IF collecting[o] /\ gc_get_refs(o) = 0 THEN [pv EXCEPT ![o] = Refs(1)] ELSE pv
    BY Zenon DEF visit_reachable
  <1>4. /\ Cursor(y, ny, i) /\ ny \in Nat /\ i \in 1 .. ny /\ gc = y[i] /\ o \in Node
        /\ (\A k \in 1 .. ny : y[k] \in Node /\ y[k] \in Elems(y, ny)) /\ YOUNG \in Node /\ o # YOUNG
        /\ \A j, k \in 1 .. ny : y[j] = y[k] => j = k
    <2>1. Cursor(y, ny, i) /\ i <= ny
      BY <1>1, <1>2, <1>3, CursorFacts, Zenon DEF VisitInv
    <2> QED
      BY <2>1, NodeFacts DEF Cursor
  <1>5. Reachable' = Reachable /\ Roots' = Roots /\ refs' = refs /\ immortal' = immortal
    BY <1>3, HeapFrame, Zenon DEF heap
  <1>6. /\ prev = y[i - 1] /\ Back(pv, y, 1, i - 1)
        /\ \A k \in 1 .. i - 1 : ~collecting[y[k]] /\ y[k] \in Reachable
        /\ \A k \in i .. ny : ~pv[y[k]].ptr
        /\ \A k \in 1 .. nu : collecting[u[k]] /\ umask[u[k]]
    BY <1>2, <1>3, Zenon DEF ScanInv
  <1>7. /\ \A k \in i .. ny : /\ collecting[y[k]] /\ pv[y[k]].val \in Nat
                              /\ pv[y[k]].val > 0 => y[k] \in Reachable
        /\ pv[y[i]].val > 0 /\ todo \subseteq refs[y[i]]
    BY <1>2, <1>3, Zenon DEF MoveInv, VisitInv
  <1>8. o \notin immortal => o \in Reachable
    <2>1. i \in i .. ny
      BY AtIndex, <1>4, Zenon
    <2>2. y[i] \in Reachable /\ o \in refs[y[i]]
      BY <1>3, <1>7, <2>1, Zenon
    <2>3. refs[y[i]] \ immortal \subseteq Reachable
      BY <1>2, <2>2, ReachableFacts, Zenon DEF TypeLists
    <2> QED
      BY <2>2, <2>3, Zenon
  <1>9. o \notin immortal => \E k \in 1 .. ny : o = y[k]
    <2>1. o \notin Elems(u, nu)
      BY <1>6, Zenon DEF Elems
    <2>2. Elems(q, nq) = immortal
      BY <1>2, <1>3, Zenon DEF FlagsInv
    <2> QED
      BY <1>2, <2>1, <2>2, Zenon DEF Split, Elems
  <1>10. \A x \in immortal : ~collecting[x]
    BY <1>2, Zenon DEF FlagsInv
  <1>11. pv' \in [Node -> Val] /\ \A x \in Node : pv'[x] = pv[x] \/ (x = o /\ collecting[o] /\ gc_get_refs(o) = 0 /\ pv'[x] = Refs(1))
    <2>1. Refs(1) \in Val /\ pv \in [Node -> Val]
      BY <1>2, ValFacts DEF TypeLists
    <2>2. CASE collecting[o] /\ gc_get_refs(o) = 0
      BY <1>3, <1>4, <2>1, <2>2, Zenon
    <2>3. CASE ~(collecting[o] /\ gc_get_refs(o) = 0)
      BY <1>3, <2>1, <2>3, Zenon
    <2> QED
      BY <2>2, <2>3, Zenon
  <1>12. \A k \in 1 .. ny : \/ pv'[y[k]] = pv[y[k]]
                            \/ y[k] = o /\ k \in i .. ny /\ k # i /\ y[k] \in Reachable /\ pv'[y[k]] = Refs(1)
    <2> SUFFICES ASSUME NEW k \in 1 .. ny, pv'[y[k]] # pv[y[k]]
                 PROVE  y[k] = o /\ k \in i .. ny /\ k # i /\ y[k] \in Reachable /\ pv'[y[k]] = Refs(1)
      BY Zenon
    <2>1. y[k] = o /\ collecting[o] /\ gc_get_refs(o) = 0 /\ pv'[y[k]] = Refs(1)
      BY <1>4, <1>11, Zenon
    <2>2. k \in i .. ny
      <3>1. k \notin 1 .. i - 1
        BY <1>6, <2>1, Zenon
      <3> QED
        BY <1>4, <3>1
    <2>3. pv[y[k]].val = 0
      BY <1>6, <2>1, <2>2, Zenon DEF gc_get_refs
    <2>4. k # i
      BY <1>7, <2>3
    <2>5. o \in Reachable
      BY <1>8, <1>10, <2>1, Zenon
    <2> QED
      BY <2>1, <2>2, <2>4, <2>5, Zenon
  <1>13. TypeLists'
    BY <1>2, <1>3, <1>5, <1>11, Zenon DEF TypeLists
  <1>14. pv'[YOUNG] = pv[YOUNG] /\ \A x \in Node : x \notin Elems(y, ny) => pv'[x] = pv[x]
    <2>1. collecting[o] => o \in Elems(y, ny)
      BY <1>4, <1>9, <1>10, Zenon
    <2> QED
      BY <1>4, <1>11, <2>1, Zenon
  <1>15. Split(y, ny, u, nu, q, nq)'
    BY <1>1, <1>3, <1>14, SplitFrame, Zenon
  <1>16. FlagsInv(y, ny, u, nu, q, nq)'
    BY <1>2, <1>3, <1>5, Zenon DEF FlagsInv
  <1>17. /\ \A k \in 1 .. i - 1 : k \in 1 .. ny /\ k \notin i .. ny
         /\ \A k \in i .. ny : k \in 1 .. ny
         /\ i \in i .. ny
    BY <1>4
  <1>18. ScanInv(y, ny, u, nu, i)'
    <2>1. \A k \in 1 .. i - 1 : pv'[y[k]] = pv[y[k]]
      BY <1>12, <1>17, Zenon
    <2>2. Back(pv', y, 1, i - 1)
      BY <1>6, <2>1, Zenon DEF Back
    <2>3. \A k \in i .. ny : ~pv'[y[k]].ptr
      BY <1>6, <1>12, <1>17, ValFacts
    <2>4. /\ \A k \in 1 .. ny : ~umask[y[k]]
          /\ ~umask[YOUNG]
      BY <1>2, <1>3, Zenon DEF ScanInv
    <2> QED
      BY <1>3, <1>5, <1>6, <2>2, <2>3, <2>4, Zenon DEF ScanInv
  <1>19. ASSUME NEW x, Found(y, ny, i, x)
         PROVE  Found(y, ny, i, x)'
    <2>1. PICK k \in 1 .. ny : x = y[k] /\ (k < i \/ pv[y[k]].val > 0)
      BY <1>19, Zenon DEF Found
    <2>2. k < i \/ pv'[y[k]].val > 0
      <3>1. Refs(1).val > 0
        BY ValFacts
      <3> QED
        BY <1>12, <2>1, <3>1, Zenon
    <2> QED
      BY <2>1, <2>2, Zenon DEF Found
  <1>20. MoveInv(y, ny, i)'
    <2>1. \A k \in i .. ny : /\ pv'[y[k]].val \in Nat
                             /\ pv'[y[k]].val > 0 => y[k] \in Reachable
      <3>1. Refs(1).val \in Nat
        BY ValFacts
      <3> QED
        BY <1>7, <1>12, <1>17, <3>1, Zenon
    <2>2. i <= ny => pv'[YOUNG] = Ptr(y[ny])
      BY <1>2, <1>3, <1>14, Zenon DEF MoveInv
    <2>3. /\ \A x \in Roots : Found(y, ny, i, x)
          /\ \A k \in 1 .. i - 1 : \A x \in refs[y[k]] \ immortal : Found(y, ny, i, x)
      BY <1>2, <1>3, Zenon DEF MoveInv
    <2> QED
      BY <1>3, <1>5, <1>7, <1>19, <2>1, <2>2, <2>3, Zenon DEF MoveInv
  <1>21. o \notin immortal => Found(y, ny, i, o)'
    <2> SUFFICES ASSUME o \notin immortal PROVE Found(y, ny, i, o)'
      BY Zenon
    <2>1. PICK k \in 1 .. ny : o = y[k]
      BY <1>9, Zenon
    <2>2. CASE k < i
      BY <2>1, <2>2, Zenon DEF Found
    <2>3. CASE ~(k < i)
      <3>1. k \in i .. ny
        BY <1>4, <2>3
      <3>2. collecting[o] /\ ~pv[o].ptr /\ pv[o].val \in Nat
        BY <1>6, <1>7, <2>1, <3>1, Zenon
      <3>3. pv'[o].val > 0
        <4>1. CASE gc_get_refs(o) = 0
          <5>1. pv'[o] = Refs(1)
            BY <1>2, <1>3, <1>4, <3>2, <4>1, Zenon DEF TypeLists
          <5> QED
            BY <5>1, ValFacts
        <4>2. CASE gc_get_refs(o) # 0
          <5>1. pv[o].val # 0 /\ pv' = pv
            BY <1>3, <3>2, <4>2, Zenon DEF gc_get_refs
          <5> QED
            BY <3>2, <5>1
        <4> QED
          BY <4>1, <4>2, Zenon
      <3> QED
        BY <2>1, <3>3, Zenon DEF Found
    <2> QED
      BY <2>2, <2>3, Zenon
  <1>22. VisitInv(y, ny, i)'
    <2>1. i <= ny /\ pv'[y[i]].val > 0 /\ todo' \subseteq refs[y[i]]
      BY AtIndex, <1>3, <1>4, <1>7, <1>12, Zenon
    <2>2. \A x \in (refs[y[i]] \ immortal) \ todo : Found(y, ny, i, x)
      BY <1>2, <1>3, Zenon DEF VisitInv
    <2>3. \A x \in (refs[y[i]] \ immortal) \ todo' : Found(y, ny, i, x)'
      BY <1>3, <1>19, <1>21, <2>2, Zenon
    <2> QED
      BY <1>5, <2>1, <2>3, Zenon DEF VisitInv
  <1>23. /\ UpdateInv(y, ny, i)' /\ SubtractInv(y, ny, i)' /\ RestoreInv(y, ny, i)' /\ MarkInv(y, ny, i)'
         /\ PMoveInv(y, ny, u, nu, i)' /\ SplitInv(y, ny, u, nu)'
    BY <1>3, Zenon DEF UpdateInv, SubtractInv, RestoreInv, MarkInv, PMoveInv, SplitInv
  <1>24. i \in 1 .. ny + 1 /\ gc' = y[i]
    BY EndIndex, <1>3, <1>4, Zenon
  <1>25. ListsInv(y, ny, u, nu, q, nq, i)'
    BY <1>15, <1>16, <1>18, <1>20, <1>22, <1>23, <1>24, Zenon DEF ListsInv
  <1> QED
    BY <1>13, <1>25, Zenon DEF IInv

LEMMA WorkersMarkStep ==
  ASSUME IInv, WorkersMark
  PROVE  IInv'
  <1>1. PICK y, ny, u, nu, q, nq, i : ListsInv(y, ny, u, nu, q, nq, i)
    BY Zenon DEF IInv
  <1>2. TypeLists /\ Split(y, ny, u, nu, q, nq) /\ FlagsInv(y, ny, u, nu, q, nq) /\ MarkInv(y, ny, i)
    BY <1>1, Zenon DEF IInv, ListsInv
  <1>3. /\ pc = "mark" /\ pc' = "pmove" /\ UNCHANGED heap /\ UNCHANGED <<next, umask, gc, prev, todo>>
        /\ pv' = [x \in Node |-> IF x \in Obj /\ collecting[x]
                                   THEN Refs(IF x \in Reachable THEN 1 ELSE 0) ELSE pv[x]]
        /\ collecting' = [x \in Node |-> collecting[x] /\ x \notin Reachable]
    BY Zenon DEF WorkersMark
  <1>4. /\ Cursor(y, ny, i) /\ (\A k \in 1 .. ny : y[k] \in Obj /\ y[k] \in Node) /\ y[0] = YOUNG
        /\ i = 1 /\ prev = YOUNG /\ \A k \in 1 .. ny : collecting[y[k]]
    <2>1. Cursor(y, ny, i)
      BY <1>1, CursorFacts, Zenon
    <2>2. y[0] = YOUNG /\ \A k \in 1 .. ny : y[k] \in Obj
      BY <2>1, Zenon DEF Cursor
    <2>3. i = 1 /\ prev = YOUNG /\ \A k \in 1 .. ny : collecting[y[k]]
      BY <1>2, <1>3, Zenon DEF MarkInv
    <2> QED
      BY <2>1, <2>2, <2>3, NodeFacts, Zenon
  <1>5. /\ Reachable' = Reachable /\ refs' = refs /\ immortal' = immortal
    BY <1>3, HeapFrame, Zenon DEF heap
  <1>6. pv' \in [Node -> Val] /\ collecting' \in [Node -> BOOLEAN]
    <2>1. Refs(1) \in Val /\ Refs(0) \in Val
      BY ValFacts
    <2>2. pv \in [Node -> Val] /\ collecting \in [Node -> BOOLEAN]
      BY <1>2, Zenon DEF TypeLists
    <2> QED
      BY <1>3, <2>1, <2>2, Zenon
  <1>7. TypeLists'
    BY <1>2, <1>3, <1>5, <1>6, Zenon DEF TypeLists
  <1>8. \A x \in Node : x \notin Elems(y, ny) \cup {YOUNG} => pv'[x] = pv[x]
    <2>1. Elems(q, nq) = immortal /\ nu = 0 /\ (\A x \in Node \ Obj : ~collecting[x]) /\ \A x \in immortal : ~collecting[x]
      BY <1>2, <1>3, Zenon DEF FlagsInv
    <2>2. Elems(u, nu) = {}
      BY <2>1 DEF Elems
    <2>3. \A x \in Node : x \notin Elems(y, ny) => ~collecting[x]
      BY <1>2, <2>1, <2>2, Zenon DEF Split
    <2> QED
      BY <1>3, <2>3, Zenon
  <1>9. Split(y, ny, u, nu, q, nq)'
    BY <1>1, <1>3, <1>8, SplitFrame, Zenon
  <1>10. nu = 0 /\ \A x \in Node : ~umask[x]
    BY <1>2, <1>3, Zenon DEF FlagsInv
  <1>11. FlagsInv(y, ny, u, nu, q, nq)'
    <2>1. \A x \in Node : collecting'[x] => collecting[x]
      BY <1>3, Zenon
    <2>2. immortal \subseteq Node
      BY <1>2, NodeFacts, Zenon DEF TypeLists
    <2> QED
      BY <1>2, <1>3, <1>5, <2>1, <2>2, Zenon DEF FlagsInv
  <1>12. \A k \in 1 .. ny : /\ pv'[y[k]] = Refs(IF y[k] \in Reachable THEN 1 ELSE 0)
                            /\ collecting'[y[k]] <=> y[k] \notin Reachable
    BY <1>3, <1>4, Zenon
  <1>13. ScanInv(y, ny, u, nu, i)' /\ PMoveInv(y, ny, u, nu, i)'
    <2>1. /\ 1 - 1 = 0 /\ (\A k \in 1 .. 1 - 1 : FALSE) /\ \A k \in 1 .. nu : FALSE
      BY EndIndex, <1>10, Zenon
    <2>2. prev' = y[1 - 1] /\ Back(pv', y, 1, 1 - 1) /\ ~umask'[YOUNG] /\ \A k \in 1 .. ny : ~umask'[y[k]]
      BY <1>3, <1>4, <1>10, <2>1, NodeFacts, Zenon DEF Back
    <2>3. \A k \in 1 .. ny : ~pv'[y[k]].ptr /\ pv'[y[k]].val = IF y[k] \in Reachable THEN 1 ELSE 0
      BY <1>12, ValFacts, Zenon
    <2>4. ScanInv(y, ny, u, nu, i)'
      BY <1>4, <2>1, <2>2, <2>3, Zenon DEF ScanInv
    <2>5. PMoveInv(y, ny, u, nu, i)'
      BY <1>4, <1>5, <1>12, <2>1, <2>3, Zenon DEF PMoveInv
    <2> QED
      BY <2>4, <2>5, Zenon
  <1>14. /\ UpdateInv(y, ny, i)' /\ SubtractInv(y, ny, i)' /\ RestoreInv(y, ny, i)' /\ MarkInv(y, ny, i)'
         /\ MoveInv(y, ny, i)' /\ VisitInv(y, ny, i)' /\ SplitInv(y, ny, u, nu)'
    BY <1>3, Zenon DEF UpdateInv, SubtractInv, RestoreInv, MarkInv, MoveInv, VisitInv, SplitInv
  <1>15. i \in 1 .. ny + 1 /\ gc' = y[i]
    BY <1>1, <1>3, Zenon DEF ListsInv
  <1>16. ListsInv(y, ny, u, nu, q, nq, i)'
    BY <1>9, <1>11, <1>13, <1>14, <1>15, Zenon DEF ListsInv
  <1> QED
    BY <1>7, <1>16, Zenon DEF IInv

LEMMA ClearMaskStep ==
  ASSUME IInv, clear_unreachable_mask
  PROVE  IInv'
  <1>1. PICK y, ny, u, nu, q, nq, i : ListsInv(y, ny, u, nu, q, nq, i)
    BY Zenon DEF IInv
  <1>2. TypeLists /\ Split(y, ny, u, nu, q, nq) /\ FlagsInv(y, ny, u, nu, q, nq) /\ SplitInv(y, ny, u, nu)
    BY <1>1, Zenon DEF IInv, ListsInv
  <1>3. /\ pc = "deduced" /\ pc' = "done" /\ UNCHANGED heap /\ UNCHANGED <<next, pv, collecting, gc, prev, todo>>
        /\ umask' = [x \in Node |-> umask[x] /\ ~collecting[x]]
    BY Zenon DEF clear_unreachable_mask
  <1>4. Reachable' = Reachable /\ refs' = refs /\ immortal' = immortal
    BY <1>3, HeapFrame, Zenon DEF heap
  <1>5. umask' \in [Node -> BOOLEAN]
    BY <1>2, <1>3, Zenon DEF TypeLists
  <1>6. \A x \in Node : ~umask'[x]
    <2>1. \A x \in Node : umask[x] => collecting[x]
      BY <1>2, <1>3 DEF SplitInv, Elems
    <2> QED
      BY <1>3, <2>1, Zenon
  <1>7. TypeLists' /\ Split(y, ny, u, nu, q, nq)'
    BY <1>2, <1>3, <1>4, <1>5, Zenon DEF TypeLists, Split
  <1>8. FlagsInv(y, ny, u, nu, q, nq)'
    <2>1. immortal \subseteq Node
      BY <1>2, NodeFacts, Zenon DEF TypeLists
    <2> QED
      BY <1>2, <1>3, <1>4, <1>6, <2>1, NodeFacts, Zenon DEF FlagsInv
  <1>9. SplitInv(y, ny, u, nu)'
    BY <1>2, <1>3, <1>4, <1>6, Zenon DEF SplitInv
  <1>10. /\ UpdateInv(y, ny, i)' /\ SubtractInv(y, ny, i)' /\ RestoreInv(y, ny, i)' /\ MarkInv(y, ny, i)'
         /\ ScanInv(y, ny, u, nu, i)' /\ MoveInv(y, ny, i)' /\ VisitInv(y, ny, i)' /\ PMoveInv(y, ny, u, nu, i)'
    BY <1>3, Zenon DEF UpdateInv, SubtractInv, RestoreInv, MarkInv, ScanInv, MoveInv, VisitInv, PMoveInv
  <1>11. i \in 1 .. ny + 1 /\ gc' = y[i]
    BY <1>1, <1>3, Zenon DEF ListsInv
  <1>12. ListsInv(y, ny, u, nu, q, nq, i)'
    BY <1>7, <1>8, <1>9, <1>10, <1>11, Zenon DEF ListsInv
  <1> QED
    BY <1>7, <1>12, Zenon DEF IInv

LEMMA TraverseStep ==
  ASSUME IInv, MoveTraverse
  PROVE  IInv'
  <1>1. PICK y, ny, u, nu, q, nq, i : ListsInv(y, ny, u, nu, q, nq, i)
    BY Zenon DEF IInv
  <1>2. /\ TypeLists /\ Split(y, ny, u, nu, q, nq) /\ FlagsInv(y, ny, u, nu, q, nq)
        /\ ScanInv(y, ny, u, nu, i) /\ MoveInv(y, ny, i)
    BY <1>1, Zenon DEF IInv, ListsInv
  <1>3. /\ Cursor(y, ny, i) /\ ny \in Nat /\ i \in 1 .. ny /\ gc = y[i] /\ gc \in Obj /\ gc \in Elems(y, ny)
        /\ next[gc] = y[i + 1] /\ \A k \in 0 .. ny + 1 : y[k] \in Node /\ (k # i => y[k] # gc)
    <2>1. Cursor(y, ny, i) /\ gc # YOUNG
      BY <1>1, CursorFacts, Zenon DEF MoveTraverse
    <2> QED
      BY <2>1, AtObject, ZenonT(60) DEF Cursor
  <1>4. /\ UNCHANGED heap /\ UNCHANGED links /\ UNCHANGED <<gc, prev>> /\ pc = "move" /\ pc' = "visit"
        /\ todo' = refs[gc] /\ gc_get_refs(gc) > 0
    BY Zenon DEF MoveTraverse
  <1>5. /\ refs' = refs /\ ext' = ext /\ immortal' = immortal /\ next' = next /\ umask' = umask /\ pv' = pv
        /\ collecting' = collecting /\ Reachable' = Reachable /\ Roots' = Roots
    BY <1>4, HeapFrame, Zenon DEF heap, links
  <1>6. TypeLists' /\ Split(y, ny, u, nu, q, nq)'
    BY <1>2, <1>3, <1>4, <1>5, Zenon DEF TypeLists, Split
  <1>7. FlagsInv(y, ny, u, nu, q, nq)' /\ ScanInv(y, ny, u, nu, i)'
    BY <1>2, <1>4, <1>5, Zenon DEF FlagsInv, ScanInv
  <1>8. MoveInv(y, ny, i)'
    BY <1>2, <1>4, <1>5, ZenonT(60) DEF MoveInv, Found
  <1>9. VisitInv(y, ny, i)'
    <2>1. i \in i .. ny /\ i <= ny
      BY AtIndex, <1>3, Zenon
    <2>2. pv[y[i]].val > 0
      BY <1>2, <1>3, <1>4, <2>1, Zenon DEF ScanInv, gc_get_refs
    <2> QED
      BY <1>3, <1>4, <1>5, <2>1, <2>2, Zenon DEF VisitInv
  <1>10. /\ UpdateInv(y, ny, i)' /\ SubtractInv(y, ny, i)' /\ RestoreInv(y, ny, i)' /\ MarkInv(y, ny, i)'
         /\ PMoveInv(y, ny, u, nu, i)' /\ SplitInv(y, ny, u, nu)'
    BY <1>4, Zenon DEF UpdateInv, SubtractInv, RestoreInv, MarkInv, PMoveInv, SplitInv
  <1>11. i \in 1 .. ny + 1 /\ gc' = y[i]
    BY EndIndex, <1>3, <1>4, Zenon
  <1>12. ListsInv(y, ny, u, nu, q, nq, i)'
    BY <1>6, <1>7, <1>8, <1>9, <1>10, <1>11, Zenon DEF ListsInv
  <1> QED
    BY <1>6, <1>12, Zenon DEF IInv

\* The step has relinked the object at the cursor and gone on to the next one.
Relink(y, ny, u, nu, q, nq, i) ==
  /\ ny \in Nat /\ i \in 1 .. ny /\ i + 1 \in 1 .. ny + 1 /\ gc = y[i] /\ gc \in Obj
  /\ gc' = y[i + 1] /\ prev' = y[(i + 1) - 1]
  /\ Split(y, ny, u, nu, q, nq)' /\ pv' \in [Node -> Val] /\ collecting' \in [Node -> BOOLEAN]
  /\ Back(pv', y, 1, (i + 1) - 1) /\ pv'[YOUNG] = pv[YOUNG]
  /\ \A x \in Node : collecting'[x] <=> collecting[x] /\ x # gc
  /\ \A k \in 1 .. ny : k # i => pv'[y[k]] = pv[y[k]] /\ y[k] # gc
  /\ \A k \in 1 .. ny : y[k] \in Obj /\ y[k] \in Node
  /\ \A k \in 1 .. nu : u[k] \in Node /\ u[k] # gc

\* An object that stays in young gets its pointer back and loses the flag.
LEMMA Relinked ==
  ASSUME NEW y, NEW ny, NEW u, NEW nu, NEW q, NEW nq, NEW i, ListsInv(y, ny, u, nu, q, nq, i), TypeLists,
         gc # YOUNG, prev = y[i - 1], Back(pv, y, 1, i - 1), UNCHANGED next,
         pv' = [pv EXCEPT ![gc] = Ptr(prev)], collecting' = [collecting EXCEPT ![gc] = FALSE],
         prev' = gc, gc' = GC_NEXT(gc)
  PROVE  Relink(y, ny, u, nu, q, nq, i)
  <1>1. /\ Cursor(y, ny, i) /\ ny \in Nat /\ i \in 1 .. ny /\ gc = y[i] /\ gc \in Obj /\ gc \in Elems(y, ny)
        /\ next[gc] = y[i + 1] /\ \A k \in 0 .. ny + 1 : y[k] \in Node /\ (k # i => y[k] # gc)
    <2>1. Cursor(y, ny, i) /\ gc # YOUNG
      BY CursorFacts, Zenon
    <2> QED
      BY <2>1, AtObject, ZenonT(60) DEF Cursor
  <1>2. /\ i + 1 \in 1 .. ny + 1 /\ (i + 1) - 1 = i /\ i - 1 \in 0 .. ny + 1
        /\ \A k \in 1 .. ny : k \in 0 .. ny + 1
    BY AtIndex, <1>1, Zenon
  <1>3. gc' = y[i + 1] /\ prev' = y[(i + 1) - 1]
    BY <1>1, <1>2, Zenon DEF GC_NEXT
  <1>4. /\ gc \in Node /\ prev \in Node /\ YOUNG \in Node /\ Ptr(prev) \in Val
    BY <1>1, <1>2, NodeFacts, ValFacts, Zenon
  <1>5. /\ pv'[gc] = Ptr(prev) /\ \A x \in Node : x # gc => pv'[x] = pv[x]
    BY <1>4, Zenon DEF TypeLists
  <1>6. pv' \in [Node -> Val]
    BY <1>4, Zenon DEF TypeLists
  <1>7. collecting' \in [Node -> BOOLEAN] /\ \A x \in Node : collecting'[x] <=> collecting[x] /\ x # gc
    BY <1>4, Zenon DEF TypeLists
  <1>8. \A x \in Node : x \notin Elems(y, ny) \cup {YOUNG} => pv'[x] = pv[x]
    BY <1>1, <1>5, Zenon
  <1>9. Split(y, ny, u, nu, q, nq)'
    BY <1>8, SplitFrame, Zenon
  <1>10. Back(pv', y, 1, (i + 1) - 1)
    <2>1. ASSUME NEW k \in 1 .. (i + 1) - 1
          PROVE  pv'[y[k]] = Ptr(y[k - 1])
      <3>1. CASE k = i
        BY <1>1, <1>5, <3>1, Zenon
      <3>2. CASE k # i
        <4>1. k \in 1 .. i - 1 /\ k \in 0 .. ny + 1
          BY <1>1, <3>2
        <4>2. y[k] \in Node /\ y[k] # gc
          BY <1>1, <3>2, <4>1, Zenon
        <4> QED
          BY <1>5, <4>1, <4>2, Zenon DEF Back
      <3> QED
        BY <3>1, <3>2, Zenon
    <2> QED
      BY <2>1, Zenon DEF Back
  <1>11. \A k \in 1 .. ny : k # i => pv'[y[k]] = pv[y[k]] /\ y[k] # gc
    BY <1>1, <1>2, <1>5, Zenon
  <1>12. \A k \in 1 .. ny : y[k] \in Obj /\ y[k] \in Node
    BY <1>1, <1>2, Zenon DEF Cursor
  <1>13. \A k \in 1 .. nu : u[k] \in Node /\ u[k] # gc
    <2>1. \A k \in 1 .. nu : u[k] \in Obj /\ u[k] \in Elems(u, nu)
      BY CursorFacts, Zenon
    <2>2. Elems(y, ny) \cap Elems(u, nu) = {}
      BY Zenon DEF ListsInv, Split
    <2> QED
      BY <1>1, <2>1, <2>2, NodeFacts, Zenon
  <1> QED
    BY <1>1, <1>2, <1>3, <1>4, <1>5, <1>6, <1>7, <1>9, <1>10, <1>11, <1>12, <1>13, Zenon DEF Relink

LEMMA RestoreStep ==
  ASSUME IInv, RestorePrev
  PROVE  IInv'
  <1>1. PICK y, ny, u, nu, q, nq, i : ListsInv(y, ny, u, nu, q, nq, i)
    BY Zenon DEF IInv
  <1>2. TypeLists /\ FlagsInv(y, ny, u, nu, q, nq) /\ RestoreInv(y, ny, i)
    BY <1>1, Zenon DEF IInv, ListsInv
  <1>3. /\ UNCHANGED heap /\ UNCHANGED <<next, umask, pc, todo>> /\ pc = "restore" /\ gc # YOUNG
        /\ pv' = [pv EXCEPT ![gc] = Ptr(prev)] /\ collecting' = [collecting EXCEPT ![gc] = FALSE]
        /\ prev' = gc /\ gc' = GC_NEXT(gc)
    BY Zenon DEF RestorePrev
  <1>4. prev = y[i - 1] /\ Back(pv, y, 1, i - 1) /\ pv[YOUNG] = Ptr(y[ny])
    BY <1>2, <1>3, Zenon DEF RestoreInv
  <1>5. Relink(y, ny, u, nu, q, nq, i)
    BY <1>1, <1>2, <1>3, <1>4, Relinked, Zenon
  <1>6. TypeLists'
    BY <1>2, <1>3, <1>5, Zenon DEF TypeLists, heap, Relink
  <1>7. FlagsInv(y, ny, u, nu, q, nq)'
    BY <1>2, <1>3, <1>5, NodeFacts, Zenon DEF FlagsInv, TypeLists, heap, Relink
  <1>8. RestoreInv(y, ny, i + 1)'
    <2>1. \A k \in 1 .. (i + 1) - 1 : ~collecting'[y[k]]
      <3>1. \A k \in 1 .. (i + 1) - 1 : k \in 1 .. ny /\ (k = i \/ k \in 1 .. i - 1)
        BY <1>5 DEF Relink
      <3>2. \A k \in 1 .. i - 1 : ~collecting[y[k]]
        BY <1>2, <1>3, Zenon DEF RestoreInv
      <3> QED
        BY <1>5, <3>1, <3>2, Zenon DEF Relink
    <2> QED
      BY <1>4, <1>5, <2>1, Zenon DEF RestoreInv, Relink
  <1>9. /\ UpdateInv(y, ny, i + 1)' /\ SubtractInv(y, ny, i + 1)' /\ MarkInv(y, ny, i + 1)'
        /\ ScanInv(y, ny, u, nu, i + 1)' /\ MoveInv(y, ny, i + 1)' /\ VisitInv(y, ny, i + 1)'
        /\ PMoveInv(y, ny, u, nu, i + 1)' /\ SplitInv(y, ny, u, nu)'
    BY <1>3, Zenon DEF UpdateInv, SubtractInv, MarkInv, ScanInv, MoveInv, VisitInv, PMoveInv, SplitInv
  <1>10. ListsInv(y, ny, u, nu, q, nq, i + 1)'
    BY <1>5, <1>7, <1>8, <1>9, Zenon DEF ListsInv, Relink
  <1> QED
    BY <1>6, <1>10, Zenon DEF IInv

LEMMA RestoreDoneStep ==
  ASSUME IInv, RestoreDone
  PROVE  IInv'
  <1>1. PICK y, ny, u, nu, q, nq, i : ListsInv(y, ny, u, nu, q, nq, i)
    BY Zenon DEF IInv
  <1>2. TypeLists /\ Split(y, ny, u, nu, q, nq) /\ FlagsInv(y, ny, u, nu, q, nq) /\ RestoreInv(y, ny, i)
    BY <1>1, Zenon DEF IInv, ListsInv
  <1>3. /\ Cursor(y, ny, i) /\ ny \in Nat /\ i = ny + 1 /\ y[0] = YOUNG /\ y[ny + 1] = YOUNG
        /\ next[YOUNG] = y[1] /\ \A k \in 1 .. ny : y[k] \in Obj /\ y[k] \in Node
    <2>1. Cursor(y, ny, i) /\ gc = YOUNG
      BY <1>1, CursorFacts, Zenon DEF RestoreDone
    <2>2. ny \in Nat /\ i = ny + 1
      BY <2>1, AtEnd, Zenon
    <2>3. 0 \in 0 .. ny /\ 0 + 1 = 1
      BY EndIndex, <2>2, Zenon
    <2> QED
      BY <2>1, <2>2, <2>3, NodeFacts, Zenon DEF Cursor
  <1>4. UNCHANGED heap /\ UNCHANGED links /\ UNCHANGED todo /\ pc = "restore" /\ pc' = "update" /\ gc' = y[1]
    BY <1>3, Zenon DEF RestoreDone, GC_NEXT
  <1>5. /\ refs' = refs /\ ext' = ext /\ immortal' = immortal /\ next' = next /\ umask' = umask /\ pv' = pv
        /\ collecting' = collecting
    BY <1>4, Zenon DEF heap, links
  <1>6. TypeLists' /\ Split(y, ny, u, nu, q, nq)'
    BY <1>2, <1>4, <1>5, Zenon DEF TypeLists, Split
  <1>7. FlagsInv(y, ny, u, nu, q, nq)'
    BY <1>2, <1>4, <1>5, Zenon DEF FlagsInv
  <1>8. UpdateInv(y, ny, 1)'
    <2>1. /\ 1 .. i - 1 = 1 .. ny /\ (\A k \in 1 .. 1 - 1 : FALSE)
          /\ \A k \in 1 .. ny + 1 : k \in 1 .. ny \/ (k = ny + 1 /\ k - 1 = ny)
      BY EndIndex, <1>3, Zenon
    <2>2. Back(pv, y, 1, ny) /\ pv[YOUNG] = Ptr(y[ny]) /\ \A k \in 1 .. ny : ~collecting[y[k]]
      BY EndIndex, <1>2, <1>3, <1>4, <2>1, Zenon DEF RestoreInv
    <2>3. Back(pv, y, 1, ny + 1)
      BY <1>3, <2>1, <2>2, Zenon DEF Back
    <2> QED
      BY <1>4, <1>5, <2>1, <2>2, <2>3, Zenon DEF UpdateInv
  <1>9. /\ SubtractInv(y, ny, 1)' /\ RestoreInv(y, ny, 1)' /\ MarkInv(y, ny, 1)'
        /\ ScanInv(y, ny, u, nu, 1)' /\ MoveInv(y, ny, 1)' /\ VisitInv(y, ny, 1)'
        /\ PMoveInv(y, ny, u, nu, 1)' /\ SplitInv(y, ny, u, nu)'
    BY <1>4, Zenon DEF SubtractInv, RestoreInv, MarkInv, ScanInv, MoveInv, VisitInv, PMoveInv, SplitInv
  <1>10. 1 \in 1 .. ny + 1
    BY EndIndex, <1>3, Zenon
  <1>11. ListsInv(y, ny, u, nu, q, nq, 1)'
    BY <1>4, <1>6, <1>7, <1>8, <1>9, <1>10, Zenon DEF ListsInv
  <1> QED
    BY <1>6, <1>11, Zenon DEF IInv

LEMMA RelinkStep ==
  ASSUME IInv, MoveRelink
  PROVE  IInv'
  <1>1. PICK y, ny, u, nu, q, nq, i : ListsInv(y, ny, u, nu, q, nq, i)
    BY Zenon DEF IInv
  <1>2. /\ TypeLists /\ FlagsInv(y, ny, u, nu, q, nq) /\ ScanInv(y, ny, u, nu, i)
        /\ MoveInv(y, ny, i) /\ VisitInv(y, ny, i)
    BY <1>1, Zenon DEF IInv, ListsInv
  <1>3. /\ UNCHANGED heap /\ UNCHANGED <<next, umask, todo>> /\ pc = "visit" /\ pc' = "move" /\ todo = {}
        /\ pv' = [pv EXCEPT ![gc] = Ptr(prev)] /\ collecting' = [collecting EXCEPT ![gc] = FALSE]
        /\ prev' = gc /\ gc' = GC_NEXT(gc)
    BY Zenon DEF MoveRelink
  <1>4. prev = y[i - 1] /\ Back(pv, y, 1, i - 1) /\ gc # YOUNG
    <2>1. i <= ny /\ Cursor(y, ny, i)
      BY <1>1, <1>2, <1>3, CursorFacts, Zenon DEF VisitInv
    <2>2. gc \in Obj
      BY <2>1 DEF Cursor
    <2> QED
      BY <1>2, <1>3, <2>2, NodeFacts, Zenon DEF ScanInv
  <1>5. Relink(y, ny, u, nu, q, nq, i)
    BY <1>1, <1>2, <1>3, <1>4, Relinked, Zenon
  <1>6. TypeLists'
    BY <1>2, <1>3, <1>5, Zenon DEF TypeLists, heap, Relink
  <1>7. FlagsInv(y, ny, u, nu, q, nq)'
    BY <1>2, <1>3, <1>5, NodeFacts, Zenon DEF FlagsInv, TypeLists, heap, Relink
  <1>8. /\ Reachable' = Reachable /\ Roots' = Roots /\ refs' = refs /\ immortal' = immortal /\ umask' = umask
    BY <1>3, HeapFrame, Zenon DEF heap
  <1>9. /\ \A k \in 1 .. (i + 1) - 1 : k \in 1 .. ny /\ (k = i \/ k \in 1 .. i - 1)
        /\ \A k \in (i + 1) .. ny : k \in i .. ny /\ k \in 1 .. ny /\ k # i
        /\ i \in i .. ny /\ i \in 1 .. ny
    BY <1>5 DEF Relink
  <1>10. y[i] \in Reachable
    BY <1>2, <1>3, <1>9, Zenon DEF MoveInv, VisitInv
  <1>11. ScanInv(y, ny, u, nu, i + 1)'
    <2>1. \A k \in 1 .. (i + 1) - 1 : ~collecting'[y[k]] /\ y[k] \in Reachable
      <3>1. \A k \in 1 .. i - 1 : ~collecting[y[k]] /\ y[k] \in Reachable
        BY <1>2, <1>3, Zenon DEF ScanInv
      <3> QED
        BY <1>5, <1>9, <1>10, <3>1, Zenon DEF Relink
    <2>2. \A k \in (i + 1) .. ny : ~pv'[y[k]].ptr
      BY <1>2, <1>3, <1>5, <1>9, Zenon DEF ScanInv, Relink
    <2>3. /\ \A k \in 1 .. ny : ~umask[y[k]]
          /\ ~umask[YOUNG]
          /\ \A k \in 1 .. nu : collecting'[u[k]] /\ umask[u[k]]
      BY <1>2, <1>3, <1>5, Zenon DEF ScanInv, Relink
    <2> QED
      BY <1>5, <1>8, <2>1, <2>2, <2>3, Zenon DEF ScanInv, Relink
  <1>12. MoveInv(y, ny, i + 1)'
    <2>1. \A k \in (i + 1) .. ny : /\ collecting'[y[k]] /\ pv'[y[k]].val \in Nat
                                   /\ pv'[y[k]].val > 0 => y[k] \in Reachable
      <3>1. \A k \in i .. ny : /\ collecting[y[k]] /\ pv[y[k]].val \in Nat
                               /\ pv[y[k]].val > 0 => y[k] \in Reachable
        BY <1>2, <1>3, Zenon DEF MoveInv
      <3>2. \A k \in (i + 1) .. ny : pv'[y[k]] = pv[y[k]] /\ (collecting'[y[k]] <=> collecting[y[k]])
        BY <1>5, <1>9, Zenon DEF Relink
      <3> QED
        BY <1>9, <3>1, <3>2, Zenon
    <2>2. pv'[YOUNG] = Ptr(y[ny])
      BY <1>2, <1>3, <1>5, Zenon DEF MoveInv, VisitInv, Relink
    <2>3. ASSUME NEW o, Found(y, ny, i, o)
          PROVE  Found(y, ny, i + 1, o)'
      <3>1. PICK k \in 1 .. ny : o = y[k] /\ (k < i \/ pv[y[k]].val > 0)
        BY <2>3, Zenon DEF Found
      <3>2. k < i + 1 \/ (k # i /\ pv[y[k]].val > 0)
        BY <1>5, <3>1 DEF Relink
      <3>3. k < i + 1 \/ pv'[y[k]].val > 0
        BY <1>5, <3>2, Zenon DEF Relink
      <3> QED
        BY <3>1, <3>3, Zenon DEF Found
    <2>4. \A o \in Roots : Found(y, ny, i, o)
      BY <1>2, <1>3, Zenon DEF MoveInv
    <2>5. \A k \in 1 .. (i + 1) - 1 : \A o \in refs[y[k]] \ immortal : Found(y, ny, i, o)
      <3>1. \A k \in 1 .. i - 1 : \A o \in refs[y[k]] \ immortal : Found(y, ny, i, o)
        BY <1>2, <1>3, Zenon DEF MoveInv
      <3>2. \A o \in refs[y[i]] \ immortal : Found(y, ny, i, o)
        BY <1>2, <1>3, Zenon DEF VisitInv
      <3> QED
        BY <1>9, <3>1, <3>2, Zenon
    <2> QED
      BY <1>8, <2>1, <2>2, <2>3, <2>4, <2>5, Zenon DEF MoveInv
  <1>13. /\ UpdateInv(y, ny, i + 1)' /\ SubtractInv(y, ny, i + 1)' /\ RestoreInv(y, ny, i + 1)'
         /\ MarkInv(y, ny, i + 1)' /\ VisitInv(y, ny, i + 1)'
         /\ PMoveInv(y, ny, u, nu, i + 1)' /\ SplitInv(y, ny, u, nu)'
    BY <1>3, Zenon DEF UpdateInv, SubtractInv, RestoreInv, MarkInv, VisitInv, PMoveInv, SplitInv
  <1>14. ListsInv(y, ny, u, nu, q, nq, i + 1)'
    BY <1>5, <1>7, <1>11, <1>12, <1>13, Zenon DEF ListsInv, Relink
  <1> QED
    BY <1>6, <1>14, Zenon DEF IInv

LEMMA PMoveReachableStep ==
  ASSUME IInv, PMoveReachable
  PROVE  IInv'
  <1>1. PICK y, ny, u, nu, q, nq, i : ListsInv(y, ny, u, nu, q, nq, i)
    BY Zenon DEF IInv
  <1>2. /\ TypeLists /\ FlagsInv(y, ny, u, nu, q, nq) /\ ScanInv(y, ny, u, nu, i) /\ PMoveInv(y, ny, u, nu, i)
    BY <1>1, Zenon DEF IInv, ListsInv
  <1>3. /\ UNCHANGED heap /\ UNCHANGED <<next, umask, todo, pc>> /\ pc = "pmove" /\ gc_get_refs(gc) # 0
        /\ pv' = [pv EXCEPT ![gc] = Ptr(prev)] /\ collecting' = [collecting EXCEPT ![gc] = FALSE]
        /\ prev' = gc /\ gc' = GC_NEXT(gc) /\ gc # YOUNG
    BY Zenon DEF PMoveReachable
  <1>4. prev = y[i - 1] /\ Back(pv, y, 1, i - 1)
    BY <1>2, <1>3, Zenon DEF ScanInv
  <1>5. Relink(y, ny, u, nu, q, nq, i)
    BY <1>1, <1>2, <1>3, <1>4, Relinked, Zenon
  <1>6. TypeLists'
    BY <1>2, <1>3, <1>5, Zenon DEF TypeLists, heap, Relink
  <1>7. FlagsInv(y, ny, u, nu, q, nq)'
    BY <1>2, <1>3, <1>5, NodeFacts, Zenon DEF FlagsInv, TypeLists, heap, Relink
  <1>8. /\ Reachable' = Reachable /\ umask' = umask
    BY <1>3, HeapFrame, Zenon
  <1>9. /\ \A k \in 1 .. (i + 1) - 1 : k \in 1 .. ny /\ (k = i \/ k \in 1 .. i - 1)
        /\ \A k \in (i + 1) .. ny : k \in i .. ny /\ k \in 1 .. ny /\ k # i
        /\ i \in i .. ny /\ i \in 1 .. ny
    BY <1>5 DEF Relink
  <1>10. y[i] \in Reachable
    <2>1. gc = y[i] /\ ~pv[y[i]].ptr /\ pv[y[i]].val = IF y[i] \in Reachable THEN 1 ELSE 0
      BY <1>2, <1>3, <1>5, <1>9, Zenon DEF ScanInv, PMoveInv, Relink
    <2> QED
      BY <1>3, <2>1, Zenon DEF gc_get_refs
  <1>11. ScanInv(y, ny, u, nu, i + 1)'
    <2>1. \A k \in 1 .. (i + 1) - 1 : ~collecting'[y[k]] /\ y[k] \in Reachable
      <3>1. \A k \in 1 .. i - 1 : ~collecting[y[k]] /\ y[k] \in Reachable
        BY <1>2, <1>3, Zenon DEF ScanInv
      <3> QED
        BY <1>5, <1>9, <1>10, <3>1, Zenon DEF Relink
    <2>2. \A k \in (i + 1) .. ny : ~pv'[y[k]].ptr
      BY <1>2, <1>3, <1>5, <1>9, Zenon DEF ScanInv, Relink
    <2>3. /\ \A k \in 1 .. ny : ~umask[y[k]]
          /\ ~umask[YOUNG]
          /\ \A k \in 1 .. nu : collecting'[u[k]] /\ umask[u[k]]
      BY <1>2, <1>3, <1>5, Zenon DEF ScanInv, Relink
    <2> QED
      BY <1>5, <1>8, <2>1, <2>2, <2>3, Zenon DEF ScanInv, Relink
  <1>12. PMoveInv(y, ny, u, nu, i + 1)'
    <2>1. \A k \in (i + 1) .. ny : /\ pv'[y[k]].val = IF y[k] \in Reachable THEN 1 ELSE 0
                                   /\ y[k] \notin Reachable => collecting'[y[k]]
      BY <1>2, <1>3, <1>5, <1>9, ZenonT(60) DEF PMoveInv, Relink
    <2> QED
      BY <1>2, <1>3, <1>8, <2>1, Zenon DEF PMoveInv
  <1>13. /\ UpdateInv(y, ny, i + 1)' /\ SubtractInv(y, ny, i + 1)' /\ RestoreInv(y, ny, i + 1)'
         /\ MarkInv(y, ny, i + 1)' /\ VisitInv(y, ny, i + 1)' /\ MoveInv(y, ny, i + 1)' /\ SplitInv(y, ny, u, nu)'
    BY <1>3, Zenon DEF UpdateInv, SubtractInv, RestoreInv, MarkInv, VisitInv, MoveInv, SplitInv
  <1>14. ListsInv(y, ny, u, nu, q, nq, i + 1)'
    BY <1>5, <1>7, <1>11, <1>12, <1>13, Zenon DEF ListsInv, Relink
  <1> QED
    BY <1>6, <1>14, Zenon DEF IInv

\* The end of move_unreachable, serial or parallel.
LEMMA Concluded ==
  ASSUME NEW y, NEW ny, NEW u, NEW nu, NEW q, NEW nq, NEW i, ListsInv(y, ny, u, nu, q, nq, i), TypeLists,
         pc \in {"move", "pmove"}, pc' = "deduced", gc = YOUNG, gc' = gc, UNCHANGED heap,
         UNCHANGED <<next, collecting, todo>>, pv' = [pv EXCEPT ![YOUNG] = Ptr(prev)],
         umask' \in [Node -> BOOLEAN], \A x \in Node : umask'[x] <=> umask[x] /\ x # UNREACHABLE,
         Reachable \subseteq Elems(y, ny)
  PROVE  IInv'
  <1>1. Split(y, ny, u, nu, q, nq) /\ FlagsInv(y, ny, u, nu, q, nq) /\ ScanInv(y, ny, u, nu, i)
    BY Zenon DEF ListsInv
  <1>2. /\ Cursor(y, ny, i) /\ ny \in Nat /\ i = ny + 1 /\ y[0] = YOUNG /\ y[ny + 1] = YOUNG
        /\ (\A k \in 1 .. ny : y[k] \in Obj) /\ i - 1 = ny
    <2>1. Cursor(y, ny, i) /\ ny \in Nat /\ i = ny + 1
      BY CursorFacts, AtEnd
    <2>2. i - 1 = ny
      BY EndIndex, <2>1, Zenon
    <2>3. y[0] = YOUNG /\ y[ny + 1] = YOUNG /\ \A k \in 1 .. ny : y[k] \in Obj
      BY <2>1, Zenon DEF Cursor
    <2> QED
      BY <2>1, <2>2, <2>3, Zenon
  <1>3. /\ prev = y[ny] /\ Back(pv, y, 1, ny) /\ (\A k \in 1 .. ny : ~collecting[y[k]] /\ y[k] \in Reachable)
        /\ (\A k \in 1 .. ny : ~umask[y[k]]) /\ ~umask[YOUNG]
        /\ \A k \in 1 .. nu : collecting[u[k]] /\ umask[u[k]]
    BY <1>1, <1>2, Zenon DEF ScanInv
  <1>4. Elems(y, ny) = Reachable /\ Elems(q, nq) = immortal
    BY <1>1, <1>3 DEF FlagsInv, Elems
  <1>5. Elems(u, nu) = Obj \ (Reachable \cup immortal)
    BY <1>1, <1>4, Zenon DEF Split
  <1>6. /\ YOUNG \in Node /\ Ptr(prev) \in Val
    <2>1. ny \in 0 .. ny + 1
      BY EndIndex, <1>2, Zenon
    <2> QED
      BY <1>2, <1>3, <2>1, NodeFacts, ValFacts, Zenon DEF Cursor
  <1>7. pv' \in [Node -> Val] /\ pv'[YOUNG] = Ptr(y[ny]) /\ \A x \in Node : x # YOUNG => pv'[x] = pv[x]
    BY AtIndex, <1>3, <1>6, ZenonT(60) DEF TypeLists
  <1>8. TypeLists'
    BY <1>7, Zenon DEF TypeLists, heap
  <1>9. Split(y, ny, u, nu, q, nq)'
    BY <1>7, SplitFrame, Zenon
  <1>10. FlagsInv(y, ny, u, nu, q, nq)'
    BY <1>1, <1>4, NodeFacts, Zenon DEF FlagsInv, TypeLists, heap
  <1>11. Back(pv', y, 1, ny + 1)
    <2>1. ASSUME NEW k \in 1 .. ny + 1 PROVE pv'[y[k]] = Ptr(y[k - 1])
      <3>1. CASE k = ny + 1
        BY <1>2, <1>7, <3>1, Zenon
      <3>2. CASE k # ny + 1
        <4>1. k \in 1 .. ny
          BY EndIndex, <1>2, <3>2, Zenon
        <4>2. y[k] \in Node /\ y[k] # YOUNG
          BY <1>2, <4>1, NodeFacts, Zenon
        <4> QED
          BY <1>3, <1>7, <4>1, <4>2, Zenon DEF Back
      <3> QED
        BY <3>1, <3>2, Zenon
    <2> QED
      BY <2>1, Zenon DEF Back
  <1>12. \A x \in Node : umask'[x] <=> x \in Elems(u, nu)
    <2>1. /\ (\A x \in Elems(u, nu) : umask[x]) /\ (\A x \in Elems(y, ny) : ~umask[x])
          /\ (\A x \in immortal : ~umask[x]) /\ ~umask[PERMANENT] /\ ~umask[YOUNG]
      BY <1>1, <1>3 DEF FlagsInv, Elems
    <2>2. \A x \in Node : x \in Obj \/ x = YOUNG \/ x = PERMANENT \/ x = UNREACHABLE
      BY Zenon DEF Node
    <2>3. \A x \in Obj : x \in Elems(u, nu) \/ x \in Elems(y, ny) \/ x \in immortal
      BY <1>4, <1>5, Zenon
    <2>4. \A x \in Elems(u, nu) : x \in Obj
      BY <1>5, Zenon
    <2>5. \A x \in Elems(u, nu) : x \in Node /\ x # UNREACHABLE
      BY <2>4, NodeFacts, Zenon
    <2> QED
      BY <2>1, <2>2, <2>3, <2>5, Zenon
  <1>13. SplitInv(y, ny, u, nu)'
    <2>1. Reachable' = Reachable /\ immortal' = immortal
      BY HeapFrame, Zenon DEF heap
    <2> QED
      BY <1>3, <1>4, <1>5, <1>11, <1>12, <2>1, Zenon DEF SplitInv, Elems
  <1>14. /\ UpdateInv(y, ny, i)' /\ SubtractInv(y, ny, i)' /\ RestoreInv(y, ny, i)' /\ MarkInv(y, ny, i)'
         /\ ScanInv(y, ny, u, nu, i)' /\ MoveInv(y, ny, i)' /\ VisitInv(y, ny, i)' /\ PMoveInv(y, ny, u, nu, i)'
    BY Zenon DEF UpdateInv, SubtractInv, RestoreInv, MarkInv, ScanInv, MoveInv, VisitInv, PMoveInv
  <1>15. i \in 1 .. ny + 1 /\ gc' = y[i]
    BY EndIndex, <1>2, Zenon
  <1>16. ListsInv(y, ny, u, nu, q, nq, i)'
    BY <1>9, <1>10, <1>13, <1>14, <1>15, Zenon DEF ListsInv
  <1> QED
    BY <1>8, <1>16, Zenon DEF IInv

LEMMA MoveDoneStep ==
  ASSUME IInv, MoveDone
  PROVE  IInv'
  <1>1. PICK y, ny, u, nu, q, nq, i : ListsInv(y, ny, u, nu, q, nq, i)
    BY Zenon DEF IInv
  <1>2. /\ TypeLists /\ Split(y, ny, u, nu, q, nq) /\ FlagsInv(y, ny, u, nu, q, nq)
        /\ ScanInv(y, ny, u, nu, i) /\ MoveInv(y, ny, i)
    BY <1>1, Zenon DEF IInv, ListsInv
  <1>3. /\ pc = "move" /\ pc' = "deduced" /\ gc = YOUNG /\ gc' = gc /\ UNCHANGED heap
        /\ UNCHANGED <<next, collecting, todo>> /\ pv' = [pv EXCEPT ![YOUNG] = Ptr(prev)]
        /\ umask' = [umask EXCEPT ![YOUNG] = FALSE, ![UNREACHABLE] = FALSE]
    BY Zenon DEF MoveDone
  <1>4. umask' \in [Node -> BOOLEAN] /\ \A x \in Node : umask'[x] <=> umask[x] /\ x # UNREACHABLE
    <2>1. umask' \in [Node -> BOOLEAN] /\ \A x \in Node : umask'[x] <=> umask[x] /\ x # UNREACHABLE /\ x # YOUNG
      BY <1>2, <1>3, NodeFacts, Zenon DEF TypeLists
    <2>2. ~umask[YOUNG]
      BY <1>2, <1>3, Zenon DEF ScanInv
    <2> QED
      BY <2>1, <2>2, Zenon
  <1>5. Reachable \subseteq Elems(y, ny)
    <2>1. Elems(y, ny) \in SUBSET (Obj \ immortal)
      BY <1>2, <1>3, Zenon DEF Split, FlagsInv
    <2>2. \A o : Found(y, ny, i, o) => o \in Elems(y, ny)
      BY Zenon DEF Found, Elems
    <2>3. Roots \subseteq Elems(y, ny)
      BY <1>2, <1>3, <2>2, Zenon DEF MoveInv
    <2>4. i - 1 = ny
      BY <1>1, <1>3, CursorFacts, AtEnd
    <2>5. \A k \in 1 .. ny : \A o \in refs[y[k]] \ immortal : o \in Elems(y, ny)
      BY <1>2, <1>3, <2>2, <2>4, Zenon DEF MoveInv
    <2>6. \A p \in Elems(y, ny) : refs[p] \ immortal \subseteq Elems(y, ny)
      BY <2>5, Zenon DEF Elems
    <2>7. refs \in [Obj -> SUBSET Obj]
      BY <1>2, Zenon DEF TypeLists
    <2> QED
      BY <2>1, <2>3, <2>6, <2>7, ReachableFacts, Zenon
  <1> QED
    BY <1>1, <1>2, <1>3, <1>4, <1>5, Concluded, Zenon

LEMMA PMoveDoneStep ==
  ASSUME IInv, PMoveDone
  PROVE  IInv'
  <1>1. PICK y, ny, u, nu, q, nq, i : ListsInv(y, ny, u, nu, q, nq, i)
    BY Zenon DEF IInv
  <1>2. /\ TypeLists /\ Split(y, ny, u, nu, q, nq) /\ FlagsInv(y, ny, u, nu, q, nq) /\ PMoveInv(y, ny, u, nu, i)
    BY <1>1, Zenon DEF IInv, ListsInv
  <1>3. /\ pc = "pmove" /\ pc' = "deduced" /\ gc = YOUNG /\ gc' = gc /\ UNCHANGED heap
        /\ UNCHANGED <<next, collecting, todo>> /\ pv' = [pv EXCEPT ![YOUNG] = Ptr(prev)]
        /\ umask' = [umask EXCEPT ![UNREACHABLE] = FALSE]
    BY Zenon DEF PMoveDone
  <1>4. umask' \in [Node -> BOOLEAN] /\ \A x \in Node : umask'[x] <=> umask[x] /\ x # UNREACHABLE
    BY <1>2, <1>3, NodeFacts, Zenon DEF TypeLists
  <1>5. Reachable \subseteq Elems(y, ny)
    <2>1. Reachable \subseteq Obj \ immortal
      BY <1>2, ReachableFacts, Zenon DEF TypeLists
    <2>2. Elems(u, nu) \cap Reachable = {}
      BY <1>2, <1>3, Zenon DEF PMoveInv, Elems
    <2> QED
      BY <1>2, <1>3, <2>1, <2>2, Zenon DEF Split, FlagsInv
  <1> QED
    BY <1>1, <1>2, <1>3, <1>4, <1>5, Concluded, Zenon

-----------------------------------------------------------------------------
(* The steps that move an object to another list.                          *)

\* The list without its i-th object, and with an object more.
Removed(p, n, i) == [k \in 0 .. n |-> IF k < i THEN p[k] ELSE p[k + 1]]
Appended(p, n, o) == [k \in 0 .. n + 2 |-> IF k = n + 1 THEN o ELSE IF k = n + 2 THEN p[0] ELSE p[k]]

\* gc_list_move, on _gc_next: the i-th object of p goes to the end of r.
TwoLists(nx, p, n, h, r, m, g) ==
  /\ nx \in [Node -> Node] /\ Path(nx, p, n, h) /\ Path(nx, r, m, g)
  /\ h \in Node \ Obj /\ g \in Node \ Obj /\ h # g /\ Elems(p, n) \cap Elems(r, m) = {}

MovedTo(nx, nx2, p, n, h, r, m, g, i) ==
  /\ nx2 \in [Node -> Node]
  /\ Path(nx2, Removed(p, n, i), n - 1, h) /\ Path(nx2, Appended(r, m, p[i]), m + 1, g)
  /\ \A x \in Node \ {p[i - 1], r[m], p[i]} : nx2[x] = nx[x]
  /\ Elems(Removed(p, n, i), n - 1) = Elems(p, n) \ {p[i]}
  /\ Elems(Appended(r, m, p[i]), m + 1) = Elems(r, m) \cup {p[i]}

LEMMA Moved ==
  ASSUME NEW nx, NEW p, NEW n, NEW h, NEW r, NEW m, NEW g, TwoLists(nx, p, n, h, r, m, g), NEW i \in 1 .. n,
         NEW nx2, nx2 = [nx EXCEPT ![p[i - 1]] = p[i + 1], ![r[m]] = p[i], ![p[i]] = g]
  PROVE  MovedTo(nx, nx2, p, n, h, r, m, g, i)
  <1>0. /\ nx \in [Node -> Node] /\ Path(nx, p, n, h) /\ Path(nx, r, m, g)
        /\ h \in Node \ Obj /\ g \in Node \ Obj /\ h # g /\ Elems(p, n) \cap Elems(r, m) = {}
    BY Zenon DEF TwoLists
  <1> USE <1>0
  <1> DEFINE s == Removed(p, n, i)
             t == Appended(r, m, p[i])
  <1>1. /\ n \in Nat /\ p \in [0 .. n + 1 -> Node] /\ p[0] = h /\ p[n + 1] = h
        /\ (\A k \in 0 .. n : nx[p[k]] = p[k + 1]) /\ (\A k \in 1 .. n : p[k] \in Obj)
        /\ \A j, k \in 1 .. n : p[j] = p[k] => j = k
    BY Zenon DEF Path
  <1>2. /\ m \in Nat /\ r \in [0 .. m + 1 -> Node] /\ r[0] = g /\ r[m + 1] = g
        /\ (\A k \in 0 .. m : nx[r[k]] = r[k + 1]) /\ (\A k \in 1 .. m : r[k] \in Obj)
        /\ \A j, k \in 1 .. m : r[j] = r[k] => j = k
    BY Zenon DEF Path
  <1>3. \A j \in 0 .. n + 1, k \in 0 .. m + 1 : p[j] # r[k]
    <2>1. \A j \in 0 .. n + 1 : p[j] = h \/ (p[j] \in Obj /\ p[j] \in Elems(p, n))
      BY EndIndex, <1>1, Zenon DEF Elems
    <2>2. \A k \in 0 .. m + 1 : r[k] = g \/ (r[k] \in Obj /\ r[k] \in Elems(r, m))
      BY EndIndex, <1>2, Zenon DEF Elems
    <2> QED
      BY <2>1, <2>2, Zenon
  <1>4. p[i - 1] \in Node /\ p[i + 1] \in Node /\ r[m] \in Node /\ p[i] \in Obj /\ p[i] \in Node
    BY <1>1, <1>2
  <1>5. p[i - 1] # r[m] /\ p[i] # r[m] /\ p[i] # p[i - 1] /\ p[i] # h /\ p[i] # g
    <2>1. i - 1 \in 0 .. n + 1 /\ i \in 0 .. n + 1 /\ m \in 0 .. m + 1
      BY <1>1, <1>2
    <2>2. p[i] # p[i - 1]
      <3>1. CASE i = 1
        BY <1>1, <3>1
      <3>2. CASE i # 1
        BY <1>1, <3>2
      <3> QED
        BY <3>1, <3>2, Zenon
    <2> QED
      BY <1>3, <1>4, <2>1, <2>2, Zenon
  <1>6. /\ nx2 \in [Node -> Node] /\ nx2[p[i - 1]] = p[i + 1] /\ nx2[r[m]] = p[i] /\ nx2[p[i]] = g
        /\ \A x \in Node \ {p[i - 1], r[m], p[i]} : nx2[x] = nx[x]
    BY <1>4, <1>5, Zenon
  <1>7. /\ s \in [0 .. n -> Node]
        /\ \A k \in 0 .. n : s[k] = IF k < i THEN p[k] ELSE p[k + 1]
    BY <1>1 DEF Removed
  <1>8. /\ t \in [0 .. m + 2 -> Node] /\ t[m + 1] = p[i] /\ t[m + 2] = g
        /\ \A k \in 0 .. m : t[k] = r[k]
    BY <1>2, <1>4 DEF Appended
  <1> HIDE DEF s, t
  <1>9. Path(nx2, s, n - 1, h)
    <2>1. n - 1 \in Nat /\ s \in [0 .. (n - 1) + 1 -> Node] /\ s[0] = h /\ s[(n - 1) + 1] = h
      BY <1>1, <1>7
    <2>2. ASSUME NEW k \in 0 .. n - 1 PROVE nx2[s[k]] = s[k + 1]
      <3>1. CASE k < i - 1
        <4>1. s[k] = p[k] /\ s[k + 1] = p[k + 1] /\ k \in 0 .. n /\ k \in 0 .. n + 1
          BY <1>1, <1>7, <3>1
        <4>2. p[k] # p[i - 1] /\ p[k] # p[i] /\ p[k] # r[m]
          <5>1. p[k] # r[m]
            BY EndIndex, <1>2, <1>3, <4>1, Zenon
          <5>2. CASE k = 0
            BY <1>1, <1>4, <3>1, <5>1, <5>2
          <5>3. CASE k # 0
            BY <1>1, <3>1, <5>1, <5>3
          <5> QED
            BY <5>2, <5>3, Zenon
        <4> QED
          BY <1>1, <1>6, <4>1, <4>2
      <3>2. CASE k = i - 1
        BY <1>1, <1>6, <1>7, <3>2
      <3>3. CASE k > i - 1
        <4>1. s[k] = p[k + 1] /\ s[k + 1] = p[(k + 1) + 1] /\ k + 1 \in 0 .. n /\ k + 1 \in 1 .. n /\ k + 1 \in 0 .. n + 1
          BY <1>1, <1>7, <3>3
        <4>2. p[k + 1] # p[i - 1] /\ p[k + 1] # p[i] /\ p[k + 1] # r[m]
          <5>1. p[k + 1] # r[m]
            BY <1>2, <1>3, <4>1
          <5>2. p[k + 1] # p[i]
            BY <1>1, <3>3, <4>1
          <5>3. CASE i = 1
            BY <1>1, <4>1, <5>1, <5>2, <5>3
          <5>4. CASE i # 1
            BY <1>1, <3>3, <4>1, <5>1, <5>2, <5>4
          <5> QED
            BY <5>3, <5>4, Zenon
        <4> QED
          BY <1>1, <1>6, <4>1, <4>2
      <3> QED
        BY <1>1, <3>1, <3>2, <3>3
    <2>3. \A k \in 1 .. n - 1 : s[k] \in Obj
      BY <1>1, <1>7
    <2>4. \A j, k \in 1 .. n - 1 : s[j] = s[k] => j = k
      BY <1>1, <1>7, SMTT(60)
    <2> QED
      BY <2>1, <2>2, <2>3, <2>4, Zenon DEF Path
  <1>10. Path(nx2, t, m + 1, g)
    <2>1. m + 1 \in Nat /\ t \in [0 .. (m + 1) + 1 -> Node] /\ t[0] = g /\ t[(m + 1) + 1] = g
      BY <1>2, <1>8
    <2>2. ASSUME NEW k \in 0 .. m + 1 PROVE nx2[t[k]] = t[k + 1]
      <3>1. CASE k < m
        <4>1. t[k] = r[k] /\ t[k + 1] = r[k + 1] /\ k \in 0 .. m /\ k \in 0 .. m + 1
          BY <1>2, <1>8, <3>1
        <4>2. r[k] # p[i - 1] /\ r[k] # p[i] /\ r[k] # r[m]
          <5>1. r[k] # p[i - 1] /\ r[k] # p[i]
            BY AtIndex, <1>1, <1>3, <4>1, Zenon
          <5>2. CASE k = 0
            BY <1>2, <3>1, <5>1, <5>2
          <5>3. CASE k # 0
            BY <1>2, <3>1, <5>1, <5>3
          <5> QED
            BY <5>2, <5>3, Zenon
        <4> QED
          BY <1>2, <1>6, <4>1, <4>2
      <3>2. CASE k = m
        BY EndIndex, <1>2, <1>6, <1>8, <3>2, Zenon
      <3>3. CASE k = m + 1
        BY EndIndex, <1>2, <1>6, <1>8, <3>3, Zenon
      <3> QED
        BY <1>2, <3>1, <3>2, <3>3
    <2>3. \A k \in 1 .. m + 1 : t[k] \in Obj
      BY EndIndex, <1>2, <1>4, <1>8, Zenon
    <2>4. \A j, k \in 1 .. m + 1 : t[j] = t[k] => j = k
      <3>1. \A k \in 1 .. m : t[k] = r[k] /\ r[k] # p[i]
        BY EndIndex, <1>1, <1>2, <1>3, <1>8, Zenon
      <3> QED
        BY <1>2, <1>8, <3>1, SMTT(60)
    <2> QED
      BY <2>1, <2>2, <2>3, <2>4, Zenon DEF Path
  <1>11. Elems(s, n - 1) = Elems(p, n) \ {p[i]}
    <2>1. ASSUME NEW k \in 1 .. n, k # i PROVE p[k] \in Elems(s, n - 1)
      <3>1. CASE k < i
        BY <1>1, <1>7, <3>1 DEF Elems
      <3>2. CASE k > i
        <4>1. k - 1 \in 1 .. n - 1 /\ s[k - 1] = p[(k - 1) + 1] /\ (k - 1) + 1 = k
          BY <1>1, <1>7, <3>2
        <4> QED
          BY <4>1, Zenon DEF Elems
      <3> QED
        BY <2>1, <3>1, <3>2
    <2>2. ASSUME NEW k \in 1 .. n - 1 PROVE s[k] \in Elems(p, n) \ {p[i]}
      <3>1. PICK j \in 1 .. n : s[k] = p[j] /\ j # i
        <4>1. CASE k < i
          BY <1>1, <1>7, <4>1
        <4>2. CASE ~(k < i)
          <5>1. s[k] = p[k + 1] /\ k + 1 \in 1 .. n /\ k + 1 # i
            BY <1>1, <1>7, <4>2
          <5> QED
            BY <5>1, Zenon
        <4> QED
          BY <4>1, <4>2, Zenon
      <3>2. p[j] # p[i]
        BY <1>1, <3>1, Zenon
      <3> QED
        BY <3>1, <3>2, Zenon DEF Elems
    <2> QED
      BY <2>1, <2>2, Zenon DEF Elems
  <1>12. Elems(t, m + 1) = Elems(r, m) \cup {p[i]}
    BY <1>2, <1>8, SMTT(60) DEF Elems
  <1> QED
    BY <1>6, <1>9, <1>10, <1>11, <1>12, Zenon DEF s, t, MovedTo

LEMMA PathFrame ==
  ASSUME NEW nx, NEW nx2, NEW p, NEW n, NEW h, Path(nx, p, n, h),
         \A k \in 0 .. n : nx2[p[k]] = nx[p[k]]
  PROVE  Path(nx2, p, n, h)
BY Zenon DEF Path

LEMMA PathFacts ==
  ASSUME NEW nx, NEW p, NEW n, NEW h, Path(nx, p, n, h), h \in Node \ Obj
  PROVE  /\ n \in Nat /\ p \in [0 .. n + 1 -> Node] /\ p[0] = h /\ p[n + 1] = h
         /\ \A k \in 1 .. n : p[k] \in Obj /\ p[k] \in Elems(p, n)
         /\ \A k \in 0 .. n + 1 : p[k] \in Node /\ (p[k] = h \/ p[k] \in Elems(p, n))
         /\ \A k \in 1 .. n : \A j \in 0 .. n + 1 : j # k => p[j] # p[k]
         /\ Elems(p, n) \subseteq Obj
  <1>1. /\ n \in Nat /\ p \in [0 .. n + 1 -> Node] /\ p[0] = h /\ p[n + 1] = h
        /\ (\A k \in 1 .. n : p[k] \in Obj) /\ \A j, k \in 1 .. n : p[j] = p[k] => j = k
    BY Zenon DEF Path
  <1>2. \A k \in 0 .. n + 1 : k = 0 \/ k = n + 1 \/ k \in 1 .. n
    BY EndIndex, <1>1, Zenon
  <1>3. \A k \in 1 .. n : p[k] \in Elems(p, n) /\ p[k] # h
    BY <1>1, Zenon DEF Elems
  <1>4. Elems(p, n) \subseteq Obj
    BY <1>1, Zenon DEF Elems
  <1>5. \A k \in 0 .. n + 1 : p[k] \in Node /\ (p[k] = h \/ p[k] \in Elems(p, n))
    BY <1>1, <1>2, <1>3, Zenon
  <1>6. \A k \in 1 .. n : \A j \in 0 .. n + 1 : j # k => p[j] # p[k]
    BY <1>1, <1>2, <1>3, Zenon
  <1> QED
    BY <1>1, <1>3, <1>4, <1>5, <1>6, Zenon

\* Two lists share no node, their heads included.
LEMMA Apart ==
  ASSUME NEW nx, NEW p, NEW n, NEW h, NEW r, NEW m, NEW g, Path(nx, p, n, h), Path(nx, r, m, g),
         h \in Node \ Obj, g \in Node \ Obj, h # g, Elems(p, n) \cap Elems(r, m) = {}
  PROVE  \A k \in 0 .. n + 1 : \A j \in 0 .. m + 1 : p[k] # r[j]
  <1>1. /\ \A k \in 0 .. n + 1 : p[k] = h \/ p[k] \in Elems(p, n)
        /\ Elems(p, n) \subseteq Obj
    BY EndIndex, PathFacts, Zenon
  <1>2. /\ \A k \in 0 .. m + 1 : r[k] = g \/ r[k] \in Elems(r, m)
        /\ Elems(r, m) \subseteq Obj
    BY PathFacts, ZenonT(60)
  <1> QED
    BY <1>1, <1>2, Zenon

ThreeLists(nx, p, n, h, r, m, g, s, l, f) ==
  /\ nx \in [Node -> Node] /\ Path(nx, p, n, h) /\ Path(nx, r, m, g) /\ Path(nx, s, l, f)
  /\ h \in Node \ Obj /\ g \in Node \ Obj /\ f \in Node \ Obj /\ h # g /\ h # f /\ g # f
  /\ Elems(p, n) \cap Elems(r, m) = {} /\ Elems(p, n) \cap Elems(s, l) = {} /\ Elems(r, m) \cap Elems(s, l) = {}

Transfer(nx2, p, n, h, r, m, g, s, l, f, i) ==
  /\ nx2 \in [Node -> Node] /\ Path(nx2, s, l, f)
  /\ Path(nx2, Removed(p, n, i), n - 1, h) /\ Path(nx2, Appended(r, m, p[i]), m + 1, g)
  /\ Elems(Removed(p, n, i), n - 1) = Elems(p, n) \ {p[i]}
  /\ Elems(Appended(r, m, p[i]), m + 1) = Elems(r, m) \cup {p[i]}
  /\ p[i] \in Elems(p, n)

\* An object of one list goes to the end of another; the third stays as it is.
LEMMA Transferred ==
  ASSUME NEW nx, NEW p, NEW n, NEW h, NEW r, NEW m, NEW g, NEW s, NEW l, NEW f,
         ThreeLists(nx, p, n, h, r, m, g, s, l, f), NEW i \in 1 .. n,
         NEW nx2, nx2 = [nx EXCEPT ![p[i - 1]] = p[i + 1], ![r[m]] = p[i], ![p[i]] = g]
  PROVE  Transfer(nx2, p, n, h, r, m, g, s, l, f, i)
  <1>0. /\ nx \in [Node -> Node] /\ Path(nx, p, n, h) /\ Path(nx, r, m, g) /\ Path(nx, s, l, f)
        /\ h \in Node \ Obj /\ g \in Node \ Obj /\ f \in Node \ Obj /\ h # g /\ h # f /\ g # f
        /\ Elems(p, n) \cap Elems(r, m) = {} /\ Elems(p, n) \cap Elems(s, l) = {}
        /\ Elems(r, m) \cap Elems(s, l) = {}
    BY Zenon DEF ThreeLists
  <1>1. /\ nx2 \in [Node -> Node]
        /\ Path(nx2, Removed(p, n, i), n - 1, h) /\ Path(nx2, Appended(r, m, p[i]), m + 1, g)
        /\ \A x \in Node \ {p[i - 1], r[m], p[i]} : nx2[x] = nx[x]
        /\ Elems(Removed(p, n, i), n - 1) = Elems(p, n) \ {p[i]}
        /\ Elems(Appended(r, m, p[i]), m + 1) = Elems(r, m) \cup {p[i]}
    <2>1. TwoLists(nx, p, n, h, r, m, g)
      BY <1>0, Zenon DEF TwoLists
    <2>2. MovedTo(nx, nx2, p, n, h, r, m, g, i)
      BY <2>1, Moved, Zenon
    <2> QED
      BY <2>2, Zenon DEF MovedTo
  <1>2. n \in Nat /\ m \in Nat /\ l \in Nat /\ (\A k \in 0 .. l + 1 : s[k] \in Node) /\ p[i] \in Elems(p, n)
    BY <1>0, PathFacts, Zenon
  <1>3. /\ i - 1 \in 0 .. n + 1 /\ i \in 0 .. n + 1 /\ m \in 0 .. m + 1
        /\ \A k \in 0 .. l : k \in 0 .. l + 1
    BY <1>2
  <1>4. \A k \in 0 .. l + 1 : s[k] # p[i - 1] /\ s[k] # p[i]
    BY <1>0, <1>3, Apart, Zenon
  <1>5. \A k \in 0 .. l + 1 : s[k] # r[m]
    BY <1>0, <1>3, Apart, Zenon
  <1>6. \A k \in 0 .. l : nx2[s[k]] = nx[s[k]]
    BY <1>1, <1>2, <1>3, <1>4, <1>5, Zenon
  <1>7. Path(nx2, s, l, f)
    BY <1>0, <1>6, PathFrame, Zenon
  <1> QED
    BY <1>1, <1>2, <1>7, Zenon DEF Transfer

LEMMA RemovedFacts ==
  ASSUME NEW p, NEW n \in Nat, NEW i \in 1 .. n
  PROVE  /\ \A k \in 0 .. i - 1 : Removed(p, n, i)[k] = p[k]
         /\ \A k \in i .. n : Removed(p, n, i)[k] = p[k + 1]
BY DEF Removed

LEMMA AppendedFacts ==
  ASSUME NEW p, NEW n \in Nat, NEW o
  PROVE  /\ \A k \in 0 .. n : Appended(p, n, o)[k] = p[k]
         /\ Appended(p, n, o)[n + 1] = o /\ Appended(p, n, o)[n + 2] = p[0]
BY DEF Appended

LEMMA BackRemoved ==
  ASSUME NEW nx, NEW p, NEW n, NEW h, Path(nx, p, n, h), h \notin Obj, NEW i \in 1 .. n, NEW lo \in 1 .. i,
         NEW v, NEW v2, Back(v, p, lo, n + 1), v2[p[i + 1]] = Ptr(p[i - 1]),
         \A k \in lo .. n + 1 : k # i /\ k # i + 1 => v2[p[k]] = v[p[k]]
  PROVE  Back(v2, Removed(p, n, i), lo, n)
  <1>1. n \in Nat /\ p \in [0 .. n + 1 -> Node]
    BY Zenon DEF Path
  <1>2. \A k \in 0 .. n : Removed(p, n, i)[k] = IF k < i THEN p[k] ELSE p[k + 1]
    BY <1>1, Zenon DEF Removed
  <1>3. ASSUME NEW k \in lo .. n PROVE v2[Removed(p, n, i)[k]] = Ptr(Removed(p, n, i)[k - 1])
    <2>1. CASE k < i
      <3>1. Removed(p, n, i)[k] = p[k] /\ Removed(p, n, i)[k - 1] = p[k - 1]
        BY <1>1, <1>2, <2>1
      <3>2. v2[p[k]] = v[p[k]] /\ v[p[k]] = Ptr(p[k - 1])
        BY <1>1, <2>1, SMTT(60) DEF Back
      <3> QED
        BY <3>1, <3>2, Zenon
    <2>2. CASE k = i
      BY <1>1, <1>2, <2>2
    <2>3. CASE k > i
      <3>1. Removed(p, n, i)[k] = p[k + 1] /\ Removed(p, n, i)[k - 1] = p[k]
        <4>1. Removed(p, n, i)[k - 1] = p[(k - 1) + 1] /\ (k - 1) + 1 = k
          BY <1>1, <1>2, <2>3
        <4> QED
          BY <1>1, <1>2, <2>3, <4>1
      <3>2. v2[p[k + 1]] = v[p[k + 1]] /\ v[p[k + 1]] = Ptr(p[(k + 1) - 1]) /\ (k + 1) - 1 = k
        <4>1. k + 1 \in lo .. n + 1 /\ k + 1 # i /\ k + 1 # i + 1 /\ (k + 1) - 1 = k
          BY <1>1, <2>3
        <4> QED
          BY <4>1, Zenon DEF Back
      <3> QED
        BY <3>1, <3>2, Zenon
    <2> QED
      BY <1>1, <2>1, <2>2, <2>3
  <1> QED
    BY <1>3, Zenon DEF Back

LEMMA BackAppended ==
  ASSUME NEW nx, NEW r, NEW m, NEW g, Path(nx, r, m, g), NEW o, NEW v, NEW v2, Back(v, r, 1, m + 1),
         v2[o] = Ptr(r[m]), v2[g] = Ptr(o), \A k \in 1 .. m : v2[r[k]] = v[r[k]]
  PROVE  Back(v2, Appended(r, m, o), 1, m + 2)
  <1>1. m \in Nat /\ r \in [0 .. m + 1 -> Node] /\ r[0] = g
    BY Zenon DEF Path
  <1>2. /\ \A k \in 0 .. m : Appended(r, m, o)[k] = r[k]
        /\ Appended(r, m, o)[m + 1] = o /\ Appended(r, m, o)[m + 2] = g
    BY <1>1 DEF Appended
  <1>3. ASSUME NEW k \in 1 .. m + 2 PROVE v2[Appended(r, m, o)[k]] = Ptr(Appended(r, m, o)[k - 1])
    <2>1. CASE k \in 1 .. m
      <3>1. Appended(r, m, o)[k] = r[k] /\ Appended(r, m, o)[k - 1] = r[k - 1]
        BY AtIndex, <1>1, <1>2, <2>1, Zenon
      <3>2. v2[r[k]] = Ptr(r[k - 1])
        BY EndIndex, <1>1, <2>1, Zenon DEF Back
      <3> QED
        BY <3>1, <3>2, Zenon
    <2>2. CASE k = m + 1
      BY <1>1, <1>2, <2>2
    <2>3. CASE k = m + 2
      BY <1>1, <1>2, <2>3
    <2> QED
      BY <1>1, <2>1, <2>2, <2>3
  <1> QED
    BY <1>3, Zenon DEF Back

LEMMA ImmortalStep ==
  ASSUME IInv, MoveImmortal
  PROVE  IInv'
  <1>1. PICK y, ny, u, nu, q, nq, i : ListsInv(y, ny, u, nu, q, nq, i)
    BY Zenon DEF IInv
  <1>2. TypeLists /\ Split(y, ny, u, nu, q, nq) /\ FlagsInv(y, ny, u, nu, q, nq) /\ UpdateInv(y, ny, i)
    BY <1>1, Zenon DEF IInv, ListsInv
  <1>3. /\ Cursor(y, ny, i) /\ ny \in Nat /\ i \in 1 .. ny /\ gc = y[i] /\ gc \in Obj /\ gc \in Elems(y, ny)
        /\ next[gc] = y[i + 1] /\ \A k \in 0 .. ny + 1 : y[k] \in Node /\ (k # i => y[k] # gc)
    <2>1. Cursor(y, ny, i) /\ gc # YOUNG
      BY <1>1, CursorFacts, Zenon DEF MoveImmortal
    <2> QED
      BY <2>1, AtObject, ZenonT(60) DEF Cursor
  <1>4. ThreeLists(next, y, ny, YOUNG, q, nq, PERMANENT, u, nu, UNREACHABLE)
    BY <1>2, NodeFacts, Zenon DEF Split, ThreeLists, TypeLists
  <1>5. /\ Path(next, y, ny, YOUNG) /\ Path(next, q, nq, PERMANENT) /\ Path(next, u, nu, UNREACHABLE)
        /\ YOUNG \in Node \ Obj /\ PERMANENT \in Node \ Obj /\ UNREACHABLE \in Node \ Obj
    BY <1>2, NodeFacts, Zenon DEF Split
  <1>6. /\ nq \in Nat /\ nu \in Nat /\ q[nq + 1] = PERMANENT /\ u[nu + 1] = UNREACHABLE
        /\ (\A k \in 0 .. nq + 1 : q[k] \in Node) /\ (\A k \in 0 .. nu + 1 : u[k] \in Node)
        /\ \A k \in 1 .. ny : \A j \in 0 .. ny + 1 : j # k => y[j] # y[k]
    BY <1>5, PathFacts, SMTT(60)
  <1>7. /\ i - 1 \in 0 .. ny + 1 /\ i + 1 \in 0 .. ny + 1 /\ i \in 0 .. ny + 1 /\ nq \in 0 .. nq + 1
        /\ nq + 1 \in 1 .. nq + 1 /\ nq + 1 \in 0 .. nq + 1 /\ i \in i .. ny + 1 /\ (nq + 1) - 1 = nq
    BY <1>3, <1>6
  <1>8. /\ \A k \in 0 .. ny + 1 : \A j \in 0 .. nq + 1 : y[k] # q[j]
    BY <1>4, Apart, Zenon DEF ThreeLists
  <1>9. /\ \A k \in 0 .. nu + 1 : \A j \in 0 .. ny + 1 : u[k] # y[j]
    BY <1>4, Apart, Zenon DEF ThreeLists
  <1>10. /\ \A k \in 0 .. nu + 1 : \A j \in 0 .. nq + 1 : u[k] # q[j]
    BY <1>4, Apart, Zenon DEF ThreeLists
  <1>11. /\ GC_PREV(gc) = y[i - 1] /\ GC_PREV(PERMANENT) = q[nq] /\ GC_NEXT(gc) = y[i + 1]
         /\ pc = "update" /\ Back(pv, y, i, ny + 1) /\ Back(pv, q, 1, nq + 1) /\ Back(pv, u, 1, nu + 1)
    <2>1. pc = "update" /\ Back(pv, y, i, ny + 1) /\ Back(pv, q, 1, nq + 1) /\ Back(pv, u, 1, nu + 1)
      BY <1>2, Zenon DEF MoveImmortal, UpdateInv, Split
    <2>2. pv[gc] = Ptr(y[i - 1]) /\ pv[PERMANENT] = Ptr(q[nq])
      BY <1>3, <1>6, <1>7, <2>1, Zenon DEF Back
    <2> QED
      BY <1>3, <2>1, <2>2, ValFacts, Zenon DEF GC_PREV, GC_NEXT
  <1>12. /\ next' = [next EXCEPT ![y[i - 1]] = y[i + 1], ![q[nq]] = y[i], ![y[i]] = PERMANENT]
         /\ pv' = [pv EXCEPT ![y[i + 1]] = Ptr(y[i - 1]), ![y[i]] = Ptr(q[nq]), ![PERMANENT] = Ptr(y[i])]
         /\ gc' = y[i + 1] /\ UNCHANGED heap /\ UNCHANGED <<umask, collecting, pc, todo>> /\ gc \in immortal
    BY <1>3, <1>11, Zenon DEF MoveImmortal
  <1>13. Transfer(next', y, ny, YOUNG, q, nq, PERMANENT, u, nu, UNREACHABLE, i)
    BY <1>3, <1>4, <1>12, Transferred, Zenon
  <1>14. PICK Y, Q : Y = Removed(y, ny, i) /\ Q = Appended(q, nq, y[i])
    BY Zenon
  <1>15. /\ next' \in [Node -> Node] /\ Path(next', Y, ny - 1, YOUNG) /\ Path(next', Q, nq + 1, PERMANENT)
         /\ Path(next', u, nu, UNREACHABLE)
         /\ Elems(Y, ny - 1) = Elems(y, ny) \ {y[i]} /\ Elems(Q, nq + 1) = Elems(q, nq) \cup {y[i]}
         /\ y[i] \in Elems(y, ny)
    BY <1>13, <1>14, Zenon DEF Transfer
  <1>16. /\ \A k \in 1 .. i - 1 : Y[k] = y[k]
         /\ \A k \in i .. ny : Y[k] = y[k + 1]
    <2>1. ny \in Nat /\ i \in 1 .. ny /\ \A k \in 1 .. i - 1 : k \in 0 .. i - 1
      BY <1>3, BelowIndex, Zenon
    <2>2. /\ \A k \in 0 .. i - 1 : Removed(y, ny, i)[k] = y[k]
          /\ \A k \in i .. ny : Removed(y, ny, i)[k] = y[k + 1]
      BY <2>1, RemovedFacts, Zenon
    <2> QED
      BY <1>14, <2>1, <2>2, Zenon
  <1>17. /\ y[i + 1] \in Node /\ y[i] \in Node /\ PERMANENT \in Node /\ y[i + 1] # y[i]
         /\ y[i] # PERMANENT /\ y[i + 1] # PERMANENT
         /\ Ptr(y[i - 1]) \in Val /\ Ptr(q[nq]) \in Val /\ Ptr(y[i]) \in Val
    <2>1. y[i + 1] \in Node /\ y[i] \in Node /\ y[i + 1] # y[i] /\ y[i - 1] \in Node /\ q[nq] \in Node
      BY AtIndex, <1>3, <1>6, <1>7, Zenon
    <2>2. y[i] # PERMANENT /\ y[i + 1] # PERMANENT
      BY <1>6, <1>7, <1>8, Zenon
    <2> QED
      BY <2>1, <2>2, NodeFacts, ValFacts, Zenon
  <1>18. /\ pv' \in [Node -> Val]
         /\ pv'[y[i + 1]] = Ptr(y[i - 1]) /\ pv'[y[i]] = Ptr(q[nq]) /\ pv'[PERMANENT] = Ptr(y[i])
         /\ \A x \in Node : x # y[i + 1] /\ x # y[i] /\ x # PERMANENT => pv'[x] = pv[x]
    BY <1>2, <1>12, <1>17, Zenon DEF TypeLists
  <1>19. \A k \in 1 .. ny + 1 : k # i /\ k # i + 1 => y[k] \in Node /\ pv'[y[k]] = pv[y[k]]
    <2> SUFFICES ASSUME NEW k \in 1 .. ny + 1, k # i, k # i + 1
                 PROVE  y[k] \in Node /\ pv'[y[k]] = pv[y[k]]
      BY Zenon
    <2>1. k \in 0 .. ny + 1 /\ (k = ny + 1 => i + 1 \in 1 .. ny) /\ (k # ny + 1 => k \in 1 .. ny)
      BY EndIndex, <1>3, Zenon
    <2>2. y[k] \in Node /\ y[k] # y[i] /\ y[k] # PERMANENT
      BY <1>3, <1>6, <1>7, <1>8, <2>1, Zenon
    <2>3. y[k] # y[i + 1]
      BY <1>6, <1>7, <2>1, Zenon
    <2> QED
      BY <1>18, <2>2, <2>3, Zenon
  <1>20. Back(pv', Y, i, ny)
    <2>1. i \in 1 .. i /\ \A k \in i .. ny + 1 : k \in 1 .. ny + 1
      BY <1>3
    <2>2. /\ Path(next, y, ny, YOUNG) /\ YOUNG \notin Obj /\ Back(pv, y, i, ny + 1) /\ pv'[y[i + 1]] = Ptr(y[i - 1])
          /\ \A k \in i .. ny + 1 : k # i /\ k # i + 1 => pv'[y[k]] = pv[y[k]]
      BY <1>5, <1>11, <1>18, <1>19, <2>1, Zenon
    <2>3. Back(pv', Removed(y, ny, i), i, ny)
      BY <1>3, <2>1, <2>2, BackRemoved, Zenon
    <2> QED
      BY <1>14, <2>3, Zenon
  <1>21. Back(pv', Q, 1, nq + 2)
    <2>1. \A k \in 1 .. nq : k \in 0 .. nq + 1 /\ q[k] # PERMANENT
      BY <1>5, <1>6, PathFacts, SMTT(60)
    <2>2. \A k \in 1 .. nq : pv'[q[k]] = pv[q[k]]
      BY <1>6, <1>7, <1>8, <1>18, <2>1, Zenon
    <2>3. Back(pv', Appended(q, nq, y[i]), 1, nq + 2)
      BY <1>5, <1>11, <1>18, <2>2, BackAppended
    <2> QED
      BY <1>14, <2>3, Zenon
  <1>22. Back(pv', u, 1, nu + 1)
    <2>1. \A k \in 1 .. nu + 1 : k \in 0 .. nu + 1
      BY EndIndex, <1>6, Zenon
    <2>2. \A k \in 1 .. nu + 1 : u[k] \in Node /\ u[k] # y[i + 1] /\ u[k] # y[i] /\ u[k] # PERMANENT
      BY <1>6, <1>7, <1>9, <1>10, <2>1, Zenon
    <2> QED
      BY <1>11, <1>18, <2>2, Zenon DEF Back
  <1>23. Split(Y, ny - 1, u, nu, Q, nq + 1)'
    <2>1. /\ Elems(y, ny) \cap Elems(u, nu) = {} /\ Elems(y, ny) \cap Elems(q, nq) = {}
          /\ Elems(u, nu) \cap Elems(q, nq) = {} /\ Elems(y, ny) \cup Elems(u, nu) \cup Elems(q, nq) = Obj
      BY <1>2, Zenon DEF Split
    <2>2. /\ Elems(Y, ny - 1) \cap Elems(u, nu) = {} /\ Elems(Y, ny - 1) \cap Elems(Q, nq + 1) = {}
          /\ Elems(u, nu) \cap Elems(Q, nq + 1) = {}
          /\ Elems(Y, ny - 1) \cup Elems(u, nu) \cup Elems(Q, nq + 1) = Obj
      BY <1>15, <2>1, Zenon
    <2>3. (nq + 1) + 1 = nq + 2
      BY EndIndex, <1>6, Zenon
    <2> QED
      BY <1>15, <1>21, <1>22, <2>2, <2>3, Zenon DEF Split, Elems
  <1>24. TypeLists'
    BY <1>2, <1>12, <1>15, <1>18, Zenon DEF TypeLists, heap
  <1>25. FlagsInv(Y, ny - 1, u, nu, Q, nq + 1)'
    <2>1. Elems(Q, nq + 1) \subseteq immortal
      BY <1>2, <1>3, <1>11, <1>12, <1>15, Zenon DEF FlagsInv
    <2> QED
      BY <1>2, <1>11, <1>12, <2>1, Zenon DEF FlagsInv, heap, Elems
  <1>26. UpdateInv(Y, ny - 1, i)'
    <2>1. /\ \A k \in 1 .. i - 1 : k \in 1 .. ny + 1 /\ k # i /\ k # i + 1
          /\ \A k \in i .. ny - 1 : k \in i .. ny /\ k + 1 \in i .. ny
          /\ (ny - 1) + 1 = ny
      BY <1>3
    <2>2. /\ \A k \in 1 .. i - 1 : y[k] \notin immortal /\ collecting[y[k]] /\ pv[y[k]] = Refs(Py_REFCNT(y[k]))
          /\ \A k \in i .. ny : ~collecting[y[k]]
      BY <1>2, <1>11, Zenon DEF UpdateInv
    <2>3. \A k \in 1 .. i - 1 : Y[k] \notin immortal /\ collecting[Y[k]] /\ pv'[Y[k]] = Refs(Py_REFCNT(Y[k]))
      BY <1>16, <1>19, <2>1, <2>2, ZenonT(60)
    <2>4. \A k \in i .. ny - 1 : ~collecting[Y[k]]
      BY <1>16, <2>1, <2>2, Zenon
    <2>5. \A o : Py_REFCNT(o)' = Py_REFCNT(o)
      BY <1>12, HeapFrame, Zenon
    <2>6. immortal' = immortal /\ collecting' = collecting
      BY <1>12, Zenon DEF heap
    <2> QED
      BY <1>20, <2>1, <2>3, <2>4, <2>5, <2>6, Zenon DEF UpdateInv
  <1>27. /\ SubtractInv(Y, ny - 1, i)' /\ RestoreInv(Y, ny - 1, i)' /\ MarkInv(Y, ny - 1, i)'
         /\ ScanInv(Y, ny - 1, u, nu, i)' /\ MoveInv(Y, ny - 1, i)' /\ VisitInv(Y, ny - 1, i)'
         /\ PMoveInv(Y, ny - 1, u, nu, i)' /\ SplitInv(Y, ny - 1, u, nu)'
    BY <1>11, <1>12, Zenon DEF SubtractInv, RestoreInv, MarkInv, ScanInv, MoveInv, VisitInv, PMoveInv, SplitInv
  <1>28. i \in 1 .. (ny - 1) + 1 /\ gc' = Y[i]
    BY AtIndex, <1>3, <1>12, <1>16, Zenon
  <1>29. ListsInv(Y, ny - 1, u, nu, Q, nq + 1, i)'
    BY <1>23, <1>25, <1>26, <1>27, <1>28, Zenon DEF ListsInv
  <1> QED
    BY <1>24, <1>29, Zenon DEF IInv

\* The object at the cursor has gone to the end of unreachable.
TakenOut(y, ny, u, nu, q, nq, i, Y, U) ==
  /\ ny \in Nat /\ nu \in Nat /\ i \in 1 .. ny /\ gc = y[i]
  /\ TypeLists' /\ Split(Y, ny - 1, U, nu + 1, q, nq)' /\ FlagsInv(Y, ny - 1, U, nu + 1, q, nq)'
  /\ ScanInv(Y, ny - 1, U, nu + 1, i)' /\ i \in 1 .. (ny - 1) + 1 /\ gc' = Y[i]
  /\ (\A k \in 1 .. i - 1 : Y[k] = y[k]) /\ (\A k \in i .. ny : Y[k] = y[k + 1])
  /\ (\A k \in 1 .. ny : k # i => pv'[y[k]] = pv[y[k]]) /\ pv'[YOUNG] = pv[YOUNG]
  /\ (\A k \in 1 .. nu : U[k] = u[k]) /\ U[nu + 1] = gc

LEMMA ToUnreachableFacts ==
  ASSUME NEW y, NEW ny, NEW u, NEW nu, NEW q, NEW nq, NEW i, ListsInv(y, ny, u, nu, q, nq, i), TypeLists,
         pc \in {"move", "pmove"}, gc # YOUNG, collecting[gc], ToUnreachable, UNCHANGED heap,
         UNCHANGED <<collecting, pc, prev, todo>>
  PROVE  \E Y, U : TakenOut(y, ny, u, nu, q, nq, i, Y, U)
  <1>2. TypeLists /\ Split(y, ny, u, nu, q, nq) /\ FlagsInv(y, ny, u, nu, q, nq) /\ ScanInv(y, ny, u, nu, i)
    BY Zenon DEF ListsInv
  <1>3. /\ Cursor(y, ny, i) /\ ny \in Nat /\ i \in 1 .. ny /\ gc = y[i] /\ gc \in Obj /\ gc \in Elems(y, ny)
        /\ next[gc] = y[i + 1] /\ \A k \in 0 .. ny + 1 : y[k] \in Node /\ (k # i => y[k] # gc)
    <2>1. Cursor(y, ny, i) /\ gc # YOUNG
      BY CursorFacts, Zenon
    <2> QED
      BY <2>1, AtObject, ZenonT(60) DEF Cursor
  <1>4. ThreeLists(next, y, ny, YOUNG, u, nu, UNREACHABLE, q, nq, PERMANENT)
    BY <1>2, NodeFacts, Zenon DEF Split, ThreeLists, TypeLists
  <1>5. /\ Path(next, y, ny, YOUNG) /\ Path(next, q, nq, PERMANENT) /\ Path(next, u, nu, UNREACHABLE)
        /\ YOUNG \in Node \ Obj /\ PERMANENT \in Node \ Obj /\ UNREACHABLE \in Node \ Obj
    BY <1>2, NodeFacts, Zenon DEF Split
  <1>6. /\ nq \in Nat /\ nu \in Nat /\ q[nq + 1] = PERMANENT /\ u[nu + 1] = UNREACHABLE /\ y[0] = YOUNG
        /\ (\A k \in 0 .. nq + 1 : q[k] \in Node) /\ (\A k \in 0 .. nu + 1 : u[k] \in Node)
        /\ (\A k \in 1 .. ny : \A j \in 0 .. ny + 1 : j # k => y[j] # y[k])
        /\ \A k \in 1 .. nu : u[k] \in Obj
    BY <1>5, PathFacts, SMTT(60)
  <1>7. /\ i - 1 \in 0 .. ny + 1 /\ i \in 0 .. ny + 1 /\ nu \in 0 .. nu + 1 /\ 0 \in 0 .. ny + 1
        /\ nu + 1 \in 1 .. nu + 1 /\ nu + 1 \in 0 .. nu + 1 /\ (nu + 1) - 1 = nu
        /\ (\A k \in 1 .. ny : k \in 0 .. ny + 1) /\ (\A k \in 1 .. nq + 1 : k \in 0 .. nq + 1)
        /\ (\A k \in 1 .. nu : k \in 0 .. nu + 1) /\ nq + 1 \in 0 .. nq + 1
    BY <1>3, <1>6
  <1>8. /\ \A k \in 0 .. ny + 1 : \A j \in 0 .. nu + 1 : y[k] # u[j]
    BY <1>4, Apart, Zenon DEF ThreeLists
  <1>9. /\ \A k \in 0 .. nq + 1 : \A j \in 0 .. ny + 1 : q[k] # y[j]
    BY <1>4, Apart, Zenon DEF ThreeLists
  <1>10. /\ \A k \in 0 .. nq + 1 : \A j \in 0 .. nu + 1 : q[k] # u[j]
    BY <1>4, Apart, Zenon DEF ThreeLists
  <1>11. /\ prev = y[i - 1] /\ Back(pv, y, 1, i - 1) /\ Back(pv, q, 1, nq + 1) /\ Back(pv, u, 1, nu + 1)
         /\ GC_PREV(UNREACHABLE) = u[nu]
    <2>1. prev = y[i - 1] /\ Back(pv, y, 1, i - 1) /\ Back(pv, q, 1, nq + 1) /\ Back(pv, u, 1, nu + 1)
      BY <1>2, Zenon DEF ScanInv, Split
    <2>2. pv[UNREACHABLE] = Ptr(u[nu])
      BY <1>6, <1>7, <2>1, Zenon DEF Back
    <2> QED
      BY <2>1, <2>2, ValFacts, Zenon DEF GC_PREV
  <1>12. /\ next' = [next EXCEPT ![y[i - 1]] = y[i + 1], ![u[nu]] = y[i], ![y[i]] = UNREACHABLE]
         /\ umask' = [umask EXCEPT ![u[nu]] = TRUE, ![y[i]] = TRUE]
         /\ pv' = [pv EXCEPT ![y[i]] = Ptr(u[nu]), ![UNREACHABLE] = Ptr(y[i])]
         /\ gc' = y[i + 1]
    BY <1>3, <1>11, Zenon DEF ToUnreachable
  <1>13. Transfer(next', y, ny, YOUNG, u, nu, UNREACHABLE, q, nq, PERMANENT, i)
    BY <1>3, <1>4, <1>12, Transferred, Zenon
  <1>14. PICK Y, U : Y = Removed(y, ny, i) /\ U = Appended(u, nu, y[i])
    BY Zenon
  <1>15. /\ next' \in [Node -> Node] /\ Path(next', Y, ny - 1, YOUNG) /\ Path(next', U, nu + 1, UNREACHABLE)
         /\ Path(next', q, nq, PERMANENT)
         /\ Elems(Y, ny - 1) = Elems(y, ny) \ {y[i]} /\ Elems(U, nu + 1) = Elems(u, nu) \cup {y[i]}
         /\ y[i] \in Elems(y, ny)
    BY <1>13, <1>14, Zenon DEF Transfer
  <1>16. /\ (\A k \in 0 .. i - 1 : Y[k] = y[k]) /\ (\A k \in i .. ny : Y[k] = y[k + 1])
         /\ (\A k \in 0 .. nu : U[k] = u[k]) /\ U[nu + 1] = y[i]
    <2>1. ny \in Nat /\ i \in 1 .. ny /\ nu \in Nat
      BY <1>3, <1>6, Zenon
    <2>2. (\A k \in 0 .. i - 1 : Y[k] = y[k]) /\ \A k \in i .. ny : Y[k] = y[k + 1]
      BY <1>14, <2>1 DEF Removed
    <2>3. (\A k \in 0 .. nu : U[k] = u[k]) /\ U[nu + 1] = y[i]
      BY <1>14, <2>1 DEF Appended
    <2> QED
      BY <2>2, <2>3, Zenon
  <1>17. /\ y[i] \in Node /\ u[nu] \in Node /\ UNREACHABLE \in Node /\ y[i] # UNREACHABLE /\ u[nu] # y[i]
         /\ Ptr(u[nu]) \in Val /\ Ptr(y[i]) \in Val
    <2>1. y[i] \in Node /\ u[nu] \in Node /\ y[i] # UNREACHABLE /\ u[nu] # y[i]
      BY <1>3, <1>6, <1>7, <1>8, Zenon
    <2> QED
      BY <2>1, NodeFacts, ValFacts, Zenon
  <1>18. /\ pv' \in [Node -> Val] /\ pv'[y[i]] = Ptr(u[nu]) /\ pv'[UNREACHABLE] = Ptr(y[i])
         /\ \A x \in Node : x # y[i] /\ x # UNREACHABLE => pv'[x] = pv[x]
    BY <1>2, <1>12, <1>17, Zenon DEF TypeLists
  <1>19. /\ umask' \in [Node -> BOOLEAN] /\ \A x \in Node : umask'[x] <=> umask[x] \/ x = u[nu] \/ x = y[i]
    BY <1>2, <1>12, <1>17, Zenon DEF TypeLists
  <1>20. /\ \A k \in 0 .. ny + 1 : y[k] \in Node /\ y[k] # UNREACHABLE /\ y[k] # u[nu]
         /\ \A k \in 0 .. ny + 1 : k # i => y[k] # y[i] /\ pv'[y[k]] = pv[y[k]] /\ (umask'[y[k]] <=> umask[y[k]])
    BY <1>3, <1>6, <1>7, <1>8, <1>18, <1>19, SMTT(60)
  <1>21. Back(pv', U, 1, nu + 2)
    <2>1. \A k \in 1 .. nu : u[k] # UNREACHABLE /\ u[k] # y[i] /\ u[k] \in Node
      BY <1>5, <1>6, <1>7, <1>8, Zenon
    <2>2. \A k \in 1 .. nu : pv'[u[k]] = pv[u[k]]
      BY <1>18, <2>1, Zenon
    <2>3. Back(pv', Appended(u, nu, y[i]), 1, nu + 2)
      BY <1>5, <1>11, <1>18, <2>2, BackAppended, SMTT(60)
    <2> QED
      BY <1>14, <2>3, Zenon
  <1>22. Back(pv', q, 1, nq + 1)
    <2>1. \A k \in 1 .. nq + 1 : q[k] \in Node /\ q[k] # y[i] /\ q[k] # UNREACHABLE
      BY <1>6, <1>7, <1>9, <1>10, Zenon
    <2> QED
      BY <1>11, <1>18, <2>1, Zenon DEF Back
  <1>23. Split(Y, ny - 1, U, nu + 1, q, nq)'
    <2>1. /\ Elems(y, ny) \cap Elems(u, nu) = {} /\ Elems(y, ny) \cap Elems(q, nq) = {}
          /\ Elems(u, nu) \cap Elems(q, nq) = {} /\ Elems(y, ny) \cup Elems(u, nu) \cup Elems(q, nq) = Obj
      BY <1>2, Zenon DEF Split
    <2>2. /\ Elems(Y, ny - 1) \cap Elems(U, nu + 1) = {} /\ Elems(Y, ny - 1) \cap Elems(q, nq) = {}
          /\ Elems(U, nu + 1) \cap Elems(q, nq) = {}
          /\ Elems(Y, ny - 1) \cup Elems(U, nu + 1) \cup Elems(q, nq) = Obj
      BY <1>15, <2>1, Zenon
    <2>3. (nu + 1) + 1 = nu + 2
      BY EndIndex, <1>6, Zenon
    <2> QED
      BY <1>15, <1>21, <1>22, <2>2, <2>3, Zenon DEF Split, Elems
  <1>24. TypeLists'
    BY <1>2, <1>15, <1>18, <1>19, Zenon DEF TypeLists, heap
  <1>25. FlagsInv(Y, ny - 1, U, nu + 1, q, nq)'
    <2>1. Elems(q, nq) = immortal
      BY <1>2, Zenon DEF FlagsInv
    <2>2. \A x \in immortal : x \in Node /\ \E k \in 0 .. nq + 1 : x = q[k]
      <3>1. \A k \in 1 .. nq : k \in 0 .. nq + 1
        BY EndIndex, <1>6, Zenon
      <3> QED
        BY <1>6, <2>1, <3>1, Zenon DEF Elems
    <2>3. \A x \in immortal : x \in Node /\ x # u[nu] /\ x # y[i]
      BY <1>7, <1>9, <1>10, <2>2, ZenonT(60)
    <2>4. PERMANENT \in Node /\ PERMANENT # u[nu] /\ PERMANENT # y[i]
      BY <1>6, <1>7, <1>9, <1>10, NodeFacts, Zenon
    <2>5. (\A x \in immortal : ~umask'[x]) /\ ~umask'[PERMANENT]
      BY <1>2, <1>19, <2>3, <2>4, Zenon DEF FlagsInv
    <2> QED
      BY <1>2, <2>1, <2>5, Zenon DEF FlagsInv, heap, Elems
  <1>26. ScanInv(Y, ny - 1, U, nu + 1, i)'
    <2>1. /\ \A k \in 1 .. i - 1 : k \in 0 .. i - 1 /\ k - 1 \in 0 .. i - 1 /\ k \in 0 .. ny + 1 /\ k # i /\ k \in 1 .. ny
          /\ i - 1 \in 0 .. i - 1
          /\ \A k \in i .. ny - 1 : k \in i .. ny /\ k + 1 \in i .. ny /\ k + 1 \in 0 .. ny + 1 /\ k + 1 # i /\ k + 1 \in 1 .. ny
          /\ \A k \in 1 .. ny - 1 : k \in 1 .. i - 1 \/ k \in i .. ny - 1
          /\ \A k \in 1 .. nu + 1 : k = nu + 1 \/ (k \in 1 .. nu /\ k \in 0 .. nu)
      BY <1>3, <1>6, SMTT(60)
    <2>2. /\ \A k \in 1 .. i - 1 : ~collecting[y[k]] /\ y[k] \in Reachable
          /\ \A k \in i .. ny : ~pv[y[k]].ptr
          /\ \A k \in 1 .. ny : ~umask[y[k]]
          /\ ~umask[YOUNG]
          /\ \A k \in 1 .. nu : collecting[u[k]] /\ umask[u[k]]
      BY <1>2, Zenon DEF ScanInv
    <2>3. prev' = Y[i - 1]
      BY <1>11, <1>16, <2>1, Zenon
    <2>4. Back(pv', Y, 1, i - 1)
      BY <1>11, <1>16, <1>20, <2>1, SMTT(60) DEF Back
    <2>5. \A k \in 1 .. i - 1 : ~collecting[Y[k]] /\ Y[k] \in Reachable
      BY <1>16, <2>1, <2>2, Zenon
    <2>6. \A k \in i .. ny - 1 : ~pv'[Y[k]].ptr
      BY <1>16, <1>20, <2>1, <2>2, SMTT(60)
    <2>7. \A k \in 1 .. ny - 1 : ~umask'[Y[k]]
      <3>1. \A k \in 1 .. i - 1 : ~umask'[Y[k]]
        BY <1>16, <1>20, <2>1, <2>2, Zenon
      <3>2. \A k \in i .. ny - 1 : ~umask'[Y[k]]
        BY <1>16, <1>20, <2>1, <2>2, Zenon
      <3> QED
        BY <2>1, <3>1, <3>2, Zenon
    <2>8. ~umask'[YOUNG]
      <3>1. 0 # i
        BY AtIndex, <1>3, Zenon
      <3> QED
        BY <1>6, <1>7, <1>20, <2>2, <3>1, Zenon
    <2>9. \A k \in 1 .. nu + 1 : collecting[U[k]] /\ umask'[U[k]]
      <3>1. \A k \in 1 .. nu : u[k] \in Node
        BY <1>6, <1>7, Zenon
      <3>2. \A k \in 1 .. nu : collecting[u[k]] /\ umask'[u[k]]
        BY <1>19, <2>2, <3>1, Zenon
      <3>3. collecting[y[i]] /\ umask'[y[i]]
        BY <1>3, <1>17, <1>19, Zenon
      <3> QED
        BY <1>16, <2>1, <3>2, <3>3, Zenon
    <2>10. Reachable' = Reachable
      BY EndIndex, HeapFrame, Zenon
    <2> QED
      BY <2>3, <2>4, <2>5, <2>6, <2>7, <2>8, <2>9, <2>10, Zenon DEF ScanInv
  <1>27. i \in 1 .. (ny - 1) + 1 /\ gc' = Y[i] /\ (\A k \in 1 .. i - 1 : k \in 0 .. i - 1)
         /\ (\A k \in 1 .. nu : k \in 0 .. nu)
    BY <1>3, <1>6, <1>12, <1>16, SMTT(60)
  <1>28. /\ \A k \in 1 .. ny : k # i => pv'[y[k]] = pv[y[k]]
         /\ pv'[YOUNG] = pv[YOUNG]
    <2>1. 0 # i
      BY AtIndex, <1>3, Zenon
    <2> QED
      BY <1>6, <1>7, <1>20, <2>1, Zenon
  <1>29. TakenOut(y, ny, u, nu, q, nq, i, Y, U)
    BY <1>3, <1>6, <1>16, <1>23, <1>24, <1>25, <1>26, <1>27, <1>28, Zenon DEF TakenOut
  <1> QED
    BY <1>29, Zenon

LEMMA MoveUnreachableStep ==
  ASSUME IInv, MoveUnreachable
  PROVE  IInv'
  <1>1. PICK y, ny, u, nu, q, nq, i : ListsInv(y, ny, u, nu, q, nq, i)
    BY Zenon DEF IInv
  <1>2. TypeLists /\ ScanInv(y, ny, u, nu, i) /\ MoveInv(y, ny, i)
    BY <1>1, Zenon DEF IInv, ListsInv
  <1>3. /\ Cursor(y, ny, i) /\ ny \in Nat /\ i \in 1 .. ny /\ gc = y[i] /\ gc \in Obj /\ gc \in Elems(y, ny)
        /\ next[gc] = y[i + 1] /\ \A k \in 0 .. ny + 1 : y[k] \in Node /\ (k # i => y[k] # gc)
    <2>1. Cursor(y, ny, i) /\ gc # YOUNG
      BY <1>1, CursorFacts, Zenon DEF MoveUnreachable
    <2> QED
      BY <2>1, AtObject, ZenonT(60) DEF Cursor
  <1>4. /\ pc = "move" /\ gc # YOUNG /\ gc_get_refs(gc) = 0 /\ ToUnreachable /\ UNCHANGED heap
        /\ UNCHANGED <<collecting, pc, prev, todo>>
    BY Zenon DEF MoveUnreachable
  <1>5. i \in i .. ny
    BY AtIndex, <1>3, Zenon
  <1>6. collecting[gc] /\ pv[y[i]].val = 0
    BY <1>2, <1>3, <1>4, <1>5, Zenon DEF ScanInv, MoveInv, gc_get_refs
  <1>7. PICK Y, U : TakenOut(y, ny, u, nu, q, nq, i, Y, U)
    BY <1>1, <1>2, <1>4, <1>6, ToUnreachableFacts, Zenon
  <1>8. /\ (\A k \in 1 .. i - 1 : Y[k] = y[k]) /\ (\A k \in i .. ny : Y[k] = y[k + 1])
        /\ (\A k \in 1 .. ny : k # i => pv'[y[k]] = pv[y[k]]) /\ pv'[YOUNG] = pv[YOUNG]
    BY <1>7, Zenon DEF TakenOut
  <1>9. MoveInv(Y, ny - 1, i)'
    <2>1. /\ \A k \in i .. ny - 1 : k \in i .. ny /\ k + 1 \in i .. ny /\ k + 1 # i /\ k + 1 \in 1 .. ny
          /\ \A k \in 1 .. i - 1 : k \in 1 .. ny /\ k # i /\ k \in 1 .. ny - 1 /\ k < i
          /\ \A k \in (i + 1) .. ny : k - 1 \in 1 .. ny - 1 /\ k - 1 \in i .. ny /\ (k - 1) + 1 = k /\ k # i /\ k \in 1 .. ny
      BY <1>3
    <2>2. \A k \in i .. ny - 1 : /\ collecting[Y[k]] /\ pv'[Y[k]].val \in Nat
                                 /\ pv'[Y[k]].val > 0 => Y[k] \in Reachable
      BY <1>2, <1>4, <1>8, <2>1, SMTT(60) DEF MoveInv
    <2>3. i <= ny - 1 => pv'[YOUNG] = Ptr(Y[ny - 1])
      <3>1. i <= ny - 1 => Y[ny - 1] = y[ny]
        <4>1. i <= ny - 1 => ny - 1 \in i .. ny /\ (ny - 1) + 1 = ny
          BY <1>3
        <4> QED
          BY <1>8, <4>1, Zenon
      <3>2. pv[YOUNG] = Ptr(y[ny])
        BY AtIndex, <1>2, <1>3, <1>4, Zenon DEF MoveInv
      <3> QED
        BY <1>8, <3>1, <3>2, Zenon
    <2>4. ASSUME NEW o, Found(y, ny, i, o)
          PROVE  Found(Y, ny - 1, i, o)'
      <3>1. PICK k \in 1 .. ny : o = y[k] /\ (k < i \/ pv[y[k]].val > 0)
        BY <2>4, Zenon DEF Found
      <3>2. CASE k < i
        <4>1. k \in 1 .. i - 1
          BY <1>3, <3>2
        <4> QED
          BY <1>8, <2>1, <3>1, <4>1, Zenon DEF Found
      <3>3. CASE ~(k < i)
        <4>1. k \in (i + 1) .. ny
          BY <1>3, <1>6, <3>1, <3>3
        <4>2. Y[k - 1] = y[k] /\ pv'[y[k]] = pv[y[k]] /\ k - 1 \in 1 .. ny - 1
          BY <1>8, <2>1, <4>1, Zenon
        <4> QED
          BY <3>1, <3>3, <4>2, Zenon DEF Found
      <3> QED
        BY <3>2, <3>3, Zenon
    <2>5. \A o \in Roots : Found(Y, ny - 1, i, o)'
      BY <1>2, <1>4, <2>4, Zenon DEF MoveInv
    <2>6. \A k \in 1 .. i - 1 : \A o \in refs[Y[k]] \ immortal : Found(Y, ny - 1, i, o)'
      BY <1>2, <1>4, <1>8, <2>4, Zenon DEF MoveInv
    <2>7. Reachable' = Reachable /\ Roots' = Roots /\ refs' = refs /\ immortal' = immortal
      BY <1>4, HeapFrame, Zenon DEF heap
    <2> QED
      BY <1>4, <2>2, <2>3, <2>5, <2>6, <2>7, Zenon DEF MoveInv
  <1>10. /\ UpdateInv(Y, ny - 1, i)' /\ SubtractInv(Y, ny - 1, i)' /\ RestoreInv(Y, ny - 1, i)'
         /\ MarkInv(Y, ny - 1, i)' /\ VisitInv(Y, ny - 1, i)'
         /\ PMoveInv(Y, ny - 1, U, nu + 1, i)' /\ SplitInv(Y, ny - 1, U, nu + 1)'
    BY <1>4, Zenon DEF UpdateInv, SubtractInv, RestoreInv, MarkInv, VisitInv, PMoveInv, SplitInv
  <1>11. ListsInv(Y, ny - 1, U, nu + 1, q, nq, i)'
    BY <1>7, <1>9, <1>10, Zenon DEF ListsInv, TakenOut
  <1> QED
    BY <1>7, <1>11, Zenon DEF IInv, TakenOut

LEMMA PMoveUnreachableStep ==
  ASSUME IInv, PMoveUnreachable
  PROVE  IInv'
  <1>1. PICK y, ny, u, nu, q, nq, i : ListsInv(y, ny, u, nu, q, nq, i)
    BY Zenon DEF IInv
  <1>2. TypeLists /\ ScanInv(y, ny, u, nu, i) /\ PMoveInv(y, ny, u, nu, i)
    BY <1>1, Zenon DEF IInv, ListsInv
  <1>3. /\ Cursor(y, ny, i) /\ ny \in Nat /\ i \in 1 .. ny /\ gc = y[i] /\ gc \in Obj /\ gc \in Elems(y, ny)
        /\ next[gc] = y[i + 1] /\ \A k \in 0 .. ny + 1 : y[k] \in Node /\ (k # i => y[k] # gc)
    <2>1. Cursor(y, ny, i) /\ gc # YOUNG
      BY <1>1, CursorFacts, Zenon DEF PMoveUnreachable
    <2> QED
      BY <2>1, AtObject, ZenonT(60) DEF Cursor
  <1>4. /\ pc = "pmove" /\ gc # YOUNG /\ gc_get_refs(gc) = 0 /\ ToUnreachable /\ UNCHANGED heap
        /\ UNCHANGED <<collecting, pc, prev, todo>>
    BY Zenon DEF PMoveUnreachable
  <1>5. i \in i .. ny
    BY AtIndex, <1>3, Zenon
  <1>6. collecting[gc] /\ gc \notin Reachable
    BY EndIndex, <1>2, <1>3, <1>4, <1>5, ZenonT(60) DEF ScanInv, PMoveInv, gc_get_refs
  <1>7. PICK Y, U : TakenOut(y, ny, u, nu, q, nq, i, Y, U)
    BY <1>1, <1>2, <1>4, <1>6, ToUnreachableFacts, Zenon
  <1>8. PMoveInv(Y, ny - 1, U, nu + 1, i)'
    <2>1. /\ \A k \in i .. ny - 1 : k \in i .. ny /\ k + 1 \in i .. ny /\ k + 1 # i /\ k + 1 \in 1 .. ny
          /\ \A k \in 1 .. nu + 1 : k = nu + 1 \/ k \in 1 .. nu
      BY <1>3, <1>7, SMTT(60) DEF TakenOut
    <2>2. \A k \in i .. ny - 1 : Y[k] = y[k + 1] /\ pv'[Y[k]] = pv[y[k + 1]]
      BY <1>7, <2>1, Zenon DEF TakenOut
    <2>3. \A k \in i .. ny - 1 : /\ pv'[Y[k]].val = IF Y[k] \in Reachable THEN 1 ELSE 0
                                 /\ Y[k] \notin Reachable => collecting[Y[k]]
      BY <1>2, <1>4, <2>1, <2>2, SMTT(60) DEF PMoveInv
    <2>4. \A k \in 1 .. nu : u[k] \notin Reachable
      BY <1>2, <1>4, Zenon DEF PMoveInv
    <2>5. \A k \in 1 .. nu + 1 : U[k] \notin Reachable
      BY <1>6, <1>7, <2>1, <2>4 DEF TakenOut
    <2>6. Reachable' = Reachable
      BY <1>4, HeapFrame, Zenon
    <2> QED
      BY <1>4, <2>3, <2>5, <2>6, Zenon DEF PMoveInv
  <1>9. /\ UpdateInv(Y, ny - 1, i)' /\ SubtractInv(Y, ny - 1, i)' /\ RestoreInv(Y, ny - 1, i)'
        /\ MarkInv(Y, ny - 1, i)' /\ VisitInv(Y, ny - 1, i)' /\ MoveInv(Y, ny - 1, i)' /\ SplitInv(Y, ny - 1, U, nu + 1)'
    BY <1>4, Zenon DEF UpdateInv, SubtractInv, RestoreInv, MarkInv, VisitInv, MoveInv, SplitInv
  <1>10. ListsInv(Y, ny - 1, U, nu + 1, q, nq, i)'
    BY <1>7, <1>8, <1>9, Zenon DEF ListsInv, TakenOut
  <1> QED
    BY <1>7, <1>10, Zenon DEF IInv, TakenOut

\* visit_reachable of an object that was moved to unreachable too early.
LEMMA VisitMovedStep ==
  ASSUME IInv, NEW o \in Obj, visit_reachable(o), collecting[o] /\ umask[o]
  PROVE  IInv'
  <1>1. PICK y, ny, u, nu, q, nq, i : ListsInv(y, ny, u, nu, q, nq, i)
    BY Zenon DEF IInv
  <1>2. /\ TypeLists /\ Split(y, ny, u, nu, q, nq) /\ FlagsInv(y, ny, u, nu, q, nq) /\ ScanInv(y, ny, u, nu, i)
        /\ MoveInv(y, ny, i) /\ VisitInv(y, ny, i)
    BY <1>1, Zenon DEF IInv, ListsInv
  <1>3. /\ pc = "visit" /\ o \in todo /\ todo' = todo \ {o} /\ UNCHANGED heap
        /\ UNCHANGED <<collecting, pc, gc, prev>>
        /\ next' = [next EXCEPT ![GC_PREV(o)] = next[o], ![GC_PREV(YOUNG)] = o, ![o] = YOUNG]
        /\ umask' = [umask EXCEPT ![GC_PREV(o)] = TRUE, ![o] = FALSE]
        /\ pv' = [pv EXCEPT ![next[o]] = Ptr(GC_PREV(o)), ![YOUNG] = Ptr(o), ![o] = Refs(1)]
    BY Zenon DEF visit_reachable
  <1>4. /\ Cursor(y, ny, i) /\ ny \in Nat /\ i \in 1 .. ny /\ gc = y[i]
    <2>1. Cursor(y, ny, i) /\ i <= ny
      BY <1>1, <1>2, <1>3, CursorFacts, Zenon DEF VisitInv
    <2> QED
      BY <2>1 DEF Cursor
  <1>5. Reachable' = Reachable /\ Roots' = Roots /\ refs' = refs /\ immortal' = immortal
    BY <1>3, HeapFrame, Zenon DEF heap
  <1>6. PICK j \in 1 .. nu : o = u[j]
    <2>1. o \notin Elems(y, ny)
      BY <1>2, <1>3, Zenon DEF ScanInv, Elems
    <2>2. o \notin Elems(q, nq)
      BY <1>2, <1>3, Zenon DEF FlagsInv
    <2> QED
      BY <1>2, <2>1, <2>2, Zenon DEF Split, Elems
  <1>7. ThreeLists(next, u, nu, UNREACHABLE, y, ny, YOUNG, q, nq, PERMANENT)
    BY <1>2, NodeFacts, Zenon DEF Split, ThreeLists, TypeLists
  <1>8. /\ Path(next, y, ny, YOUNG) /\ Path(next, q, nq, PERMANENT) /\ Path(next, u, nu, UNREACHABLE)
        /\ YOUNG \in Node \ Obj /\ PERMANENT \in Node \ Obj /\ UNREACHABLE \in Node \ Obj
    BY <1>2, NodeFacts, Zenon DEF Split
  <1>9. /\ nq \in Nat /\ nu \in Nat /\ q[nq + 1] = PERMANENT /\ u[0] = UNREACHABLE /\ y[0] = YOUNG /\ y[ny + 1] = YOUNG
        /\ (\A k \in 0 .. nq + 1 : q[k] \in Node) /\ (\A k \in 0 .. nu + 1 : u[k] \in Node)
        /\ (\A k \in 0 .. ny + 1 : y[k] \in Node) /\ (\A k \in 1 .. ny : y[k] \in Obj)
        /\ (\A k \in 1 .. nu : \A l \in 0 .. nu + 1 : l # k => u[l] # u[k])
    BY <1>8, PathFacts, SMTT(60)
  <1>10. /\ j - 1 \in 0 .. nu + 1 /\ j + 1 \in 0 .. nu + 1 /\ j \in 0 .. nu + 1 /\ ny \in 0 .. ny + 1 /\ j \in 0 .. nu
         /\ ny + 1 \in 0 .. ny + 1 /\ 0 \in 0 .. ny + 1 /\ nq + 1 \in 0 .. nq + 1 /\ j + 1 # j /\ j - 1 # j
         /\ j \in 1 .. nu + 1
         /\ (\A k \in 1 .. ny : k \in 0 .. ny + 1) /\ (\A k \in 1 .. nq + 1 : k \in 0 .. nq + 1)
    BY <1>4, <1>6, <1>9, SMTT(60)
  <1>11. /\ \A k \in 0 .. ny + 1 : \A l \in 0 .. nu + 1 : y[k] # u[l]
    BY <1>7, Apart, Zenon DEF ThreeLists
  <1>12. /\ \A k \in 0 .. nq + 1 : \A l \in 0 .. ny + 1 : q[k] # y[l]
    BY <1>7, Apart, Zenon DEF ThreeLists
  <1>13. /\ \A k \in 0 .. nq + 1 : \A l \in 0 .. nu + 1 : q[k] # u[l]
    BY <1>7, Apart, Zenon DEF ThreeLists
  <1>14. /\ Back(pv, q, 1, nq + 1) /\ Back(pv, u, 1, nu + 1) /\ Back(pv, y, 1, i - 1) /\ prev = y[i - 1]
         /\ GC_PREV(o) = u[j - 1] /\ next[o] = u[j + 1] /\ GC_PREV(YOUNG) = y[ny]
    <2>1. Back(pv, q, 1, nq + 1) /\ Back(pv, u, 1, nu + 1) /\ Back(pv, y, 1, i - 1) /\ prev = y[i - 1]
      BY <1>2, <1>3, Zenon DEF ScanInv, Split
    <2>2. pv[o] = Ptr(u[j - 1]) /\ next[o] = u[j + 1]
      BY <1>6, <1>8, <1>10, <2>1, Zenon DEF Back, Path
    <2>3. pv[YOUNG] = Ptr(y[ny])
      BY AtIndex, <1>2, <1>3, <1>4, Zenon DEF MoveInv
    <2> QED
      BY <2>1, <2>2, <2>3, ValFacts, Zenon DEF GC_PREV
  <1>15. /\ next' = [next EXCEPT ![u[j - 1]] = u[j + 1], ![y[ny]] = u[j], ![u[j]] = YOUNG]
         /\ umask' = [umask EXCEPT ![u[j - 1]] = TRUE, ![u[j]] = FALSE]
         /\ pv' = [pv EXCEPT ![u[j + 1]] = Ptr(u[j - 1]), ![YOUNG] = Ptr(u[j]), ![u[j]] = Refs(1)]
    BY <1>3, <1>6, <1>14, Zenon
  <1>16. Transfer(next', u, nu, UNREACHABLE, y, ny, YOUNG, q, nq, PERMANENT, j)
    BY <1>7, <1>15, Transferred, Zenon
  <1>17. PICK U, Y : U = Removed(u, nu, j) /\ Y = Appended(y, ny, u[j])
    BY Zenon
  <1>18. /\ next' \in [Node -> Node] /\ Path(next', U, nu - 1, UNREACHABLE) /\ Path(next', Y, ny + 1, YOUNG)
         /\ Path(next', q, nq, PERMANENT)
         /\ Elems(U, nu - 1) = Elems(u, nu) \ {u[j]} /\ Elems(Y, ny + 1) = Elems(y, ny) \cup {u[j]}
         /\ u[j] \in Elems(u, nu)
    BY <1>16, <1>17, Zenon DEF Transfer
  <1>19. /\ (\A k \in 1 .. j - 1 : U[k] = u[k]) /\ (\A k \in j .. nu : U[k] = u[k + 1])
         /\ (\A k \in 0 .. ny : Y[k] = y[k]) /\ Y[ny + 1] = u[j]
    <2>0. nu \in Nat /\ ny \in Nat /\ j \in 1 .. nu
      BY <1>4, <1>6, <1>9, Zenon
    <2>1. (\A k \in 0 .. j - 1 : U[k] = u[k]) /\ (\A k \in j .. nu : U[k] = u[k + 1])
      <3>1. /\ \A k \in 0 .. j - 1 : Removed(u, nu, j)[k] = u[k]
            /\ \A k \in j .. nu : Removed(u, nu, j)[k] = u[k + 1]
        BY <2>0, RemovedFacts, Zenon
      <3> QED
        BY <1>17, <3>1, Zenon
    <2>2. (\A k \in 0 .. ny : Y[k] = y[k]) /\ Y[ny + 1] = u[j]
      <3>1. \A x : (\A k \in 0 .. ny : Appended(y, ny, x)[k] = y[k]) /\ Appended(y, ny, x)[ny + 1] = x
        BY <2>0 DEF Appended
      <3> QED
        BY <1>17, <3>1, Zenon
    <2>3. \A k \in 1 .. j - 1 : k \in 0 .. j - 1
      BY <2>0, BelowIndex, Zenon
    <2> QED
      BY <2>1, <2>2, <2>3, Zenon
  <1>20. /\ u[j] \in Node /\ u[j + 1] \in Node /\ u[j - 1] \in Node /\ YOUNG \in Node
         /\ u[j] # u[j + 1] /\ u[j] # u[j - 1] /\ u[j] # YOUNG /\ u[j + 1] # YOUNG
         /\ Ptr(u[j - 1]) \in Val /\ Ptr(u[j]) \in Val /\ Refs(1) \in Val
    <2>1. u[j] \in Node /\ u[j + 1] \in Node /\ u[j - 1] \in Node /\ u[j] # u[j + 1] /\ u[j] # u[j - 1]
      BY <1>9, <1>10, Zenon
    <2>2. u[j] # YOUNG /\ u[j + 1] # YOUNG
      BY <1>9, <1>10, <1>11, Zenon
    <2>3. u[j - 1] \in Int /\ u[j] \in Int /\ YOUNG \in Node
      <3>1. Node \subseteq Int /\ YOUNG \in Node
        BY NodeFacts, Zenon
      <3> QED
        BY <2>1, <3>1, Zenon
    <2>4. Ptr(u[j - 1]) \in Val /\ Ptr(u[j]) \in Val /\ Refs(1) \in Val
      BY <2>3, ValFacts
    <2> QED
      BY <2>1, <2>2, <2>3, <2>4, Zenon
  <1>21. /\ pv' \in [Node -> Val]
         /\ pv'[u[j + 1]] = Ptr(u[j - 1]) /\ pv'[YOUNG] = Ptr(u[j]) /\ pv'[u[j]] = Refs(1)
         /\ \A x \in Node : x # u[j + 1] /\ x # YOUNG /\ x # u[j] => pv'[x] = pv[x]
    BY <1>2, <1>15, <1>20, Zenon DEF TypeLists
  <1>22. umask' \in [Node -> BOOLEAN] /\ \A x \in Node : umask'[x] <=> (umask[x] \/ x = u[j - 1]) /\ x # u[j]
    BY <1>2, <1>15, <1>20, Zenon DEF TypeLists
  <1>23. \A k \in 1 .. ny : /\ y[k] \in Node /\ Y[k] = y[k] /\ pv'[y[k]] = pv[y[k]]
                            /\ umask'[y[k]] <=> umask[y[k]]
    <2>1. \A k \in 1 .. ny : k \in 0 .. ny
      BY EndIndex, <1>4, Zenon
    <2>2. \A k \in 1 .. ny : y[k] \in Node /\ Y[k] = y[k] /\ y[k] # YOUNG
      BY <1>8, <1>9, <1>10, <1>19, <2>1, ZenonT(60)
    <2>3. \A k \in 1 .. ny : y[k] # u[j + 1] /\ y[k] # u[j] /\ y[k] # u[j - 1]
      BY <1>10, <1>11, Zenon
    <2> QED
      BY <1>21, <1>22, <2>2, <2>3, Zenon
  <1>24. Back(pv', U, 1, nu)
    <2>1. \A k \in 1 .. nu + 1 : k \in 0 .. nu + 1
      BY EndIndex, <1>9, Zenon
    <2>2. \A k \in 1 .. nu + 1 : k # j /\ k # j + 1 => pv'[u[k]] = pv[u[k]]
      <3> SUFFICES ASSUME NEW k \in 1 .. nu + 1, k # j, k # j + 1 PROVE pv'[u[k]] = pv[u[k]]
        BY Zenon
      <3>1. u[k] \in Node /\ u[k] # u[j] /\ u[k] # YOUNG
        BY AtIndex, <1>6, <1>9, <1>10, <1>11, <2>1, Zenon
      <3>2. u[k] # u[j + 1]
        <4>1. k \in 1 .. nu \/ j + 1 \in 1 .. nu
          BY EndIndex, <1>6, <1>9, Zenon
        <4> QED
          BY <1>9, <1>10, <2>1, <4>1, Zenon
      <3> QED
        BY <1>21, <3>1, <3>2, Zenon
    <2>3. 1 \in 1 .. j
      BY <1>6, <1>9
    <2>4. Path(next, u, nu, UNREACHABLE) /\ UNREACHABLE \notin Obj /\ Back(pv, u, 1, nu + 1) /\ pv'[u[j + 1]] = Ptr(u[j - 1])
      BY <1>8, <1>14, <1>21, Zenon
    <2>5. Back(pv', Removed(u, nu, j), 1, nu)
      BY <2>2, <2>3, <2>4, BackRemoved, Zenon
    <2> QED
      BY <1>17, <2>5, Zenon
  <1>25. Back(pv', q, 1, nq + 1)
    <2>1. \A k \in 1 .. nq + 1 : q[k] \in Node /\ q[k] # u[j + 1] /\ q[k] # YOUNG /\ q[k] # u[j]
      BY <1>9, <1>10, <1>12, <1>13, Zenon
    <2> QED
      BY <1>14, <1>21, <2>1, Zenon DEF Back
  <1>26. Split(Y, ny + 1, U, nu - 1, q, nq)'
    <2>1. /\ Elems(y, ny) \cap Elems(u, nu) = {} /\ Elems(y, ny) \cap Elems(q, nq) = {}
          /\ Elems(u, nu) \cap Elems(q, nq) = {} /\ Elems(y, ny) \cup Elems(u, nu) \cup Elems(q, nq) = Obj
      BY <1>2, Zenon DEF Split
    <2>2. /\ Elems(Y, ny + 1) \cap Elems(U, nu - 1) = {} /\ Elems(Y, ny + 1) \cap Elems(q, nq) = {}
          /\ Elems(U, nu - 1) \cap Elems(q, nq) = {}
          /\ Elems(Y, ny + 1) \cup Elems(U, nu - 1) \cup Elems(q, nq) = Obj
      BY <1>18, <2>1, Zenon
    <2>3. (nu - 1) + 1 = nu
      BY AtIndex, <1>9, Zenon
    <2> QED
      BY <1>18, <1>24, <1>25, <2>2, <2>3, Zenon DEF Split, Elems
  <1>27. TypeLists'
    BY <1>2, <1>3, <1>5, <1>18, <1>21, <1>22, Zenon DEF TypeLists
  <1>28. FlagsInv(Y, ny + 1, U, nu - 1, q, nq)'
    <2>1. Elems(q, nq) = immortal
      BY <1>2, <1>3, Zenon DEF FlagsInv
    <2>2. \A x \in immortal : x \in Node /\ \E k \in 0 .. nq + 1 : x = q[k]
      <3>1. \A k \in 1 .. nq : k \in 0 .. nq + 1
        BY EndIndex, <1>9, Zenon
      <3> QED
        BY <1>9, <2>1, <3>1, Zenon DEF Elems
    <2>3. \A x \in immortal : x \in Node /\ x # u[j - 1]
      BY <1>10, <1>13, <2>2, Zenon
    <2>4. PERMANENT \in Node /\ PERMANENT # u[j - 1]
      BY <1>9, <1>10, <1>13, NodeFacts, Zenon
    <2>5. (\A x \in immortal : ~umask'[x]) /\ ~umask'[PERMANENT]
      BY <1>2, <1>22, <2>3, <2>4, Zenon DEF FlagsInv
    <2> QED
      BY <1>2, <1>3, <1>5, <2>1, <2>5, Zenon DEF FlagsInv, Elems
  <1>29. /\ \A k \in 1 .. i - 1 : k \in 1 .. ny
         /\ i - 1 \in 0 .. ny /\ i \in 1 .. ny + 1 /\ i \in i .. ny
         /\ \A k \in i .. ny + 1 : k = ny + 1 \/ (k \in i .. ny /\ k \in 1 .. ny)
         /\ \A k \in 1 .. ny + 1 : k = ny + 1 \/ k \in 1 .. ny
    BY <1>4
  <1>30. o \in Reachable
    <2>1. o \notin immortal
      BY <1>2, Zenon DEF FlagsInv
    <2>2. y[i] \in Reachable /\ o \in refs[y[i]]
      BY <1>2, <1>3, <1>29, Zenon DEF MoveInv, VisitInv
    <2>3. refs[y[i]] \ immortal \subseteq Reachable
      BY EndIndex, <1>2, <2>2, ReachableFacts, Zenon DEF TypeLists
    <2> QED
      BY <2>1, <2>2, <2>3, Zenon
  <1>31. ScanInv(Y, ny + 1, U, nu - 1, i)'
    <2>1. /\ \A k \in 1 .. i - 1 : ~collecting[y[k]] /\ y[k] \in Reachable
          /\ \A k \in i .. ny : ~pv[y[k]].ptr
          /\ \A k \in 1 .. ny : ~umask[y[k]]
          /\ ~umask[YOUNG]
          /\ \A k \in 1 .. nu : collecting[u[k]] /\ umask[u[k]]
      BY EndIndex, <1>2, <1>3, Zenon DEF ScanInv
    <2>2. prev' = Y[i - 1]
      BY <1>3, <1>14, <1>19, <1>29, Zenon
    <2>3. Back(pv', Y, 1, i - 1)
      <3>1. \A k \in 1 .. i - 1 : k \in 1 .. ny /\ k \in 0 .. ny /\ k - 1 \in 0 .. ny
        BY <1>4
      <3> QED
        BY <1>14, <1>19, <1>23, <3>1 DEF Back
    <2>4. \A k \in 1 .. i - 1 : ~collecting[Y[k]] /\ Y[k] \in Reachable
      BY <1>23, <1>29, <2>1, Zenon
    <2>5. \A k \in i .. ny + 1 : ~pv'[Y[k]].ptr
      BY <1>19, <1>21, <1>23, <1>29, <2>1, ValFacts, SMTT(60)
    <2>6. \A k \in 1 .. ny + 1 : ~umask'[Y[k]]
      BY <1>19, <1>20, <1>22, <1>23, <1>29, <2>1, Zenon
    <2>7. ~umask'[YOUNG]
      <3>1. YOUNG # u[j - 1]
        BY <1>9, <1>10, <1>11, Zenon
      <3> QED
        BY <1>20, <1>22, <2>1, <3>1, Zenon
    <2>8. \A k \in 1 .. nu - 1 : collecting[U[k]] /\ umask'[U[k]]
      <3>1. \A l \in 1 .. nu : l \in 0 .. nu + 1
        BY EndIndex, <1>9, Zenon
      <3>2. \A l \in 1 .. nu : l # j => collecting[u[l]] /\ umask'[u[l]]
        BY <1>9, <1>22, <2>1, <3>1, Zenon
      <3>3. \A k \in 1 .. nu - 1 : (k \in 1 .. j - 1 /\ k \in 1 .. nu /\ k # j) \/ (k \in j .. nu /\ k + 1 \in 1 .. nu /\ k + 1 # j)
        BY <1>9
      <3> QED
        BY <1>19, <3>2, <3>3, Zenon
    <2> QED
      BY <1>3, <1>5, <2>2, <2>3, <2>4, <2>5, <2>6, <2>7, <2>8, Zenon DEF ScanInv
  <1>32. ASSUME NEW x, Found(y, ny, i, x)
         PROVE  Found(Y, ny + 1, i, x)'
    <2>1. PICK k \in 1 .. ny : x = y[k] /\ (k < i \/ pv[y[k]].val > 0)
      BY <1>32, Zenon DEF Found
    <2>2. k \in 1 .. ny + 1 /\ x = Y[k] /\ (k < i \/ pv'[Y[k]].val > 0)
      BY AtIndex, <1>4, <1>23, <2>1, Zenon
    <2> QED
      BY <2>2, Zenon DEF Found
  <1>33. Found(Y, ny + 1, i, o)'
    <2>1. ny + 1 \in 1 .. ny + 1 /\ o = Y[ny + 1]
      BY EndIndex, <1>4, <1>6, <1>19, Zenon
    <2>2. pv'[Y[ny + 1]].val > 0
      BY <1>19, <1>21, ValFacts
    <2> QED
      BY <2>1, <2>2, Zenon DEF Found
  <1>34. MoveInv(Y, ny + 1, i)'
    <2>1. \A k \in i .. ny + 1 : /\ collecting[Y[k]] /\ pv'[Y[k]].val \in Nat
                                 /\ pv'[Y[k]].val > 0 => Y[k] \in Reachable
      <3>1. \A k \in i .. ny : /\ collecting[y[k]] /\ pv[y[k]].val \in Nat
                               /\ pv[y[k]].val > 0 => y[k] \in Reachable
        BY EndIndex, <1>2, <1>3, Zenon DEF MoveInv
      <3>2. collecting[Y[ny + 1]] /\ pv'[Y[ny + 1]].val \in Nat /\ Y[ny + 1] \in Reachable
        BY <1>6, <1>19, <1>21, <1>30, ValFacts, SMTT(60)
      <3> QED
        BY <1>23, <1>29, <3>1, <3>2, Zenon
    <2>2. pv'[YOUNG] = Ptr(Y[ny + 1])
      BY <1>19, <1>21, Zenon
    <2>3. /\ \A x \in Roots : Found(y, ny, i, x)
          /\ \A k \in 1 .. i - 1 : \A x \in refs[y[k]] \ immortal : Found(y, ny, i, x)
      BY <1>2, <1>3, Zenon DEF MoveInv
    <2>4. \A k \in 1 .. i - 1 : \A x \in refs[Y[k]] \ immortal : Found(Y, ny + 1, i, x)'
      BY <1>23, <1>29, <1>32, <2>3, Zenon
    <2> QED
      BY <1>3, <1>5, <1>32, <2>1, <2>2, <2>3, <2>4, Zenon DEF MoveInv
  <1>35. VisitInv(Y, ny + 1, i)'
    <2>1. i <= ny + 1 /\ pv'[Y[i]].val > 0 /\ todo' \subseteq refs[Y[i]] /\ Y[i] = y[i]
      <3>1. pv[y[i]].val > 0 /\ todo \subseteq refs[y[i]]
        BY <1>2, <1>3, Zenon DEF VisitInv
      <3>2. i <= ny + 1 /\ Y[i] = y[i] /\ pv'[y[i]] = pv[y[i]]
        BY <1>4, <1>23, SMTT(60)
      <3> QED
        BY <1>3, <3>1, <3>2, Zenon
    <2>2. \A x \in (refs[y[i]] \ immortal) \ todo : Found(y, ny, i, x)
      BY <1>2, <1>3, Zenon DEF VisitInv
    <2>3. \A x \in (refs[y[i]] \ immortal) \ todo' : Found(Y, ny + 1, i, x)'
      BY <1>3, <1>32, <1>33, <2>2, Zenon
    <2> QED
      BY <1>5, <2>1, <2>3, Zenon DEF VisitInv
  <1>36. /\ UpdateInv(Y, ny + 1, i)' /\ SubtractInv(Y, ny + 1, i)' /\ RestoreInv(Y, ny + 1, i)' /\ MarkInv(Y, ny + 1, i)'
         /\ PMoveInv(Y, ny + 1, U, nu - 1, i)' /\ SplitInv(Y, ny + 1, U, nu - 1)'
    BY <1>3, Zenon DEF UpdateInv, SubtractInv, RestoreInv, MarkInv, PMoveInv, SplitInv
  <1>37. i \in 1 .. (ny + 1) + 1 /\ gc' = Y[i]
    BY <1>3, <1>4, <1>23
  <1>38. ListsInv(Y, ny + 1, U, nu - 1, q, nq, i)'
    BY <1>26, <1>28, <1>31, <1>34, <1>35, <1>36, <1>37, Zenon DEF ListsInv
  <1> QED
    BY <1>27, <1>38, Zenon DEF IInv

-----------------------------------------------------------------------------
(* The steps that count references.                                        *)

\* The count that gc_reset_refs sets and visit_decref brings down.
LEMMA LeftFacts ==
  ASSUME NEW o, NEW S \in SUBSET Obj
  PROVE  /\ Left(o, S) \in Nat
         /\ Py_REFCNT(o) = Left(o, {})
         /\ \A g \in Obj \ S : Left(o, S \cup {g}) = Left(o, S) - (IF o \in refs[g] THEN 1 ELSE 0)
         /\ Left(o, S) > 0 <=> o \in ext \/ \E p \in Obj \ S : o \in refs[p]
  <1> DEFINE E(T) == {p \in Obj \ T : o \in refs[p]}
  <1>1. IsFiniteSet(Obj)
    BY SizesAssumption, FS_Interval DEF Obj
  <1>2. \A T \in SUBSET Obj : IsFiniteSet(E(T)) /\ Cardinality(E(T)) \in Nat
    <2>1. \A T \in SUBSET Obj : E(T) \subseteq Obj
      BY Zenon
    <2> HIDE DEF E
    <2> QED
      BY <1>1, <2>1, FS_Subset, FS_CardinalityType, Zenon
  <1>3. Left(o, S) = (IF o \in ext THEN 1 ELSE 0) + Cardinality(E(S))
    BY Zenon DEF Left
  <1>4. Cardinality(E(S)) = 0 <=> E(S) = {}
    <2> HIDE DEF E
    <2> QED
      BY <1>2, FS_EmptySet, Zenon
  <1>5. ASSUME NEW g \in Obj \ S
        PROVE  Left(o, S \cup {g}) = Left(o, S) - (IF o \in refs[g] THEN 1 ELSE 0)
    <2>1. Left(o, S \cup {g}) = (IF o \in ext THEN 1 ELSE 0) + Cardinality(E(S \cup {g}))
      BY Zenon DEF Left
    <2>2. CASE o \in refs[g]
      <3>1. E(S \cup {g}) = E(S) \ {g} /\ g \in E(S)
        BY <2>2, Zenon
      <3> HIDE DEF E
      <3>2. Cardinality(E(S \cup {g})) = Cardinality(E(S)) - 1
        BY <1>2, <3>1, FS_RemoveElement, Zenon
      <3> QED
        BY <1>2, <1>3, <2>1, <2>2, <3>2
    <2>3. CASE o \notin refs[g]
      <3>1. E(S \cup {g}) = E(S)
        BY <2>3, Zenon
      <3> HIDE DEF E
      <3> QED
        BY <1>2, <1>3, <2>1, <2>3, <3>1
    <2> QED
      BY <2>2, <2>3, Zenon
  <1>6. Py_REFCNT(o) = Left(o, {})
    BY Zenon DEF Py_REFCNT, Left
  <1>7. E(S) = {} <=> ~ \E p \in Obj \ S : o \in refs[p]
    BY Zenon
  <1> HIDE DEF E
  <1>8. Left(o, S) \in Nat /\ (Left(o, S) > 0 <=> o \in ext \/ E(S) # {})
    BY <1>2, <1>3, <1>4
  <1> QED
    BY <1>5, <1>6, <1>7, <1>8, Zenon

LEMMA ResetStep ==
  ASSUME IInv, gc_reset_refs
  PROVE  IInv'
  <1>1. PICK y, ny, u, nu, q, nq, i : ListsInv(y, ny, u, nu, q, nq, i)
    BY Zenon DEF IInv
  <1>2. TypeLists /\ FlagsInv(y, ny, u, nu, q, nq) /\ UpdateInv(y, ny, i) /\ Split(y, ny, u, nu, q, nq)
    BY <1>1, Zenon DEF IInv, ListsInv
  <1>3. /\ Cursor(y, ny, i) /\ ny \in Nat /\ i \in 1 .. ny /\ gc = y[i] /\ gc \in Obj /\ gc \in Elems(y, ny)
        /\ next[gc] = y[i + 1] /\ \A k \in 0 .. ny + 1 : y[k] \in Node /\ (k # i => y[k] # gc)
    <2>1. Cursor(y, ny, i) /\ gc # YOUNG
      BY <1>1, CursorFacts, Zenon DEF gc_reset_refs
    <2> QED
      BY <2>1, AtObject, ZenonT(60) DEF Cursor
  <1>4. /\ UNCHANGED heap /\ UNCHANGED <<next, umask, pc, todo>> /\ pc = "update" /\ gc \notin immortal
        /\ pv' = [pv EXCEPT ![gc] = Refs(Py_REFCNT(gc))]
        /\ collecting' = [collecting EXCEPT ![gc] = TRUE]
        /\ gc' = y[i + 1]
    BY <1>3, Zenon DEF gc_reset_refs, GC_NEXT
  <1>5. Py_REFCNT(gc) \in Nat /\ \A o : Py_REFCNT(o)' = Py_REFCNT(o)
    <2>1. Py_REFCNT(gc) = Left(gc, {}) /\ Left(gc, {}) \in Nat
      BY LeftFacts, Zenon
    <2> QED
      BY <1>4, <2>1, HeapFrame, Zenon
  <1>6. /\ pv' \in [Node -> Val] /\ pv'[gc] = Refs(Py_REFCNT(gc))
        /\ \A x \in Node : x # gc => pv'[x] = pv[x]
    BY <1>2, <1>3, <1>4, <1>5, ValFacts, NodeFacts, SMTT(60) DEF TypeLists
  <1>7. collecting' \in [Node -> BOOLEAN] /\ \A x \in Node : collecting'[x] <=> (x = gc \/ collecting[x])
    BY <1>2, <1>3, <1>4, NodeFacts, Zenon DEF TypeLists
  <1>8. TypeLists'
    BY <1>2, <1>4, <1>6, <1>7, Zenon DEF TypeLists, heap
  <1>9. Split(y, ny, u, nu, q, nq)'
    <2>1. \A x \in Node : x \notin Elems(y, ny) \cup {YOUNG} => pv'[x] = pv[x]
      BY <1>3, <1>6, Zenon
    <2> QED
      BY <1>1, <1>4, <2>1, SplitFrame, Zenon
  <1>10. FlagsInv(y, ny, u, nu, q, nq)'
    BY <1>2, <1>3, <1>4, <1>7, NodeFacts, ZenonT(60) DEF FlagsInv, heap, TypeLists
  <1>11. UpdateInv(y, ny, i + 1)'
    <2>1. ASSUME NEW k \in 1 .. i
          PROVE  y[k] \notin immortal /\ collecting'[y[k]] /\ pv'[y[k]] = Refs(Py_REFCNT(y[k]))
      <3>1. y[k] \in Node
        BY <1>3
      <3>2. CASE k = i
        BY <1>3, <1>4, <1>6, <1>7, <3>1, <3>2, Zenon
      <3>3. CASE k # i
        <4>1. k \in 1 .. i - 1 /\ y[k] # gc
          BY <1>3, <3>3
        <4> QED
          BY <1>2, <1>4, <1>6, <1>7, <3>1, <4>1, Zenon DEF UpdateInv
      <3> QED
        BY <3>2, <3>3, Zenon
    <2>2. \A k \in i + 1 .. ny + 1 : y[k] \in Node /\ y[k] # gc
      BY <1>3
    <2>3. \A k \in i + 1 .. ny : ~collecting'[y[k]]
      <3>1. \A k \in i + 1 .. ny : k \in i .. ny /\ k \in i + 1 .. ny + 1
        BY <1>3, AboveIndex, Zenon
      <3> QED
        BY <1>2, <1>4, <1>7, <2>2, <3>1, Zenon DEF UpdateInv
    <2>4. Back(pv', y, i + 1, ny + 1)
      <3>1. Back(pv, y, i, ny + 1) /\ \A k \in i + 1 .. ny + 1 : k \in i .. ny + 1
        BY <1>2, <1>3, <1>4, AboveIndex, Zenon DEF UpdateInv
      <3> QED
        BY <1>6, <2>2, <3>1, Zenon DEF Back
    <2>5. (i + 1) - 1 = i
      BY EndIndex, <1>3, Zenon
    <2> QED
      BY <1>4, <1>5, <2>1, <2>3, <2>4, <2>5, Zenon DEF UpdateInv, heap
  <1>12. ListsInv(y, ny, u, nu, q, nq, i + 1)'
    <2>1. /\ SubtractInv(y, ny, i + 1)' /\ RestoreInv(y, ny, i + 1)' /\ MarkInv(y, ny, i + 1)'
          /\ ScanInv(y, ny, u, nu, i + 1)' /\ MoveInv(y, ny, i + 1)' /\ VisitInv(y, ny, i + 1)'
          /\ PMoveInv(y, ny, u, nu, i + 1)' /\ SplitInv(y, ny, u, nu)'
      BY <1>4, Zenon DEF SubtractInv, RestoreInv, MarkInv, ScanInv, MoveInv, VisitInv, PMoveInv, SplitInv
    <2>2. i + 1 \in 1 .. ny + 1
      BY EndIndex, <1>3, Zenon
    <2> QED
      BY <1>4, <1>9, <1>10, <1>11, <2>1, <2>2, Zenon DEF ListsInv
  <1> QED
    BY <1>8, <1>12, Zenon DEF IInv

LEMMA UpdateRefsDoneStep ==
  ASSUME IInv, UpdateRefsDone
  PROVE  IInv'
  <1>1. PICK y, ny, u, nu, q, nq, i : ListsInv(y, ny, u, nu, q, nq, i)
    BY Zenon DEF IInv
  <1>2. TypeLists /\ Split(y, ny, u, nu, q, nq) /\ FlagsInv(y, ny, u, nu, q, nq) /\ UpdateInv(y, ny, i)
    BY <1>1, Zenon DEF IInv, ListsInv
  <1>3. /\ Cursor(y, ny, i) /\ ny \in Nat /\ i = ny + 1 /\ y[0] = YOUNG /\ y[ny + 1] = YOUNG
        /\ next[YOUNG] = y[1] /\ \A k \in 1 .. ny : y[k] \in Obj /\ y[k] \in Node
    <2>1. Cursor(y, ny, i) /\ gc = YOUNG
      BY <1>1, CursorFacts, Zenon DEF UpdateRefsDone
    <2>2. ny \in Nat /\ i = ny + 1
      BY <2>1, AtEnd, Zenon
    <2>3. 0 \in 0 .. ny /\ 0 + 1 = 1
      BY EndIndex, <2>2, Zenon
    <2> QED
      BY <2>1, <2>2, <2>3, NodeFacts, Zenon DEF Cursor
  <1>4. /\ UNCHANGED heap /\ UNCHANGED links /\ UNCHANGED todo
        /\ pc = "update" /\ pc' \in {"subtract", "restore", "mark"} /\ gc' = y[1] /\ prev' = YOUNG
    BY <1>3, Zenon DEF UpdateRefsDone, GC_NEXT
  <1>5. /\ refs' = refs /\ ext' = ext /\ immortal' = immortal /\ next' = next /\ umask' = umask /\ pv' = pv
        /\ collecting' = collecting
    BY <1>4, Zenon DEF heap, links
  <1>6. TypeLists' /\ Split(y, ny, u, nu, q, nq)'
    BY <1>2, <1>4, <1>5, Zenon DEF TypeLists, Split
  <1>7. \A k \in 1 .. ny : y[k] \notin immortal /\ collecting[y[k]] /\ pv[y[k]] = Refs(Left(y[k], {}))
    BY <1>2, <1>3, <1>4, LeftFacts, SMTT(60) DEF UpdateInv
  <1>8. pv[YOUNG] = Ptr(y[ny])
    BY <1>2, <1>3, <1>4, SMTT(60) DEF UpdateInv, Back
  <1>9. FlagsInv(y, ny, u, nu, q, nq)'
    <2>1. nu = 0 /\ (\A x \in Node : ~umask[x]) /\ Elems(q, nq) \subseteq immortal
      BY <1>2, <1>4, Zenon DEF FlagsInv
    <2>2. Elems(u, nu) = {} /\ Elems(y, ny) \cap immortal = {}
      BY <1>7, <2>1 DEF Elems
    <2>3. Elems(q, nq) = immortal
      BY <1>2, <2>1, <2>2, Zenon DEF Split, TypeLists
    <2> QED
      BY <1>2, <1>4, <1>5, <2>1, <2>3, Zenon DEF FlagsInv
  <1>10. SubtractInv(y, ny, 1)'
    <2>1. Elems(y, 1 - 1) = {}
      BY DEF Elems
    <2> QED
      BY <1>4, <1>5, <1>7, <1>8, <2>1, HeapFrame, Zenon DEF SubtractInv, Elems
  <1>11. RestoreInv(y, ny, 1)' /\ MarkInv(y, ny, 1)'
    BY EndIndex, <1>3, <1>4, <1>5, <1>7, <1>8, Zenon DEF RestoreInv, MarkInv, Back
  <1>12. /\ UpdateInv(y, ny, 1)' /\ ScanInv(y, ny, u, nu, 1)' /\ MoveInv(y, ny, 1)' /\ VisitInv(y, ny, 1)'
         /\ PMoveInv(y, ny, u, nu, 1)' /\ SplitInv(y, ny, u, nu)'
    BY <1>4, Zenon DEF UpdateInv, ScanInv, MoveInv, VisitInv, PMoveInv, SplitInv
  <1>13. 1 \in 1 .. ny + 1
    BY EndIndex, <1>3, Zenon
  <1>14. ListsInv(y, ny, u, nu, q, nq, 1)'
    BY <1>4, <1>6, <1>9, <1>10, <1>11, <1>12, <1>13, Zenon DEF ListsInv
  <1> QED
    BY <1>6, <1>14, Zenon DEF IInv

LEMMA SubtractStep ==
  ASSUME IInv, SubtractRefs
  PROVE  IInv'
  <1>1. PICK y, ny, u, nu, q, nq, i : ListsInv(y, ny, u, nu, q, nq, i)
    BY Zenon DEF IInv
  <1>2. TypeLists /\ Split(y, ny, u, nu, q, nq) /\ FlagsInv(y, ny, u, nu, q, nq) /\ SubtractInv(y, ny, i)
    BY <1>1, Zenon DEF IInv, ListsInv
  <1>3. /\ Cursor(y, ny, i) /\ ny \in Nat /\ i \in 1 .. ny /\ gc = y[i] /\ gc \in Obj /\ gc \in Elems(y, ny)
        /\ next[gc] = y[i + 1] /\ \A k \in 0 .. ny + 1 : y[k] \in Node /\ (k # i => y[k] # gc)
    <2>1. Cursor(y, ny, i) /\ gc # YOUNG
      BY <1>1, CursorFacts, Zenon DEF SubtractRefs
    <2> QED
      BY <2>1, AtObject, ZenonT(60) DEF Cursor
  <1>4. /\ UNCHANGED heap /\ UNCHANGED <<next, umask, collecting, pc, todo>> /\ pc = "subtract" /\ gc' = y[i + 1]
        /\ pv' = [o \in Node |-> IF o \in refs[gc] /\ collecting[o] THEN Refs(pv[o].val - 1) ELSE pv[o]]
    BY <1>3, Zenon DEF SubtractRefs, GC_NEXT
  <1>5. refs' = refs /\ ext' = ext /\ immortal' = immortal
    BY <1>4, Zenon DEF heap
  <1>6. \A x \in Node : pv'[x] = IF x \in refs[gc] /\ collecting[x] THEN Refs(pv[x].val - 1) ELSE pv[x]
    BY <1>4, Zenon
  <1>7. pv' \in [Node -> Val]
    <2>1. \A x \in Node : pv[x] \in Val /\ pv[x].val - 1 \in Int
      BY <1>2 DEF TypeLists, Val
    <2> QED
      BY <1>4, <2>1, ValFacts, Zenon
  <1>8. TypeLists'
    BY <1>2, <1>4, <1>5, <1>7, Zenon DEF TypeLists
  <1>9. \A x \in Node : x \notin Elems(y, ny) => pv'[x] = pv[x]
    <2>1. Elems(q, nq) = immortal /\ nu = 0 /\ (\A x \in Node \ Obj : ~collecting[x]) /\ \A x \in immortal : ~collecting[x]
      BY <1>2, <1>4, Zenon DEF FlagsInv
    <2>2. Elems(u, nu) = {}
      BY <2>1 DEF Elems
    <2>3. \A x \in Node : x \notin Elems(y, ny) => ~collecting[x]
      BY <1>2, <2>1, <2>2, Zenon DEF Split
    <2> QED
      BY <1>6, <2>3, Zenon
  <1>10. Split(y, ny, u, nu, q, nq)'
    BY <1>1, <1>4, <1>9, SplitFrame, Zenon
  <1>11. FlagsInv(y, ny, u, nu, q, nq)'
    BY <1>2, <1>4, <1>5, Zenon DEF FlagsInv
  <1>12. SubtractInv(y, ny, i + 1)'
    <2>1. Elems(y, (i + 1) - 1) = Elems(y, i - 1) \cup {gc} /\ gc \in Obj \ Elems(y, i - 1)
          /\ Elems(y, i - 1) \in SUBSET Obj
      <3>1. (i + 1) - 1 = i /\ \A k \in 1 .. i - 1 : k \in 1 .. ny /\ k # i /\ k \in 0 .. ny + 1
        BY <1>3
      <3>2. \A k \in 1 .. i - 1 : y[k] # gc /\ y[k] \in Obj
        BY <1>3, <3>1, Zenon DEF Cursor
      <3>3. \A k \in 1 .. i : k = i \/ k \in 1 .. i - 1
        BY <1>3
      <3> QED
        BY <1>3, <3>1, <3>2, <3>3 DEF Elems
    <2>2. ASSUME NEW k \in 1 .. ny
          PROVE  collecting[y[k]] /\ pv'[y[k]] = Refs(Left(y[k], Elems(y, (i + 1) - 1)))
      <3>1. collecting[y[k]] /\ pv[y[k]] = Refs(Left(y[k], Elems(y, i - 1))) /\ y[k] \in Node
        BY EndIndex, <1>2, <1>3, <1>4, Zenon DEF SubtractInv
      <3>2. Left(y[k], Elems(y, (i + 1) - 1)) = Left(y[k], Elems(y, i - 1)) - (IF y[k] \in refs[gc] THEN 1 ELSE 0)
            /\ Left(y[k], Elems(y, i - 1)) \in Nat
        BY <2>1, LeftFacts
      <3>3. pv[y[k]].val = Left(y[k], Elems(y, i - 1))
        BY <3>1, ValFacts, Zenon
      <3>4. CASE y[k] \in refs[gc]
        BY <1>6, <3>1, <3>2, <3>3, <3>4, Zenon
      <3>5. CASE y[k] \notin refs[gc]
        BY <1>6, <3>1, <3>2, <3>5, SMTT(60)
      <3> QED
        BY <3>4, <3>5, Zenon
    <2>3. pv'[YOUNG] = Ptr(y[ny])
      <3>1. YOUNG \in Node /\ ~collecting[YOUNG] /\ pv[YOUNG] = Ptr(y[ny])
        BY <1>2, <1>4, NodeFacts, Zenon DEF FlagsInv, SubtractInv
      <3> QED
        BY <1>6, <3>1, Zenon
    <2> QED
      BY <1>4, <2>2, <2>3, HeapFrame, Zenon DEF SubtractInv, Elems
  <1>13. /\ UpdateInv(y, ny, i + 1)' /\ RestoreInv(y, ny, i + 1)' /\ MarkInv(y, ny, i + 1)'
         /\ ScanInv(y, ny, u, nu, i + 1)' /\ MoveInv(y, ny, i + 1)' /\ VisitInv(y, ny, i + 1)'
         /\ PMoveInv(y, ny, u, nu, i + 1)' /\ SplitInv(y, ny, u, nu)'
    BY <1>4, Zenon DEF UpdateInv, RestoreInv, MarkInv, ScanInv, MoveInv, VisitInv, PMoveInv, SplitInv
  <1>14. i + 1 \in 1 .. ny + 1
    BY EndIndex, <1>3, Zenon
  <1>15. ListsInv(y, ny, u, nu, q, nq, i + 1)'
    BY <1>4, <1>10, <1>11, <1>12, <1>13, <1>14, Zenon DEF ListsInv
  <1> QED
    BY <1>8, <1>15, Zenon DEF IInv

LEMMA SubtractDoneStep ==
  ASSUME IInv, SubtractRefsDone
  PROVE  IInv'
  <1>1. PICK y, ny, u, nu, q, nq, i : ListsInv(y, ny, u, nu, q, nq, i)
    BY Zenon DEF IInv
  <1>2. TypeLists /\ Split(y, ny, u, nu, q, nq) /\ FlagsInv(y, ny, u, nu, q, nq) /\ SubtractInv(y, ny, i)
    BY <1>1, Zenon DEF IInv, ListsInv
  <1>3. /\ Cursor(y, ny, i) /\ ny \in Nat /\ i = ny + 1 /\ y[0] = YOUNG /\ y[ny + 1] = YOUNG
        /\ next[YOUNG] = y[1] /\ \A k \in 1 .. ny : y[k] \in Obj /\ y[k] \in Node
    <2>1. Cursor(y, ny, i) /\ gc = YOUNG
      BY <1>1, CursorFacts, Zenon DEF SubtractRefsDone
    <2>2. ny \in Nat /\ i = ny + 1
      BY <2>1, AtEnd, Zenon
    <2>3. 0 \in 0 .. ny /\ 0 + 1 = 1
      BY EndIndex, <2>2, Zenon
    <2> QED
      BY <2>1, <2>2, <2>3, NodeFacts, Zenon DEF Cursor
  <1>4. /\ UNCHANGED heap /\ UNCHANGED links /\ UNCHANGED todo
        /\ pc = "subtract" /\ pc' = "move" /\ gc' = y[1] /\ prev' = YOUNG
    BY <1>3, Zenon DEF SubtractRefsDone, GC_NEXT
  <1>5. /\ refs' = refs /\ ext' = ext /\ immortal' = immortal /\ next' = next /\ umask' = umask /\ pv' = pv
        /\ collecting' = collecting /\ Reachable' = Reachable /\ Roots' = Roots
    BY <1>4, HeapFrame, Zenon DEF heap, links
  <1>6. TypeLists' /\ Split(y, ny, u, nu, q, nq)'
    BY <1>2, <1>4, <1>5, Zenon DEF TypeLists, Split
  <1>7. nu = 0 /\ (\A x \in Node : ~umask[x]) /\ Elems(q, nq) = immortal
    BY <1>2, <1>4, Zenon DEF FlagsInv
  <1>8. FlagsInv(y, ny, u, nu, q, nq)'
    BY <1>2, <1>4, <1>5, <1>7, Zenon DEF FlagsInv
  <1>9. Elems(y, i - 1) = Obj \ immortal
    <2>1. Elems(u, nu) = {} /\ i - 1 = ny
      BY <1>3, <1>7 DEF Elems
    <2> QED
      BY <1>2, <1>7, <2>1, Zenon DEF Split
  <1>10. ASSUME NEW k \in 1 .. ny
         PROVE  /\ ~pv[y[k]].ptr /\ collecting[y[k]] /\ pv[y[k]].val \in Nat
                /\ pv[y[k]].val > 0 <=> y[k] \in Roots
    <2>1. collecting[y[k]] /\ pv[y[k]] = Refs(Left(y[k], Obj \ immortal))
      BY <1>2, <1>4, <1>9, Zenon DEF SubtractInv
    <2>2. ~pv[y[k]].ptr /\ pv[y[k]].val = Left(y[k], Obj \ immortal)
      BY <2>1, ValFacts, Zenon
    <2>3. /\ Left(y[k], Obj \ immortal) \in Nat
          /\ Left(y[k], Obj \ immortal) > 0 <=> y[k] \in ext \/ \E p \in Obj \ (Obj \ immortal) : y[k] \in refs[p]
      BY LeftFacts
    <2>4. Obj \ (Obj \ immortal) = immortal
      BY <1>2, Zenon DEF TypeLists
    <2>5. y[k] \in Obj \ immortal
      BY <1>3, <1>9 DEF Elems
    <2>6. y[k] \in Roots <=> y[k] \in ext \/ \E p \in immortal : y[k] \in refs[p]
      BY <2>5, Zenon DEF Roots
    <2> QED
      BY <2>1, <2>2, <2>3, <2>4, <2>6, Zenon
  <1>11. ScanInv(y, ny, u, nu, 1)'
    <2>1. /\ 1 - 1 = 0 /\ (\A k \in 1 .. 1 - 1 : FALSE) /\ \A k \in 1 .. nu : FALSE
      BY EndIndex, <1>7, Zenon
    <2>2. prev' = y[1 - 1] /\ Back(pv', y, 1, 1 - 1) /\ ~umask'[YOUNG] /\ \A k \in 1 .. ny : ~umask'[y[k]]
      BY <1>3, <1>4, <1>5, <1>7, <2>1, NodeFacts, Zenon DEF Back
    <2> QED
      BY <1>5, <1>10, <2>1, <2>2, Zenon DEF ScanInv
  <1>12. MoveInv(y, ny, 1)'
    <2>1. Roots \subseteq Reachable
      BY <1>2, ReachableFacts, Zenon DEF TypeLists
    <2>2. pv[YOUNG] = Ptr(y[ny])
      BY <1>2, <1>4, Zenon DEF SubtractInv
    <2>3. ASSUME NEW o \in Roots PROVE Found(y, ny, 1, o)'
      <3>1. PICK k \in 1 .. ny : o = y[k]
        BY <1>3, <1>9 DEF Roots, Elems
      <3> QED
        BY <1>5, <1>10, <3>1, Zenon DEF Found
    <2> QED
      BY EndIndex, <1>3, <1>4, <1>5, <1>10, <2>1, <2>2, <2>3, Zenon DEF MoveInv
  <1>13. /\ UpdateInv(y, ny, 1)' /\ SubtractInv(y, ny, 1)' /\ RestoreInv(y, ny, 1)' /\ MarkInv(y, ny, 1)'
         /\ VisitInv(y, ny, 1)' /\ PMoveInv(y, ny, u, nu, 1)' /\ SplitInv(y, ny, u, nu)'
    BY <1>4, Zenon DEF UpdateInv, SubtractInv, RestoreInv, MarkInv, VisitInv, PMoveInv, SplitInv
  <1>14. 1 \in 1 .. ny + 1
    BY EndIndex, <1>3, Zenon
  <1>15. ListsInv(y, ny, u, nu, q, nq, 1)'
    BY <1>4, <1>6, <1>8, <1>11, <1>12, <1>13, <1>14, Zenon DEF ListsInv
  <1> QED
    BY <1>6, <1>15, Zenon DEF IInv

-----------------------------------------------------------------------------
(* The inductive invariant.                                                *)

LEMMA NextLists ==
  ASSUME IInv, [Next]_vars
  PROVE  IInv'
  <1>1. CASE MoveImmortal
    BY <1>1, ImmortalStep, Zenon
  <1>2. CASE gc_reset_refs
    BY <1>2, ResetStep, Zenon
  <1>3. CASE UpdateRefsDone
    BY <1>3, UpdateRefsDoneStep, Zenon
  <1>4. CASE SubtractRefs
    BY <1>4, SubtractStep, Zenon
  <1>5. CASE SubtractRefsDone
    BY <1>5, SubtractDoneStep, Zenon
  <1>6. CASE MoveTraverse
    BY <1>6, TraverseStep, Zenon
  <1>7. ASSUME NEW o \in Obj, visit_reachable(o)
        PROVE  IInv'
    BY <1>7, VisitYoungStep, VisitMovedStep, Zenon
  <1>8. CASE MoveRelink
    BY <1>8, RelinkStep, Zenon
  <1>9. CASE MoveUnreachable
    BY <1>9, MoveUnreachableStep, Zenon
  <1>10. CASE MoveDone
    BY <1>10, MoveDoneStep, Zenon
  <1>11. CASE WorkersMark
    BY <1>11, WorkersMarkStep, Zenon
  <1>12. CASE PMoveUnreachable
    BY <1>12, PMoveUnreachableStep, Zenon
  <1>13. CASE PMoveReachable
    BY <1>13, PMoveReachableStep, Zenon
  <1>14. CASE PMoveDone
    BY <1>14, PMoveDoneStep, Zenon
  <1>15. CASE RestorePrev
    BY <1>15, RestoreStep, Zenon
  <1>16. CASE RestoreDone
    BY <1>16, RestoreDoneStep, Zenon
  <1>17. CASE clear_unreachable_mask
    BY <1>17, ClearMaskStep, Zenon
  <1>18. CASE Done \/ UNCHANGED vars
    BY <1>18, StutterStep, Zenon DEF Done
  <1> QED
    BY Zenon, EndIndex, <1>1, <1>2, <1>3, <1>4, <1>5, <1>6, <1>7, <1>8, <1>9, <1>10, <1>11, <1>12, <1>13, <1>14, <1>15,
       <1>16, <1>17, <1>18 DEF Next

\* The three lists are paths of distinct objects that hold all objects between
\* them, and each phase of deduce_unreachable leaves _gc_prev and the flags as
\* the next one expects them.
THEOREM ListsInvariant == Spec => []IInv
  <1>1. Init => IInv
    BY InitLists, Zenon
  <1>2. IInv /\ [Next]_vars => IInv'
    BY NextLists, Zenon
  <1> QED
    BY <1>1, <1>2, PTL DEF Spec

-----------------------------------------------------------------------------
(* The objects that _gc_next leads to.                                     *)

LEMMA LeastNat ==
  ASSUME NEW S \in SUBSET Nat, S # {}
  PROVE  \E m \in S : \A k \in S : m <= k
  <1>1. IsWellFoundedOn(OpToRel(<, Nat), Nat)
    BY NatLessThanWellFounded, Zenon
  <1>2. PICK m \in S : \A k \in S : ~(<<k, m>> \in OpToRel(<, Nat))
    BY <1>1, WFMin, Zenon
  <1>3. \A k \in S : <<k, m>> \in OpToRel(<, Nat) <=> k < m
    BY <1>2, Zenon DEF OpToRel
  <1>4. \A k \in S : ~(k < m)
    BY <1>2, <1>3, Zenon
  <1> QED
    BY <1>4

\* Following _gc_next from the i-th object on gives the rest of the list.
LEMMA PathNodes ==
  ASSUME next \in [Node -> Node], NEW p, NEW n, NEW h, Path(next, p, n, h), NEW i \in 1 .. n + 1, h \notin Obj
  PROVE  Nodes(p[i], h) = {p[k] : k \in i .. n}
  <1>1. /\ n \in Nat /\ p \in [0 .. n + 1 -> Node] /\ p[n + 1] = h
        /\ \A k \in 0 .. n : next[p[k]] = p[k + 1]
        /\ \A k \in 1 .. n : p[k] \in Obj
    BY Zenon DEF Path
  <1>2. PICK D \in SUBSET Node : D = {p[k] : k \in i .. n + 1}
    <2>1. \A k \in i .. n + 1 : p[k] \in Node
      BY AboveIndex, <1>1, Zenon
    <2>2. {p[k] : k \in i .. n + 1} \in SUBSET Node
      BY <2>1, Zenon
    <2> QED
      BY <2>2, Zenon
  <1>3. p[i] \in D /\ \A z \in D \ {h} : next[z] \in D
    <2>1. p[i] \in D
      BY <1>1, <1>2
    <2>2. ASSUME NEW z \in D, z # h PROVE next[z] \in D
      <3>1. PICK k \in i .. n + 1 : z = p[k]
        BY <1>2, Zenon
      <3>2. k \in i .. n
        BY AboveIndex, <1>1, <2>2, <3>1, Zenon
      <3>3. next[z] = p[k + 1] /\ k + 1 \in i .. n + 1
        BY <1>1, <3>1, <3>2
      <3> QED
        BY <1>2, <3>3, Zenon
    <2> QED
      BY <2>1, <2>2, Zenon
  <1>4. ASSUME NEW C \in SUBSET Node, p[i] \in C, \A z \in C \ {h} : next[z] \in C,
               NEW j \in i .. n
        PROVE  p[j] \in C
    <2> DEFINE B == {k \in i .. n : p[k] \notin C}
    <2>1. SUFFICES ASSUME B # {} PROVE FALSE
      BY Zenon
    <2>2. B \in SUBSET Nat
      BY <1>1
    <2>3. PICK m \in B : \A k \in B : m <= k
      BY <2>1, <2>2, LeastNat, Zenon
    <2>4. m # i /\ m - 1 \in i .. n /\ m - 1 \notin B
      BY <1>1, <1>4, <2>2, <2>3
    <2>5. p[m - 1] \in C /\ p[m - 1] \in Obj
      BY <1>1, <2>4
    <2>6. next[p[m - 1]] = p[m]
      <3>1. m - 1 \in 0 .. n /\ (m - 1) + 1 = m
        BY <1>1, <2>4
      <3> QED
        BY <1>1, <3>1, Zenon
    <2> QED
      BY <1>4, <2>3, <2>5, <2>6, Zenon
  <1>5. \A j \in i .. n : p[j] \in Node /\ p[j] # h
    BY AboveIndex, <1>1, Zenon
  <1>6. D \ {h} \subseteq {p[k] : k \in i .. n}
    BY <1>1, <1>2
  <1>7. Nodes(p[i], h) \subseteq D \ {h}
    BY <1>3, Zenon DEF Nodes
  <1>8. \A j \in i .. n : p[j] \in Nodes(p[i], h)
    BY <1>4, <1>5, Zenon DEF Nodes
  <1> QED
    BY <1>6, <1>7, <1>8, Zenon

LEMMA ListOfPath ==
  ASSUME next \in [Node -> Node], NEW p, NEW n, NEW h, Path(next, p, n, h), h \notin Obj
  PROVE  ListOf(h) = Elems(p, n)
  <1>1. n \in Nat /\ p[0] = h /\ \A k \in 0 .. n : next[p[k]] = p[k + 1]
    BY Zenon DEF Path
  <1>2. 1 \in 1 .. n + 1 /\ 0 \in 0 .. n /\ 0 + 1 = 1
    BY EndIndex, <1>1, Zenon
  <1>3. next[h] = p[1]
    BY <1>1, <1>2, Zenon
  <1>4. Nodes(p[1], h) = {p[k] : k \in 1 .. n}
    BY <1>2, PathNodes, Zenon
  <1> QED
    BY <1>3, <1>4, Zenon DEF ListOf, Elems

LEMMA LinkedPath ==
  ASSUME NEW p, NEW n, NEW h, Path(next, p, n, h), Back(pv, p, 1, n + 1)
  PROVE  \A x \in Elems(p, n) \cup {h} : pv[x].ptr /\ pv[next[x]].ptr /\ GC_PREV(next[x]) = x
  <1>1. n \in Nat /\ p[0] = h /\ p[n + 1] = h /\ \A k \in 0 .. n : next[p[k]] = p[k + 1]
    BY Zenon DEF Path
  <1>2. \A k \in 0 .. n : k + 1 \in 1 .. n + 1 /\ (k + 1) - 1 = k
    BY EndIndex, <1>1, Zenon
  <1>3. \A k \in 0 .. n : pv[next[p[k]]] = Ptr(p[k])
    BY <1>1, <1>2, Zenon DEF Back
  <1>4. \A k \in 0 .. n : pv[next[p[k]]].ptr /\ GC_PREV(next[p[k]]) = p[k]
    BY <1>3, ValFacts, Zenon DEF GC_PREV
  <1>5. \A k \in 1 .. n + 1 : pv[p[k]].ptr
    BY ValFacts, Zenon DEF Back
  <1>6. \A x \in Elems(p, n) \cup {h} : (\E k \in 0 .. n : x = p[k]) /\ \E k \in 1 .. n + 1 : x = p[k]
    <2>1. \A k \in 1 .. n : k \in 0 .. n /\ k \in 1 .. n + 1
      BY EndIndex, <1>1, Zenon
    <2>2. 0 \in 0 .. n /\ n + 1 \in 1 .. n + 1
      BY EndIndex, <1>1, Zenon
    <2> QED
      BY <1>1, <2>1, <2>2, Zenon DEF Elems
  <1> QED
    BY <1>4, <1>5, <1>6, ZenonT(60)

\* The lists of the inductive invariant are the ones that _gc_next spells out.
Lists(y, ny, u, nu, q, nq) ==
  /\ ListOf(YOUNG) = Elems(y, ny) /\ ListOf(UNREACHABLE) = Elems(u, nu) /\ ListOf(PERMANENT) = Elems(q, nq)
  /\ Elems(y, ny) \cap Elems(u, nu) = {} /\ Elems(y, ny) \cap Elems(q, nq) = {}
  /\ Elems(u, nu) \cap Elems(q, nq) = {}
  /\ Elems(y, ny) \cup Elems(u, nu) \cup Elems(q, nq) = Obj

LEMMA ListsFacts ==
  ASSUME TypeLists, NEW y, NEW ny, NEW u, NEW nu, NEW q, NEW nq, Split(y, ny, u, nu, q, nq)
  PROVE  Lists(y, ny, u, nu, q, nq)
  <1>1. /\ Path(next, y, ny, YOUNG) /\ Path(next, u, nu, UNREACHABLE) /\ Path(next, q, nq, PERMANENT)
        /\ next \in [Node -> Node] /\ YOUNG \notin Obj /\ UNREACHABLE \notin Obj /\ PERMANENT \notin Obj
    BY NodeFacts, Zenon DEF Split, TypeLists
  <1>2. ListOf(YOUNG) = Elems(y, ny)
    BY <1>1, ListOfPath, Zenon
  <1>3. ListOf(UNREACHABLE) = Elems(u, nu)
    BY <1>1, ListOfPath, Zenon
  <1>4. ListOf(PERMANENT) = Elems(q, nq)
    BY <1>1, ListOfPath, Zenon
  <1> QED
    BY <1>2, <1>3, <1>4, Zenon DEF Split, Lists

LEMMA ExactFromLists == IInv => ExactSplit
  <1> SUFFICES ASSUME IInv, pc \in {"deduced", "done"}
               PROVE  /\ ListOf(YOUNG) = Reachable
                      /\ ListOf(UNREACHABLE) = Obj \ (Reachable \cup immortal)
                      /\ ListOf(PERMANENT) = immortal
    BY Zenon DEF ExactSplit
  <1>1. PICK y, ny, u, nu, q, nq, i : ListsInv(y, ny, u, nu, q, nq, i)
    BY Zenon DEF IInv
  <1>2. TypeLists /\ Split(y, ny, u, nu, q, nq) /\ FlagsInv(y, ny, u, nu, q, nq) /\ SplitInv(y, ny, u, nu)
    BY <1>1, Zenon DEF IInv, ListsInv
  <1>3. Lists(y, ny, u, nu, q, nq)
    BY <1>2, ListsFacts, Zenon
  <1>4. Elems(y, ny) = Reachable /\ Elems(u, nu) = Obj \ (Reachable \cup immortal) /\ Elems(q, nq) = immortal
    BY <1>2, Zenon DEF SplitInv, FlagsInv
  <1> QED
    BY <1>3, <1>4, Zenon DEF Lists

LEMMA LinkedFromLists == IInv => WellLinked
  <1> SUFFICES ASSUME IInv, pc \in {"deduced", "done"}
               PROVE  /\ \A x \in Node : pv[x].ptr /\ GC_PREV(next[x]) = x
                      /\ \A x \in Node : collecting[x] <=> x \in ListOf(UNREACHABLE)
                      /\ \A x \in Node : umask[x] <=> pc = "deduced" /\ x \in ListOf(UNREACHABLE)
    BY Zenon DEF WellLinked
  <1>1. PICK y, ny, u, nu, q, nq, i : ListsInv(y, ny, u, nu, q, nq, i)
    BY Zenon DEF IInv
  <1>2. TypeLists /\ Split(y, ny, u, nu, q, nq) /\ FlagsInv(y, ny, u, nu, q, nq) /\ SplitInv(y, ny, u, nu)
    BY <1>1, Zenon DEF IInv, ListsInv
  <1>3. Lists(y, ny, u, nu, q, nq)
    BY <1>2, ListsFacts, Zenon
  <1>4. \A x \in Node : \/ x \in Elems(y, ny) \cup {YOUNG} \/ x \in Elems(u, nu) \cup {UNREACHABLE}
                        \/ x \in Elems(q, nq) \cup {PERMANENT}
    BY <1>3, Zenon DEF Lists, Node
  <1>5. /\ Path(next, y, ny, YOUNG) /\ Path(next, u, nu, UNREACHABLE) /\ Path(next, q, nq, PERMANENT)
        /\ Back(pv, y, 1, ny + 1) /\ Back(pv, u, 1, nu + 1) /\ Back(pv, q, 1, nq + 1)
    BY <1>2, Zenon DEF Split, SplitInv
  <1>6. \A x \in Elems(y, ny) \cup {YOUNG} : pv[x].ptr /\ pv[next[x]].ptr /\ GC_PREV(next[x]) = x
    BY <1>5, LinkedPath, Zenon
  <1>7. \A x \in Elems(u, nu) \cup {UNREACHABLE} : pv[x].ptr /\ pv[next[x]].ptr /\ GC_PREV(next[x]) = x
    BY <1>5, LinkedPath, Zenon
  <1>8. \A x \in Elems(q, nq) \cup {PERMANENT} : pv[x].ptr /\ pv[next[x]].ptr /\ GC_PREV(next[x]) = x
    BY <1>5, LinkedPath, Zenon
  <1>9. \A x \in Node : pv[x].ptr /\ GC_PREV(next[x]) = x
    BY <1>4, <1>6, <1>7, <1>8, Zenon
  <1>10. \A x \in Node : collecting[x] <=> x \in Elems(u, nu)
    <2>1. /\ (\A x \in Elems(u, nu) : collecting[x]) /\ (\A x \in Elems(y, ny) : ~collecting[x])
          /\ (\A x \in Elems(q, nq) : ~collecting[x]) /\ (\A x \in Node \ Obj : ~collecting[x])
      BY <1>2, SMTT(60) DEF SplitInv, FlagsInv, Elems
    <2>2. \A x \in Node : x \in Node \ Obj \/ x \in Elems(y, ny) \/ x \in Elems(u, nu) \/ x \in Elems(q, nq)
      BY <1>3, Zenon DEF Lists
    <2> QED
      BY <2>1, <2>2, Zenon
  <1>11. \A x \in Node : umask[x] <=> pc = "deduced" /\ x \in Elems(u, nu)
    BY <1>2, Zenon DEF SplitInv
  <1> QED
    BY <1>3, <1>9, <1>10, <1>11, Zenon DEF Lists

LEMMA ScanFromLists == IInv => ScanInvariant
  <1> SUFFICES ASSUME IInv, pc \in {"move", "visit", "pmove"} PROVE ScanInvariant
    BY Zenon DEF ScanInvariant
  <1>1. PICK y, ny, u, nu, q, nq, i : ListsInv(y, ny, u, nu, q, nq, i)
    BY Zenon DEF IInv
  <1>2. TypeLists /\ Split(y, ny, u, nu, q, nq) /\ FlagsInv(y, ny, u, nu, q, nq) /\ ScanInv(y, ny, u, nu, i)
        /\ MoveInv(y, ny, i) /\ i \in 1 .. ny + 1 /\ gc = y[i]
    BY <1>1, Zenon DEF IInv, ListsInv
  <1>3. Lists(y, ny, u, nu, q, nq)
    BY <1>2, ListsFacts, Zenon
  <1>4. Elems(q, nq) = immortal
    BY <1>2, Zenon DEF FlagsInv
  <1>5. PICK right : right = {y[k] : k \in i .. ny}
    BY Zenon
  <1>6. Nodes(gc, YOUNG) = right
    <2>1. next \in [Node -> Node] /\ Path(next, y, ny, YOUNG) /\ YOUNG \notin Obj
      BY <1>2, NodeFacts, Zenon DEF TypeLists, Split
    <2>2. Nodes(y[i], YOUNG) = {y[k] : k \in i .. ny}
      BY <1>2, <2>1, PathNodes, Zenon
    <2> QED
      BY <1>2, <1>5, <2>2, Zenon
  <1>7. PICK left : left = Elems(y, ny) \ right
    BY Zenon
  <1>8. ny \in Nat /\ y[0] = YOUNG
    BY <1>2, Zenon DEF Split, Path
  <1>9. \A x \in left : \E k \in 1 .. i - 1 : x = y[k]
    <2>1. \A k \in 1 .. ny : k \in i .. ny \/ k \in 1 .. i - 1
      BY AboveIndex, <1>2, <1>8, Zenon
    <2> QED
      BY <1>5, <1>7, <2>1, Zenon DEF Elems
  <1>10. right \subseteq Elems(y, ny)
    <2>1. \A k \in i .. ny : k \in 1 .. ny
      BY AboveIndex, <1>2, <1>8, Zenon
    <2> QED
      BY <1>5, <2>1, Zenon DEF Elems
  <1>11. \A x \in Obj : umask[x] <=> x \in Elems(u, nu)
    <2>1. /\ (\A x \in Elems(u, nu) : umask[x]) /\ (\A x \in Elems(y, ny) : ~umask[x])
          /\ (\A x \in Elems(q, nq) : ~umask[x])
      BY <1>2, <1>4, Zenon DEF ScanInv, FlagsInv, Elems
    <2> QED
      BY <1>3, <2>1, Zenon DEF Lists
  <1>12. ~umask[prev]
    <2>1. i - 1 = 0 \/ i - 1 \in 1 .. ny
      BY <1>2, <1>8
    <2> QED
      BY <1>2, <1>8, <2>1, Zenon DEF ScanInv
  <1>13. left \subseteq Reachable /\ \A o \in left : ~collecting[o] /\ pv[o].ptr
    <2>1. \A k \in 1 .. i - 1 : ~collecting[y[k]] /\ y[k] \in Reachable /\ pv[y[k]] = Ptr(y[k - 1])
      BY <1>2, Zenon DEF ScanInv, Back
    <2>2. \A k \in 1 .. i - 1 : ~collecting[y[k]] /\ y[k] \in Reachable /\ pv[y[k]].ptr
      BY <2>1, ValFacts, Zenon
    <2> QED
      BY <1>9, <2>2, Zenon
  <1>14. pc \in {"move", "visit"} => \A o \in right : collecting[o] /\ ~pv[o].ptr
    BY <1>2, <1>5, Zenon DEF ScanInv, MoveInv
  <1>15. {o \in Obj : umask[o]} = Obj \ (left \cup right \cup immortal)
    BY <1>3, <1>4, <1>7, <1>10, <1>11, Zenon DEF Lists
  <1>16. ListOf(YOUNG) \ right = left
    BY <1>3, <1>7, Zenon DEF Lists
  <1>17. /\ ListOf(YOUNG) \cup ListOf(UNREACHABLE) = Obj \ immortal
         /\ ListOf(YOUNG) \cap ListOf(UNREACHABLE) = {}
    BY <1>3, <1>4, Zenon DEF Lists
  <1>18. \A x \in ListOf(UNREACHABLE) \cup {UNREACHABLE} : pv[next[x]].ptr /\ GC_PREV(next[x]) = x
    <2>1. Path(next, u, nu, UNREACHABLE) /\ Back(pv, u, 1, nu + 1)
      BY <1>2, Zenon DEF Split
    <2>2. \A x \in Elems(u, nu) \cup {UNREACHABLE} : pv[x].ptr /\ pv[next[x]].ptr /\ GC_PREV(next[x]) = x
      BY <2>1, LinkedPath, Zenon
    <2> QED
      BY <1>3, <2>2, Zenon DEF Lists
  <1> QED
    BY <1>6, <1>12, <1>13, <1>14, <1>15, <1>16, <1>17, <1>18, Zenon DEF ScanInvariant

\* Whatever the heap and however many objects and workers there are: once
\* deduce_unreachable is done, serial, parallel or after falling back, the
\* unreachable list holds exactly the objects that nothing outside the
\* generation leads to, young the others, the permanent generation the immortal
\* ones.
THEOREM SplitIsExact == Spec => []ExactSplit
  <1>1. IInv => ExactSplit
    BY ExactFromLists, Zenon
  <1> QED
    BY <1>1, ListsInvariant, PTL

\* Then all lists are doubly linked again, with the flags the callers of
\* deduce_unreachable rely on (validate_list).
THEOREM ListsWellLinked == Spec => []WellLinked
  <1>1. IInv => WellLinked
    BY LinkedFromLists, Zenon
  <1> QED
    BY <1>1, ListsInvariant, PTL

\* The invariant that the comment of move_unreachable claims of its scan, and
\* that the unreachable list can be unlinked from in the middle throughout.
THEOREM ScanKeepsInvariant == Spec => []ScanInvariant
  <1>1. IInv => ScanInvariant
    BY ScanFromLists, Zenon
  <1> QED
    BY <1>1, ListsInvariant, PTL
=============================================================================
