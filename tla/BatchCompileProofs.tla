-------------------------- MODULE BatchCompileProofs --------------------------
(***************************************************************************)
(* Proofs about TypeWatch and BatchCompile, in four parts.                 *)
(*                                                                         *)
(* The promises of TypeWatch, for any number of types, artifacts and       *)
(* caches.                                                                 *)
(*                                                                         *)
(* A batch is a client of TypeWatch: each of its steps does to the types,  *)
(* patchers and inline caches what a step of TypeWatch does, or nothing.   *)
(* So what TypeWatch promises about compiled code holds for any functions, *)
(* code objects, workers and artifacts.  UnitsInv is all that this needs:  *)
(* whatever is on its way to the compiler is a unit, whose key is a code   *)
(* object, and only then is what is linked an artifact.                    *)
(*                                                                         *)
(* Who owns the artifacts of a batch and what they watch.  ArtsInv relates *)
(* the two tables of the context, the vectorcall slots, the __dict__s that *)
(* anchor the artifacts and the patchers that wait for their types; one    *)
(* lemma for each operation that publishes, takes back or frees one.       *)
(*                                                                         *)
(* What the registries name is alive, what the compiler is given is as it  *)
(* expects, and a batch leaves nothing behind, until something dangles.    *)
(* The inductive invariant BatchInv has, beside UnitsInv and Domains, a    *)
(* part for each question the argument raises:                             *)
(*   PhaseInv, CompilingInv   what is empty in which phase, and which keys *)
(*                            the workers hold;                            *)
(*   OuterInv, KeptInv        which functions keep a unit alive while      *)
(*                            Python code may delete others;               *)
(*   FlowInv, FlightInv       where a unit, and then its artifact, is on   *)
(*                            its way to the registries;                   *)
(*   ArtsInv                  who owns an artifact, and what it watches;   *)
(*   SettledInv               that no unit is dropped.                     *)
(***************************************************************************)
EXTENDS BatchCompile, TLAPS

-----------------------------------------------------------------------------
(* Types, patchers and inline caches.                                       *)

\* The type of a TypeDeoptPatcher has its slots, and the patcher will hear of
\* the next change: the type is watched and has a version tag, or waits to be
\* watched, when a change is missed.
Guarded(p) ==
  /\ p \in type_deopt_patchers_[p.type] /\ slot[p.type]
  /\ p.type \in pending_watches_ \/ p.type \in watched \cap tag

Covered(p) == p.attr = NULL => p \in patched \/ p \in missed \/ Guarded(p)

PatchersInv ==
  \A a \in Art : \A p \in code_patchers[a] : p \in Patcher /\ p.art = a /\ Covered(p)

\* An entry of a cache holds, and the cache hears of the next change of the
\* receiver's type and of the descriptor's.
Subscribed(c, e) ==
  /\ e.type \in watched \cap tag /\ c \in ac_watcher[e.type]
  /\ attr[e.type] = e.attr
  /\ e.descr # NULL =>
       /\ e.descr \in watched \cap tag /\ c \in ac_descr_watcher[e.descr]
       /\ slot[e.descr]

CachesInv ==
  \A c \in Cache : \A e \in entries[c] :
    /\ e \in Entry /\ Subscribed(c, e)
    /\ \A o \in entries[c] : o.type = e.type => o = e

\* What the two need of the types of the variables.
Domains ==
  /\ attr \in [Type -> Value] /\ slot \in [Type -> BOOLEAN]
  /\ DOMAIN code_patchers = Art /\ patched \subseteq Patcher /\ missed \subseteq Patcher
  /\ type_deopt_patchers_ \in [Type -> SUBSET Patcher]
  /\ DOMAIN entries = Cache /\ DOMAIN ac_watcher = Type /\ DOMAIN ac_descr_watcher = Type

TWInv == Domains /\ PatchersInv /\ CachesInv

LEMMA TWInvInit == TWInit => TWInv
BY Zenon DEF TWInit, TWInv, Domains, PatchersInv, CachesInv

-----------------------------------------------------------------------------
LEMMA DomainsNext ==
  ASSUME Domains, [TWNext]_twvars
  PROVE  Domains'
<1>1. ASSUME NEW a \in Art, NEW ts \in SUBSET Type, Link(a, ts) PROVE Domains'
  <2>1. PatchersOf(a, ts) \subseteq Patcher
    BY DescrAssumption DEF PatchersOf, PatchersFor, Patcher, DataDescr, Domains
  <2> QED
    BY <1>1, <2>1, Zenon DEF Link, Domains, icaches
<1>2. ASSUME NEW A \in SUBSET Art, NEW held \in SUBSET Art, Release(A, held) PROVE Domains'
  BY <1>2, Zenon DEF Release, Without, Domains, types, icaches
<1>3. ASSUME NEW t \in Type, NEW seen \in Value, NEW shape \in Shapes[t],
             ModifyType(t, shape, seen)
      PROVE  Domains'
  <2>0. shape \in [attr : Value, slot : BOOLEAN]
    BY ShapesAssumption, Zenon
  <2>1. attr' \in [Type -> Value]
    BY <1>3, <2>0, Zenon DEF ModifyType, Domains
  <2>2. slot' \in [Type -> BOOLEAN]
    <3>1. shape.slot \in BOOLEAN
      BY <2>0, Zenon
    <3> QED
      BY <1>3, <3>1, Zenon DEF ModifyType, Domains
  <2> QED
    BY <1>3, <2>1, <2>2 DEF ModifyType, notifyICs, notifyPatchers, Domains, icaches, deopt
<1>4. ASSUME NEW c \in Cache, NEW t \in Type, Fill(c, t) PROVE Domains'
  BY <1>4, Zenon DEF Fill, Domains, deopt
<1>5. ASSUME NEW t \in Type, AssignVersionTag(t) PROVE Domains'
  BY <1>5, Zenon DEF AssignVersionTag, Domains, deopt, icaches
<1>6. CASE StartCompile \/ EndCompile \/ WatchPending
  BY <1>6, Zenon DEF StartCompile, EndCompile, WatchPending, Domains, types, deopt, icaches
<1>7. CASE UNCHANGED twvars
  BY <1>7, Zenon DEF twvars, types, deopt, icaches, Domains
<1> QED
  BY <1>1, <1>2, <1>3, <1>4, <1>5, <1>6, <1>7, Zenon DEF TWNext

-----------------------------------------------------------------------------
(* Patch points.                                                            *)

\* What linkDeoptPatchers registers holds at that moment.
LEMMA LinkedHold ==
  ASSUME Domains, NEW a \in Art, NEW ts \in SUBSET Type, NEW p \in PatchersOf(a, ts)
  PROVE  p \in Patcher /\ p.art = a /\ (p.attr = NULL => slot[p.type])
<1>1. PICK t \in ts : DataDescr(t) /\ p \in PatchersFor(a, t)
  BY Zenon DEF PatchersOf
<1>2. attr[t] \in Value /\ attr[t] # NULL /\ DescrOf[attr[t]] \in Type /\ slot[DescrOf[attr[t]]]
  BY <1>1, NullAssumption, DescrAssumption DEF Domains, DataDescr
<1>3. CASE p = [art |-> a, type |-> t, attr |-> attr[t]]
  BY <1>2, <1>3, Zenon DEF Patcher
<1>4. CASE p = [art |-> a, type |-> DescrOf[attr[t]], attr |-> NULL]
  BY <1>2, <1>4, Zenon DEF Patcher
<1> QED
  BY <1>1, <1>3, <1>4, Zenon DEF PatchersFor

LEMMA LinkPatchers ==
  ASSUME TWInv, NEW a \in Art, NEW ts \in SUBSET Type, Link(a, ts)
  PROVE  PatchersInv'
<1> SUFFICES ASSUME NEW b \in Art, NEW p \in code_patchers'[b]
             PROVE  p \in Patcher /\ p.art = b /\ Covered(p)'
  BY Zenon DEF PatchersInv
<1>1. CASE b = a
  <2>1. p \in PatchersOf(a, ts)
    BY <1>1, Zenon DEF Link, TWInv, Domains
  <2>2. p \in Patcher /\ p.art = a /\ (p.attr = NULL => slot[p.type])
    BY <2>1, LinkedHold, Zenon DEF TWInv
  <2>3. slot' = slot
    BY Zenon DEF Link
  <2>4. p \in type_deopt_patchers_'[p.type]
    BY <2>1, <2>2, Zenon DEF Link, Patcher
  <2>5. p.type \in pending_watches_' \/ p.type \in watched' \cap tag'
    BY <2>1, Zenon DEF Link
  <2> QED
    BY <1>1, <2>2, <2>3, <2>4, <2>5, Zenon DEF Covered, Guarded
<1>2. CASE b # a
  <2>1. p \in code_patchers[b]
    BY <1>2, Zenon DEF Link, TWInv, Domains
  <2>2. p \in Patcher /\ p.art = b /\ Covered(p)
    BY <2>1, Zenon DEF TWInv, PatchersInv
  <2>3. CASE p \in patched \/ p \in missed
    BY <1>2, <2>2, <2>3, Zenon DEF Link, Covered
  <2>4. CASE Guarded(p)
    <3>1. slot'[p.type] /\ p \in type_deopt_patchers_'[p.type]
      BY <2>2, <2>4, Zenon DEF Link, Guarded, Patcher
    <3>2. p.type \in pending_watches_' \/ p.type \in watched' \cap tag'
      BY <2>4, Zenon DEF Link, Guarded
    <3> QED
      BY <2>2, <3>1, <3>2, Zenon DEF Covered, Guarded
  <2> QED
    BY <2>2, <2>3, <2>4, Zenon DEF Covered
<1> QED
  BY <1>1, <1>2, Zenon

LEMMA ReleasePatchers ==
  ASSUME TWInv, NEW A \in SUBSET Art, NEW held \in SUBSET Art, Release(A, held)
  PROVE  PatchersInv'
<1> SUFFICES ASSUME NEW b \in Art, NEW p \in code_patchers'[b]
             PROVE  p \in Patcher /\ p.art = b /\ Covered(p)'
  BY Zenon DEF PatchersInv
<1>1. b \notin A /\ p \in code_patchers[b]
  BY Zenon DEF Release, Without
<1>2. p \in Patcher /\ p.art = b /\ Covered(p)
  BY <1>1, Zenon DEF TWInv, PatchersInv
<1>3. CASE p \in patched \/ p \in missed
  BY <1>1, <1>2, <1>3, Zenon DEF Release, Without, Covered
<1>4. CASE Guarded(p)
  <2>1. p \in type_deopt_patchers_'[p.type]
    BY <1>1, <1>2, <1>4, Zenon DEF Release, Without, Guarded, Patcher
  <2> QED
    BY <1>2, <1>4, <2>1, Zenon DEF Release, Without, Covered, Guarded, types
<1> QED
  BY <1>2, <1>3, <1>4, Zenon DEF Covered

LEMMA ModifyPatchers ==
  ASSUME TWInv, NEW t \in Type, NEW seen \in Value,
         NEW shape \in Shapes[t], ModifyType(t, shape, seen)
  PROVE  PatchersInv'
<1> SUFFICES ASSUME NEW b \in Art, NEW p \in code_patchers'[b]
             PROVE  p \in Patcher /\ p.art = b /\ Covered(p)'
  BY Zenon DEF PatchersInv
<1>1. /\ p \in code_patchers[b] /\ pending_watches_' = pending_watches_
      /\ patched \subseteq patched' /\ missed \subseteq missed'
  BY Zenon DEF ModifyType, notifyPatchers
<1>2. p \in Patcher /\ p.art = b /\ Covered(p)
  BY <1>1, Zenon DEF TWInv, PatchersInv
<1>3. CASE p \in patched \/ p \in missed
  BY <1>1, <1>2, <1>3, Zenon DEF Covered
<1>4. CASE Guarded(p) /\ p.type # t
  <2>1. slot'[p.type]
    BY <1>2, <1>4, Zenon DEF ModifyType, Guarded, Patcher, TWInv, Domains
  <2>2. p \in type_deopt_patchers_'[p.type]
    BY <1>2, <1>4, Zenon DEF ModifyType, notifyPatchers, Guarded, Patcher, TWInv, Domains
  <2>3. p.type \in pending_watches_' \/ p.type \in watched' \cap tag'
    BY <1>1, <1>4, Zenon DEF ModifyType, Guarded
  <2> QED
    BY <1>2, <2>1, <2>2, <2>3, Zenon DEF Covered, Guarded
<1>5. CASE Guarded(p) /\ p.type = t /\ p.attr = NULL
  <2>1. p \in type_deopt_patchers_[t]
    BY <1>5, Zenon DEF Guarded
  <2>2. CASE t \in tag \cap watched
    BY <1>2, <1>5, <2>1, <2>2, Zenon DEF ModifyType, notifyPatchers, maybePatch, Covered
  <2>3. CASE t \notin tag \cap watched
    <3>1. t \in pending_watches_
      BY <1>5, <2>3, Zenon DEF Guarded
    <3> QED
      BY <1>2, <2>1, <2>3, <3>1, Zenon DEF ModifyType, Covered
  <2> QED
    BY <2>2, <2>3, Zenon
<1> QED
  BY <1>2, <1>3, <1>4, <1>5, Zenon DEF Covered

LEMMA PatchersNext ==
  ASSUME TWInv, [TWNext]_twvars
  PROVE  PatchersInv'
<1>1. ASSUME NEW c \in Cache, NEW t \in Type, Fill(c, t) PROVE PatchersInv'
  <2>1. UNCHANGED <<slot, deopt>> /\ watched \subseteq watched' /\ tag \subseteq tag'
    BY <1>1, Zenon DEF Fill
  <2> QED
    BY <2>1, Zenon DEF TWInv, PatchersInv, Covered, Guarded, deopt
<1>2. ASSUME NEW t \in Type, AssignVersionTag(t) PROVE PatchersInv'
  <2>1. UNCHANGED <<slot, deopt, watched>> /\ tag \subseteq tag'
    BY <1>2, Zenon DEF AssignVersionTag
  <2> QED
    BY <2>1, Zenon DEF TWInv, PatchersInv, Covered, Guarded, deopt
<1>3. CASE WatchPending
  <2>1. /\ UNCHANGED <<slot, code_patchers, patched, type_deopt_patchers_, missed>>
        /\ watched' = watched \cup pending_watches_ /\ tag' = tag \cup pending_watches_
    BY <1>3, Zenon DEF WatchPending, watchPendingTypes
  <2> QED
    BY <2>1, Zenon DEF TWInv, PatchersInv, Covered, Guarded
<1>4. CASE StartCompile \/ EndCompile \/ UNCHANGED twvars
  <2>1. UNCHANGED <<types, deopt>>
    BY <1>4, Zenon DEF StartCompile, EndCompile, twvars
  <2> QED
    BY <2>1, Zenon DEF TWInv, PatchersInv, Covered, Guarded, types, deopt
<1> QED
  BY <1>1, <1>2, <1>3, <1>4, LinkPatchers, ReleasePatchers, ModifyPatchers, Zenon DEF TWNext

-----------------------------------------------------------------------------
(* Inline caches.                                                           *)

LEMMA ModifyCaches ==
  ASSUME TWInv, NEW t \in Type, NEW seen \in Value,
         NEW shape \in Shapes[t], ModifyType(t, shape, seen)
  PROVE  CachesInv'
<1>1. CASE t \notin tag \cap watched
  <2>1. UNCHANGED icaches /\ watched' = watched /\ tag' = tag \ {t}
    BY <1>1, Zenon DEF ModifyType
  <2>2. ASSUME NEW c \in Cache, NEW e \in entries[c] PROVE Subscribed(c, e)'
    <3>1. Subscribed(c, e) /\ e \in Entry
      BY Zenon DEF TWInv, CachesInv
    <3>2. e.type # t /\ e.descr # t
      BY <1>1, <3>1, NullAssumption, Zenon DEF Subscribed
    <3> QED
      BY <2>1, <3>1, <3>2, NullAssumption, Zenon DEF Subscribed, icaches, ModifyType, TWInv, Domains, Entry
  <2> QED
    BY <2>1, <2>2, Zenon DEF TWInv, CachesInv, icaches
<1>2. CASE t \in tag \cap watched
  <2>1. notifyICs(t) /\ watched' = watched /\ tag' = tag \ {t}
    BY <1>2, Zenon DEF ModifyType
  <2>2. ASSUME NEW c \in Cache, NEW e \in entries'[c]
        PROVE  e \in entries[c] /\ Subscribed(c, e)'
    <3>1. e \in KeptByDescr(c, t) /\ e \in KeptByType(c, t) /\ e \in entries[c]
      BY <2>1, <2>2, Zenon DEF notifyICs, KeptByDescr, KeptByType
    <3>2. Subscribed(c, e) /\ e \in Entry
      BY <3>1, Zenon DEF TWInv, CachesInv
    <3>3. e.type # t
      BY <3>1, <3>2, Zenon DEF KeptByType, Subscribed
    <3>4. e.descr # t
      <4> SUFFICES ASSUME e.descr = t PROVE FALSE
        BY Zenon
      <4>1. c \in DescrWatchers(t, t)
        BY <3>1, <3>2, NullAssumption, Zenon DEF DescrWatchers, Subscribed
      <4> QED
        BY <3>1, <4>1, Zenon DEF KeptByDescr
    <3>5. c \in ac_watcher'[e.type]
      <4>1. \A o \in KeptByType(c, t) \ KeptByDescr(c, t) : o.type # e.type
        BY <3>1, Zenon DEF TWInv, CachesInv, KeptByType
      <4> QED
        BY <2>1, <3>2, <3>3, <4>1, Zenon DEF notifyICs, Subscribed, Entry
    <3>6. ASSUME e.descr # NULL PROVE c \in ac_descr_watcher'[e.descr]
      <4>1. c \in DescrWatchers(t, e.descr)
        BY <3>1, <3>2, <3>6, Zenon DEF DescrWatchers, Subscribed
      <4> QED
        BY <2>1, <3>2, <3>4, <3>6, <4>1, Zenon DEF notifyICs, Entry
    <3>7. attr'[e.type] = e.attr
      BY <3>2, <3>3, Zenon DEF ModifyType, Subscribed, TWInv, Domains, Entry
    <3>8. ASSUME e.descr # NULL PROVE slot'[e.descr]
      BY <3>2, <3>4, <3>8, Zenon DEF ModifyType, Subscribed, TWInv, Domains, Entry
    <3>9. /\ e.type \in watched' \cap tag'
          /\ e.descr # NULL => e.descr \in watched' \cap tag'
      BY <2>1, <3>2, <3>3, <3>4, Zenon DEF Subscribed
    <3> QED
      BY <3>1, <3>5, <3>6, <3>7, <3>8, <3>9, Zenon DEF Subscribed
  <2> QED
    BY <2>2, Zenon DEF TWInv, CachesInv
<1> QED
  BY <1>1, <1>2, Zenon

LEMMA FillCaches ==
  ASSUME TWInv, NEW c \in Cache, NEW t \in Type, Fill(c, t)
  PROVE  CachesInv'
<1>0. PICK d, new :
        /\ d = DescrOf[attr[t]]
        /\ new = [type |-> t, descr |-> IF DataDescr(t) THEN d ELSE NULL, attr |-> attr[t]]
  BY Zenon
<1>1. /\ UNCHANGED <<attr, slot>>
      /\ watched \subseteq watched' /\ tag \subseteq tag'
      /\ t \in watched' \cap tag'
      /\ DataDescr(t) => d \in watched' \cap tag'
  BY <1>0, Zenon DEF Fill
<1>2. /\ entries' = [entries EXCEPT ![c] = @ \cup {new}]
      /\ ac_watcher' = [ac_watcher EXCEPT ![t] = @ \cup {c}]
      /\ \A o \in entries[c] : o.type # t
  BY <1>0, Zenon DEF Fill
<1>3. attr[t] \in Value /\ (DataDescr(t) => d \in Type /\ slot[d])
  BY <1>0, NullAssumption, DescrAssumption, Zenon DEF TWInv, Domains, DataDescr
<1>4. new \in Entry
  BY <1>0, <1>3, Zenon DEF Entry
<1>5. \A u \in Type : /\ ac_watcher[u] \subseteq ac_watcher'[u]
                      /\ ac_descr_watcher[u] \subseteq ac_descr_watcher'[u]
  BY Zenon DEF Fill, TWInv, Domains
<1>6. c \in ac_watcher'[t] /\ (DataDescr(t) => c \in ac_descr_watcher'[d])
  BY <1>0, <1>3, Zenon DEF Fill, TWInv, Domains
<1>7. Subscribed(c, new)'
  BY <1>0, <1>1, <1>3, <1>6, Zenon DEF Subscribed
<1>8. ASSUME NEW b \in Cache, NEW e \in entries[b] PROVE e \in Entry /\ Subscribed(b, e)'
  <2>1. e \in Entry /\ Subscribed(b, e)
    BY Zenon DEF TWInv, CachesInv
  <2> QED
    BY <1>1, <1>5, <2>1, Zenon DEF Subscribed, Entry
<1>9. \A b \in Cache : entries'[b] = IF b = c THEN entries[c] \cup {new} ELSE entries[b]
  BY <1>2, Zenon DEF TWInv, Domains
<1>10. new.type = t
  BY <1>0, Zenon
<1>11. ASSUME NEW b \in Cache, NEW e \in entries'[b]
       PROVE  /\ e \in Entry /\ Subscribed(b, e)'
              /\ \A o \in entries'[b] : o.type = e.type => o = e
  BY <1>2, <1>4, <1>7, <1>8, <1>9, <1>10 DEF TWInv, CachesInv
<1> QED
  BY <1>11, Zenon DEF CachesInv

LEMMA CachesNext ==
  ASSUME TWInv, [TWNext]_twvars
  PROVE  CachesInv'
<1>1. ASSUME UNCHANGED <<attr, slot, icaches>>, watched \subseteq watched', tag \subseteq tag'
      PROVE  CachesInv'
  BY <1>1, Zenon DEF TWInv, CachesInv, Subscribed, icaches
<1>2. ASSUME NEW a \in Art, NEW ts \in SUBSET Type, Link(a, ts) PROVE CachesInv'
  BY <1>1, <1>2, Zenon DEF Link
<1>3. ASSUME NEW A \in SUBSET Art, NEW held \in SUBSET Art, Release(A, held) PROVE CachesInv'
  BY <1>1, <1>3, Zenon DEF Release, types
<1>4. ASSUME NEW t \in Type, AssignVersionTag(t) PROVE CachesInv'
  BY <1>1, <1>4, Zenon DEF AssignVersionTag
<1>5. CASE StartCompile \/ EndCompile \/ UNCHANGED twvars
  BY <1>1, <1>5, Zenon DEF StartCompile, EndCompile, twvars, types
<1>6. CASE WatchPending
  BY <1>1, <1>6, Zenon DEF WatchPending, watchPendingTypes
<1> QED
  BY <1>2, <1>3, <1>4, <1>5, <1>6, ModifyCaches, FillCaches, Zenon DEF TWNext

-----------------------------------------------------------------------------
LEMMA TWInvHolds == TWSpec => []TWInv
<1>1. TWInv /\ [TWNext]_twvars => TWInv'
  BY DomainsNext, PatchersNext, CachesNext, Zenon DEF TWInv
<1> QED
  BY <1>1, TWInvInit, PTL DEF TWSpec

\* Compiled code does not go on calling the slots of a type that has lost
\* them: for any artifacts, types and order of links, changes, lookups that
\* give tags, batches and releases, the patch point has been patched, unless a
\* change was missed before the type was watched (TypeDeoptPatcher::maybePatch,
\* watchType, watchPendingTypes).
THEOREM LostSlotsPatched == TWSpec => []LostSlotIsPatched
<1>1. TWInv => LostSlotIsPatched
  BY Zenon DEF TWInv, PatchersInv, Covered, Guarded, LostSlotIsPatched
<1> QED
  BY <1>1, TWInvHolds, PTL

\* An AttributeCache never answers with an attribute that its type has lost,
\* nor takes for a data descriptor what is none any more, whatever entries
\* share a descriptor's type (fill, typeChanged, descrTypeChanged).
THEOREM CachesStayFresh == TWSpec => []CachesFresh
<1>1. TWInv => CachesFresh
  BY Zenon DEF TWInv, CachesInv, Subscribed, CachesFresh
<1> QED
  BY <1>1, TWInvHolds, PTL

-----------------------------------------------------------------------------
(* A batch is a client of TypeWatch.                                        *)

UnitsInv ==
  /\ prog \in Programs
  /\ registered \subseteq Unit /\ todo \subseteq Unit /\ compilation_units \subseteq Unit
  /\ pc = "python" => cur \in Unit
  /\ work_list_ \subseteq Unit /\ retry_list_ \subseteq Unit
  /\ DOMAIN worker = Worker
  /\ \A w \in Worker : worker[w].at \in {"begin", "compile"} => worker[w].unit \in Unit

LEMMA KeyIsCode == ASSUME NEW u \in Unit PROVE Key(u) \in Code
BY CodeAssumption DEF Unit, Key

LEMMA UnitsInit == Init => UnitsInv
BY DEF Init, UnitsInv, Idle

LEMMA UnitsTracked ==
  ASSUME NEW f \in Func PROVE track(f).units \subseteq Unit
<1>1. CodeOf[f] \in Code /\ NestedIn[CodeOf[f]] \subseteq Unit
  BY CodeAssumption, Zenon DEF Unit
<1> QED
  BY <1>1, Zenon DEF track

LEMMA UnitsPreload == ASSUME UnitsInv, Preload PROVE UnitsInv'
<1> USE DEF UnitsInv, preload, threads, program, history
<1>1. CASE CompileAll
  BY <1>1, Zenon DEF CompileAll
<1>2. CASE NextRound
  BY <1>2, Zenon DEF NextRound
<1>3. CASE Leave
  BY <1>3, Zenon DEF Leave
<1>4. ASSUME NEW u \in Unit, PreloadUnit(u) PROVE UnitsInv'
  BY <1>3, <1>4, Zenon DEF PreloadUnit
<1>5. CASE PreloadDone
  BY <1>3, <1>5, Zenon DEF PreloadDone
<1>6. CASE Preloaded
  BY <1>3, <1>6 DEF Preloaded, Surviving, Idle
<1> QED
  BY <1>1, <1>2, <1>4, <1>5, <1>6, Zenon DEF Preload

LEMMA UnitsCompile == ASSUME UnitsInv, Compile PROVE UnitsInv'
<1> USE DEF UnitsInv, preload, program, history, Idle
<1>1. ASSUME NEW w \in Worker, nextUnit(w) PROVE UnitsInv'
  BY <1>1 DEF nextUnit
<1>2. ASSUME NEW w \in Worker, BeginCompile(w) PROVE UnitsInv'
  BY <1>2 DEF BeginCompile
<1>3. ASSUME NEW w \in Worker, EndOfCompile(w) PROVE UnitsInv'
  BY <1>3, Zenon DEF EndOfCompile
<1> QED
  BY <1>1, <1>2, <1>3, Zenon DEF Compile

LEMMA UnitsFinish == ASSUME UnitsInv, Finish PROVE UnitsInv'
<1> USE DEF UnitsInv, preload, threads, program, history, Idle
<1>1. CASE Join
  BY <1>1, Zenon DEF Join
<1>2. CASE FixupDone
  BY <1>2, Zenon DEF FixupDone
<1>3. ASSUME NEW r, MakeCompleted(r) PROVE UnitsInv'
  BY <1>3, Zenon DEF MakeCompleted
<1>4. ASSUME NEW d, FinalizeDeferred(d) PROVE UnitsInv'
  BY <1>4, Zenon DEF FinalizeDeferred
<1>5. CASE Finalized
  BY <1>5, Zenon DEF Finalized
<1>6. ASSUME NEW u, CompileUnit(u) PROVE UnitsInv'
  BY <1>6, Zenon DEF CompileUnit
<1>7. CASE UnitsDone
  BY <1>7, Zenon DEF UnitsDone
<1>8. CASE Return
  BY <1>8, Zenon DEF Return, Leave
<1> QED
  BY <1>1, <1>2, <1>3, <1>4, <1>5, <1>6, <1>7, <1>8, Zenon DEF Finish

LEMMA UnitsPython == ASSUME UnitsInv, Python PROVE UnitsInv'
<1> USE DEF UnitsInv, preload, threads, program, history
<1>1. ASSUME NEW f \in Func, CreateFunc(f) PROVE UnitsInv'
  <2>1. registered' \subseteq Unit
    BY <1>1, UnitsTracked, Zenon DEF CreateFunc, Unit
  <2> QED
    BY <1>1, <2>1, Zenon DEF CreateFunc
<1>2. ASSUME NEW f \in Func, CompileNow(f) PROVE UnitsInv'
  BY <1>2, Zenon DEF CompileNow
<1>3. ASSUME NEW f \in Func, NEW listed, NEW recorded, FuncDies(f, listed, recorded) PROVE UnitsInv'
  BY <1>3, Zenon DEF FuncDies, unregister
<1>4. ASSUME NEW f \in Func, NEW listed, NEW recorded, Uncompile(f, listed, recorded) PROVE UnitsInv'
  BY <1>4, Zenon DEF Uncompile, unregister
<1>5. CASE TypeStep
  BY <1>5, Zenon DEF TypeStep
<1> QED
  BY <1>1, <1>2, <1>3, <1>4, <1>5, Zenon DEF Python

LEMMA UnitsNext == UnitsInv /\ [Next]_vars => UnitsInv'
<1>1. ASSUME UnitsInv, UNCHANGED vars PROVE UnitsInv'
  BY <1>1, Zenon DEF UnitsInv, vars, preload, threads, program
<1> QED
  BY <1>1, UnitsPreload, UnitsCompile, UnitsFinish, UnitsPython, Zenon DEF Next

-----------------------------------------------------------------------------
(* Steps of a batch as steps of TypeWatch.                                  *)

\* What is linked belongs to an artifact of a code object.
LEMMA LinkIsStep ==
  ASSUME NEW c \in Code, NEW a \in Fresh(c), NEW ts, ts \subseteq Receivers[c], Link(a, ts)
  PROVE  TWNext
<1>1. a \in Art
  <2>1. PICK n \in 1 .. MaxArts[c] : a = <<c, n>>
    BY Zenon DEF Fresh
  <2>2. a \in {c} \X (1 .. MaxArts[c])
    BY <2>1, Zenon
  <2> QED
    BY <2>2, ArtAssumption, Zenon
<1>2. ts \in SUBSET Type
  BY CodeAssumption, Zenon
<1> QED
  BY <1>1, <1>2, Zenon DEF TWNext

LEMMA CompileIsStep ==
  ASSUME NEW f, NEW c \in Code, compilePreloader(f, c) \/ CompileDropped(c)
  PROVE  [TWNext]_twvars
BY LinkIsStep, Zenon DEF compilePreloader, CompileDropped

\* clear releases the patchers of artifacts; others have none.
LEMMA ClearIsStep ==
  ASSUME Domains, NEW A, clear(A) PROVE TWNext
<1> DEFINE B == A \cap Art
           o == owned \cap Art
<1>1. \A p \in Patcher : /\ p.art \in A <=> p.art \in B
                         /\ p.art \in A \cap owned <=> p.art \in B \cap o
  BY Zenon DEF Patcher
<1>2. code_patchers' = [a \in Art |-> IF a \in B THEN {} ELSE code_patchers[a]]
  BY Zenon DEF clear, Without
<1>3. /\ patched' = {p \in patched : p.art \notin B}
      /\ missed' = {p \in missed : p.art \notin B}
  BY <1>1, Zenon DEF clear, Without, Domains
<1>4. type_deopt_patchers_' = [t \in Type |->
        {p \in type_deopt_patchers_[t] :
           ~(p.art \in B \cap o /\ p \in code_patchers[p.art])}]
  <2>1. ASSUME NEW t \in Type
        PROVE  {p \in type_deopt_patchers_[t] :
                  ~(p.art \in A \cap owned /\ p \in code_patchers[p.art])}
             = {p \in type_deopt_patchers_[t] :
                  ~(p.art \in B \cap o /\ p \in code_patchers[p.art])}
    BY <1>1, Zenon DEF Domains
  <2> QED
    BY <2>1, Zenon DEF clear, Without
<1>5. Without(B, o)
  BY <1>2, <1>3, <1>4, Zenon DEF clear, Without
<1>6. Release(B, o)
  BY <1>5, Zenon DEF clear, Release
<1>7. B \in SUBSET Art /\ o \in SUBSET Art
  BY Zenon
<1> HIDE DEF B, o
<1> QED
  BY <1>6, <1>7, Zenon DEF TWNext

LEMMA TypeStepIsStep == ASSUME UnitsInv, TypeStep PROVE TWNext
<1>1. prog.caches \subseteq Cache /\ prog.types \subseteq Type
  BY ProgramsAssumption, Zenon DEF UnitsInv
<1>2. \A t \in Type : prog.shapes[t] \subseteq Shapes[t]
  BY ProgramsAssumption, Zenon DEF UnitsInv
<1>3. CASE \E t \in prog.types, seen \in Value : \E shape \in prog.shapes[t] :
             ModifyType(t, shape, seen)
  BY <1>1, <1>2, <1>3, Zenon DEF TWNext
<1>4. CASE \E c \in prog.caches, t \in prog.types : Fill(c, t)
  BY <1>1, <1>4, Zenon DEF TWNext
<1>5. CASE \E t \in prog.types : AssignVersionTag(t)
  BY <1>1, <1>5, Zenon DEF TWNext
<1> QED
  BY <1>3, <1>4, <1>5, Zenon DEF TypeStep

LEMMA PreloadSteps == ASSUME Preload PROVE [TWNext]_twvars
<1>1. CASE Leave
  BY <1>1, Zenon DEF Leave
<1>2. CASE Preloaded
  BY <1>1, <1>2, Zenon DEF Preloaded, TWNext, StartCompile, twvars
<1>3. ASSUME NEW u, PreloadUnit(u) PROVE UNCHANGED twvars
  BY <1>3, Zenon DEF PreloadUnit, Leave
<1> QED
  BY <1>2, <1>3, Zenon DEF Preload, CompileAll, NextRound, PreloadDone, Leave

LEMMA CompileSteps == ASSUME UnitsInv, Compile PROVE [TWNext]_twvars
<1>1. ASSUME NEW w \in Worker, nextUnit(w) \/ BeginCompile(w) PROVE UNCHANGED twvars
  BY <1>1, Zenon DEF nextUnit, BeginCompile
<1>2. ASSUME NEW w \in Worker, EndOfCompile(w) PROVE [TWNext]_twvars
  <2>1. Key(worker[w].unit) \in Code
    BY <1>2, KeyIsCode, Zenon DEF EndOfCompile, UnitsInv
  <2> QED
    BY <1>2, <2>1, LinkIsStep, Zenon DEF EndOfCompile
<1> QED
  BY <1>1, <1>2, Zenon DEF Compile

LEMMA FinishSteps == ASSUME UnitsInv, Finish PROVE [TWNext]_twvars
<1>1. CASE Join
  BY <1>1, Zenon DEF Join, TWNext, EndCompile
<1>2. CASE FixupDone
  BY <1>2, Zenon DEF FixupDone, TWNext, WatchPending
<1>3. ASSUME NEW u \in work_list_, CompileUnit(u) PROVE [TWNext]_twvars
  <2>1. Key(u) \in Code
    BY KeyIsCode, Zenon DEF UnitsInv
  <2> QED
    BY <1>3, <2>1, CompileIsStep, Zenon DEF CompileUnit
<1>4. ASSUME NEW r, MakeCompleted(r) \/ FinalizeDeferred(r) PROVE UNCHANGED twvars
  BY <1>4, Zenon DEF MakeCompleted, FinalizeDeferred
<1>5. CASE Finalized \/ UnitsDone \/ Return
  BY <1>5, Zenon DEF Finalized, UnitsDone, Return, Leave
<1> QED
  BY <1>1, <1>2, <1>3, <1>4, <1>5, Zenon DEF Finish

LEMMA PythonSteps == ASSUME UnitsInv, Domains, Python PROVE [TWNext]_twvars
<1>1. ASSUME NEW f \in Func, CreateFunc(f) PROVE UNCHANGED twvars
  BY <1>1, Zenon DEF CreateFunc
<1>2. ASSUME NEW f \in Func, CompileNow(f) PROVE [TWNext]_twvars
  BY <1>2, CodeAssumption, CompileIsStep, Zenon DEF CompileNow
<1>3. ASSUME NEW f \in Func, NEW listed, NEW recorded, FuncDies(f, listed, recorded) PROVE TWNext
  BY <1>3, ClearIsStep, Zenon DEF FuncDies
<1>4. ASSUME NEW f \in Func, NEW listed, NEW recorded, Uncompile(f, listed, recorded) PROVE TWNext
  BY <1>4, ClearIsStep, Zenon DEF Uncompile
<1> QED
  BY <1>1, <1>2, <1>3, <1>4, TypeStepIsStep, Zenon DEF Python

\* Compiling in batches and one by one, freeing and uncompiling use the
\* watches of types only in the ways TypeWatch allows: at every step they
\* link, release, watch or leave alone what it guards (compile_all,
\* Context::finalizeMultiThreadedCompile, CompiledFunction::clear).
THEOREM ImplementsTypeWatch == Spec => TWSpec
<1>1. Init => TWInit /\ Domains /\ UnitsInv
  BY TWInvInit, UnitsInit, Zenon DEF Init, TWInv
<1>2. UnitsInv /\ Domains /\ [Next]_vars => [TWNext]_twvars
  BY PreloadSteps, CompileSteps, FinishSteps, PythonSteps, Zenon DEF Next, vars
<1>3. UnitsInv /\ Domains /\ [Next]_vars => UnitsInv' /\ Domains'
  BY <1>2, UnitsNext, DomainsNext, Zenon
<1> QED
  BY <1>1, <1>2, <1>3, PTL DEF Spec, TWSpec

\* Across batches, retries, the death of functions and uncompilation, no
\* artifact goes on calling the slots that a type has lost, unless it lost
\* them in the fixup, and no inline cache has a stale entry.
THEOREM BatchKeepsPromises == Spec => [](LostSlotIsPatched /\ CachesFresh)
BY ImplementsTypeWatch, LostSlotsPatched, CachesStayFresh, PTL

-----------------------------------------------------------------------------
(* The phases of a batch.                                                   *)

Preloading == pc \in {"idle", "round", "python"}

\* What is in flight when.
PhaseInv ==
  /\ pc \in {"idle", "round", "python", "threads", "fixup", "make", "serial", "return"}
  /\ compile_running_ <=> pc = "threads"
  /\ pc \notin {"threads", "fixup"} => pending_watches_ = {}
  /\ pc # "threads" => active_compiles_ = {} /\ \A w \in Worker : worker[w].at = "idle"
  /\ pc = "threads" => \A w \in Worker : worker[w].at = "done" => work_list_ = {}
  /\ pc \notin {"threads", "fixup", "make"} =>
       completed_compiles_ = {} /\ deferred_finalizations_ = {} /\ retry_list_ = {}
  /\ pc \notin {"threads", "serial"} => work_list_ = {}
  /\ Preloading => retried = {}
  /\ ~Preloading => deleted_units = {} /\ ~deletion_record_lost
  /\ pc = "idle" => todo = {} /\ compilation_units = {} /\ deleted_units = {}

\* The keys in progress are those of the workers that compile, one each.
CompilingInv ==
  /\ \A w \in Worker : worker[w].at = "compile" => Key(worker[w].unit) \in active_compiles_
  /\ \A c \in active_compiles_ :
       \E w \in Worker : worker[w].at = "compile" /\ Key(worker[w].unit) = c
  /\ \A v, w \in Worker :
       /\ worker[v].at = "compile" /\ worker[w].at = "compile"
       /\ Key(worker[v].unit) = Key(worker[w].unit)
       => v = w

LEMMA PhaseInit == Init => PhaseInv /\ CompilingInv
BY DEF Init, TWInit, PhaseInv, Preloading, Idle, CompilingInv

\* Compiling outside the worker phase leaves nothing pending.
LEMMA LinkPending ==
  ASSUME NEW a, NEW ts, Link(a, ts)
  PROVE  /\ compile_running_' = compile_running_
         /\ ~compile_running_ => pending_watches_' = pending_watches_
BY Zenon DEF Link

LEMMA CompilePending ==
  ASSUME NEW f, NEW c, compilePreloader(f, c) \/ CompileDropped(c), ~compile_running_
  PROVE  compile_running_' = compile_running_ /\ pending_watches_' = pending_watches_
BY LinkPending, Zenon DEF compilePreloader, CompileDropped, twvars, deopt

LEMMA PhaseLeave == ASSUME PhaseInv, Leave, Preloading \/ pc = "return" PROVE PhaseInv'
BY Zenon DEF PhaseInv, Preloading, Leave, threads, inflight, twvars, deopt

LEMMA PhaseSame ==
  ASSUME PhaseInv, UNCHANGED <<pc, todo, compilation_units, deleted_units, deletion_record_lost,
                               threads, inflight, retried, pending_watches_, compile_running_>>
  PROVE  PhaseInv'
BY Zenon DEF PhaseInv, Preloading, threads, inflight

LEMMA PhasePreload == ASSUME PhaseInv, UnitsInv, Preload PROVE PhaseInv'
<1>3. ASSUME NEW u \in Unit, PreloadUnit(u) PROVE PhaseInv'
  <2>1. CASE Leave
    BY <1>3, <2>1, PhaseLeave, Zenon DEF PreloadUnit, Preloading
  <2>2. CASE ~Leave
    <3>1. /\ pc = "round" /\ pc' \in {"round", "python"}
          /\ UNCHANGED <<twvars, deleted_units, deletion_record_lost, threads, inflight, history>>
      BY <1>3, <2>2, Zenon DEF PreloadUnit
    <3> QED
      BY <3>1, Zenon DEF PhaseInv, Preloading, threads, inflight, history, twvars, deopt
  <2> QED
    BY <2>1, <2>2, Zenon
<1> USE DEF PhaseInv, Preloading, preload, threads, inflight, history, twvars, deopt
<1>1. CASE CompileAll
  BY <1>1, Zenon DEF CompileAll
<1>2. CASE NextRound
  BY <1>2, Zenon DEF NextRound
<1>4. CASE PreloadDone
  BY <1>4, PhaseLeave DEF PreloadDone
<1>5. CASE Preloaded
  <2>1. CASE Leave
    BY <1>5, <2>1, PhaseLeave, Zenon DEF Preloaded
  <2>2. CASE pc' = "serial"
    BY <1>5, <2>2, PhaseLeave DEF Preloaded
  <2>3. CASE pc' = "threads"
    <3>1. \A w \in Worker : worker'[w].at = "next"
      BY <1>5, <2>3, Zenon DEF Preloaded, Idle, Leave
    <3> QED
      BY <1>5, <2>3, <3>1 DEF Preloaded, Leave
  <2> QED
    BY <1>5, <2>1, <2>2, <2>3, Zenon DEF Preloaded
<1> QED
  BY <1>1, <1>2, <1>3, <1>4, <1>5, Zenon DEF Preload

LEMMA PhaseCompile == ASSUME PhaseInv, UnitsInv, Compile PROVE PhaseInv'
<1> USE DEF PhaseInv, UnitsInv, Preloading, preload, history, twvars, deopt, Idle
<1>1. ASSUME NEW w \in Worker, nextUnit(w) PROVE PhaseInv'
  BY <1>1 DEF nextUnit, inflight
<1>2. ASSUME NEW w \in Worker, BeginCompile(w) PROVE PhaseInv'
  BY <1>2 DEF BeginCompile
<1>3. ASSUME NEW w \in Worker, EndOfCompile(w) PROVE PhaseInv'
  BY <1>3, LinkPending, Zenon DEF EndOfCompile
<1> QED
  BY <1>1, <1>2, <1>3, Zenon DEF Compile

LEMMA PhaseFinish == ASSUME PhaseInv, CompilingInv, Finish PROVE PhaseInv'
<1> USE DEF PhaseInv, Preloading, preload, threads, inflight, history, twvars, deopt
<1>1. CASE Join
  <2>1. \A w \in Worker : worker[w].at = "done"
    BY <1>1, Zenon DEF Join
  <2>2. work_list_ = {} /\ active_compiles_ = {}
    BY <1>1, <2>1, NamesAssumption, Zenon DEF Join, CompilingInv
  <2> QED
    BY <1>1, <2>2, Zenon DEF Join, Idle
<1>2. CASE FixupDone
  BY <1>2, Zenon DEF FixupDone, watchPendingTypes
<1>3. ASSUME NEW r, MakeCompleted(r) PROVE PhaseInv'
  BY <1>3, Zenon DEF MakeCompleted
<1>4. ASSUME NEW d, FinalizeDeferred(d) PROVE PhaseInv'
  BY <1>4, Zenon DEF FinalizeDeferred
<1>5. CASE Finalized
  BY <1>5, Zenon DEF Finalized
<1>6. ASSUME NEW u, CompileUnit(u) PROVE PhaseInv'
  BY <1>6, CompilePending DEF CompileUnit
<1>7. CASE UnitsDone
  BY <1>7, Zenon DEF UnitsDone
<1>8. CASE Return
  BY <1>8, PhaseLeave, Zenon DEF Return
<1> QED
  BY <1>1, <1>2, <1>3, <1>4, <1>5, <1>6, <1>7, <1>8, Zenon DEF Finish

LEMMA PhasePython == ASSUME PhaseInv, Python PROVE PhaseInv'
<1>2. ASSUME NEW f \in Func, CompileNow(f) PROVE PhaseInv'
  <2>1. /\ UNCHANGED <<pc, todo, compilation_units, deleted_units, deletion_record_lost,
                       threads, inflight, retried>>
        /\ compilePreloader(f, CodeOf[f]) \/ CompileDropped(CodeOf[f]) \/ UNCHANGED twvars
        /\ pc \in {"idle", "python"}
    BY <1>2, Zenon DEF CompileNow, FunctionsMove
  <2>2. ~compile_running_
    BY <2>1, Zenon DEF PhaseInv
  <2>3. UNCHANGED <<pending_watches_, compile_running_>>
    BY <2>1, <2>2, CompilePending, Zenon DEF twvars, deopt
  <2> QED
    BY <2>1, <2>3, PhaseSame, Zenon
<1>5. CASE TypeStep
  <2>1. UNCHANGED <<pc, preload, threads, inflight, history>>
    BY <1>5, Zenon DEF TypeStep
  <2>2. UNCHANGED <<pending_watches_, compile_running_>>
    BY <1>5, Zenon DEF TypeStep, ModifyType, notifyPatchers, Fill, AssignVersionTag, deopt
  <2> QED
    BY <2>1, <2>2, PhaseSame, Zenon DEF preload, history
<1> USE DEF PhaseInv, Preloading, preload, threads, inflight, history, twvars, deopt
<1>1. ASSUME NEW f \in Func, CreateFunc(f) PROVE PhaseInv'
  BY <1>1, Zenon DEF CreateFunc
<1>3. ASSUME NEW f \in Func, NEW listed, NEW recorded, FuncDies(f, listed, recorded) PROVE PhaseInv'
  BY <1>3, Zenon DEF FuncDies, unregister, FunctionsMove, clear, Without
<1>4. ASSUME NEW f \in Func, NEW listed, NEW recorded, Uncompile(f, listed, recorded) PROVE PhaseInv'
  BY <1>4, Zenon DEF Uncompile, unregister, FunctionsMove, clear, Without
<1> QED
  BY <1>1, <1>2, <1>3, <1>4, <1>5, Zenon DEF Python

LEMMA CompilingSame ==
  ASSUME CompilingInv, active_compiles_' = active_compiles_,
         \A v \in Worker : worker'[v] = worker[v] \/ (worker[v].at # "compile" /\ worker'[v].at # "compile")
  PROVE  CompilingInv'
<1>1. \A v \in Worker : worker'[v].at = "compile" => worker'[v] = worker[v]
  BY Zenon
<1>2. \A v \in Worker : worker[v].at = "compile" => worker'[v] = worker[v]
  BY Zenon
<1>3. \A v \in Worker : worker'[v] = worker[v] => Key(worker[v].unit)' = Key(worker[v].unit)
  BY Zenon DEF Key
<1>4. /\ \A v \in Worker : worker'[v].at = "compile" <=> worker[v].at = "compile"
      /\ \A v \in Worker : worker'[v].at = "compile" => Key(worker[v].unit)' = Key(worker[v].unit)
  BY <1>1, <1>2, <1>3, Zenon
<1> QED
  BY <1>4, Zenon DEF CompilingInv

LEMMA CompilingCompile == ASSUME CompilingInv, UnitsInv, Compile PROVE CompilingInv'
<1>1. ASSUME NEW w \in Worker, nextUnit(w) PROVE CompilingInv'
  <2>1. /\ worker[w].at = "next" /\ worker'[w].at \in {"begin", "done"}
        /\ \A v \in Worker \ {w} : worker'[v] = worker[v]
        /\ active_compiles_' = active_compiles_
    BY <1>1 DEF nextUnit, inflight, UnitsInv, Idle
  <2> QED
    BY <2>1, CompilingSame, Zenon
<1>2. ASSUME NEW w \in Worker, BeginCompile(w) PROVE CompilingInv'
  <2> DEFINE u == worker[w].unit
  <2>1. worker[w].at = "begin" /\ \A v \in Worker \ {w} : worker'[v] = worker[v]
    BY <1>2, Zenon DEF BeginCompile, UnitsInv
  <2>2. \/ worker'[w].at = "next" /\ active_compiles_' = active_compiles_
        \/ /\ worker'[w].at = "compile" /\ worker'[w].unit = u
           /\ Key(u) \notin active_compiles_
           /\ active_compiles_' = active_compiles_ \cup {Key(u)}
    BY <1>2 DEF BeginCompile, UnitsInv, Idle
  <2>3. CASE worker'[w].at = "next" /\ active_compiles_' = active_compiles_
    BY <2>1, <2>3, CompilingSame, Zenon
  <2>4. CASE /\ worker'[w].at = "compile" /\ worker'[w].unit = u
             /\ Key(u) \notin active_compiles_
             /\ active_compiles_' = active_compiles_ \cup {Key(u)}
    <3>1. \A v \in Worker : worker[v].at = "compile" => v # w /\ worker'[v] = worker[v]
      BY <2>1, Zenon
    <3>2. \A v \in Worker : worker'[v].at = "compile" =>
             v = w \/ (worker'[v] = worker[v] /\ Key(worker[v].unit) \in active_compiles_)
      BY <2>1, Zenon DEF CompilingInv
    <3>3. \A v \in Worker : worker'[v].at = "compile" => Key(worker[v].unit)' \in active_compiles_'
      BY <2>4, <3>2, Zenon DEF Key
    <3>4. \A c \in active_compiles_' :
            \E v \in Worker : worker'[v].at = "compile" /\ Key(worker[v].unit)' = c
      BY <2>4, <3>1 DEF CompilingInv, Key
    <3>5. ASSUME NEW v \in Worker, NEW x \in Worker, worker'[v].at = "compile",
                 worker'[x].at = "compile", Key(worker[v].unit)' = Key(worker[x].unit)'
          PROVE  v = x
      BY <2>1, <2>4, <3>2, <3>5 DEF CompilingInv, Key
    <3> QED
      BY <3>3, <3>4, <3>5, Zenon DEF CompilingInv
  <2> QED
    BY <2>2, <2>3, <2>4, Zenon
<1>3. ASSUME NEW w \in Worker, EndOfCompile(w) PROVE CompilingInv'
  <2>1. /\ worker[w].at = "compile" /\ worker'[w].at = "next"
        /\ \A v \in Worker \ {w} : worker'[v] = worker[v]
        /\ active_compiles_' = active_compiles_ \ {Key(worker[w].unit)}
    BY <1>3, Zenon DEF EndOfCompile, UnitsInv, Idle
  <2>2. \A v \in Worker : worker'[v] = worker[v] => Key(worker[v].unit)' = Key(worker[v].unit)
    BY Zenon DEF Key
  <2>3. \A v \in Worker : worker'[v].at = "compile" <=> worker[v].at = "compile" /\ v # w
    BY <2>1, Zenon
  <2>4. \A v \in Worker \ {w} : Key(worker[v].unit)' = Key(worker[v].unit)
    BY <2>1, <2>2, Zenon
  <2>5. \A v \in Worker : worker[v].at = "compile" /\ v # w => Key(worker[v].unit) # Key(worker[w].unit)
    BY <2>1, Zenon DEF CompilingInv
  <2> QED
    BY <2>1, <2>3, <2>4, <2>5 DEF CompilingInv
<1> QED
  BY <1>1, <1>2, <1>3, Zenon DEF Compile

LEMMA CompilingNext ==
  ASSUME PhaseInv, CompilingInv, UnitsInv, [Next]_vars PROVE CompilingInv'
<1>1. CASE UNCHANGED <<worker, active_compiles_>>
  BY <1>1 DEF CompilingInv, Key
<1>2. CASE Preload
  <2>1. UNCHANGED <<worker, active_compiles_>> \/ Preloaded
    BY <1>2, Zenon DEF Preload, CompileAll, NextRound, PreloadUnit, PreloadDone, Leave, threads, inflight
  <2>2. ASSUME Preloaded, ~UNCHANGED worker PROVE CompilingInv'
    <3>1. active_compiles_' = {} /\ \A w \in Worker : worker'[w].at = "next"
      BY <2>2, Zenon DEF Preloaded, Leave, threads, inflight, PhaseInv, Idle
    <3> QED
      BY <3>1, Zenon DEF CompilingInv
  <2>3. ASSUME Preloaded, UNCHANGED worker PROVE CompilingInv'
    BY <1>1, <2>3, Zenon DEF Preloaded, Leave, inflight
  <2> QED
    BY <1>1, <2>1, <2>2, <2>3, Zenon
<1>3. CASE Finish
  <2>1. CASE Join
    <3>1. active_compiles_' = {} /\ \A w \in Worker : worker'[w].at = "idle"
      BY <2>1, Zenon DEF Join, inflight, CompilingInv, Idle
    <3> QED
      BY <3>1, Zenon DEF CompilingInv
  <2>2. ~Join => UNCHANGED <<worker, active_compiles_>>
    BY Zenon, <1>3 DEF Finish, FixupDone, MakeCompleted, FinalizeDeferred, Finalized, CompileUnit, UnitsDone,
       Return, Leave, threads, inflight
  <2> QED
    BY <1>1, <2>1, <2>2, Zenon
<1>4. CASE Python
  <2>1. UNCHANGED <<worker, active_compiles_>>
    BY <1>4, Zenon DEF Python, CreateFunc, CompileNow, FuncDies, Uncompile, TypeStep, threads, inflight
  <2> QED
    BY <1>1, <2>1, Zenon
<1>5. CASE UNCHANGED vars
  BY <1>1, <1>5, Zenon DEF vars, threads, inflight
<1> QED
  BY <1>2, CompilingCompile, <1>3, <1>4, <1>5, Zenon DEF Next

LEMMA PhaseNext == ASSUME PhaseInv, CompilingInv, UnitsInv, [Next]_vars PROVE PhaseInv'
<1>1. CASE UNCHANGED vars
  BY <1>1, Zenon DEF PhaseInv, Preloading, vars, preload, threads, inflight, history, twvars, deopt
<1> QED
  BY <1>1, PhasePreload, PhaseCompile, PhaseFinish, PhasePython, Zenon DEF Next

-----------------------------------------------------------------------------
(* Units and their functions.                                               *)

\* The outer function of a code object has the code or code around it.
OuterInv ==
  /\ DOMAIN code_outer_funcs_ = Code /\ alive \subseteq Func
  /\ \A c \in Code : code_outer_funcs_[c] # NULL =>
       /\ code_outer_funcs_[c] \in alive
       /\ c = CodeOf[code_outer_funcs_[c]] \/ c \in NestedIn[CodeOf[code_outer_funcs_[c]]]

\* The function is alive, or the code is nested in that of its outer function.
Kept(u) ==
  IF u \in Func THEN u \in alive
  ELSE code_outer_funcs_[u] # NULL /\ CodeOf[code_outer_funcs_[u]] # u

Batch == todo \cup compilation_units \cup (IF pc = "python" THEN {cur} ELSE {})

\* A unit dies only with its deletion recorded, or the record lost.
KeptInv ==
  /\ \A u \in registered : Kept(u)
  /\ \A u \in Batch : Kept(u) \/ u \in deleted_units \/ deletion_record_lost

LEMMA OuterInit == Init => OuterInv /\ KeptInv
<1>1. /\ code_outer_funcs_ = [c \in Code |-> NULL] /\ alive = {} /\ registered = {}
      /\ pc = "idle" /\ todo = {} /\ compilation_units = {}
     => OuterInv /\ KeptInv
  BY Zenon DEF OuterInv, KeptInv, Batch
<1> QED
  BY <1>1, Zenon DEF Init

LEMMA UnitIsCode == ASSUME NEW u \in Unit, u \notin Func PROVE u \in Code
BY CodeAssumption DEF Unit

LEMMA KeptSubject ==
  ASSUME OuterInv, NEW u \in Unit, Kept(u) PROVE Subject(u) \in alive
BY UnitIsCode, Zenon DEF OuterInv, Kept, Subject

\* trackEligibleCodeObjects of a function that is alive takes nothing away.
LEMMA Tracked ==
  ASSUME OuterInv, NEW f \in Func, alive' = alive \cup {f}, code_outer_funcs_' = track(f).outer
  PROVE  /\ OuterInv'
         /\ \A u \in Unit : Kept(u) => Kept(u)'
         /\ \A u \in track(f).units : Kept(u)'
<1> DEFINE F == CodeOf[f]
           new == {c \in {F} \cup NestedIn[F] : code_outer_funcs_[c] = NULL}
<1>0. F \in Code /\ NestedIn[F] \subseteq Code /\ f # NULL
  BY CodeAssumption, NamesAssumption, Zenon
<1>1. CASE code_outer_funcs_[F] # NULL
  <2>1. code_outer_funcs_' = code_outer_funcs_ /\ track(f).units = {}
    BY <1>1, Zenon DEF track
  <2> QED
    BY <2>1, Zenon DEF OuterInv, Kept
<1>2. CASE code_outer_funcs_[F] = NULL
  <2>1. /\ code_outer_funcs_' = [c \in Code |-> IF c \in new THEN f ELSE code_outer_funcs_[c]]
        /\ track(f).units = new \ {F}
    BY <1>2, Zenon DEF track
  <2>2. F \in new /\ new \subseteq Code /\ \A c \in new : code_outer_funcs_[c] = NULL
    BY <1>0, <1>2, Zenon
  <2>3. \A c \in new : c = F \/ c \in NestedIn[F]
    BY Zenon
  <2> HIDE DEF new
  <2>4. OuterInv'
    <3>1. DOMAIN code_outer_funcs_' = Code /\ alive' \subseteq Func
      BY <2>1, Zenon DEF OuterInv
    <3>2. ASSUME NEW c \in Code, c \in new
          PROVE  /\ code_outer_funcs_'[c] = f /\ f \in alive'
                 /\ c = F \/ c \in NestedIn[F]
      BY <1>0, <2>1, <2>2, <2>3, <3>2, Zenon
    <3>3. ASSUME NEW c \in Code, c \notin new, code_outer_funcs_'[c] # NULL
          PROVE  /\ code_outer_funcs_'[c] \in alive'
                 /\ \/ c = CodeOf[code_outer_funcs_'[c]]
                    \/ c \in NestedIn[CodeOf[code_outer_funcs_'[c]]]
      BY <2>1, <3>3, Zenon DEF OuterInv
    <3> QED
      BY <3>1, <3>2, <3>3, Zenon DEF OuterInv
  <2>5. ASSUME NEW u \in Unit, Kept(u) PROVE Kept(u)'
    BY <2>1, <2>2, <2>5, UnitIsCode, Zenon DEF Kept
  <2>6. ASSUME NEW u \in track(f).units PROVE Kept(u)'
    BY <1>0, <2>1, <2>2, NamesAssumption, Zenon DEF Kept
  <2> QED
    BY <2>4, <2>5, <2>6, Zenon
<1> QED
  BY <1>1, <1>2, Zenon

\* unregisterFunctionCodes announces every unit that is lost.
LEMMA Unregistered ==
  ASSUME OuterInv, NEW f \in alive, NEW listed, NEW recorded, unregister(f, listed, recorded),
         \/ alive' = alive
         \/ alive' = alive \ {f} /\ \A c \in Code : code_outer_funcs_'[c] # f
  PROVE  /\ OuterInv'
         /\ \A u \in Unit \ UnitsOf(f, listed) : Kept(u) => Kept(u)'
<1>1. ASSUME NEW c \in Code
      PROVE  /\ code_outer_funcs_'[c] \in {code_outer_funcs_[c], NULL}
             /\ c \notin {CodeOf[f]} \cup UnitsOf(f, listed) \/ code_outer_funcs_[c] # f
                  => code_outer_funcs_'[c] = code_outer_funcs_[c]
  BY Zenon DEF unregister
<1>2. OuterInv'
  <2>1. DOMAIN code_outer_funcs_' = Code /\ alive' \subseteq Func
    BY Zenon DEF OuterInv, unregister
  <2>2. ASSUME NEW c \in Code, code_outer_funcs_'[c] # NULL
        PROVE  /\ code_outer_funcs_'[c] \in alive'
               /\ \/ c = CodeOf[code_outer_funcs_'[c]]
                  \/ c \in NestedIn[CodeOf[code_outer_funcs_'[c]]]
    BY <1>1, <2>2, Zenon DEF OuterInv
  <2> QED
    BY <2>1, <2>2, Zenon DEF OuterInv
<1>3. ASSUME NEW u \in Unit \ UnitsOf(f, listed), Kept(u) PROVE Kept(u)'
  <2>1. CASE u \in Func
    <3>1. u # f
      BY <1>3, Zenon DEF UnitsOf
    <3> QED
      BY <1>3, <2>1, <3>1, Zenon DEF Kept
  <2>2. CASE u \notin Func
    <3>1. u \in Code
      BY <2>2, UnitIsCode, Zenon
    <3>2. u # CodeOf[f] \/ code_outer_funcs_[u] # f
      BY <1>3, <2>2, Zenon DEF Kept
    <3> QED
      BY <1>1, <1>3, <2>2, <3>1, <3>2, Zenon DEF Kept
  <2> QED
    BY <2>1, <2>2, Zenon
<1> QED
  BY <1>2, <1>3, Zenon

LEMMA OuterKept == 
  ASSUME OuterInv, UNCHANGED <<code_outer_funcs_, alive>>
  PROVE  OuterInv' /\ \A u : Kept(u)' <=> Kept(u)
BY Zenon DEF OuterInv, Kept

LEMMA KeptPreload ==
  ASSUME OuterInv, KeptInv, PhaseInv, Preload PROVE OuterInv' /\ KeptInv'
<1>0. UNCHANGED <<code_outer_funcs_, alive>>
  BY Zenon DEF Preload, CompileAll, NextRound, PreloadUnit, PreloadDone, Preloaded, Leave, program, registry
<1>1. OuterInv' /\ \A u : Kept(u)' <=> Kept(u)
  BY <1>0, OuterKept, Zenon
<1>2. CASE CompileAll
  BY <1>1, <1>2, Zenon DEF CompileAll, KeptInv, Batch, preload
<1>3. CASE NextRound
  BY <1>1, <1>3, Zenon DEF NextRound, KeptInv, Batch
<1>4. CASE Leave
  BY <1>1, <1>4, Zenon DEF Leave, KeptInv, Batch
<1>5. ASSUME NEW u, PreloadUnit(u) PROVE KeptInv'
  BY <1>1, <1>4, <1>5 DEF PreloadUnit, KeptInv, Batch
<1>6. CASE PreloadDone
  BY <1>1, <1>4, <1>6 DEF PreloadDone, KeptInv, Batch
<1>7. CASE Preloaded
  BY <1>1, <1>4, <1>7, Zenon DEF Preloaded, KeptInv, Batch, Surviving
<1> QED
  BY <1>1, <1>2, <1>3, <1>5, <1>6, <1>7, Zenon DEF Preload

LEMMA KeptBatch ==
  ASSUME OuterInv, KeptInv, PhaseInv, Compile \/ Finish PROVE OuterInv' /\ KeptInv'
<1>0. UNCHANGED <<code_outer_funcs_, alive, registered>>
  BY Zenon DEF Compile, nextUnit, BeginCompile, EndOfCompile, Finish, Join, FixupDone, MakeCompleted,
     FinalizeDeferred, Finalized, CompileUnit, UnitsDone, Return, Leave, program, registry
<1>1. OuterInv' /\ \A u : Kept(u)' <=> Kept(u)
  BY <1>0, OuterKept, Zenon
<1>2. CASE Return
  BY <1>0, <1>1, <1>2, Zenon DEF Return, Leave, KeptInv, Batch
<1>3. ~Return => UNCHANGED preload /\ pc # "python" /\ pc' # "python"
  BY Zenon DEF Compile, nextUnit, BeginCompile, EndOfCompile, Finish, Join, FixupDone, MakeCompleted,
     FinalizeDeferred, Finalized, CompileUnit, UnitsDone
<1> QED
  BY <1>0, <1>1, <1>2, <1>3 DEF KeptInv, Batch, preload

LEMMA KeptPython ==
  ASSUME OuterInv, KeptInv, PhaseInv, UnitsInv, Python, dangling' = {} PROVE OuterInv' /\ KeptInv'
<1>0. Batch \subseteq Unit /\ registered \subseteq Unit
  BY Zenon DEF Batch, UnitsInv
<1>1. ASSUME NEW f \in Func, CreateFunc(f) PROVE OuterInv' /\ KeptInv'
  <2>1. /\ OuterInv' /\ \A u \in Unit : Kept(u) => Kept(u)'
        /\ \A u \in track(f).units : Kept(u)'
    BY <1>1, Tracked, Zenon DEF CreateFunc
  <2>2. Kept(f)'
    BY <1>1, Zenon DEF CreateFunc, Kept
  <2>3. UNCHANGED <<preload, pc>> /\ registered' \subseteq registered \cup track(f).units \cup {f}
    BY <1>1, Zenon DEF CreateFunc
  <2> QED
    BY <1>0, <2>1, <2>2, <2>3, Zenon DEF KeptInv, Batch, preload
<1>2. ASSUME NEW f \in Func, CompileNow(f) PROVE OuterInv' /\ KeptInv'
  <2>1. OuterInv' /\ \A u \in Unit : Kept(u) => Kept(u)'
    BY <1>2, Tracked, Zenon DEF CompileNow
  <2>2. /\ UNCHANGED <<cur, todo, compilation_units, deleted_units, deletion_record_lost, pc>>
        /\ registered' \subseteq registered
    BY <1>2, Zenon DEF CompileNow
  <2> QED
    BY <1>0, <2>1, <2>2, Zenon DEF KeptInv, Batch
<1>3. ASSUME NEW f \in Func, NEW listed, NEW recorded,
             FuncDies(f, listed, recorded) \/ Uncompile(f, listed, recorded)
      PROVE  OuterInv' /\ KeptInv'
  <2>0. FuncDies(f, listed, recorded) => \A c \in Code : code_outer_funcs_'[c] # f
    BY Zenon DEF FuncDies
  <2>1. /\ f \in alive /\ unregister(f, listed, recorded)
        /\ alive' = alive \/ (alive' = alive \ {f} /\ \A c \in Code : code_outer_funcs_'[c] # f)
        /\ pc \in {"idle", "python"} /\ UNCHANGED <<pc, cur, todo, compilation_units>>
    BY <1>3, <2>0, Zenon DEF FuncDies, Uncompile, FunctionsMove
  <2>2. OuterInv' /\ \A u \in Unit \ UnitsOf(f, listed) : Kept(u) => Kept(u)'
    BY <2>1, Unregistered, Zenon
  <2>3. ASSUME NEW u \in registered' PROVE Kept(u)'
    BY <1>0, <2>1, <2>2, Zenon DEF KeptInv, unregister
  <2>4. ASSUME NEW u \in Batch' PROVE Kept(u)' \/ u \in deleted_units' \/ deletion_record_lost'
    <3>1. u \in Batch /\ u \in Unit /\ pc = "python"
      BY <1>0, <2>1, Zenon DEF Batch, PhaseInv
    <3>2. CASE u \in UnitsOf(f, listed)
      BY <2>1, <3>1, <3>2, Zenon DEF unregister
    <3>3. CASE u \notin UnitsOf(f, listed)
      BY <2>1, <2>2, <3>1, <3>3, Zenon DEF KeptInv, unregister
    <3> QED
      BY <3>2, <3>3, Zenon
  <2> QED
    BY <2>2, <2>3, <2>4, Zenon DEF KeptInv
<1>4. CASE TypeStep
  BY <1>4, OuterKept, Zenon DEF TypeStep, KeptInv, Batch, preload, program, registry
<1> QED
  BY <1>1, <1>2, <1>3, <1>4, Zenon DEF Python

LEMMA KeptNext ==
  ASSUME OuterInv, KeptInv, PhaseInv, UnitsInv, [Next]_vars, dangling' = {}
  PROVE  OuterInv' /\ KeptInv'
<1>1. CASE UNCHANGED vars
  BY <1>1, OuterKept, Zenon DEF vars, KeptInv, Batch, preload, program, registry
<1> QED
  BY <1>1, KeptPreload, KeptBatch, KeptPython, Zenon DEF Next

-----------------------------------------------------------------------------
(* Artifacts.                                                               *)

ArtsOf(c) == {c} \X (1 .. MaxArts[c])

\* A patcher of a waits for a change of a type.
Watching(a) == \E t \in Type : \E p \in type_deopt_patchers_[t] : p.art = a

Retired(a) == ~Watching(a) /\ \A c \in Code : compiled_codes_[c] # a

CodesInv ==
  /\ live \subseteq Art /\ compiled_codes_ \in [Code -> Art \cup {NULL}]
  /\ \A c \in Code : compiled_codes_[c] # NULL => compiled_codes_[c] \in ArtsOf(c) \cap live

Attached(f) ==
  /\ compiled_funcs_[f] = compiled_codes_[CodeOf[f]] /\ compiled_funcs_[f] = anchor[f]
  /\ compiled_funcs_[f] \in owned /\ vectorcall[f] = compiled_funcs_[f]

\* A function runs the artifact of its code, or none; then its __dict__ may
\* keep one that nothing else names.
FuncsInv ==
  /\ alive \subseteq Func
  /\ DOMAIN compiled_funcs_ = Func /\ DOMAIN anchor = Func /\ DOMAIN vectorcall = Func
  /\ \A f \in Func \ alive : compiled_funcs_[f] = NULL /\ anchor[f] = NULL
  /\ \A f \in Func : anchor[f] # NULL => anchor[f] \in live
  /\ \A f \in Func : compiled_funcs_[f] # NULL => Attached(f)
  /\ \A f \in Func : compiled_funcs_[f] = NULL =>
       vectorcall[f] \notin Art /\ \A a \in Art : anchor[f] = a => Retired(a)

\* Who waits is one of the patchers of an artifact that is in use.
LinkedInv == \A t \in Type : \A p \in type_deopt_patchers_[t] : p \in code_patchers[p.art]
WatchInv == LinkedInv /\ \A a : Watching(a) => a \in InUse

ArtsInv == CodesInv /\ FuncsInv /\ WatchInv

LEMMA ArtsInit == Init => ArtsInv
BY NamesAssumption DEF Init, TWInit, ArtsInv, CodesInv, FuncsInv, WatchInv, LinkedInv, Watching

LEMMA ArtsOfCode ==
  /\ \A c \in Code : ArtsOf(c) \subseteq Art
  /\ \A c, d \in Code : \A a \in ArtsOf(c) : a \in ArtsOf(d) => c = d
BY ArtAssumption, Zenon DEF ArtsOf

LEMMA FreshNames ==
  ASSUME NEW c \in Code, NEW a \in Fresh(c), WatchInv
  PROVE  a \in ArtsOf(c) /\ a \notin live /\ a \notin InUse /\ ~Watching(a)
<1>1. PICK n \in 1 .. MaxArts[c] : a = <<c, n>> /\ <<c, n>> \notin InUse
  BY Zenon DEF Fresh
<1>2. a \in ArtsOf(c)
  BY <1>1, Zenon DEF ArtsOf
<1> QED
  BY <1>1, <1>2, Zenon DEF InUse, WatchInv

\* linkDeoptPatchers for a new artifact.
LEMMA LinkWatches ==
  ASSUME Domains, LinkedInv, NEW a \in Art, NEW ts \in SUBSET Type, Link(a, ts), ~Watching(a)
  PROVE  LinkedInv' /\ \A b : Watching(b)' => Watching(b) \/ b = a
<1>1. ASSUME NEW t \in Type, NEW p \in type_deopt_patchers_'[t]
      PROVE  p \in code_patchers'[p.art] /\ (Watching(p.art) \/ p.art = a)
  <2>1. CASE p \in type_deopt_patchers_[t]
    <3>1. p.art # a /\ p.art \in Art /\ p \in code_patchers[p.art]
      BY <2>1 DEF Watching, LinkedInv, Domains, Patcher
    <3> QED
      BY <2>1, <3>1, Zenon DEF Link, Domains, Watching
  <2>2. CASE p \in PatchersOf(a, ts)
    BY <2>2, LinkedHold DEF Link, Domains
  <2> QED
    BY <2>1, <2>2, Zenon DEF Link
<1> QED
  BY <1>1, Zenon DEF LinkedInv, Watching

\* CompiledFunction::clear, when those without an owner wait for nothing.
LEMMA ClearWatches ==
  ASSUME Domains, LinkedInv, NEW A, clear(A), \A a \in A \ owned : ~Watching(a)
  PROVE  LinkedInv' /\ \A b : Watching(b)' => Watching(b) /\ b \notin A
<1>1. ASSUME NEW t \in Type, NEW p \in type_deopt_patchers_'[t]
      PROVE  p \in code_patchers'[p.art] /\ Watching(p.art) /\ p.art \notin A
  <2>1. /\ p \in type_deopt_patchers_[t]
        /\ ~(p.art \in A \cap owned /\ p \in code_patchers[p.art])
    BY Zenon DEF clear, Without
  <2>2. Watching(p.art) /\ p \in code_patchers[p.art] /\ p.art \in Art
    BY <2>1 DEF Watching, LinkedInv, Domains, Patcher
  <2>3. p.art \notin A
    BY <2>1, <2>2, Zenon
  <2> QED
    BY <2>2, <2>3, Zenon DEF clear, Without
<1> QED
  BY <1>1, Zenon DEF LinkedInv, Watching

\* A change of a type only takes patchers away.
LEMMA TypeWatches ==
  ASSUME Domains, LinkedInv, UnitsInv, TypeStep
  PROVE  LinkedInv' /\ \A b : Watching(b)' => Watching(b)
<1>1. code_patchers' = code_patchers /\ \A t \in Type : type_deopt_patchers_'[t] \subseteq type_deopt_patchers_[t]
  BY DEF TypeStep, ModifyType, notifyPatchers, Fill, AssignVersionTag, deopt, Domains
<1> QED
  BY <1>1, Zenon DEF LinkedInv, Watching

LEMMA SameWatches ==
  ASSUME LinkedInv, UNCHANGED <<code_patchers, type_deopt_patchers_>>
  PROVE  LinkedInv' /\ \A b : Watching(b)' <=> Watching(b)
BY Zenon DEF LinkedInv, Watching

-----------------------------------------------------------------------------
(* Publication.                                                             *)

\* finalizeFunc for the artifact a of the code c, which exists or is new.
LEMMA Published ==
  ASSUME CodesInv, FuncsInv, NEW c \in Code, NEW a \in ArtsOf(c), NEW f \in Func, CodeOf[f] = c,
         NEW nst, NEW lv, lv = live \cup {a}, finalizeFunc(f, a, lv, nst), dangling' = {},
         f \in alive \/ anchor[f] = NULL, alive' = alive \cup {f},
         compiled_codes_[c] = a \/ (compiled_codes_[c] = NULL /\ a \notin live),
         compiled_codes_' = [compiled_codes_ EXCEPT ![c] = a],
         \A b : Watching(b)' => Watching(b) \/ b = a
  PROVE  /\ CodesInv' /\ FuncsInv'
         /\ \A b \in lv : b \in live' \/ ~Watching(b)'
         /\ live' \subseteq lv /\ compiled_funcs_'[f] # NULL
<1>0. a \in Art /\ a # NULL
  BY ArtsOfCode, NamesAssumption, Zenon
<1>1. \A d \in Code : compiled_codes_'[d] = IF d = c THEN a ELSE compiled_codes_[d]
  BY Zenon DEF CodesInv
<1>2. \A b \in live : Retired(b) => b # a /\ Retired(b)'
  <2>1. ASSUME NEW b \in live, Retired(b) PROVE b # a
    BY <2>1, Zenon DEF Retired
  <2>2. ASSUME NEW b \in live, Retired(b) PROVE ~Watching(b)'
    BY <2>1, <2>2, Zenon DEF Retired
  <2>3. ASSUME NEW b \in live, Retired(b), NEW d \in Code PROVE compiled_codes_'[d] # b
    BY <1>1, <2>1, <2>3, Zenon DEF Retired
  <2> QED
    BY <2>1, <2>2, <2>3, Zenon DEF Retired
<1>3. CASE compiled_funcs_[f] # NULL
  <2>1. compiled_codes_[c] = a
    BY <1>3, Zenon DEF FuncsInv, Attached
  <2>2. compiled_codes_' = compiled_codes_ /\ a \in live
    BY <1>0, <2>1, Zenon DEF CodesInv
  <2>3. live' = live /\ UNCHANGED <<compiled_funcs_, vectorcall, anchor>> /\ alive' = alive
        /\ owned' = owned \cup {a}
    BY <1>3, <2>2 DEF finalizeFunc, FuncsInv
  <2>4. CodesInv'
    BY <2>2, <2>3, Zenon DEF CodesInv
  <2>5. FuncsInv'
    <3>1. \A g \in Func : Attached(g) => Attached(g)'
      BY <2>2, <2>3, Zenon DEF Attached
    <3>2. ASSUME NEW g \in Func, compiled_funcs_[g] = NULL, NEW b \in Art, anchor[g] = b
          PROVE  Retired(b)'
      BY <1>2, <3>2, NamesAssumption, Zenon DEF FuncsInv
    <3> QED
      BY <2>3, <3>1, <3>2, Zenon DEF FuncsInv
  <2> QED
    BY <1>3, <2>2, <2>3, <2>4, <2>5, Zenon
<1>4. CASE compiled_funcs_[f] = NULL
  <2> DEFINE anc == [anchor EXCEPT ![f] = a]
  <2>1. /\ compiled_funcs_' = [compiled_funcs_ EXCEPT ![f] = a]
        /\ vectorcall' = [vectorcall EXCEPT ![f] = a]
        /\ anchor' = anc /\ owned' = owned \cup {a}
        /\ live' = {b \in lv : b # anchor[f] \/ \E g \in alive : anc[g] = b \/ b \in nst[g]}
    BY <1>4, Zenon DEF finalizeFunc
  <2>2. a \in live'
    <3>1. a = anchor[f] => f \in alive /\ anc[f] = a
      BY <1>0, Zenon DEF FuncsInv
    <3> QED
      BY <2>1, <3>1, Zenon
  <2>3. ASSUME NEW b \in live, b # anchor[f] PROVE b \in live'
    BY <2>1, <2>3, Zenon
  <2>4. ASSUME NEW b \in lv, b \notin live' PROVE ~Watching(b)'
    <3>1. b = anchor[f] /\ b \in live /\ b # NULL
      BY <2>2, <2>3, <2>4, NamesAssumption, Zenon DEF CodesInv
    <3>2. Retired(b)
      BY <1>4, <3>1, Zenon DEF FuncsInv, CodesInv
    <3> QED
      BY <1>2, <3>1, <3>2, Zenon DEF Retired
  <2>5. CodesInv'
    <3>1. live' \subseteq Art
      BY <1>0, <2>1, Zenon DEF CodesInv
    <3>2. ASSUME NEW d \in Code, d # c, compiled_codes_[d] # NULL
          PROVE  compiled_codes_[d] \in ArtsOf(d) \cap live'
      <4>1. compiled_codes_[d] \in ArtsOf(d) \cap live
        BY <3>2, Zenon DEF CodesInv
      <4>2. compiled_codes_[d] # anchor[f]
        BY <1>4, <4>1, Zenon DEF FuncsInv, CodesInv, Retired
      <4> QED
        BY <2>3, <4>1, <4>2, Zenon
    <3> QED
      BY <1>1, <2>2, <3>1, <3>2, Zenon DEF CodesInv
  <2>6. FuncsInv'
    <3>1. /\ compiled_funcs_'[f] = a /\ anchor'[f] = a /\ vectorcall'[f] = a
          /\ \A g \in Func \ {f} : /\ compiled_funcs_'[g] = compiled_funcs_[g]
                                   /\ anchor'[g] = anchor[g] /\ vectorcall'[g] = vectorcall[g]
      BY <2>1, Zenon DEF FuncsInv
    <3>2. DOMAIN compiled_funcs_' = Func /\ DOMAIN anchor' = Func /\ DOMAIN vectorcall' = Func
          /\ alive' \subseteq Func
      BY <2>1, Zenon DEF FuncsInv
    <3>3. ASSUME NEW g \in Func, anchor'[g] # NULL PROVE anchor'[g] \in live'
      <4>1. CASE g = f
        BY <2>2, <3>1, <4>1, Zenon
      <4>2. CASE g # f
        <5>1. anchor'[g] = anchor[g] /\ g \in alive /\ anchor[g] \in live /\ anc[g] = anchor[g]
          BY <3>1, <3>3, <4>2, Zenon DEF FuncsInv
        <5> QED
          BY <2>1, <5>1
      <4> QED
        BY <4>1, <4>2, Zenon
    <3>4. Attached(f)'
      BY <1>1, <2>1, <3>1 DEF Attached
    <3>5. ASSUME NEW g \in Func \ {f}, compiled_funcs_'[g] # NULL PROVE Attached(g)'
      <4>1. Attached(g) /\ compiled_funcs_[g] # NULL
        BY <3>1, <3>5, Zenon DEF FuncsInv
      <4>2. CodeOf[g] \in Code
        BY CodeAssumption, Zenon
      <4>3. compiled_codes_'[CodeOf[g]] = compiled_codes_[CodeOf[g]]
        BY <1>1, <4>1, <4>2, Zenon DEF Attached
      <4> QED
        BY <2>1, <3>1, <4>1, <4>3 DEF Attached
    <3>6. ASSUME NEW g \in Func, compiled_funcs_'[g] = NULL
          PROVE  vectorcall'[g] \notin Art /\ \A b \in Art : anchor'[g] = b => Retired(b)'
      <4>1. g # f
        BY <1>0, <3>1, <3>6, Zenon
      <4>2. vectorcall[g] \notin Art
        BY <3>1, <3>6, <4>1, Zenon DEF FuncsInv
      <4>3. ASSUME NEW b \in Art, anchor[g] = b PROVE Retired(b)'
        <5>1. Retired(b) /\ b \in live
          BY <3>1, <3>6, <4>1, <4>3, NamesAssumption, Zenon DEF FuncsInv
        <5> QED
          BY <1>2, <5>1, Zenon
      <4> QED
        BY <3>1, <4>1, <4>2, <4>3, Zenon
    <3> QED
      BY <3>1, <3>2, <3>3, <3>4, <3>5, <3>6, Zenon DEF FuncsInv
  <2> QED
    BY <1>0, <2>1, <2>2, <2>4, <2>5, <2>6, Zenon DEF FuncsInv
<1> QED
  BY <1>3, <1>4, Zenon

\* makeCompiledFunction for a new artifact, with or without a function.
LEMMA Made ==
  ASSUME CodesInv, FuncsInv, NEW c \in Code, NEW a \in ArtsOf(c), a \notin live,
         compiled_codes_[c] = NULL, NEW f, f = NULL \/ (f \in alive /\ CodeOf[f] = c),
         makeCompiledFunction(f, c, a), alive' = alive, dangling = {}, dangling' = {},
         \A b : Watching(b)' => Watching(b) \/ b = a
  PROVE  /\ CodesInv' /\ FuncsInv'
         /\ \A b \in live \cup {a} : b \in live' \/ ~Watching(b)'
         /\ live' \subseteq live \cup {a}
         /\ compiled_codes_' = [compiled_codes_ EXCEPT ![c] = a]
         /\ f # NULL => compiled_funcs_'[f] # NULL
<1>0. a \in Art /\ a # NULL
  BY ArtsOfCode, NamesAssumption, Zenon
<1>1. compiled_codes_' = [compiled_codes_ EXCEPT ![c] = a]
  BY Zenon DEF makeCompiledFunction
<1>2. CASE f = NULL
  <2>1. live' = live \cup {a} /\ UNCHANGED <<owned, compiled_funcs_, vectorcall, anchor>>
    BY <1>2, Zenon DEF makeCompiledFunction
  <2>2. \A d \in Code : compiled_codes_'[d] = IF d = c THEN a ELSE compiled_codes_[d]
    BY <1>1, Zenon DEF CodesInv
  <2>3. CodesInv'
    <3>1. live' \subseteq Art /\ compiled_codes_' \in [Code -> Art \cup {NULL}]
      BY <1>0, <1>1, <2>1, Zenon DEF CodesInv
    <3> QED
      BY <2>1, <2>2, <3>1, Zenon DEF CodesInv
  <2>4. ASSUME NEW g \in Func, compiled_funcs_[g] # NULL PROVE Attached(g)'
    <3>1. Attached(g) /\ CodeOf[g] \in Code
      BY <2>4, CodeAssumption, Zenon DEF FuncsInv
    <3> QED
      BY <2>1, <2>2, <2>4, <3>1, Zenon DEF Attached
  <2>5. ASSUME NEW g \in Func, compiled_funcs_[g] = NULL, NEW b \in Art, anchor[g] = b
        PROVE  Retired(b)'
    <3>1. Retired(b) /\ b \in live /\ b # a
      BY <2>5, NamesAssumption, Zenon DEF FuncsInv
    <3> QED
      BY <2>2, <3>1, Zenon DEF Retired
  <2>6. FuncsInv'
    BY <2>1, <2>4, <2>5, Zenon DEF FuncsInv
  <2> QED
    BY <1>1, <1>2, <2>1, <2>3, <2>6, Zenon
<1>3. CASE f # NULL
  <2>1. f \in Func /\ f \in alive /\ CodeOf[f] = c /\ alive' = alive \cup {f}
    BY <1>3, Zenon DEF FuncsInv
  <2>2. \E nst : finalizeFunc(f, a, live \cup {a}, nst)
    BY <1>3, Zenon DEF makeCompiledFunction
  <2> QED
    BY <1>1, <2>1, <2>2, Published, Zenon
<1> QED
  BY <1>2, <1>3, Zenon

\* compilePreloaderImpl without workers.
LEMMA Compiled ==
  ASSUME ArtsInv, Domains, NEW c \in Code, NEW f, f = NULL \/ (f \in alive /\ CodeOf[f] = c),
         compilePreloader(f, c), alive' = alive, UNCHANGED completed_compiles_,
         dangling = {}, dangling' = {}
  PROVE  /\ ArtsInv' /\ compiled_codes_'[c] # NULL
         /\ \A d \in Code : compiled_codes_[d] # NULL => compiled_codes_'[d] # NULL
         /\ f # NULL => compiled_funcs_'[f] # NULL
         /\ \A g \in Func : compiled_funcs_[g] # NULL => compiled_funcs_'[g] # NULL
<1>0. \A g \in Func : compiled_funcs_[g] # NULL => compiled_funcs_'[g] # NULL
  <2>1. \A a \in Art, g \in Func : a # NULL
    BY NamesAssumption, Zenon
  <2>2. compiled_codes_[c] \in Art \cup {NULL} /\ \A a \in Fresh(c) : a \in Art
    BY FreshNames, ArtsOfCode, Zenon DEF ArtsInv, CodesInv
  <2> QED
    BY <2>1, <2>2, Zenon DEF compilePreloader, makeCompiledFunction, finalizeFunc, ArtsInv, FuncsInv, arts
<1>1. CASE compiled_codes_[c] # NULL
  <2> DEFINE a == compiled_codes_[c]
  <2>1. a \in ArtsOf(c) /\ a \in live /\ live = live \cup {a}
    BY <1>1, Zenon DEF ArtsInv, CodesInv
  <2>2. UNCHANGED <<twvars, compiled_codes_>>
    BY <1>1, Zenon DEF compilePreloader
  <2>3. LinkedInv' /\ \A b : Watching(b)' <=> Watching(b)
    BY <2>2, SameWatches, Zenon DEF ArtsInv, WatchInv, twvars, deopt
  <2>4. CASE f = NULL
    <3>1. UNCHANGED <<live, owned, anchor, compiled_funcs_, vectorcall>>
      BY <1>1, <2>4, Zenon DEF compilePreloader, arts
    <3>2. CodesInv'
      BY <2>2, <3>1, Zenon DEF ArtsInv, CodesInv
    <3>3. FuncsInv'
      BY <2>2, <2>3, <3>1, Zenon DEF ArtsInv, FuncsInv, Attached, Retired
    <3>4. WatchInv'
      BY <2>3, <3>1, Zenon DEF ArtsInv, WatchInv, InUse
    <3> QED
      BY <1>0, <1>1, <2>2, <2>4, <3>2, <3>3, <3>4, Zenon DEF ArtsInv
  <2>5. CASE f # NULL
    <3>1. f \in Func /\ f \in alive /\ CodeOf[f] = c /\ alive' = alive \cup {f}
      BY <2>5, Zenon DEF ArtsInv, FuncsInv
    <3>2. finalizeFunc(f, a, live, nested)
      BY <1>1, <2>5, Zenon DEF compilePreloader
    <3>3. compiled_codes_' = [compiled_codes_ EXCEPT ![c] = a]
      BY <2>2, Zenon DEF ArtsInv, CodesInv
    <3>4. /\ CodesInv' /\ FuncsInv' /\ (\A b \in live : b \in live' \/ ~Watching(b)')
          /\ compiled_funcs_'[f] # NULL
      <4> HIDE DEF a
      <4> QED
        BY <2>1, <2>3, <3>1, <3>2, <3>3, Published, Zenon DEF ArtsInv, a
    <3>5. WatchInv'
      BY <2>3, <3>4, Zenon DEF ArtsInv, WatchInv, InUse
    <3> QED
      BY <1>0, <1>1, <2>2, <3>4, <3>5, Zenon DEF ArtsInv
  <2> QED
    BY <2>4, <2>5, Zenon
<1>2. CASE compiled_codes_[c] = NULL
  <2>1. PICK a \in Fresh(c) : Link(a, Receivers[c]) /\ makeCompiledFunction(f, c, a)
    BY <1>2, Zenon DEF compilePreloader
  <2>2. a \in ArtsOf(c) /\ a \notin live /\ ~Watching(a) /\ a \in Art /\ a # NULL
    BY FreshNames, ArtsOfCode, NamesAssumption DEF ArtsInv
  <2>3. Receivers[c] \in SUBSET Type
    BY CodeAssumption, Zenon
  <2>4. LinkedInv' /\ \A b : Watching(b)' => Watching(b) \/ b = a
    BY <2>1, <2>2, <2>3, LinkWatches, Zenon DEF ArtsInv, WatchInv
  <2>5. /\ CodesInv' /\ FuncsInv'
        /\ \A b \in live \cup {a} : b \in live' \/ ~Watching(b)'
        /\ compiled_codes_' = [compiled_codes_ EXCEPT ![c] = a]
        /\ f # NULL => compiled_funcs_'[f] # NULL
    BY <1>2, <2>1, <2>2, <2>4, Made, Zenon DEF ArtsInv
  <2>6. WatchInv'
    BY <2>4, <2>5, Zenon DEF ArtsInv, WatchInv, InUse
  <2> QED
    BY <1>0, <2>2, <2>5, <2>6, Zenon DEF ArtsInv, CodesInv
<1> QED
  BY <1>1, <1>2, Zenon

\* An artifact that is dropped before it is published, if nothing names it.
LEMMA Dropped ==
  ASSUME ArtsInv, NEW a, dropCompiledFunction(a), alive' = alive, dangling' = {}, LinkedInv',
         \A b : Watching(b)' => Watching(b) \/ b = a,
         \A b : b # a /\ b \in InUse => b \in InUse'
  PROVE  ArtsInv'
<1>1. ~Watching(a)'
  BY Zenon DEF dropCompiledFunction, Watching
<1>2. \A b : Watching(b)' => Watching(b) /\ b # a
  BY <1>1, Zenon
<1>3. UNCHANGED <<vectorcall, compiled_codes_, compiled_funcs_, live, owned, anchor>>
  BY Zenon DEF dropCompiledFunction, arts
<1>4. CodesInv'
  BY <1>3, Zenon DEF ArtsInv, CodesInv
<1>5. FuncsInv'
  BY <1>2, <1>3, Zenon DEF ArtsInv, FuncsInv, Attached, Retired
<1>6. WatchInv'
  BY <1>2, Zenon DEF ArtsInv, WatchInv
<1> QED
  BY <1>4, <1>5, <1>6, Zenon DEF ArtsInv

LEMMA CompiledInVain ==
  ASSUME ArtsInv, Domains, NEW c \in Code, CompileDropped(c), alive' = alive,
         UNCHANGED completed_compiles_, dangling' = {}
  PROVE  ArtsInv' /\ UNCHANGED <<compiled_codes_, compiled_funcs_>>
<1>1. PICK a \in Fresh(c) : Link(a, Receivers[c]) /\ dropCompiledFunction(a)
  BY Zenon DEF CompileDropped
<1>2. ~Watching(a) /\ a \in Art /\ Receivers[c] \in SUBSET Type
  BY FreshNames, ArtsOfCode, CodeAssumption, Zenon DEF ArtsInv
<1>3. LinkedInv' /\ \A b : Watching(b)' => Watching(b) \/ b = a
  BY <1>1, <1>2, LinkWatches, Zenon DEF ArtsInv, WatchInv
<1>4. UNCHANGED <<compiled_codes_, compiled_funcs_>> /\ \A b : b \in InUse => b \in InUse'
  BY <1>1, Zenon DEF dropCompiledFunction, InUse, arts
<1> QED
  BY <1>1, <1>3, <1>4, Dropped, Zenon

-----------------------------------------------------------------------------
(* The end of functions and artifacts.                                      *)

\* funcDestroyed, and what is freed with __dict__.
LEMMA Died ==
  ASSUME ArtsInv, Domains, dangling' = {}, NEW f \in Func, NEW listed, NEW recorded, FuncDies(f, listed, recorded)
  PROVE  ArtsInv'
<1> DEFINE freed == {a \in live : (anchor[f] = a \/ a \in nested[f]) /\
                       \A g \in alive \ {f} : anchor[g] # a /\ a \notin nested[g]}
<1>1. /\ f \in alive /\ (\A a \in freed \ owned : ~Named(a)) /\ clear(freed)
      /\ alive' = alive \ {f} /\ live' = live \ freed
      /\ vectorcall' = [vectorcall EXCEPT ![f] = Interpreted]
      /\ compiled_funcs_' = [compiled_funcs_ EXCEPT ![f] = NULL]
      /\ anchor' = [anchor EXCEPT ![f] = NULL]
      /\ compiled_codes_' = [c \in Code |->
           IF compiled_codes_[c] \in freed \cap owned THEN NULL ELSE compiled_codes_[c]]
      /\ UNCHANGED completed_compiles_
  BY Zenon DEF FuncDies, inflight
<1>2. \A g \in alive \ {f} : anchor[g] \notin freed
  BY Zenon
<1> HIDE DEF freed
<1>3. \A a \in freed \ owned : ~Watching(a) /\ \A c \in Code : compiled_codes_[c] # a
  BY <1>1, Zenon DEF Named, Watching
<1>4. LinkedInv' /\ \A b : Watching(b)' => Watching(b) /\ b \notin freed
  BY <1>1, <1>3, ClearWatches, Zenon DEF ArtsInv, WatchInv
<1>5. WatchInv'
  BY <1>1, <1>4, Zenon DEF ArtsInv, WatchInv, InUse
<1>6. \A c \in Code : /\ compiled_codes_'[c] \in {compiled_codes_[c], NULL}
                      /\ compiled_codes_[c] \notin freed => compiled_codes_'[c] = compiled_codes_[c]
                      /\ compiled_codes_'[c] \notin freed \/ compiled_codes_'[c] = NULL
  BY <1>1, <1>3, Zenon
<1>7. CodesInv'
  <2>1. compiled_codes_' \in [Code -> Art \cup {NULL}]
    BY <1>1, Zenon DEF ArtsInv, CodesInv
  <2> QED
    BY <1>1, <1>6, <2>1, Zenon DEF ArtsInv, CodesInv
<1>8. FuncsInv'
  <2>1. /\ compiled_funcs_'[f] = NULL /\ anchor'[f] = NULL /\ vectorcall'[f] = Interpreted
        /\ \A g \in Func \ {f} : /\ compiled_funcs_'[g] = compiled_funcs_[g]
                                 /\ anchor'[g] = anchor[g] /\ vectorcall'[g] = vectorcall[g]
    BY <1>1, Zenon DEF ArtsInv, FuncsInv
  <2>2. /\ DOMAIN compiled_funcs_' = Func /\ DOMAIN anchor' = Func /\ DOMAIN vectorcall' = Func
        /\ alive' \subseteq Func
    BY <1>1, Zenon DEF ArtsInv, FuncsInv
  <2>3. ASSUME NEW g \in Func, anchor'[g] # NULL PROVE anchor'[g] \in live'
    BY <1>1, <1>2, <2>1, <2>3, Zenon DEF ArtsInv, FuncsInv
  <2>4. ASSUME NEW g \in Func, compiled_funcs_'[g] # NULL PROVE Attached(g)'
    <3>1. g # f /\ Attached(g) /\ g \in alive /\ CodeOf[g] \in Code
      BY <2>1, <2>4, CodeAssumption, Zenon DEF ArtsInv, FuncsInv
    <3>2. compiled_codes_[CodeOf[g]] \notin freed
      BY <1>2, <3>1, Zenon DEF Attached
    <3>3. compiled_codes_'[CodeOf[g]] = compiled_codes_[CodeOf[g]]
      BY <1>6, <3>1, <3>2, Zenon
    <3>4. owned' = owned \ freed
      BY <1>1, Zenon DEF clear
    <3> QED
      BY <2>1, <3>1, <3>2, <3>3, <3>4, Zenon DEF Attached
  <2>5. ASSUME NEW g \in Func, compiled_funcs_'[g] = NULL
        PROVE  vectorcall'[g] \notin Art /\ \A b \in Art : anchor'[g] = b => Retired(b)'
    <3>1. CASE g = f
      BY <2>1, <3>1, NamesAssumption, Zenon
    <3>2. CASE g # f
      <4>1. ASSUME NEW b \in Art, anchor[g] = b PROVE Retired(b)'
        <5>1. Retired(b) /\ b # NULL
          BY <2>1, <2>5, <3>2, <4>1, NamesAssumption, Zenon DEF ArtsInv, FuncsInv
        <5> QED
          BY <1>4, <1>6, <5>1, Zenon DEF Retired
      <4> QED
        BY <2>1, <2>5, <3>2, <4>1, Zenon DEF ArtsInv, FuncsInv
    <3> QED
      BY <3>1, <3>2, Zenon
  <2>6. ASSUME NEW g \in Func \ alive' PROVE compiled_funcs_'[g] = NULL /\ anchor'[g] = NULL
    BY <1>1, <2>1, Zenon DEF ArtsInv, FuncsInv
  <2> QED
    BY <2>2, <2>3, <2>4, <2>5, <2>6, Zenon DEF FuncsInv
<1> QED
  BY <1>5, <1>7, <1>8, Zenon DEF ArtsInv

\* force_uncompile.
LEMMA Uncompiled ==
  ASSUME ArtsInv, Domains, NEW f \in Func, NEW listed, NEW recorded, Uncompile(f, listed, recorded)
  PROVE  ArtsInv'
<1> DEFINE c == CodeOf[f]
           a == compiled_codes_[c]
           out == {g \in alive : compiled_funcs_[g] = a}
<1>1. /\ f \in alive /\ compiled_funcs_[f] # NULL /\ clear({a})
      /\ compiled_codes_' = [compiled_codes_ EXCEPT ![c] = NULL]
      /\ compiled_funcs_' = [g \in Func |-> IF g \in out THEN NULL ELSE compiled_funcs_[g]]
      /\ vectorcall' = [g \in Func |-> IF g \in out THEN Interpreted ELSE vectorcall[g]]
      /\ UNCHANGED <<alive, anchor, completed_compiles_>>
  BY Zenon DEF Uncompile, inflight
<1>2. /\ c \in Code /\ a = compiled_funcs_[f] /\ a = anchor[f] /\ a \in owned /\ a # NULL
      /\ a \in ArtsOf(c) /\ a \in live /\ a \in Art
  <2>1. c \in Code
    BY CodeAssumption, Zenon
  <2>2. a = compiled_funcs_[f] /\ a = anchor[f] /\ a \in owned
    BY <1>1, Zenon DEF ArtsInv, FuncsInv, Attached
  <2>3. a # NULL
    BY <1>1, <2>2, Zenon
  <2>4. a \in ArtsOf(c) /\ a \in live
    BY <2>1, <2>3, Zenon DEF ArtsInv, CodesInv
  <2> HIDE DEF c, a
  <2>5. a \in Art
    BY <2>1, <2>4, ArtsOfCode, Zenon
  <2> QED
    BY <2>1, <2>2, <2>3, <2>4, <2>5, Zenon
<1>3. live' = live
  <2>1. PICK nst : live' = {b \in live : b # a \/ \E g \in alive : anchor[g] = b \/ b \in nst[g]}
    BY Zenon DEF Uncompile
  <2> HIDE DEF a
  <2> QED
    BY <1>1, <1>2, <2>1, Zenon
<1>4. \A d \in Code : compiled_codes_'[d] = IF d = c THEN NULL ELSE compiled_codes_[d]
  BY <1>1, Zenon DEF ArtsInv, CodesInv
<1>5. \A g \in Func : compiled_funcs_[g] = a <=> g \in out
  BY <1>2, Zenon DEF ArtsInv, FuncsInv
<1>6. \A d \in Code : compiled_codes_[d] = a => d = c
  BY <1>2, ArtsOfCode, Zenon DEF ArtsInv, CodesInv
<1>7. owned' = owned \ {a}
  BY <1>1, Zenon DEF clear
<1> HIDE DEF out, a, c
<1>8. LinkedInv' /\ \A b : Watching(b)' => Watching(b) /\ b # a
  BY <1>1, <1>2, ClearWatches, Zenon DEF ArtsInv, WatchInv
<1>9. ASSUME NEW b \in Art, b = a \/ Retired(b) PROVE Retired(b)'
  <2>1. ~Watching(b)'
    BY <1>8, <1>9, Zenon DEF Retired
  <2>2. ASSUME NEW d \in Code PROVE compiled_codes_'[d] # b
    BY <1>2, <1>4, <1>6, <1>9, NamesAssumption, Zenon DEF Retired
  <2> QED
    BY <2>1, <2>2, Zenon DEF Retired
<1>10. WatchInv'
  BY <1>1, <1>3, <1>8, Zenon DEF ArtsInv, WatchInv, InUse
<1>11. CodesInv'
  <2>1. compiled_codes_' \in [Code -> Art \cup {NULL}]
    BY <1>1, Zenon DEF ArtsInv, CodesInv
  <2> QED
    BY <1>3, <1>4, <2>1, Zenon DEF ArtsInv, CodesInv
<1>12. FuncsInv'
  <2>1. ASSUME NEW g \in Func, compiled_funcs_'[g] # NULL PROVE Attached(g)'
    <3>1. g \notin out /\ compiled_funcs_'[g] = compiled_funcs_[g] /\ vectorcall'[g] = vectorcall[g]
      BY <1>1, <2>1, Zenon
    <3>2. Attached(g) /\ compiled_funcs_[g] # a /\ CodeOf[g] \in Code
      BY <1>5, <2>1, <3>1, CodeAssumption, Zenon DEF ArtsInv, FuncsInv
    <3>3. CodeOf[g] # c
      BY <3>2, Zenon DEF Attached, a
    <3> QED
      BY <1>1, <1>4, <1>7, <3>1, <3>2, <3>3, Zenon DEF Attached
  <2>2. ASSUME NEW g \in Func, compiled_funcs_'[g] = NULL
        PROVE  vectorcall'[g] \notin Art /\ \A b \in Art : anchor'[g] = b => Retired(b)'
    <3>1. CASE g \in out
      <4>1. anchor[g] = a /\ vectorcall'[g] = Interpreted
        BY <1>1, <1>2, <1>5, <3>1, Zenon DEF ArtsInv, FuncsInv, Attached
      <4> QED
        BY <1>1, <1>9, <4>1, NamesAssumption, Zenon
    <3>2. CASE g \notin out
      <4>1. compiled_funcs_[g] = NULL /\ vectorcall'[g] = vectorcall[g]
        BY <1>1, <2>2, <3>2, Zenon
      <4> QED
        BY <1>1, <1>9, <4>1, Zenon DEF ArtsInv, FuncsInv
    <3> QED
      BY <3>1, <3>2, Zenon
  <2>3. /\ DOMAIN compiled_funcs_' = Func /\ DOMAIN anchor' = Func /\ DOMAIN vectorcall' = Func
        /\ \A g \in Func \ alive' : compiled_funcs_'[g] = NULL /\ anchor'[g] = NULL
    BY <1>1, Zenon DEF ArtsInv, FuncsInv
  <2> QED
    BY <1>1, <1>3, <2>1, <2>2, <2>3, Zenon DEF ArtsInv, FuncsInv
<1> QED
  BY <1>10, <1>11, <1>12, Zenon DEF ArtsInv

-----------------------------------------------------------------------------
(* What is on its way through the compiler.                                 *)

\* Units reach the compiler from the batch, preloaded.
FlowInv ==
  /\ \A u \in compilation_units : Key(u) \in preloaders
  /\ work_list_ \subseteq compilation_units /\ retry_list_ \subseteq compilation_units
  /\ \A w \in Worker : worker[w].at \in {"begin", "compile"} => worker[w].unit \in compilation_units

\* Results wait for a key that has no artifact; deferred functions for one
\* whose artifact is theirs.
FlightInv ==
  /\ \A c \in active_compiles_ : compiled_codes_[c] = NULL
  /\ \A r \in completed_compiles_ :
       /\ r.code \in Code /\ r.art \in ArtsOf(r.code) /\ r.art \notin live
       /\ compiled_codes_[r.code] = NULL /\ r.code \notin active_compiles_
       /\ r.func = NULL \/ (r.func \in alive /\ CodeOf[r.func] = r.code)
       /\ \A q \in completed_compiles_ : q.code = r.code => q = r
  /\ \A d \in deferred_finalizations_ :
       d.func \in alive /\ d.art = compiled_codes_[CodeOf[d.func]] /\ d.art # NULL

LEMMA FlowInit == Init => FlowInv /\ FlightInv
BY DEF Init, FlowInv, FlightInv, Idle

LEMMA FlowPreload == ASSUME FlowInv, PhaseInv, Preload PROVE FlowInv'
<1> USE DEF FlowInv, PhaseInv, Preloading, preload, threads, Key
<1>1. CASE CompileAll
  BY <1>1, Zenon DEF CompileAll
<1>2. CASE NextRound
  BY <1>2, Zenon DEF NextRound
<1>3. CASE Leave /\ Preloading
  BY <1>3, Zenon DEF Leave
<1>4. ASSUME NEW u \in Unit, PreloadUnit(u) PROVE FlowInv'
  BY <1>3, <1>4, Zenon DEF PreloadUnit
<1>5. CASE PreloadDone
  BY <1>3, <1>5, Zenon DEF PreloadDone
<1>6. CASE Preloaded
  <2>1. CASE Leave
    BY <1>3, <1>6, <2>1, Zenon DEF Preloaded
  <2>2. CASE ~Leave
    <3>1. \A w \in Worker : worker'[w].at \in {"idle", "next"}
      BY <1>6, <2>2, Zenon DEF Preloaded, Idle
    <3> QED
      BY <1>6, <2>2, <3>1, Zenon DEF Preloaded, Surviving
  <2> QED
    BY <2>1, <2>2, Zenon
<1> QED
  BY <1>1, <1>2, <1>4, <1>5, <1>6, Zenon DEF Preload

LEMMA FlowCompile == ASSUME FlowInv, UnitsInv, Compile PROVE FlowInv'
<1> USE DEF FlowInv, UnitsInv, preload, Idle, Key
<1>1. ASSUME NEW w \in Worker, nextUnit(w) PROVE FlowInv'
  BY <1>1 DEF nextUnit
<1>2. ASSUME NEW w \in Worker, BeginCompile(w) PROVE FlowInv'
  BY <1>2 DEF BeginCompile
<1>3. ASSUME NEW w \in Worker, EndOfCompile(w) PROVE FlowInv'
  BY <1>3, Zenon DEF EndOfCompile
<1> QED
  BY <1>1, <1>2, <1>3, Zenon DEF Compile

LEMMA FlowFinish == ASSUME FlowInv, PhaseInv, Finish PROVE FlowInv'
<1> USE DEF FlowInv, preload, threads, Key
<1>1. CASE Join
  BY <1>1, Zenon DEF Join, Idle
<1>2. CASE Finalized
  BY <1>2, Zenon DEF Finalized
<1>3. ASSUME NEW u, CompileUnit(u) PROVE FlowInv'
  BY <1>3, Zenon DEF CompileUnit
<1>4. CASE Return
  BY <1>4, Zenon DEF Return, Leave, PhaseInv
<1>5. ~Join /\ ~Finalized /\ ~Return /\ (\A u \in work_list_ : ~CompileUnit(u))
      => UNCHANGED <<preload, preloaders, threads>>
  BY Zenon DEF Finish, FixupDone, MakeCompleted, FinalizeDeferred, UnitsDone
<1> QED
  BY <1>1, <1>2, <1>3, <1>4, <1>5, Zenon

LEMMA FlowNext == ASSUME FlowInv, PhaseInv, UnitsInv, [Next]_vars PROVE FlowInv'
<1>1. CASE UNCHANGED <<compilation_units, preloaders, threads>>
  BY <1>1, Zenon DEF FlowInv, threads, Key
<1>2. CASE Python
  <2>1. UNCHANGED <<compilation_units, preloaders, threads>>
    BY <1>2, Zenon DEF Python, CreateFunc, CompileNow, FuncDies, Uncompile, TypeStep, preload
  <2> QED
    BY <1>1, <2>1, Zenon
<1> QED
  BY <1>1, <1>2, FlowPreload, FlowCompile, FlowFinish, Zenon DEF Next, vars, preload

\* So none of them has died.
LEMMA CompilerKept ==
  ASSUME OuterInv, KeptInv, FlowInv, PhaseInv, UnitsInv, NEW u \in InCompiler
  PROVE  /\ u \in Unit /\ u \in compilation_units /\ Kept(u)
         /\ Key(u) \in preloaders /\ Subject(u) \in alive
<1>1. u \in compilation_units /\ u \in Unit
  BY Zenon DEF InCompiler, FlowInv, UnitsInv
<1>2. ~Preloading
  BY Zenon DEF InCompiler, PhaseInv, Preloading
<1>3. Kept(u)
  BY <1>1, <1>2, Zenon DEF KeptInv, Batch, PhaseInv
<1> QED
  BY <1>1, <1>3, KeptSubject, Zenon DEF FlowInv

-----------------------------------------------------------------------------
LEMMA SameArts ==
  ASSUME ArtsInv, UNCHANGED <<alive, vectorcall, compiled_codes_, compiled_funcs_, live, owned, anchor,
                              completed_compiles_, code_patchers, type_deopt_patchers_>>
  PROVE  ArtsInv'
<1>1. LinkedInv' /\ \A b : Watching(b)' <=> Watching(b)
  BY SameWatches, Zenon DEF ArtsInv, WatchInv
<1>2. CodesInv'
  BY Zenon DEF ArtsInv, CodesInv
<1>3. FuncsInv'
  BY <1>1, Zenon DEF ArtsInv, FuncsInv, Attached, Retired
<1>4. WatchInv'
  BY <1>1, Zenon DEF ArtsInv, WatchInv, InUse
<1> QED
  BY <1>2, <1>3, <1>4, Zenon DEF ArtsInv

LEMMA SameFlight ==
  ASSUME FlightInv, UNCHANGED <<alive, compiled_codes_, live, inflight>>
  PROVE  FlightInv'
BY Zenon DEF FlightInv, inflight

LEMMA ArtsPreload == ASSUME ArtsInv, FlightInv, Preload PROVE ArtsInv' /\ FlightInv'
<1>1. UNCHANGED <<program, registry, arts, inflight, deopt>>
  BY Zenon DEF Preload, CompileAll, NextRound, PreloadUnit, PreloadDone, Preloaded, Leave, twvars
<1> QED
  BY <1>1, SameArts, SameFlight, Zenon DEF program, registry, arts, inflight, deopt

LEMMA ArtsCompile ==
  ASSUME ArtsInv, FlightInv, CompilingInv, Domains, OuterInv, KeptInv, FlowInv, PhaseInv, UnitsInv, Compile
  PROVE  ArtsInv' /\ FlightInv'
<1>1. ASSUME NEW w \in Worker, nextUnit(w) PROVE ArtsInv' /\ FlightInv'
  BY <1>1, SameArts, SameFlight, Zenon DEF nextUnit, program, registry, arts, inflight, twvars, deopt
<1>2. ASSUME NEW w \in Worker, worker[w].at \in {"begin", "compile"}
      PROVE  /\ Key(worker[w].unit) \in Code
             /\ worker[w].unit \in Func => /\ worker[w].unit \in alive
                                           /\ CodeOf[worker[w].unit] = Key(worker[w].unit)
  <2>1. worker[w].unit \in InCompiler
    BY <1>2, Zenon DEF InCompiler
  <2> QED
    BY <2>1, CompilerKept, KeyIsCode, Zenon DEF Kept, Key
<1>3. ASSUME NEW w \in Worker, BeginCompile(w) PROVE ArtsInv' /\ FlightInv'
  <2> DEFINE u == worker[w].unit
             c == Key(u)
  <2>1. ArtsInv'
    BY <1>3, SameArts, Zenon DEF BeginCompile, program, registry, arts, twvars, deopt
  <2>2. c \in Code /\ (u \in Func => u \in alive /\ CodeOf[u] = c)
    BY <1>2, <1>3, Zenon DEF BeginCompile
  <2>3. UNCHANGED <<alive, live, compiled_codes_, completed_compiles_>>
    BY <1>3, Zenon DEF BeginCompile, program, registry, arts
  <2>4. \/ active_compiles_' = active_compiles_
        \/ /\ active_compiles_' = active_compiles_ \cup {c}
           /\ compiled_codes_[c] = NULL /\ ~HasCompleted(c)
    BY <1>3, Zenon DEF BeginCompile
  <2>5. \/ deferred_finalizations_' = deferred_finalizations_
        \/ /\ compiled_codes_[c] # NULL
           /\ deferred_finalizations_' = deferred_finalizations_ \cup
                {[func |-> g, art |-> compiled_codes_[c]] : g \in {u} \cap Func}
    BY <1>3, Zenon DEF BeginCompile
  <2> HIDE DEF u, c
  <2>6. \A d \in deferred_finalizations_' :
          d.func \in alive /\ d.art = compiled_codes_[CodeOf[d.func]] /\ d.art # NULL
    BY <2>2, <2>5 DEF FlightInv
  <2> QED
    BY <2>1, <2>3, <2>4, <2>6, Zenon DEF FlightInv, HasCompleted
<1>4. ASSUME NEW w \in Worker, EndOfCompile(w) PROVE ArtsInv' /\ FlightInv'
  <2> DEFINE u == worker[w].unit
             c == Key(u)
  <2>1. c \in Code /\ (u \in Func => u \in alive /\ CodeOf[u] = c)
    BY <1>2, <1>4, Zenon DEF EndOfCompile
  <2>2. /\ UNCHANGED <<alive, vectorcall, compiled_codes_, compiled_funcs_, live, owned, anchor,
                       deferred_finalizations_>>
        /\ active_compiles_' = active_compiles_ \ {c} /\ c \in active_compiles_
    BY <1>4, Zenon DEF EndOfCompile, program, registry, arts, CompilingInv
  <2>3. CASE UNCHANGED <<twvars, completed_compiles_>>
    <3>1. ArtsInv'
      BY <2>2, <2>3, SameArts, Zenon DEF twvars, deopt
    <3> QED
      BY <2>2, <2>3, <3>1, Zenon DEF FlightInv
  <2>4. ASSUME NEW a \in Fresh(c), Link(a, Receivers[c] \cap tag),
               completed_compiles_' = completed_compiles_ \cup
                 {[code |-> c, art |-> a, func |-> FuncOf(u)]}
        PROVE  ArtsInv' /\ FlightInv'
    <3> HIDE DEF u, c
    <3>1. a \in ArtsOf(c) /\ a \notin live /\ ~Watching(a) /\ a \in Art
      BY <2>1, FreshNames, ArtsOfCode, Zenon DEF ArtsInv
    <3>2. Receivers[c] \cap tag \in SUBSET Type
      BY <2>1, CodeAssumption, Zenon
    <3>3. LinkedInv' /\ \A b : Watching(b)' => Watching(b) \/ b = a
      BY <2>4, <3>1, <3>2, LinkWatches, Zenon DEF ArtsInv, WatchInv
    <3>4. CodesInv'
      BY <2>2, Zenon DEF ArtsInv, CodesInv
    <3>5. FuncsInv'
      <4>1. ASSUME NEW f \in Func, compiled_funcs_[f] = NULL, NEW b \in Art, anchor[f] = b
            PROVE  Retired(b)'
        <5>1. Retired(b) /\ b \in live /\ b # a
          BY <3>1, <4>1, NamesAssumption, Zenon DEF ArtsInv, FuncsInv
        <5> QED
          BY <2>2, <3>3, <5>1, Zenon DEF Retired
      <4> QED
        BY <2>2, <4>1, Zenon DEF ArtsInv, FuncsInv, Attached
    <3>6. WatchInv'
      <4>1. a \in InUse'
        <5> DEFINE r == [code |-> c, art |-> a, func |-> FuncOf(u)]
        <5>1. r \in completed_compiles_' /\ r.art = a
          BY <2>4, Zenon
        <5> HIDE DEF r
        <5> QED
          BY <5>1, Zenon DEF InUse
      <4>2. \A b \in InUse : b \in InUse'
        BY <2>2, <2>4, Zenon DEF InUse
      <4> QED
        BY <3>3, <4>1, <4>2, Zenon DEF ArtsInv, WatchInv
    <3>7. FlightInv'
      <4>1. FuncOf(u) = NULL \/ (FuncOf(u) \in alive /\ CodeOf[FuncOf(u)] = c)
        BY <2>1, Zenon DEF FuncOf
      <4>2. compiled_codes_[c] = NULL /\ \A r \in completed_compiles_ : r.code # c
        BY <2>2, Zenon DEF FlightInv
      <4> DEFINE r0 == [code |-> c, art |-> a, func |-> FuncOf(u)]
      <4>3. r0.code = c /\ r0.art = a /\ r0.func = FuncOf(u)
        BY Zenon
      <4>4. completed_compiles_' = completed_compiles_ \cup {r0}
        BY <2>4, Zenon
      <4> HIDE DEF r0
      <4>5. ASSUME NEW r \in completed_compiles_'
            PROVE  /\ r.code \in Code /\ r.art \in ArtsOf(r.code) /\ r.art \notin live'
                   /\ compiled_codes_'[r.code] = NULL /\ r.code \notin active_compiles_'
                   /\ r.func = NULL \/ (r.func \in alive' /\ CodeOf[r.func] = r.code)
                   /\ \A q \in completed_compiles_' : q.code = r.code => q = r
        <5>1. CASE r = r0
          BY <2>1, <2>2, <3>1, <4>1, <4>2, <4>3, <4>4, <5>1, Zenon
        <5>2. CASE r \in completed_compiles_
          BY <2>2, <4>2, <4>3, <4>4, <5>2, Zenon DEF FlightInv
        <5> QED
          BY <4>4, <5>1, <5>2, Zenon
      <4> QED
        BY <2>2, <4>5, Zenon DEF FlightInv
    <3> QED
      BY <3>4, <3>5, <3>6, <3>7, Zenon DEF ArtsInv
  <2> QED
    BY <1>4, <2>3, <2>4, Zenon DEF EndOfCompile
<1> QED
  BY <1>1, <1>3, <1>4, Zenon DEF Compile

LEMMA ArtsFinish ==
  ASSUME ArtsInv, FlightInv, Domains, OuterInv, KeptInv, FlowInv, PhaseInv, UnitsInv, Finish,
         dangling = {}, dangling' = {}
  PROVE  ArtsInv' /\ FlightInv'
<1>1. CASE Join \/ FixupDone \/ Finalized \/ UnitsDone \/ Return
  <2>1. UNCHANGED <<program, registry, arts, inflight, code_patchers, type_deopt_patchers_>>
    BY <1>1, Zenon DEF Join, FixupDone, Finalized, UnitsDone, Return, Leave, twvars, deopt
  <2> QED
    BY <2>1, SameArts, SameFlight, Zenon DEF program, registry, arts, inflight
<1>2. ASSUME NEW r \in completed_compiles_, MakeCompleted(r),
             makeCompiledFunction(r.func, r.code, r.art)
      PROVE  ArtsInv' /\ FlightInv'
  <2> DEFINE c == r.code
             a == r.art
             f == r.func
  <2>1. /\ c \in Code /\ a \in ArtsOf(c) /\ a \notin live /\ compiled_codes_[c] = NULL
        /\ f = NULL \/ (f \in alive /\ CodeOf[f] = c)
        /\ \A q \in completed_compiles_ : q # r => q.code # c
    BY Zenon DEF FlightInv
  <2>2. /\ makeCompiledFunction(f, c, a) /\ alive' = alive /\ UNCHANGED twvars
        /\ completed_compiles_' = completed_compiles_ \ {r}
        /\ UNCHANGED <<active_compiles_, deferred_finalizations_>> /\ pc = "make"
    BY <1>2, Zenon DEF MakeCompleted
  <2>3. LinkedInv' /\ \A b : Watching(b)' <=> Watching(b)
    BY <2>2, SameWatches, Zenon DEF ArtsInv, WatchInv, twvars, deopt
  <2> HIDE DEF c, a, f
  <2>4. /\ CodesInv' /\ FuncsInv'
        /\ \A b \in live \cup {a} : b \in live' \/ ~Watching(b)'
        /\ live' \subseteq live \cup {a}
        /\ compiled_codes_' = [compiled_codes_ EXCEPT ![c] = a]
    BY <2>1, <2>2, <2>3, Made, Zenon DEF ArtsInv
  <2>5. WatchInv'
    <3>1. \A b \in InUse : b \in live \cup {a} \/ b \in InUse'
      BY <2>2, Zenon DEF InUse, a
    <3>2. \A b \in live' : b \in InUse'
      BY Zenon DEF InUse
    <3> QED
      BY <2>3, <2>4, <3>1, <3>2, Zenon DEF ArtsInv, WatchInv
  <2>6. FlightInv'
    <3>1. \A d \in Code : compiled_codes_'[d] = IF d = c THEN a ELSE compiled_codes_[d]
      BY <2>4, Zenon DEF ArtsInv, CodesInv
    <3>2. active_compiles_' = {}
      BY <2>2, Zenon DEF PhaseInv
    <3>3. ASSUME NEW q \in completed_compiles_'
          PROVE  q.code # c /\ q.art \notin live'
      <4>1. q \in completed_compiles_ /\ q.code # c
        BY <2>1, <2>2, Zenon
      <4>2. q.art # a /\ q.art \notin live
        BY <2>1, <4>1, ArtsOfCode DEF FlightInv
      <4> QED
        BY <2>4, <4>1, <4>2, Zenon
    <3>4. ASSUME NEW d \in deferred_finalizations_'
          PROVE  d.func \in alive' /\ d.art = compiled_codes_'[CodeOf[d.func]] /\ d.art # NULL
      <4>1. /\ d.func \in alive /\ d.art = compiled_codes_[CodeOf[d.func]] /\ d.art # NULL
            /\ CodeOf[d.func] \in Code
        BY <2>2, CodeAssumption, Zenon DEF FlightInv, OuterInv
      <4> QED
        BY <2>1, <2>2, <3>1, <4>1, Zenon
    <3> QED
      BY <2>2, <3>1, <3>2, <3>3, <3>4, Zenon DEF FlightInv
  <2> QED
    BY <2>4, <2>5, <2>6, Zenon DEF ArtsInv
<1>5. ASSUME NEW r \in completed_compiles_, MakeCompleted(r), dropCompiledFunction(r.art)
      PROVE  ArtsInv' /\ FlightInv'
  <2>1. /\ alive' = alive /\ UNCHANGED twvars /\ completed_compiles_' = completed_compiles_ \ {r}
        /\ UNCHANGED <<active_compiles_, deferred_finalizations_, compiled_codes_, live>>
    BY <1>5, Zenon DEF MakeCompleted, dropCompiledFunction, arts
  <2>2. LinkedInv' /\ \A b : Watching(b)' <=> Watching(b)
    BY <2>1, SameWatches, Zenon DEF ArtsInv, WatchInv, twvars, deopt
  <2>3. \A b : b # r.art /\ b \in InUse => b \in InUse'
    BY <2>1, Zenon DEF InUse
  <2>4. ArtsInv'
    BY <1>5, <2>1, <2>2, <2>3, Dropped, Zenon
  <2>5. FlightInv'
    BY <2>1, Zenon DEF FlightInv
  <2> QED
    BY <2>4, <2>5, Zenon
<1>3. ASSUME NEW d \in deferred_finalizations_, FinalizeDeferred(d) PROVE ArtsInv' /\ FlightInv'
  <2> DEFINE f == d.func
             a == d.art
             c == CodeOf[f]
  <2>1. f \in Func /\ f \in alive /\ c \in Code /\ a = compiled_codes_[c] /\ a # NULL
    BY CodeAssumption, Zenon DEF FlightInv, OuterInv
  <2>2. /\ finalizeFunc(f, a, live, nested) /\ UNCHANGED <<twvars, alive, compiled_codes_>>
        /\ deferred_finalizations_' = deferred_finalizations_ \ {d} /\ pc = "make"
        /\ UNCHANGED <<active_compiles_, completed_compiles_>> /\ completed_compiles_ = {}
    BY <1>3, Zenon DEF FinalizeDeferred
  <2>3. LinkedInv' /\ \A b : Watching(b)' <=> Watching(b)
    BY <2>2, SameWatches, Zenon DEF ArtsInv, WatchInv, twvars, deopt
  <2> HIDE DEF f, a, c
  <2>4. a \in ArtsOf(c) /\ a \in live /\ live = live \cup {a} /\ alive' = alive \cup {f} /\ CodeOf[f] = c
    BY <2>1, <2>2, Zenon DEF ArtsInv, CodesInv, c
  <2>5. compiled_codes_' = [compiled_codes_ EXCEPT ![c] = a]
    BY <2>1, <2>2, Zenon DEF ArtsInv, CodesInv
  <2>6. CodesInv' /\ FuncsInv' /\ \A b \in live : b \in live' \/ ~Watching(b)'
    BY <2>1, <2>2, <2>3, <2>4, <2>5, Published, Zenon DEF ArtsInv
  <2>7. WatchInv'
    BY <2>2, <2>3, <2>6, Zenon DEF ArtsInv, WatchInv, InUse
  <2>8. FlightInv'
    BY <2>2, Zenon DEF FlightInv
  <2> QED
    BY <2>6, <2>7, <2>8, Zenon DEF ArtsInv
<1>4. ASSUME NEW u \in work_list_, CompileUnit(u) PROVE ArtsInv' /\ FlightInv'
  <2>1. u \in InCompiler
    BY Zenon DEF InCompiler
  <2>2. Key(u) \in Code /\ (FuncOf(u) = NULL \/ (FuncOf(u) \in alive /\ CodeOf[FuncOf(u)] = Key(u)))
    BY <2>1, CompilerKept, KeyIsCode, Zenon DEF Kept, Key, FuncOf
  <2>3. /\ alive' = alive /\ UNCHANGED inflight
        /\ \/ compilePreloader(FuncOf(u), Key(u)) \/ CompileDropped(Key(u))
           \/ UNCHANGED <<twvars, vectorcall, compiled_codes_, compiled_funcs_, arts>>
    BY <1>4, Zenon DEF CompileUnit
  <2>4. ArtsInv'
    <3>1. CASE compilePreloader(FuncOf(u), Key(u))
      BY <2>2, <2>3, <3>1, Compiled, Zenon DEF inflight
    <3>2. CASE UNCHANGED <<twvars, vectorcall, compiled_codes_, compiled_funcs_, arts>>
      BY <2>3, <3>2, SameArts, Zenon DEF inflight, arts, twvars, deopt
    <3>3. CASE CompileDropped(Key(u))
      BY <2>2, <2>3, <3>3, CompiledInVain, Zenon DEF inflight
    <3> QED
      BY <2>3, <3>1, <3>2, <3>3, Zenon
  <2>5. active_compiles_' = {} /\ completed_compiles_' = {} /\ deferred_finalizations_' = {}
    BY <1>4, <2>3, Zenon DEF CompileUnit, PhaseInv, inflight
  <2> QED
    BY <2>4, <2>5, Zenon DEF FlightInv
<1> QED
  BY <1>1, <1>2, <1>3, <1>4, <1>5, Zenon DEF Finish, MakeCompleted

LEMMA ArtsPython ==
  ASSUME ArtsInv, FlightInv, Domains, PhaseInv, UnitsInv, Python, dangling = {}, dangling' = {}
  PROVE  ArtsInv' /\ FlightInv'
<1>1. ASSUME ~TypeStep PROVE FlightInv'
  <2>1. FunctionsMove /\ UNCHANGED inflight
    BY <1>1, Zenon DEF Python, CreateFunc, CompileNow, FuncDies, Uncompile
  <2>2. active_compiles_' = {} /\ completed_compiles_' = {} /\ deferred_finalizations_' = {}
    BY <2>1, Zenon DEF FunctionsMove, PhaseInv, inflight
  <2> QED
    BY <2>2, Zenon DEF FlightInv
<1>2. ASSUME NEW f \in Func, CreateFunc(f) PROVE ArtsInv'
  <2> DEFINE c == CodeOf[f]
             a == compiled_codes_[c]
  <2>1. /\ f \notin alive /\ alive' = alive \cup {f} /\ UNCHANGED <<twvars, compiled_codes_>>
        /\ UNCHANGED completed_compiles_ /\ c \in Code
        /\ compiled_funcs_[f] = NULL /\ anchor[f] = NULL
    BY <1>2, CodeAssumption, Zenon DEF CreateFunc, inflight, ArtsInv, FuncsInv
  <2>2. LinkedInv' /\ \A b : Watching(b)' <=> Watching(b)
    BY <2>1, SameWatches, Zenon DEF ArtsInv, WatchInv, twvars, deopt
  <2>3. CASE a # NULL
    <3>1. finalizeFunc(f, a, live, nested)
      BY <1>2, <2>3, Zenon DEF CreateFunc
    <3>2. a \in ArtsOf(c) /\ a \in live /\ live = live \cup {a}
      BY <2>1, <2>3, Zenon DEF ArtsInv, CodesInv
    <3>3. compiled_codes_' = [compiled_codes_ EXCEPT ![c] = a]
      BY <2>1, Zenon DEF ArtsInv, CodesInv
    <3>4. CodeOf[f] = c /\ compiled_codes_[c] = a
      BY Zenon
    <3> HIDE DEF a, c
    <3>5. CodesInv' /\ FuncsInv' /\ \A b \in live : b \in live' \/ ~Watching(b)'
      BY <2>1, <2>2, <3>1, <3>2, <3>3, <3>4, Published, Zenon DEF ArtsInv
    <3>6. WatchInv'
      BY <2>1, <2>2, <3>5, Zenon DEF ArtsInv, WatchInv, InUse
    <3> QED
      BY <3>5, <3>6, Zenon DEF ArtsInv
  <2>4. CASE a = NULL
    <3>1. /\ vectorcall' = [vectorcall EXCEPT ![f] = Lazy]
          /\ UNCHANGED <<live, owned, anchor, compiled_funcs_>>
      BY <1>2, <2>4, Zenon DEF CreateFunc, arts
    <3>2. CodesInv'
      BY <2>1, <3>1, Zenon DEF ArtsInv, CodesInv
    <3>3. WatchInv'
      BY <2>1, <2>2, <3>1, Zenon DEF ArtsInv, WatchInv, InUse
    <3>4. FuncsInv'
      <4>1. \A g \in Func \ {f} : vectorcall'[g] = vectorcall[g]
        BY <3>1, Zenon DEF ArtsInv, FuncsInv
      <4>2. vectorcall'[f] = Lazy /\ DOMAIN vectorcall' = Func
        BY <3>1, Zenon DEF ArtsInv, FuncsInv
      <4>3. \A b : Retired(b) => Retired(b)'
        BY <2>1, <2>2, Zenon DEF Retired
      <4>4. ASSUME NEW g \in Func, compiled_funcs_[g] # NULL PROVE Attached(g)'
        BY <2>1, <3>1, <4>1, <4>4, Zenon DEF ArtsInv, FuncsInv, Attached
      <4> QED
        BY <2>1, <3>1, <4>1, <4>2, <4>3, <4>4, NamesAssumption, Zenon DEF ArtsInv, FuncsInv
    <3> QED
      BY <3>2, <3>3, <3>4, Zenon DEF ArtsInv
  <2> QED
    BY <2>3, <2>4, Zenon
<1>3. ASSUME NEW f \in Func, CompileNow(f) PROVE ArtsInv'
  <2>1. /\ f \in alive /\ alive' = alive /\ UNCHANGED completed_compiles_ /\ vectorcall[f] = Lazy
        /\ CodeOf[f] \in Code
    BY <1>3, CodeAssumption, Zenon DEF CompileNow, inflight
  <2>2. CASE compilePreloader(f, CodeOf[f]) \/ CompileDropped(CodeOf[f])
    BY <2>1, <2>2, Compiled, CompiledInVain, Zenon
  <2>3. CASE /\ vectorcall' = [vectorcall EXCEPT ![f] = Interpreted]
             /\ UNCHANGED <<twvars, compiled_codes_, compiled_funcs_, arts>>
    <3>1. UNCHANGED <<live, owned, anchor, compiled_funcs_, compiled_codes_>>
      BY <2>3, Zenon DEF arts
    <3>2. LinkedInv' /\ \A b : Watching(b)' <=> Watching(b)
      BY <2>3, SameWatches, Zenon DEF ArtsInv, WatchInv, twvars, deopt
    <3>3. CodesInv' /\ WatchInv'
      BY <2>1, <3>1, <3>2, Zenon DEF ArtsInv, CodesInv, WatchInv, InUse
    <3>4. FuncsInv'
      <4>1. \A g \in Func \ {f} : vectorcall'[g] = vectorcall[g]
        BY <2>3, Zenon DEF ArtsInv, FuncsInv
      <4>2. vectorcall'[f] = Interpreted /\ DOMAIN vectorcall' = Func
        BY <2>3, Zenon DEF ArtsInv, FuncsInv
      <4>3. compiled_funcs_[f] = NULL
        <5>1. compiled_funcs_[f] # NULL => vectorcall[f] \in Art
          BY <2>1, Zenon DEF ArtsInv, FuncsInv, Attached, CodesInv
        <5> QED
          BY <2>1, <5>1, NamesAssumption, Zenon
      <4>4. \A b : Retired(b) => Retired(b)'
        BY <3>1, <3>2, Zenon DEF Retired
      <4>5. ASSUME NEW g \in Func, compiled_funcs_[g] # NULL PROVE Attached(g)'
        BY <3>1, <4>1, <4>3, <4>5, Zenon DEF ArtsInv, FuncsInv, Attached
      <4> QED
        BY <2>1, <3>1, <4>1, <4>2, <4>3, <4>4, <4>5, NamesAssumption, Zenon DEF ArtsInv, FuncsInv
    <3> QED
      BY <3>3, <3>4, Zenon DEF ArtsInv
  <2> QED
    BY <1>3, <2>2, <2>3, Zenon DEF CompileNow
<1>4. CASE TypeStep
  <2>1. LinkedInv' /\ \A b : Watching(b)' => Watching(b)
    BY <1>4, TypeWatches, Zenon DEF ArtsInv, WatchInv
  <2>2. UNCHANGED <<program, registry, arts, inflight>>
    BY <1>4, Zenon DEF TypeStep
  <2>3. CodesInv' /\ FlightInv'
    BY <2>2, SameFlight, Zenon DEF ArtsInv, CodesInv, program, registry, arts
  <2>4. FuncsInv'
    BY <2>1, <2>2, Zenon DEF ArtsInv, FuncsInv, Attached, Retired, program, registry, arts
  <2>5. WatchInv'
    BY <2>1, <2>2, Zenon DEF ArtsInv, WatchInv, InUse, arts, inflight
  <2> QED
    BY <2>3, <2>4, <2>5, Zenon DEF ArtsInv
<1> QED
  BY <1>1, <1>2, <1>3, <1>4, Died, Uncompiled, Zenon DEF Python

-----------------------------------------------------------------------------
(* The outcome of a batch.                                                  *)

\* Past preloading, a unit is on its way or has an outcome; one that was put
\* off is attached in the end.
Done(u) == compiled_codes_[Key(u)] # NULL \/ Key(u) \in failed \/ HasCompleted(Key(u))
SettledInv ==
  ~Preloading =>
    /\ \A u \in compilation_units : u \in InCompiler \/ Done(u)
    /\ \A u \in retried \cap Func :
         \/ u \in retry_list_ \/ (pc = "serial" /\ u \in work_list_)
         \/ compiled_funcs_[u] # NULL \/ Key(u) \in failed

LEMMA SettledPreload ==
  ASSUME PhaseInv, Preload PROVE SettledInv'
<1>1. CASE ~Preloaded \/ Leave
  <2>1. Preloading'
    BY <1>1, Zenon DEF Preload, CompileAll, NextRound, PreloadUnit, PreloadDone, Leave, Preloading
  <2> QED
    BY <2>1, Zenon DEF SettledInv
<1>2. CASE Preloaded /\ ~Leave
  <2>1. work_list_' = compilation_units' /\ retried' = {}
    BY <1>2, Zenon DEF Preloaded, history, PhaseInv, Preloading
  <2> QED
    BY <2>1, Zenon DEF SettledInv, InCompiler
<1> QED
  BY <1>1, <1>2, Zenon

LEMMA SettledCompile ==
  ASSUME SettledInv, PhaseInv, UnitsInv, FlowInv, Compile PROVE SettledInv'
<1>0. /\ pc = "threads" /\ pc' = "threads" /\ ~Preloading
      /\ UNCHANGED <<compilation_units, compiled_codes_, compiled_funcs_>>
  BY Zenon DEF Compile, nextUnit, BeginCompile, EndOfCompile, preload, registry, Preloading
<1>1. ASSUME NEW w \in Worker, nextUnit(w) PROVE SettledInv'
  <2>1. /\ \A v \in Worker \ {w} : worker'[v] = worker[v]
        /\ \A u \in work_list_ \ work_list_' : worker'[w].at = "begin" /\ worker'[w].unit = u
        /\ worker[w].at = "next" /\ UNCHANGED <<retry_list_, inflight, history>>
    BY <1>1 DEF nextUnit, UnitsInv
  <2>2. \A u \in InCompiler : u \in InCompiler'
    BY <2>1, Zenon DEF InCompiler
  <2>3. \A u : Done(u) => Done(u)'
    BY <1>0, <2>1, Zenon DEF Done, HasCompleted, inflight, history, Key
  <2> QED
    BY <1>0, <2>1, <2>2, <2>3, Zenon DEF SettledInv, history, Key
<1>2. ASSUME NEW w \in Worker, BeginCompile(w) PROVE SettledInv'
  <2> DEFINE u == worker[w].unit
  <2>1. /\ \A v \in Worker \ {w} : worker'[v] = worker[v]
        /\ UNCHANGED <<work_list_, completed_compiles_, failed>> /\ retry_list_ \subseteq retry_list_'
    BY <1>2, Zenon DEF BeginCompile, UnitsInv
  <2>2. \/ /\ compiled_codes_[Key(u)] # NULL \/ HasCompleted(Key(u))
           /\ UNCHANGED retried
        \/ u \in retry_list_' /\ retried' = retried \cup {u}
        \/ worker'[w].at = "compile" /\ worker'[w].unit = u /\ UNCHANGED retried
    BY <1>2 DEF BeginCompile, UnitsInv
  <2>3. \A v : Done(v) => Done(v)'
    BY <1>0, <2>1, Zenon DEF Done, HasCompleted, Key
  <2>4. Done(u) \/ u \in InCompiler'
    BY <2>2, Zenon DEF Done, InCompiler
  <2>5. \A v \in InCompiler : v = u \/ v \in InCompiler'
    BY <2>1, Zenon DEF InCompiler
  <2>6. \A v \in compilation_units' : v \in InCompiler' \/ Done(v)'
    BY <1>0, <2>3, <2>4, <2>5, Zenon DEF SettledInv
  <2>7. retried' \subseteq retried \cup retry_list_'
    BY <2>2, Zenon
  <2> HIDE DEF u
  <2> QED
    BY <1>0, <2>1, <2>6, <2>7, Zenon DEF SettledInv, Key
<1>3. ASSUME NEW w \in Worker, EndOfCompile(w) PROVE SettledInv'
  <2>0. PICK u : u = worker[w].unit
    BY Zenon
  <2>1. /\ \A v \in Worker \ {w} : worker'[v] = worker[v]
        /\ UNCHANGED <<work_list_, retry_list_, retried>>
        /\ failed \subseteq failed' /\ completed_compiles_ \subseteq completed_compiles_'
    BY <1>3, Zenon DEF EndOfCompile, UnitsInv
  <2>2. HasCompleted(Key(u))' \/ Key(u) \in failed'
    <3>1. CASE Key(u) \in failed'
      BY <3>1, Zenon
    <3>2. ASSUME NEW a, [code |-> Key(u), art |-> a, func |-> FuncOf(u)] \in completed_compiles_'
          PROVE  HasCompleted(Key(u))'
      <4> DEFINE r == [code |-> Key(u), art |-> a, func |-> FuncOf(u)]
      <4>1. r \in completed_compiles_' /\ r.code = Key(u)
        BY <3>2, Zenon
      <4> HIDE DEF r
      <4> QED
        BY <4>1, Zenon DEF HasCompleted, Key
    <3> QED
      BY <1>3, <2>0, <3>1, <3>2, Zenon DEF EndOfCompile
  <2>3. \A v : Done(v) => Done(v)'
    BY <1>0, <2>1, Zenon DEF Done, HasCompleted, Key
  <2>4. ASSUME NEW v \in InCompiler, v \notin InCompiler' PROVE v = u
    BY <2>0, <2>1, <2>4, Zenon DEF InCompiler
  <2>5. \A v \in compilation_units' : v \in InCompiler' \/ Done(v)'
    BY <1>0, <2>2, <2>3, <2>4, Zenon DEF SettledInv, Done, Key
  <2> QED
    BY <1>0, <2>1, <2>5, Zenon DEF SettledInv, Key
<1> QED
  BY <1>1, <1>2, <1>3, Zenon DEF Compile

\* No publication takes an artifact away.
LEMMA FuncsStay ==
  ASSUME FuncsInv, NEW f \in Func, NEW a \in Art, NEW lv, NEW nst, finalizeFunc(f, a, lv, nst)
  PROVE  \A g \in Func : compiled_funcs_[g] # NULL => compiled_funcs_'[g] # NULL
BY NamesAssumption, Zenon DEF finalizeFunc, FuncsInv

LEMMA SettledFinish ==
  ASSUME SettledInv, ArtsInv, FlightInv, Domains, OuterInv, KeptInv, FlowInv, PhaseInv, UnitsInv, Finish,
         dangling = {}, dangling' = {}
  PROVE  SettledInv'
<1>1. CASE Join
  <2>1. /\ UNCHANGED <<work_list_, retry_list_, preload, registry, inflight, history>>
        /\ pc = "threads" /\ \A w \in Worker : worker[w].at = "done"
    BY <1>1, Zenon DEF Join
  <2>2. \A u \in InCompiler : u \in InCompiler'
    BY <2>1, Zenon DEF InCompiler
  <2>3. \A u : Done(u) => Done(u)'
    BY <2>1, Zenon DEF Done, HasCompleted, registry, inflight, history, Key
  <2> QED
    BY <2>1, <2>2, <2>3, Zenon DEF SettledInv, Preloading, preload, registry, history, Key
<1>2. CASE FixupDone
  <2>1. UNCHANGED <<preload, registry, threads, inflight, history>> /\ pc = "fixup" /\ pc' = "make"
    BY <1>2, Zenon DEF FixupDone
  <2>2. \A u : (u \in InCompiler => u \in InCompiler') /\ (Done(u) => Done(u)')
    BY <2>1, Zenon DEF InCompiler, Done, HasCompleted, registry, threads, inflight, history, Key
  <2> QED
    BY <2>1, <2>2, Zenon DEF SettledInv, Preloading, preload, registry, threads, history, Key
<1>3. ASSUME NEW r \in completed_compiles_, MakeCompleted(r) PROVE SettledInv'
  <2>1. /\ r.code \in Code /\ r.art \in ArtsOf(r.code) /\ r.art \notin live
        /\ compiled_codes_[r.code] = NULL
        /\ r.func = NULL \/ (r.func \in alive /\ CodeOf[r.func] = r.code)
    BY Zenon DEF FlightInv
  <2>2. r.art \in Art /\ r.art # NULL
    BY <2>1, ArtsOfCode, NamesAssumption, Zenon
  <2>3. /\ completed_compiles_' = completed_compiles_ \ {r} /\ failed \subseteq failed'
        /\ UNCHANGED <<pc, preload, threads, retried>> /\ pc = "make"
        /\ \/ makeCompiledFunction(r.func, r.code, r.art)
           \/ r.code \in failed' /\ UNCHANGED <<compiled_codes_, compiled_funcs_>>
    BY <1>3, Zenon DEF MakeCompleted, dropCompiledFunction
  <2>5. /\ \A c \in Code : compiled_codes_[c] # NULL => compiled_codes_'[c] # NULL
        /\ compiled_codes_'[r.code] # NULL \/ r.code \in failed'
    <3>1. CASE makeCompiledFunction(r.func, r.code, r.art)
      <4>1. compiled_codes_' = [compiled_codes_ EXCEPT ![r.code] = r.art]
        BY <3>1, Zenon DEF makeCompiledFunction
      <4>2. \A c \in Code : compiled_codes_'[c] = IF c = r.code THEN r.art ELSE compiled_codes_[c]
        BY <4>1, Zenon DEF ArtsInv, CodesInv
      <4> QED
        BY <2>1, <2>2, <4>2, Zenon
    <3> QED
      BY <2>3, <3>1, Zenon
  <2>6. \A g \in Func : compiled_funcs_[g] # NULL => compiled_funcs_'[g] # NULL
    <3>1. CASE r.func = NULL \/ UNCHANGED compiled_funcs_
      BY <2>3, <3>1, Zenon DEF makeCompiledFunction
    <3>2. CASE r.func # NULL /\ makeCompiledFunction(r.func, r.code, r.art)
      <4>1. r.func \in Func /\ \E lv, nst : finalizeFunc(r.func, r.art, lv, nst)
        BY <2>1, <3>2, Zenon DEF makeCompiledFunction, OuterInv
      <4> QED
        BY <2>2, <4>1, FuncsStay, Zenon DEF ArtsInv
    <3> QED
      BY <2>3, <3>1, <3>2, Zenon
  <2>7. ASSUME NEW u \in compilation_units, Done(u) PROVE Done(u)'
    <3>1. Key(u) \in Code
      BY KeyIsCode, Zenon DEF UnitsInv
    <3>2. CASE compiled_codes_[Key(u)] # NULL \/ Key(u) = r.code
      <4>1. compiled_codes_'[Key(u)] # NULL \/ Key(u) \in failed'
        BY <2>5, <3>1, <3>2, Zenon
      <4> QED
        BY <4>1, Zenon DEF Done, Key
    <3>3. CASE Key(u) \in failed
      BY <2>3, <3>3, Zenon DEF Done, Key
    <3>4. CASE HasCompleted(Key(u)) /\ Key(u) # r.code
      <4>1. PICK q \in completed_compiles_ : q.code = Key(u)
        BY <3>4, Zenon DEF HasCompleted
      <4>2. q \in completed_compiles_'
        BY <2>3, <3>4, <4>1, Zenon
      <4> QED
        BY <4>1, <4>2, Zenon DEF Done, HasCompleted, Key
    <3> QED
      BY <2>7, <3>2, <3>3, <3>4, Zenon DEF Done
  <2>8. \A u \in InCompiler : u \in InCompiler'
    BY <2>3, Zenon DEF InCompiler, threads
  <2> QED
    BY <2>3, <2>6, <2>7, <2>8, Zenon DEF SettledInv, Preloading, preload, threads, Key
<1>4. ASSUME NEW d \in deferred_finalizations_, FinalizeDeferred(d) PROVE SettledInv'
  <2>1. /\ finalizeFunc(d.func, d.art, live, nested) /\ pc = "make"
        /\ UNCHANGED <<compiled_codes_, pc, preload, threads, completed_compiles_, failed, retried>>
    BY <1>4, Zenon DEF FinalizeDeferred
  <2>2. d.func \in Func /\ CodeOf[d.func] \in Code /\ d.art = compiled_codes_[CodeOf[d.func]] /\ d.art # NULL
    BY CodeAssumption, Zenon DEF FlightInv, OuterInv
  <2>3. \A g \in Func : compiled_funcs_[g] # NULL => compiled_funcs_'[g] # NULL
    BY <2>1, <2>2, FuncsStay, Zenon DEF ArtsInv, CodesInv
  <2>4. \A u : (u \in InCompiler => u \in InCompiler') /\ (Done(u) => Done(u)')
    BY <2>1, Zenon DEF InCompiler, Done, HasCompleted, threads, Key
  <2> QED
    BY <2>1, <2>3, <2>4, Zenon DEF SettledInv, Preloading, preload, threads, Key
<1>5. CASE Finalized
  <2>1. /\ pc = "make" /\ pc' = "serial" /\ work_list_' = retry_list_
        /\ UNCHANGED <<preload, registry, worker, inflight, history>>
    BY <1>5, Zenon DEF Finalized
  <2>2. work_list_ = {}
    BY <2>1, Zenon DEF PhaseInv
  <2>3. \A u : (u \in InCompiler => u \in InCompiler') /\ (Done(u) => Done(u)')
    BY <2>1, <2>2, Zenon DEF InCompiler, Done, HasCompleted, registry, inflight, history, Key
  <2> QED
    BY <2>1, <2>3, Zenon DEF SettledInv, Preloading, preload, registry, history, Key
<1>6. ASSUME NEW u \in work_list_, CompileUnit(u) PROVE SettledInv'
  <2>1. u \in InCompiler
    BY Zenon DEF InCompiler
  <2>2. /\ u \in Unit /\ Key(u) \in Code
        /\ FuncOf(u) = NULL \/ (FuncOf(u) \in alive /\ CodeOf[FuncOf(u)] = Key(u))
    BY <2>1, CompilerKept, KeyIsCode, Zenon DEF Kept, Key, FuncOf
  <2>3. /\ pc = "serial" /\ work_list_' = work_list_ \ {u} /\ alive' = alive
        /\ UNCHANGED <<pc, preload, retry_list_, worker, inflight, retried>>
        /\ \/ compilePreloader(FuncOf(u), Key(u)) /\ UNCHANGED failed
           \/ failed' = failed \cup {Key(u)} /\ UNCHANGED <<compiled_codes_, compiled_funcs_>>
    BY <1>6, Zenon DEF CompileUnit, CompileDropped, dropCompiledFunction
  <2>4. /\ failed \subseteq failed'
        /\ \A c \in Code : compiled_codes_[c] # NULL => compiled_codes_'[c] # NULL
        /\ \A g \in Func : compiled_funcs_[g] # NULL => compiled_funcs_'[g] # NULL
        /\ compiled_codes_'[Key(u)] # NULL \/ Key(u) \in failed'
        /\ u \in Func => compiled_funcs_'[u] # NULL \/ Key(u) \in failed'
    <3>1. CASE compilePreloader(FuncOf(u), Key(u)) /\ UNCHANGED failed
      <4>1. /\ compiled_codes_'[Key(u)] # NULL
            /\ \A c \in Code : compiled_codes_[c] # NULL => compiled_codes_'[c] # NULL
            /\ FuncOf(u) # NULL => compiled_funcs_'[FuncOf(u)] # NULL
            /\ \A g \in Func : compiled_funcs_[g] # NULL => compiled_funcs_'[g] # NULL
        BY <2>2, <2>3, <3>1, Compiled, Zenon DEF inflight
      <4> QED
        BY <3>1, <4>1, NamesAssumption, Zenon DEF FuncOf
    <3>2. CASE failed' = failed \cup {Key(u)} /\ UNCHANGED <<compiled_codes_, compiled_funcs_>>
      BY <3>2, Zenon
    <3> QED
      BY <2>3, <3>1, <3>2, Zenon
  <2>5. ASSUME NEW v \in compilation_units, Done(v) PROVE Done(v)'
    <3>1. Key(v) \in Code
      BY KeyIsCode, Zenon DEF UnitsInv
    <3> QED
      BY <2>3, <2>4, <2>5, <3>1, Zenon DEF Done, HasCompleted, inflight, Key
  <2>6. Done(u)'
    BY <2>4, Zenon DEF Done, Key
  <2>7. \A v \in InCompiler : v = u \/ v \in InCompiler'
    BY <2>3, Zenon DEF InCompiler
  <2>8. \A v \in compilation_units' : v \in InCompiler' \/ Done(v)'
    BY <2>3, <2>5, <2>6, <2>7, Zenon DEF SettledInv, Preloading, preload
  <2>9. ASSUME NEW v \in retried' \cap Func
        PROVE  \/ v \in retry_list_' \/ (pc' = "serial" /\ v \in work_list_')
               \/ compiled_funcs_'[v] # NULL \/ Key(v) \in failed'
    <3>1. CASE v = u
      BY <2>4, <3>1, Zenon
    <3>2. CASE v # u
      BY <2>3, <2>4, <3>2, Zenon DEF SettledInv, Preloading
    <3> QED
      BY <3>1, <3>2, Zenon
  <2> QED
    BY <2>8, <2>9, Zenon DEF SettledInv, Key
<1>7. CASE UnitsDone
  <2>1. /\ pc = "serial" /\ pc' = "return" /\ work_list_ = {}
        /\ UNCHANGED <<preload, registry, threads, inflight, history>>
    BY <1>7, Zenon DEF UnitsDone
  <2>2. \A u : (u \in InCompiler => u \in InCompiler') /\ (Done(u) => Done(u)')
    BY <2>1, Zenon DEF InCompiler, Done, HasCompleted, registry, threads, inflight, history, Key
  <2> QED
    BY <2>1, <2>2, Zenon DEF SettledInv, Preloading, preload, registry, threads, history, Key
<1>8. CASE Return
  BY <1>8, Zenon DEF Return, Leave, SettledInv, Preloading
<1> QED
  BY <1>1, <1>2, <1>3, <1>4, <1>5, <1>6, <1>7, <1>8, Zenon DEF Finish

LEMMA SettledPython == ASSUME SettledInv, Python PROVE SettledInv'
<1>1. CASE TypeStep
  <2>1. UNCHANGED <<pc, preload, registry, threads, inflight, history>>
    BY <1>1, Zenon DEF TypeStep
  <2>2. \A u : (u \in InCompiler => u \in InCompiler') /\ (Done(u) => Done(u)')
    BY <2>1, Zenon DEF InCompiler, Done, HasCompleted, registry, threads, inflight, history, Key
  <2> QED
    BY <2>1, <2>2, Zenon DEF SettledInv, Preloading, preload, registry, threads, history, Key
<1>2. CASE ~TypeStep
  <2>1. FunctionsMove /\ pc' = pc
    BY <1>2, Zenon DEF Python, CreateFunc, CompileNow, FuncDies, Uncompile
  <2> QED
    BY <2>1, Zenon DEF SettledInv, Preloading, FunctionsMove
<1> QED
  BY <1>1, <1>2, Zenon

-----------------------------------------------------------------------------
Parts ==
  /\ Domains /\ UnitsInv /\ PhaseInv /\ CompilingInv /\ OuterInv /\ KeptInv /\ FlowInv
  /\ ArtsInv /\ FlightInv /\ SettledInv
BatchInv == dangling = {} => Parts

LEMMA BatchInvInit == Init => BatchInv
<1>1. Init => SettledInv
  BY Zenon DEF Init, SettledInv, Preloading
<1> QED
  BY <1>1, TWInvInit, UnitsInit, PhaseInit, OuterInit, FlowInit, ArtsInit, Zenon DEF Init, TWInv, BatchInv, Parts

LEMMA PartsNext == ASSUME Parts, [Next]_vars, dangling = {}, dangling' = {} PROVE Parts'
<1>1. Domains' /\ UnitsInv'
  BY UnitsNext, DomainsNext, PreloadSteps, CompileSteps, FinishSteps, PythonSteps, Zenon DEF Parts, Next, vars
<1>2. PhaseInv' /\ CompilingInv' /\ OuterInv' /\ KeptInv' /\ FlowInv'
  BY PhaseNext, CompilingNext, KeptNext, FlowNext, Zenon DEF Parts
<1>3. ArtsInv' /\ FlightInv'
  <2>1. CASE UNCHANGED vars
    BY <2>1, SameArts, SameFlight, Zenon DEF Parts, vars, program, registry, arts, inflight, twvars, deopt
  <2> QED
    BY <2>1, ArtsPreload, ArtsCompile, ArtsFinish, ArtsPython, Zenon DEF Parts, Next
<1>4. SettledInv'
  <2>1. CASE UNCHANGED vars
    <3>1. UNCHANGED <<pc, preload, registry, threads, inflight, history>>
      BY <2>1, Zenon DEF vars
    <3>2. \A u : (u \in InCompiler => u \in InCompiler') /\ (Done(u) => Done(u)')
      BY <3>1, Zenon DEF InCompiler, Done, HasCompleted, registry, threads, inflight, history, Key
    <3> QED
      BY <3>1, <3>2, Zenon DEF Parts, SettledInv, Preloading, preload, registry, threads, history, Key
  <2> QED
    BY <2>1, SettledPreload, SettledCompile, SettledFinish, SettledPython, Zenon DEF Parts, Next
<1> QED
  BY <1>1, <1>2, <1>3, <1>4, Zenon DEF Parts

\* Nothing that dangles is ever mended.
LEMMA BatchInvNext == ASSUME BatchInv, [Next]_vars PROVE BatchInv'
<1>1. dangling # {} => dangling' # {}
  BY Zenon DEF Next, vars, history
<1> QED
  BY <1>1, PartsNext, Zenon DEF BatchInv

\* Whatever the registries name by a borrowed pointer is alive, through batches,
\* the death of functions, uncompilation and failing allocations, until a step
\* leaves one of these names behind (unregisterFunctionCodes, funcDestroyed,
\* forgetCompiledFunction, unwatch).
THEOREM NamedIsAlive == Spec => []RegistriesLive
<1>1. ASSUME BatchInv, dangling = {} PROVE RegistriesLive
  <2>1. \A c \in Code : code_outer_funcs_[c] \in alive \cup {NULL}
    BY <1>1, Zenon DEF BatchInv, Parts, OuterInv
  <2>2. registered \cap Func \subseteq alive
    BY <1>1, Zenon DEF BatchInv, Parts, KeptInv, Kept
  <2>3. \A c \in Code : compiled_codes_[c] \in live \cup {NULL}
    BY <1>1, Zenon DEF BatchInv, Parts, ArtsInv, CodesInv
  <2>4. ASSUME NEW f \in alive
        PROVE  /\ compiled_funcs_[f] # NULL =>
                    /\ compiled_funcs_[f] = compiled_codes_[CodeOf[f]]
                    /\ compiled_funcs_[f] = anchor[f]
               /\ vectorcall[f] \in Art <=> compiled_funcs_[f] # NULL
               /\ vectorcall[f] \in Art => vectorcall[f] = compiled_funcs_[f]
    <3>1. f \in Func /\ CodeOf[f] \in Code
      BY <1>1, CodeAssumption, Zenon DEF BatchInv, Parts, OuterInv
    <3>2. CASE compiled_funcs_[f] # NULL
      <4>1. Attached(f) /\ compiled_codes_[CodeOf[f]] \in Art \cup {NULL}
        BY <1>1, <3>1, <3>2, Zenon DEF BatchInv, Parts, ArtsInv, FuncsInv, CodesInv
      <4> QED
        BY <3>2, <4>1, Zenon DEF Attached
    <3>3. CASE compiled_funcs_[f] = NULL
      BY <1>1, <3>1, <3>3, Zenon DEF BatchInv, Parts, ArtsInv, FuncsInv
    <3> QED
      BY <3>2, <3>3, Zenon
  <2>5. \A t \in Type : \A p \in type_deopt_patchers_[t] : p.art \in InUse
    BY <1>1, Zenon DEF BatchInv, Parts, ArtsInv, WatchInv, Watching
  <2> QED
    BY <2>1, <2>2, <2>3, <2>4, <2>5, Zenon DEF RegistriesLive
<1>2. BatchInv /\ [Next]_vars => BatchInv'
  BY BatchInvNext, Zenon
<1>3. BatchInv => RegistriesLive
  BY <1>1, Zenon DEF RegistriesLive
<1> QED
  BY <1>2, <1>3, BatchInvInit, PTL DEF Spec

\* Until something dangles, a unit that reaches the compiler is alive and
\* preloaded, although Python code that deletes units runs between preloading
\* and compiling, and although workers race for keys none is compiled or
\* published twice (compile_all, compile_worker_thread, makeCompiledFunction).
THEOREM BatchChecksHold == Spec => []ChecksHold
<1>1. ASSUME BatchInv, dangling = {} PROVE ChecksHold
  <2>1. \A u \in InCompiler : Key(u) \in preloaders /\ Subject(u) \in alive
    BY <1>1, CompilerKept, Zenon DEF BatchInv, Parts
  <2>2. ASSUME NEW v \in Worker, NEW w \in Worker, v # w, {worker[v].at, worker[w].at} = {"compile"}
        PROVE  Key(worker[v].unit) # Key(worker[w].unit)
    <3>1. worker[v].at = "compile" /\ worker[w].at = "compile"
      BY <2>2, Zenon
    <3> QED
      BY <1>1, <2>2, <3>1, Zenon DEF BatchInv, Parts, CompilingInv
  <2>3. \A r \in completed_compiles_ :
          /\ compiled_codes_[r.code] = NULL /\ r.code \notin active_compiles_
          /\ \A q \in completed_compiles_ : q.code = r.code => q = r
    BY <1>1, Zenon DEF BatchInv, Parts, FlightInv
  <2> QED
    BY <2>1, <2>2, <2>3, Zenon DEF ChecksHold
<1>2. BatchInv /\ [Next]_vars => BatchInv'
  BY BatchInvNext, Zenon
<1>3. BatchInv => ChecksHold
  BY <1>1, Zenon DEF ChecksHold
<1> QED
  BY <1>2, <1>3, BatchInvInit, PTL DEF Spec

\* Until something dangles, a batch that returns has nothing in flight, and
\* has compiled, attached or failed all that survived its preloading, retries
\* and dropped artifacts included (retryUnit, finalizeMultiThreadedCompile).
THEOREM EveryBatchSettles == Spec => []BatchSettled
<1>1. ASSUME BatchInv, dangling = {} PROVE BatchSettled
  <2> SUFFICES ASSUME pc = "return"
               PROVE  /\ active_compiles_ = {} /\ completed_compiles_ = {}
                      /\ deferred_finalizations_ = {} /\ pending_watches_ = {}
                      /\ work_list_ = {} /\ retry_list_ = {}
                      /\ \A u \in compilation_units :
                           compiled_codes_[Key(u)] # NULL \/ Key(u) \in failed
                      /\ \A u \in retried \cap Func :
                           compiled_funcs_[u] # NULL \/ Key(u) \in failed
    BY Zenon DEF BatchSettled
  <2>1. /\ active_compiles_ = {} /\ completed_compiles_ = {}
        /\ deferred_finalizations_ = {} /\ pending_watches_ = {}
        /\ work_list_ = {} /\ retry_list_ = {} /\ \A w \in Worker : worker[w].at = "idle"
    BY <1>1, Zenon DEF BatchInv, Parts, PhaseInv
  <2>2. \A u : u \notin InCompiler /\ ~HasCompleted(Key(u))
    BY <2>1, Zenon DEF InCompiler, HasCompleted
  <2> QED
    BY <1>1, <2>1, <2>2, Zenon DEF BatchInv, Parts, SettledInv, Preloading, Done
<1>2. BatchInv /\ [Next]_vars => BatchInv'
  BY BatchInvNext, Zenon
<1>3. BatchInv => BatchSettled
  BY <1>1, Zenon DEF BatchSettled
<1> QED
  BY <1>2, <1>3, BatchInvInit, PTL DEF Spec
=============================================================================
