----------------------------- MODULE TypeWatch -------------------------------
(***************************************************************************)
(* What compiled code assumes about types, and how it hears of changes, in *)
(* builds with type watchers (CPython 3.12 and later).                     *)
(*                                                                         *)
(* Two clients follow a type.  A TypeDeoptPatcher turns a patch point of   *)
(* an artifact into a jump to its deopt exit (Jit/type_deopt_patchers.cpp, *)
(* Context::watchType and notifyTypeModified); an AttributeCache drops its *)
(* entries (Jit/inline_cache.cpp).  CPython tells the watchers of a type   *)
(* only while the type has a valid version tag, and takes the tag away     *)
(* after it has told them: who is not done then may miss the next change.  *)
(***************************************************************************)
EXTENDS Naturals, FiniteSets

CONSTANTS
  Type, Art, Cache, NULL,
  Value,           \* what a type can hold under the attribute
  DescrOf,         \* the type of such a value when it is a descriptor
  Shapes,          \* the attributes and slots a type can come to have
  MaxEntries       \* entries of an AttributeCache

ASSUME NullAssumption == NULL \notin Type /\ NULL \notin Value
ASSUME DescrAssumption == DescrOf \in [Value -> Type \cup {NULL}]
ASSUME ShapesAssumption ==
  Shapes \in [Type -> SUBSET [attr : Value, slot : BOOLEAN]]

\* attr = NULL: a TypeDeoptPatcher, else a TypeAttrDeoptPatcher and its
\* target_object_.
Patcher == [art : Art, type : Type, attr : Value \cup {NULL}]
\* descr = watchedDescrType: only a data descriptor has one.
Entry == [type : Type, descr : Type \cup {NULL}, attr : Value]

VARIABLES
  attr,     \* the attribute, of every type
  slot,     \* the type has tp_descr_get and tp_descr_set
  tag,      \* types with a valid version tag
  watched,  \* types whose changes are reported
  compile_running_,
  code_patchers, patched,
  type_deopt_patchers_, pending_watches_,
  missed,   \* history: patchers whose type changed before it was watched
  entries, ac_watcher, ac_descr_watcher

types == <<attr, slot, tag, watched>>
deopt == <<code_patchers, patched, type_deopt_patchers_, pending_watches_, missed>>
icaches == <<entries, ac_watcher, ac_descr_watcher>>
twvars == <<types, deopt, icaches, compile_running_>>

TWTypeOK ==
  /\ attr \in [Type -> Value] /\ slot \in [Type -> BOOLEAN]
  /\ tag \subseteq Type /\ watched \subseteq Type
  /\ compile_running_ \in BOOLEAN
  /\ code_patchers \in [Art -> SUBSET Patcher] /\ patched \subseteq Patcher
  /\ type_deopt_patchers_ \in [Type -> SUBSET Patcher]
  /\ pending_watches_ \subseteq Type /\ missed \subseteq Patcher
  /\ entries \in [Cache -> SUBSET Entry]
  /\ ac_watcher \in [Type -> SUBSET Cache]
  /\ ac_descr_watcher \in [Type -> SUBSET Cache]

TWInit ==
  /\ attr \in [Type -> Value] /\ slot \in [Type -> BOOLEAN]
  /\ \A t \in Type : [attr |-> attr[t], slot |-> slot[t]] \in Shapes[t]
  /\ tag = {} /\ watched = {} /\ compile_running_ = FALSE
  /\ code_patchers = [a \in Art |-> {}] /\ patched = {}
  /\ type_deopt_patchers_ = [t \in Type |-> {}] /\ pending_watches_ = {}
  /\ missed = {}
  /\ entries = [c \in Cache |-> {}]
  /\ ac_watcher = [t \in Type |-> {}] /\ ac_descr_watcher = [t \in Type |-> {}]

\* The attribute of t is a data descriptor.
DataDescr(t) == DescrOf[attr[t]] # NULL /\ slot[DescrOf[attr[t]]]

\* Python code runs, but not while workers compile.
Quiet == ~compile_running_

-----------------------------------------------------------------------------
(* Patchers.                                                                *)

\* simplifyLoadAttrGenericDescriptor for a load from a receiver of type t.
PatchersFor(a, t) ==
  {[art |-> a, type |-> t, attr |-> attr[t]],
   [art |-> a, type |-> DescrOf[attr[t]], attr |-> NULL]}

\* The patchers of an artifact whose loads have receivers of the types ts.
PatchersOf(a, ts) == UNION {PatchersFor(a, t) : t \in {u \in ts : DataDescr(u)}}

\* linkDeoptPatchers and Context::watchType.  A load is specialized only
\* when its type has a tag; PyType_Watch gives the others one.
Link(a, ts) ==
  LET ps == PatchersOf(a, ts)
      watch == {p.type : p \in ps}
  IN /\ code_patchers' = [code_patchers EXCEPT ![a] = ps]
     /\ patched' = {p \in patched : p.art # a}
     /\ missed' = {p \in missed : p.art # a}
     /\ type_deopt_patchers_' = [t \in Type |->
          type_deopt_patchers_[t] \cup {p \in ps : p.type = t}]
     /\ IF compile_running_
        THEN /\ ts \subseteq tag
             /\ pending_watches_' = pending_watches_ \cup watch
             /\ UNCHANGED <<tag, watched>>
        ELSE /\ tag' = tag \cup ts \cup watch
             /\ watched' = watched \cup watch
             /\ UNCHANGED pending_watches_
     /\ UNCHANGED <<attr, slot, compile_running_, icaches>>

\* Mutant of watchPendingTypes: the types are not watched.
watchPendingTypesNot ==
  /\ tag' = tag \cup pending_watches_
  /\ pending_watches_' = {} /\ UNCHANGED watched

watchPendingTypes ==
  /\ watched' = watched \cup pending_watches_
  /\ tag' = tag \cup pending_watches_
  /\ pending_watches_' = {}

\* The patchers of freed or retired artifacts A: Context::unwatch for those
\* that have an owner.
Without(A, owned) ==
  /\ code_patchers' = [a \in Art |-> IF a \in A THEN {} ELSE code_patchers[a]]
  /\ type_deopt_patchers_' = [t \in Type |->
       {p \in type_deopt_patchers_[t] :
          ~(p.art \in A \cap owned /\ p \in code_patchers[p.art])}]
  /\ patched' = {p \in patched : p.art \notin A}
  /\ missed' = {p \in missed : p.art \notin A}
  /\ UNCHANGED pending_watches_

\* maybePatch, to which the attribute looks like v.  The type still has its
\* tag, so a patcher that asks for one is told that there is one, and stays.
maybePatch(p, v) == p.attr = NULL \/ p.attr # v

-----------------------------------------------------------------------------
(* notifyICsTypeChanged and notifyTypeModified.                             *)

\* AttributeCache::typeChanged.
KeptByType(c, t) ==
  IF c \in ac_watcher[t] THEN {e \in entries[c] : e.type # t} ELSE entries[c]

\* Mutant of DescrWatchers: the other entries of the cache are not looked at.
DescrWatchersAlone(t, d) ==
  {c \in ac_descr_watcher[d] :
     \/ c \notin ac_watcher[t]
     \/ \A e \in entries[c] : e.type = t => e.descr # d}

\* Who is still told about d: a cache drops out with its last entry for d.
DescrWatchers(t, d) ==
  {c \in ac_descr_watcher[d] :
     \/ c \notin ac_watcher[t]
     \/ \A e \in entries[c] : e.type = t => e.descr # d
     \/ \E e \in KeptByType(c, t) : e.descr = d}

\* AttributeCache::descrTypeChanged.
KeptByDescr(c, t) ==
  IF c \in DescrWatchers(t, t)
  THEN {e \in KeptByType(c, t) : e.descr # t}
  ELSE KeptByType(c, t)

notifyICs(t) ==
  /\ entries' = [c \in Cache |-> KeptByDescr(c, t)]
  /\ ac_watcher' = [u \in Type |-> IF u = t THEN {} ELSE
       {c \in ac_watcher[u] :
          \A e \in KeptByType(c, t) \ KeptByDescr(c, t) : e.type # u}]
  /\ ac_descr_watcher' = [d \in Type |->
       IF d = t THEN {} ELSE DescrWatchers(t, d)]

notifyPatchers(t, v) ==
  LET hit == {p \in type_deopt_patchers_[t] : maybePatch(p, v)} IN
  /\ patched' = patched \cup hit
  /\ type_deopt_patchers_' =
       [type_deopt_patchers_ EXCEPT ![t] = type_deopt_patchers_[t] \ hit]
  /\ UNCHANGED <<code_patchers, pending_watches_, missed>>

\* Python code changes type t.  PyType_Modified is silent without a tag, and
\* takes it away after the watchers ran.  They see the attribute as it was or
\* as it will be (the dictionary is updated first up to 3.12, last in 3.14),
\* and never the new slots.
ModifyType(t, shape, seen) ==
  /\ Quiet /\ seen \in {attr[t], shape.attr}
  /\ attr' = [attr EXCEPT ![t] = shape.attr]
  /\ slot' = [slot EXCEPT ![t] = shape.slot]
  /\ tag' = tag \ {t}
  /\ IF t \in tag \cap watched
     THEN notifyICs(t) /\ notifyPatchers(t, seen)
     ELSE /\ missed' = IF t \in pending_watches_
                       THEN missed \cup type_deopt_patchers_[t] ELSE missed
          /\ UNCHANGED <<icaches, code_patchers, patched, type_deopt_patchers_,
                         pending_watches_>>
  /\ UNCHANGED <<watched, compile_running_>>

-----------------------------------------------------------------------------
(* AttributeCache::fill, after a miss.                                      *)

Fill(c, t) ==
  LET data == DataDescr(t)
      d == DescrOf[attr[t]]
      e == [type |-> t, descr |-> IF data THEN d ELSE NULL, attr |-> attr[t]]
      watch == IF data THEN {t, d} ELSE {t}
  IN /\ Quiet /\ t \in tag
     /\ \A o \in entries[c] : o.type # t
     /\ Cardinality(entries[c]) < MaxEntries
     /\ entries' = [entries EXCEPT ![c] = @ \cup {e}]
     /\ ac_watcher' = [ac_watcher EXCEPT ![t] = @ \cup {c}]
     /\ ac_descr_watcher' =
          IF data THEN [ac_descr_watcher EXCEPT ![d] = @ \cup {c}]
          ELSE ac_descr_watcher
     /\ watched' = watched \cup watch /\ tag' = tag \cup watch
     /\ UNCHANGED <<attr, slot, deopt, compile_running_>>

\* A lookup by the interpreter gives t a tag.
AssignVersionTag(t) ==
  /\ Quiet /\ t \notin tag
  /\ tag' = tag \cup {t}
  /\ UNCHANGED <<attr, slot, watched, deopt, icaches, compile_running_>>

-----------------------------------------------------------------------------
(* The component by itself, for whoever compiles, watches and frees, in any *)
(* order: BatchCompile is one.                                              *)

StartCompile ==
  /\ compile_running_' = TRUE
  /\ UNCHANGED <<types, deopt, icaches>>

EndCompile ==
  /\ compile_running_' = FALSE
  /\ UNCHANGED <<types, deopt, icaches>>

WatchPending ==
  /\ watchPendingTypes
  /\ UNCHANGED <<attr, slot, code_patchers, patched, type_deopt_patchers_,
                 missed, icaches, compile_running_>>

Release(A, owned) ==
  /\ Without(A, owned) /\ UNCHANGED <<types, icaches, compile_running_>>

TWNext ==
  \/ \E a \in Art, ts \in SUBSET Type : Link(a, ts)
  \/ \E A, owned \in SUBSET Art : Release(A, owned)
  \/ \E t \in Type, seen \in Value : \E shape \in Shapes[t] :
       ModifyType(t, shape, seen)
  \/ \E c \in Cache, t \in Type : Fill(c, t)
  \/ \E t \in Type : AssignVersionTag(t)
  \/ StartCompile \/ EndCompile \/ WatchPending

TWSpec == TWInit /\ [][TWNext]_twvars

-----------------------------------------------------------------------------
(* Properties.                                                              *)

\* Compiled code that calls the slots of a descriptor's type through a patch
\* point has been turned into a jump when the type loses them, whatever changes
\* of the type, silent or reported, came first, and whether a worker or the
\* main thread linked it.  Only a change in the fixup, before the types of the
\* workers are watched, is missed (TypeDeoptPatcher::maybePatch, watchType,
\* watchPendingTypes).
LostSlotIsPatched ==
  \A a \in Art : \A p \in code_patchers[a] :
    p.attr = NULL /\ ~slot[p.type] => p \in patched \cup missed

\* An entry of an inline cache says what its types say, and the cache is
\* subscribed to both of them (AttributeCache::fill, typeChanged and
\* descrTypeChanged).
CachesFresh ==
  \A c \in Cache : \A e \in entries[c] :
    /\ attr[e.type] = e.attr /\ c \in ac_watcher[e.type]
    /\ e.descr # NULL => slot[e.descr] /\ c \in ac_descr_watcher[e.descr]
=============================================================================
