----------------------------- MODULE GlobalCache -----------------------------
(***************************************************************************)
(* The caches of global values behind compiled code (Jit/global_cache.cpp, *)
(* with the dict watcher of _cinderx-lib.cpp).                             *)
(*                                                                         *)
(* A cache is a cell that compiled code reads without a check, so it must  *)
(* follow every change of the two dicts a global is looked up in.  It      *)
(* starts by watching globals only and watches builtins as well from the   *)
(* moment the name is missing in globals.                                  *)
(***************************************************************************)
EXTENDS Integers, FiniteSets

CONSTANTS
  Dict, Name, Value,
  NULL, LAZY,
  Pair,            \* <<builtins, globals>> of the functions that are compiled
  MaxCells,        \* bound on the cells that are allocated
  LazyImports,     \* ENABLE_LAZY_IMPORTS
  BuiltinsFreed    \* a dict used as builtins may be freed before its globals

ASSUME ValueAssumption == NULL \notin Value /\ LAZY \notin Value \cup {NULL}
ASSUME PairAssumption == Pair \subseteq Dict \X Dict
ASSUME CellsAssumption == MaxCells \in Nat

Cell == 1 .. MaxCells
Key == [builtins : Dict, globals : Dict, name : Name]

VARIABLES
  item,       \* the contents of the dicts
  unicode,    \* hasOnlyUnicodeKeys
  alive,      \* dicts that are not freed
  key, val,   \* of every cell
  used,       \* cells handed out so far
  map_,       \* the cells whose key is in map_
  watch_map_, \* <<dict, name, cell>>
  check       \* FALSE after a failed JIT_CHECK

dicts == <<item, unicode, alive>>
caches == <<key, val, used, map_, watch_map_, check>>
vars == <<dicts, caches>>

NoKey == [builtins |-> NULL, globals |-> NULL, name |-> NULL]
Empty == [n \in Name |-> NULL]

Init ==
  /\ item = [d \in Dict |-> Empty]
  /\ unicode = [d \in Dict |-> TRUE] /\ alive = Dict
  /\ key = [c \in Cell |-> NoKey] /\ val = [c \in Cell |-> NULL]
  /\ used = 0 /\ map_ = {} /\ watch_map_ = {} /\ check = TRUE

G(c) == key[c].globals
B(c) == key[c].builtins
Shared(c) == G(c) = B(c)
OnGlobals(c) == <<G(c), key[c].name, c>>
OnBuiltins(c) == <<B(c), key[c].name, c>>

-----------------------------------------------------------------------------
(* getGlobalCache.                                                          *)

initCache(c, b, g, n) ==
  LET found == item[g][n] # NULL IN
  /\ val' = [val EXCEPT ![c] = IF found THEN item[g][n]
                               ELSE IF unicode[b] THEN item[b][n] ELSE NULL]
  /\ watch_map_' = watch_map_ \cup {<<g, n, c>>} \cup
       (IF found \/ b = g \/ ~unicode[b] THEN {} ELSE {<<b, n, c>>})

\* A new entry; an existing one is only looked up.  initCache asserts that
\* globals has str keys only; the caches of module attributes pass one dict
\* as both and need not have tested it.
getGlobalCache(b, g, n) ==
  LET k == [builtins |-> b, globals |-> g, name |-> n]
      c == used + 1
  IN /\ used < MaxCells
     /\ {b, g} \subseteq alive /\ (b # g => unicode[g])
     /\ \A d \in map_ : key[d] # k
     /\ used' = c
     /\ key' = [key EXCEPT ![c] = k] /\ map_' = map_ \cup {c}
     /\ initCache(c, b, g, n)
     /\ UNCHANGED <<dicts, check>>

-----------------------------------------------------------------------------
(* updateCache and disableCaches, for the caches S that watch what changes  *)
(* in dict.  The watcher runs before the dict is changed.                   *)

\* The name left globals: builtins decides from now on.
FallsBack(c, dict, new) == dict = G(c) /\ new = NULL /\ ~Shared(c)

\* updateCache returns true.
Disable(c, dict, new) == new = LAZY \/ (FallsBack(c, dict, new) /\ ~unicode[B(c)])

\* Mutant of NewValue: a change of builtins is not checked for shadowing.
NewValueUnshadowed(c, dict, new) ==
  IF FallsBack(c, dict, new) THEN item[B(c)][key[c].name] ELSE new

NewValue(c, dict, new) ==
  IF FallsBack(c, dict, new) THEN item[B(c)][key[c].name]
  ELSE IF dict = G(c) THEN new
  ELSE IF item[G(c)][key[c].name] = NULL THEN new ELSE val[c]

Update(S, dict, new) ==
  LET off == {c \in S : Disable(c, dict, new)}
      back == {c \in S \ off : FallsBack(c, dict, new)}
  IN /\ val' = [c \in Cell |-> IF c \in off THEN NULL
                               ELSE IF c \in S THEN NewValue(c, dict, new) ELSE val[c]]
     /\ map_' = map_ \ off
     /\ watch_map_' = (watch_map_ \cup {OnBuiltins(c) : c \in back}) \ {OnGlobals(c) : c \in off}
     /\ check' = (/\ check
                  /\ \A c \in S : dict \in {G(c), B(c)} /\ (dict = G(c) \/ unicode[G(c)])
                  /\ \A c \in off : OnGlobals(c) \in watch_map_)
     /\ UNCHANGED <<key, used>>

Watching(dict, n) == {c \in Cell : <<dict, n, c>> \in watch_map_}
WatchingAny(dict) == UNION {Watching(dict, n) : n \in Name}

\* Mutant of notifyDictUnwatch: the other dict is not told.
notifyDictUnwatchHalf(dict) ==
  LET S == WatchingAny(dict) IN
  /\ val' = [c \in Cell |-> IF c \in S THEN NULL ELSE val[c]]
  /\ map_' = map_ \ S
  /\ watch_map_' = {w \in watch_map_ : w[1] # dict}
  /\ check' = (check /\ \A c \in S : OnGlobals(c) \in watch_map_)
  /\ UNCHANGED <<key, used>>

\* Mutant of notifyDictUnwatch: the cells keep their values.
notifyDictUnwatchKept(dict) ==
  LET S == WatchingAny(dict) IN
  /\ map_' = map_ \ S
  /\ watch_map_' = {w \in watch_map_ : w[1] # dict /\ w[3] \notin S}
  /\ UNCHANGED <<key, val, used, check>>

\* notifyDictUnwatch: every cache that watches dict is forgotten.
notifyDictUnwatch(dict) ==
  LET S == WatchingAny(dict) IN
  /\ val' = [c \in Cell |-> IF c \in S THEN NULL ELSE val[c]]
  /\ map_' = map_ \ S
  /\ watch_map_' = {w \in watch_map_ : w[1] # dict /\ w[3] \notin S}
  /\ check' = (check /\ \A c \in S : OnGlobals(c) \in watch_map_)
  /\ UNCHANGED <<key, used>>

-----------------------------------------------------------------------------
(* What the program does with the dicts, and cinderx_dict_watcher.          *)

\* PyDict_EVENT_ADDED, MODIFIED and DELETED, with a str key.
SetItem(dict, n, new) ==
  /\ dict \in alive /\ item[dict][n] # new
  /\ Update(Watching(dict, n), dict, new)
  /\ item' = [item EXCEPT ![dict][n] = new]
  /\ UNCHANGED <<unicode, alive>>

\* A key that is not a str.
SetOther(dict) ==
  /\ dict \in alive
  /\ notifyDictUnwatch(dict)
  /\ unicode' = [unicode EXCEPT ![dict] = FALSE]
  /\ UNCHANGED <<item, alive>>

\* PyDict_EVENT_CLEARED.
Clear(dict) ==
  /\ dict \in alive
  /\ Update(WatchingAny(dict), dict, NULL)
  /\ item' = [item EXCEPT ![dict] = Empty]
  /\ unicode' = [unicode EXCEPT ![dict] = TRUE]
  /\ UNCHANGED alive

\* PyDict_EVENT_CLONED: an empty dict takes over the contents of another.
Clone(dict, from) ==
  /\ {dict, from} \subseteq alive /\ dict # from /\ item[dict] = Empty
  /\ notifyDictUnwatch(dict)
  /\ item' = [item EXCEPT ![dict] = item[from]]
  /\ unicode' = [unicode EXCEPT ![dict] = unicode[from]]
  /\ UNCHANGED alive

\* Mutant of Dealloc: the event is ignored.
DeallocSilent(dict) ==
  /\ dict \in alive
  /\ BuiltinsFreed \/ \A p \in Pair : p[1] = dict => p[2] = dict \/ p[2] \notin alive
  /\ alive' = alive \ {dict}
  /\ item' = [item EXCEPT ![dict] = Empty]
  /\ UNCHANGED <<unicode, caches>>

\* PyDict_EVENT_DEALLOCATED.
Dealloc(dict) ==
  /\ dict \in alive
  /\ BuiltinsFreed \/ \A p \in Pair : p[1] = dict => p[2] = dict \/ p[2] \notin alive
  /\ notifyDictUnwatch(dict)
  /\ alive' = alive \ {dict}
  /\ item' = [item EXCEPT ![dict] = Empty]
  /\ UNCHANGED unicode

\* The address is used again by a new dict.
New(dict) ==
  /\ dict \notin alive
  /\ alive' = alive \cup {dict}
  /\ unicode' = [unicode EXCEPT ![dict] = TRUE]
  /\ UNCHANGED <<item, caches>>

\* GlobalCacheManager::clear: notifyDictUnwatch for every watched dict.
ClearAll ==
  /\ watch_map_ # {}
  /\ LET S == {w[3] : w \in watch_map_} IN
     /\ val' = [c \in Cell |-> IF c \in S THEN NULL ELSE val[c]]
     /\ map_' = map_ \ S
     /\ check' = (check /\ \A c \in S : OnGlobals(c) \in watch_map_)
  /\ watch_map_' = {}
  /\ UNCHANGED <<key, used, dicts>>

\* An import statement stores a lazy import in the globals of a module.
Stored(dict) ==
  Value \cup {NULL} \cup
    (IF LazyImports /\ \E p \in Pair : p[2] = dict /\ p[1] # dict THEN {LAZY} ELSE {})

Next ==
  \/ \E p \in Pair, n \in Name : getGlobalCache(p[1], p[2], n)
  \/ \E d \in Dict : \/ \E n \in Name, v \in Stored(d) : SetItem(d, n, v)
                      \/ SetOther(d) \/ Clear(d) \/ Dealloc(d) \/ New(d)
                      \/ \E from \in Dict : Clone(d, from)
  \/ ClearAll

Spec == Init /\ [][Next]_vars

-----------------------------------------------------------------------------
Lookup(b, g, n) == IF item[g][n] # NULL THEN item[g][n] ELSE item[b][n]

\* What compiled code reads from a cell is NULL, and then it asks the dicts,
\* or exactly what the lookup in globals and builtins gives, after any
\* sequence of changes to the two dicts.
CacheIsLookup ==
  \A c \in 1 .. used : val[c] # NULL => val[c] = Lookup(B(c), G(c), key[c].name)

\* The JIT_CHECKs of updateCache, watchDictKey and unwatchDictKey hold.
ChecksHold == check

\* The two registries hold nothing that is gone.  watch_map_ points into
\* map_, and an entry for an erased cell would be read after it is freed;
\* "the invalidation code is responsible for erasing any relevant keys when a
\* dict is freed", so no key of map_ names a freed dict.
RegistriesLive ==
  /\ \A w \in watch_map_ : w[3] \in map_
  /\ \A c \in map_ : {B(c), G(c)} \subseteq alive

\* A cell that was forgotten stays NULL for ever: compiled code may still
\* point to it, and nothing would update it.
ForgottenStaysNull ==
  [][\A c \in 1 .. used : c \notin map_ => val[c] = NULL /\ val'[c] = NULL]_vars
=============================================================================
