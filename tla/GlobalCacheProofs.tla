-------------------------- MODULE GlobalCacheProofs --------------------------
(***************************************************************************)
(* The caches of globals follow the dicts, for any dicts, names, values,   *)
(* pairs of builtins and globals and number of cells, when there are no    *)
(* lazy imports and a builtins dict outlives the globals it serves.        *)
(***************************************************************************)
EXTENDS GlobalCache, TLAPS

PlainDicts == ~LazyImports /\ ~BuiltinsFreed

TypeOK ==
  /\ item \in [Dict -> [Name -> Value \cup {NULL}]]
  /\ unicode \in [Dict -> BOOLEAN] /\ alive \in SUBSET Dict
  /\ used \in 0 .. MaxCells /\ map_ \subseteq 1 .. used
  /\ DOMAIN key = Cell /\ DOMAIN val = Cell
  /\ \A c \in 1 .. used : key[c] \in Key /\ <<B(c), G(c)>> \in Pair

\* A cell that is not forgotten holds what the lookup gives and hears of all
\* that may change it: it watches globals and, while the name is missing
\* there, builtins; or it is NULL, as builtins could not be watched.  What it
\* watches has only str keys, if the dicts differ, and is not freed.
Follows(c) ==
  /\ OnGlobals(c) \in watch_map_
  /\ item[G(c)][key[c].name] = NULL => OnBuiltins(c) \in watch_map_ \/ val[c] = NULL
  /\ val[c] = Lookup(B(c), G(c), key[c].name) \/ (val[c] = NULL /\ item[G(c)][key[c].name] = NULL)
  /\ ~Shared(c) => unicode[G(c)] /\ (OnBuiltins(c) \in watch_map_ => unicode[B(c)])
  /\ {B(c), G(c)} \subseteq alive

\* Nobody else is told.
WatchesInv ==
  \A w \in watch_map_ : w[3] \in map_ /\ w \in {OnGlobals(w[3]), OnBuiltins(w[3])}

CellsInv ==
  /\ \A c \in map_ : Follows(c)
  /\ \A c \in (1 .. used) \ map_ : val[c] = NULL

Inv == TypeOK /\ WatchesInv /\ CellsInv /\ check = TRUE

LEMMA InvInit == Init => Inv
BY CellsAssumption DEF Init, Inv, TypeOK, WatchesInv, CellsInv, Empty, Cell

LEMMA Mapped ==
  ASSUME TypeOK, NEW c \in map_
  PROVE  /\ c \in Cell /\ c \in 1 .. used /\ key[c] \in Key
         /\ G(c) \in Dict /\ B(c) \in Dict /\ key[c].name \in Name
<1>1. c \in 1 .. used /\ key[c] \in Key
  BY Zenon DEF TypeOK
<1>2. c \in Cell
  BY <1>1, CellsAssumption DEF TypeOK, Cell
<1>3. key[c].globals \in Dict /\ key[c].builtins \in Dict /\ key[c].name \in Name
  BY <1>1 DEF Key
<1> QED
  BY <1>1, <1>2, <1>3 DEF G, B

LEMMA Watched ==
  ASSUME TypeOK, WatchesInv, NEW d, NEW n, NEW c, <<d, n, c>> \in watch_map_
  PROVE  c \in map_ /\ n = key[c].name /\ d \in {G(c), B(c)}
<1>1. c \in map_ /\ <<d, n, c>> \in {OnGlobals(c), OnBuiltins(c)}
  BY DEF WatchesInv
<1> QED
  BY <1>1 DEF OnGlobals, OnBuiltins

-----------------------------------------------------------------------------
(* getGlobalCache.                                                          *)

LEMMA CreateKeeps ==
  ASSUME Inv, NEW b, NEW g, <<b, g>> \in Pair, NEW n \in Name, getGlobalCache(b, g, n)
  PROVE  Inv'
<1> USE DEF Inv
<1>1. PICK new : new = used + 1
  OBVIOUS
<1>2. /\ new \in Cell /\ new \notin 1 .. used /\ 1 .. used' = (1 .. used) \cup {new}
      /\ used' \in 0 .. MaxCells /\ b \in Dict /\ g \in Dict
  BY <1>1, CellsAssumption, PairAssumption DEF getGlobalCache, TypeOK, Cell
<1>3. /\ key'[new] = [builtins |-> b, globals |-> g, name |-> n]
      /\ val'[new] = IF item[g][n] # NULL THEN item[g][n] ELSE IF unicode[b] THEN item[b][n] ELSE NULL
      /\ \A c \in 1 .. used : key'[c] = key[c] /\ val'[c] = val[c]
      /\ DOMAIN key' = Cell /\ DOMAIN val' = Cell
  BY <1>1, <1>2 DEF getGlobalCache, initCache, TypeOK
<1>4. /\ watch_map_' = watch_map_ \cup {<<g, n, new>>} \cup
           (IF item[g][n] # NULL \/ b = g \/ ~unicode[b] THEN {} ELSE {<<b, n, new>>})
      /\ map_' = map_ \cup {new} /\ check' = check
      /\ UNCHANGED <<item, unicode, alive>>
      /\ {b, g} \subseteq alive /\ (b # g => unicode[g])
  BY <1>1 DEF getGlobalCache, initCache, dicts
<1>5. G(new)' = g /\ B(new)' = b /\ key'[new].name = n
  BY <1>3 DEF G, B
<1>6. \A c \in 1 .. used : G(c)' = G(c) /\ B(c)' = B(c) /\ key'[c].name = key[c].name
  BY <1>3 DEF G, B
<1>7. TypeOK'
  <2>1. key'[new] \in Key /\ <<B(new)', G(new)'>> \in Pair
    BY <1>2, <1>3, <1>5 DEF Key
  <2>2. \A c \in 1 .. used : key'[c] \in Key /\ <<B(c)', G(c)'>> \in Pair
    BY <1>3, <1>6 DEF TypeOK
  <2>3. map_' \subseteq 1 .. used'
    BY <1>2, <1>4, Zenon DEF TypeOK
  <2> QED
    BY <1>2, <1>3, <1>4, <2>1, <2>2, <2>3, SMTT(60) DEF TypeOK
<1>8. \A c \in map_ : OnGlobals(c)' = OnGlobals(c) /\ OnBuiltins(c)' = OnBuiltins(c)
  BY <1>6, Mapped DEF OnGlobals, OnBuiltins
<1>9. OnGlobals(new)' = <<g, n, new>> /\ OnBuiltins(new)' = <<b, n, new>>
  BY <1>5 DEF OnGlobals, OnBuiltins
<1>10. WatchesInv'
  BY <1>4, <1>8, <1>9 DEF WatchesInv
<1>11. ASSUME NEW c \in map_ PROVE Follows(c)'
  <2>1. c \in 1 .. used /\ c # new
    BY <1>2, <1>11, Mapped
  <2>2. OnBuiltins(c) \in watch_map_' => OnBuiltins(c) \in watch_map_
    BY <1>4, <2>1 DEF OnBuiltins
  <2> QED
    BY <1>3, <1>4, <1>6, <1>8, <1>11, <2>1, <2>2 DEF CellsInv, Follows, Lookup, Shared
<1>12. Follows(new)'
  <2>1. OnBuiltins(new)' \in watch_map_' => (item[g][n] = NULL /\ unicode[b]) \/ b = g
    <3>1. \A w \in watch_map_ : w[3] # new
      BY <1>2 DEF WatchesInv, TypeOK
    <3> QED
      BY <1>4, <1>9, <3>1
  <2> QED
    BY <1>3, <1>4, <1>5, <1>9, <2>1 DEF Follows, Lookup, Shared
<1>13. CellsInv'
  BY <1>2, <1>3, <1>4, <1>11, <1>12 DEF CellsInv
<1> QED
  BY <1>4, <1>7, <1>10, <1>13

-----------------------------------------------------------------------------
(* notifyDictUnwatch and clear.                                             *)

\* A cache that does not watch dict depends on nothing in it.
LEMMA Independent ==
  ASSUME Inv, NEW dict, NEW c \in map_, c \notin WatchingAny(dict)
  PROVE  /\ G(c) # dict
         /\ B(c) = dict => /\ item[G(c)][key[c].name] # NULL \/ val[c] = NULL
                           /\ OnBuiltins(c) \notin watch_map_
<1>1. c \in Cell /\ key[c].name \in Name
  BY Mapped DEF Inv
<1>2. <<dict, key[c].name, c>> \notin watch_map_
  BY <1>1 DEF WatchingAny, Watching
<1> QED
  BY <1>2, Zenon DEF Inv, CellsInv, Follows, OnGlobals, OnBuiltins

LEMMA UnwatchKeeps ==
  ASSUME Inv, NEW dict \in Dict, notifyDictUnwatch(dict),
         item' \in [Dict -> [Name -> Value \cup {NULL}]], unicode' \in [Dict -> BOOLEAN],
         alive' \in SUBSET Dict,
         \A d \in Dict \ {dict} : item'[d] = item[d] /\ unicode'[d] = unicode[d],
         \A c \in map_ \ WatchingAny(dict) : {B(c), G(c)} \subseteq alive'
  PROVE  Inv'
<1> USE DEF Inv
<1>1. PICK S : S = WatchingAny(dict)
  OBVIOUS
<1>2. /\ val' = [c \in Cell |-> IF c \in S THEN NULL ELSE val[c]] /\ map_' = map_ \ S
      /\ watch_map_' = {w \in watch_map_ : w[1] # dict /\ w[3] \notin S}
      /\ key' = key /\ used' = used
      /\ check' = (check /\ \A c \in S : OnGlobals(c) \in watch_map_)
  BY <1>1 DEF notifyDictUnwatch
<1>3. S \subseteq map_
  BY <1>1, Watched, ZenonT(60) DEF WatchingAny, Watching
<1>4. \A c : G(c)' = G(c) /\ B(c)' = B(c) /\ OnGlobals(c)' = OnGlobals(c) /\ OnBuiltins(c)' = OnBuiltins(c)
  BY <1>2 DEF G, B, OnGlobals, OnBuiltins
<1>5. TypeOK'
  BY <1>2, <1>4, Zenon DEF TypeOK
<1>6. WatchesInv'
  BY <1>2, <1>4 DEF WatchesInv
<1>7. ASSUME NEW c \in map_' PROVE Follows(c)'
  <2>1. /\ c \in map_ /\ c \notin S /\ c \in Cell /\ val'[c] = val[c]
        /\ G(c) \in Dict /\ B(c) \in Dict /\ Follows(c)
    BY <1>2, <1>7, Mapped DEF CellsInv
  <2>2. /\ G(c) # dict /\ item'[G(c)] = item[G(c)] /\ unicode'[G(c)] = unicode[G(c)]
        /\ B(c) = dict => /\ item[G(c)][key[c].name] # NULL \/ val[c] = NULL
                          /\ OnBuiltins(c) \notin watch_map_
        /\ B(c) # dict => item'[B(c)] = item[B(c)] /\ unicode'[B(c)] = unicode[B(c)]
    BY <1>1, <2>1, Independent
  <2>3. OnGlobals(c) \in watch_map_'
    BY <1>2, <2>1, <2>2 DEF Follows, OnGlobals
  <2>4. item'[G(c)][key[c].name] = NULL => OnBuiltins(c) \in watch_map_' \/ val'[c] = NULL
    BY <1>2, <2>1, <2>2 DEF Follows, OnBuiltins
  <2>5. val'[c] = Lookup(B(c), G(c), key[c].name)' \/ (val'[c] = NULL /\ item'[G(c)][key[c].name] = NULL)
    BY <1>2, <1>4, <2>1, <2>2 DEF Follows, Lookup
  <2>6. Shared(c)' = Shared(c) /\ (~Shared(c) /\ OnBuiltins(c) \in watch_map_' => unicode'[B(c)])
    BY <1>2, <1>4, <2>1, <2>2 DEF Follows, Shared
  <2>7. {B(c), G(c)} \subseteq alive'
    BY <1>1, <2>1
  <2> QED
    BY <1>2, <1>4, <2>1, <2>2, <2>3, <2>4, <2>5, <2>6, <2>7 DEF Follows
<1>8. CellsInv'
  <2>1. \A c \in 1 .. used : c \in Cell
    BY CellsAssumption DEF TypeOK, Cell
  <2> QED
    BY <1>2, <1>7, <2>1 DEF CellsInv
<1>9. check' = TRUE
  <2>1. \A c \in S : OnGlobals(c) \in watch_map_
    BY <1>3 DEF CellsInv, Follows
  <2> QED
    BY <1>2, <2>1, Zenon
<1> QED
  BY <1>5, <1>6, <1>8, <1>9

LEMMA ClearAllKeeps == ASSUME Inv, ClearAll PROVE Inv'
<1> USE DEF Inv
<1>1. PICK S : S = {w[3] : w \in watch_map_}
  BY Zenon
<1>2. /\ val' = [c \in Cell |-> IF c \in S THEN NULL ELSE val[c]] /\ map_' = map_ \ S
      /\ watch_map_' = {} /\ UNCHANGED <<key, used, item, unicode, alive>>
      /\ check' = (check /\ \A c \in S : OnGlobals(c) \in watch_map_)
  BY <1>1 DEF ClearAll, dicts
<1>3. S = map_
  <2>1. \A c \in map_ : OnGlobals(c) \in watch_map_ /\ OnGlobals(c)[3] = c
    BY DEF CellsInv, Follows, OnGlobals
  <2> QED
    BY <1>1, <2>1 DEF WatchesInv
<1>4. TypeOK'
  BY <1>2, Zenon DEF TypeOK, G, B
<1>5. WatchesInv' /\ CellsInv'
  <2>1. \A c \in 1 .. used : c \in Cell
    BY CellsAssumption DEF TypeOK, Cell
  <2> QED
    BY <1>2, <1>3, <2>1 DEF WatchesInv, CellsInv
<1>6. check' = TRUE
  <2>1. \A c \in S : OnGlobals(c) \in watch_map_
    BY <1>3 DEF CellsInv, Follows
  <2> QED
    BY <1>2, <2>1, Zenon
<1> QED
  BY <1>4, <1>5, <1>6

-----------------------------------------------------------------------------
(* updateCache, for the caches S that watch the names N of dict, which all  *)
(* get the value new.                                                       *)

Updated(dict, N, new, S) ==
  /\ \A c : c \in S <=> c \in Cell /\ \E n \in N : <<dict, n, c>> \in watch_map_
  /\ Update(S, dict, new)
  /\ item' \in [Dict -> [Name -> Value \cup {NULL}]]
  /\ \A d \in Dict, n \in Name :
       item'[d][n] = IF d = dict /\ n \in N THEN new ELSE item[d][n]
  /\ unicode' \in [Dict -> BOOLEAN] /\ \A d \in Dict : unicode[d] => unicode'[d]
  /\ alive' = alive

LEMMA UpdateKeeps ==
  ASSUME Inv, NEW dict \in Dict, NEW N \in SUBSET Name, NEW new \in Value \cup {NULL}, NEW S,
         Updated(dict, N, new, S)
  PROVE  Inv'
<1>0. /\ \A c : c \in S <=> c \in Cell /\ \E n \in N : <<dict, n, c>> \in watch_map_
      /\ Update(S, dict, new)
      /\ item' \in [Dict -> [Name -> Value \cup {NULL}]]
      /\ \A d \in Dict, n \in Name :
           item'[d][n] = IF d = dict /\ n \in N THEN new ELSE item[d][n]
      /\ unicode' \in [Dict -> BOOLEAN] /\ \A d \in Dict : unicode[d] => unicode'[d]
      /\ alive' = alive
  BY Zenon DEF Updated
<1> USE <1>0 DEF Inv
<1>1. \A c \in S : c \in map_ /\ key[c].name \in N /\ dict \in {G(c), B(c)}
  <2> SUFFICES ASSUME NEW c \in S
               PROVE  c \in map_ /\ key[c].name \in N /\ dict \in {G(c), B(c)}
    OBVIOUS
  <2>1. PICK n \in N : <<dict, n, c>> \in watch_map_
    OBVIOUS
  <2> QED
    BY <2>1, Watched
<1>2. \A c \in map_ : key[c].name \in N =>
        /\ dict = G(c) => c \in S
        /\ dict = B(c) /\ OnBuiltins(c) \in watch_map_ => c \in S
  BY Mapped, Zenon DEF CellsInv, Follows, OnGlobals, OnBuiltins
<1>3. PICK off : off = {c \in S : FallsBack(c, dict, new) /\ ~unicode[B(c)]}
  BY Zenon
<1>4. PICK back : back = {c \in S \ off : FallsBack(c, dict, new)}
  BY Zenon
<1>5. \A c : Disable(c, dict, new) <=> FallsBack(c, dict, new) /\ ~unicode[B(c)]
  BY ValueAssumption DEF Disable
<1>6. off = {c \in S : Disable(c, dict, new)}
  BY <1>3, <1>5
<1>7. /\ val' = [c \in Cell |-> IF c \in off THEN NULL
                                ELSE IF c \in S THEN NewValue(c, dict, new) ELSE val[c]]
      /\ map_' = map_ \ off
      /\ watch_map_' = (watch_map_ \cup {OnBuiltins(c) : c \in back}) \ {OnGlobals(c) : c \in off}
      /\ check' = (/\ check
                   /\ \A c \in S : dict \in {G(c), B(c)} /\ (dict = G(c) \/ unicode[G(c)])
                   /\ \A c \in off : OnGlobals(c) \in watch_map_)
      /\ key' = key /\ used' = used
  BY <1>4, <1>6 DEF Update
<1>8. \A c : /\ G(c)' = G(c) /\ B(c)' = B(c)
             /\ OnGlobals(c)' = OnGlobals(c) /\ OnBuiltins(c)' = OnBuiltins(c)
  BY <1>7 DEF G, B, OnGlobals, OnBuiltins
<1>9. TypeOK'
  BY <1>7, <1>8, Zenon DEF TypeOK
<1>10. \A c \in off : c \in map_ /\ OnBuiltins(c) \notin watch_map_
  BY <1>1, <1>3 DEF CellsInv, Follows, FallsBack
<1>11. \A c, d : OnGlobals(d) \in {OnGlobals(c), OnBuiltins(c)} => d = c
  BY DEF OnGlobals, OnBuiltins
<1>12. WatchesInv'
  <2> SUFFICES ASSUME NEW w \in watch_map_'
               PROVE  w[3] \in map_' /\ w \in {OnGlobals(w[3]), OnBuiltins(w[3])}
    BY <1>8 DEF WatchesInv
  <2>1. CASE w \in watch_map_
    <3>1. w[3] \in map_ /\ w \in {OnGlobals(w[3]), OnBuiltins(w[3])}
      BY <2>1 DEF WatchesInv
    <3>2. w[3] \notin off
      BY <1>7, <1>10, <2>1, <3>1
    <3> QED
      BY <1>7, <3>1, <3>2
  <2>2. CASE \E c \in back : w = OnBuiltins(c)
    <3>1. PICK c \in back : w = OnBuiltins(c)
      BY <2>2
    <3>2. w[3] = c
      BY <3>1 DEF OnBuiltins
    <3> QED
      BY <1>1, <1>4, <1>7, <3>1, <3>2
  <2> QED
    BY <1>7, <2>1, <2>2
<1>13. ASSUME NEW c \in map_' PROVE Follows(c)'
  <2>1. /\ c \in map_ /\ c \notin off /\ c \in Cell /\ Follows(c)
        /\ G(c) \in Dict /\ B(c) \in Dict /\ key[c].name \in Name
    BY <1>7, <1>13, Mapped, SMTT(60) DEF CellsInv
  <2>2. OnGlobals(c) \in watch_map_'
    BY <1>7, <1>11, <2>1 DEF Follows
  <2>3. OnBuiltins(c) \in watch_map_' <=> OnBuiltins(c) \in watch_map_ \/ c \in back
    <3>1. \A d \in back : OnBuiltins(d) = OnBuiltins(c) => d = c
      BY DEF OnBuiltins
    <3>2. \A d \in off : OnGlobals(d) # OnBuiltins(c)
      BY <2>1 DEF OnGlobals, OnBuiltins
    <3>3. OnBuiltins(c) \in {OnBuiltins(d) : d \in back} <=> c \in back
      BY <3>1
    <3>4. OnBuiltins(c) \notin {OnGlobals(d) : d \in off}
      BY <3>2
    <3> QED
      BY <1>7, <3>3, <3>4
  <2>4. item'[G(c)][key[c].name] = NULL => OnBuiltins(c) \in watch_map_' \/ (c \notin S /\ val[c] = NULL)
    <3>1. CASE dict = G(c) /\ key[c].name \in N
      <4>1. CASE Shared(c)
        BY <2>2, <4>1 DEF Shared, OnGlobals, OnBuiltins
      <4>2. CASE ~Shared(c)
        BY <1>2, <1>4, <2>1, <2>3, <3>1, <4>2 DEF FallsBack
      <4> QED
        BY <4>1, <4>2
    <3>2. CASE ~(dict = G(c) /\ key[c].name \in N)
      <4>1. c \in S => OnBuiltins(c) \in watch_map_
        <5> SUFFICES ASSUME c \in S PROVE OnBuiltins(c) \in watch_map_
          OBVIOUS
        <5>1. PICK n \in N : <<dict, n, c>> \in watch_map_
          OBVIOUS
        <5>2. n = key[c].name /\ dict \in {G(c), B(c)}
          BY <5>1, Watched
        <5> QED
          BY <3>2, <5>1, <5>2 DEF OnBuiltins
      <4> QED
        BY <2>1, <2>3, <3>2, <4>1 DEF Follows
    <3> QED
      BY <3>1, <3>2
  <2>5. val'[c] = Lookup(B(c), G(c), key[c].name)' \/ (val'[c] = NULL /\ item'[G(c)][key[c].name] = NULL)
    <3>1. Lookup(B(c), G(c), key[c].name)' =
            IF item'[G(c)][key[c].name] # NULL THEN item'[G(c)][key[c].name]
            ELSE item'[B(c)][key[c].name]
      BY <1>7, <1>8, SMTT(60) DEF Lookup
    <3>2. /\ item'[G(c)][key[c].name] =
                IF G(c) = dict /\ key[c].name \in N THEN new ELSE item[G(c)][key[c].name]
          /\ item'[B(c)][key[c].name] =
                IF B(c) = dict /\ key[c].name \in N THEN new ELSE item[B(c)][key[c].name]
      BY <2>1, Zenon
    <3>3. val'[c] = IF c \in S THEN NewValue(c, dict, new) ELSE val[c]
      BY <1>7, <2>1, Zenon
    <3>4. \/ val[c] = IF item[G(c)][key[c].name] # NULL THEN item[G(c)][key[c].name]
                      ELSE item[B(c)][key[c].name]
          \/ val[c] = NULL /\ item[G(c)][key[c].name] = NULL
      BY <2>1, Zenon DEF Follows, Lookup
    <3>5. CASE c \in S /\ dict = G(c)
      <4>1. key[c].name \in N /\ item'[G(c)][key[c].name] = new
        BY <1>1, <3>2, <3>5, Zenon
      <4>2. CASE new # NULL
        BY <3>1, <3>3, <3>5, <4>1, <4>2, Zenon DEF NewValue, FallsBack
      <4>3. CASE new = NULL /\ Shared(c)
        BY <3>1, <3>3, <3>5, <4>1, <4>3, Zenon DEF NewValue, FallsBack, Shared
      <4>4. CASE new = NULL /\ ~Shared(c)
        <5>1. val'[c] = item[B(c)][key[c].name]
          BY <3>3, <3>5, <4>4, Zenon DEF NewValue, FallsBack
        <5>2. item'[B(c)][key[c].name] = item[B(c)][key[c].name]
          BY <3>2, <3>5, <4>4, Zenon DEF Shared
        <5> QED
          BY <3>1, <4>1, <4>4, <5>1, <5>2, Zenon
      <4> QED
        BY <4>2, <4>3, <4>4, Zenon
    <3>6. CASE c \in S /\ dict # G(c)
      <4>1. dict = B(c) /\ key[c].name \in N
        BY <1>1, <3>6, Zenon
      <4>2. /\ item'[G(c)][key[c].name] = item[G(c)][key[c].name]
            /\ item'[B(c)][key[c].name] = new
        BY <3>2, <3>6, <4>1, Zenon
      <4>3. val'[c] = IF item[G(c)][key[c].name] = NULL THEN new ELSE val[c]
        BY <3>3, <3>6, Zenon DEF NewValue, FallsBack
      <4> QED
        BY <3>1, <3>4, <4>2, <4>3, Zenon
    <3>7. CASE c \notin S
      <4>1. key[c].name \in N => dict # G(c) /\ (dict = B(c) => OnBuiltins(c) \notin watch_map_)
        BY <1>2, <2>1, <3>7, Zenon
      <4>2. item'[G(c)][key[c].name] = item[G(c)][key[c].name]
        BY <3>2, <4>1, Zenon
      <4>3. item[G(c)][key[c].name] = NULL => item'[B(c)][key[c].name] = item[B(c)][key[c].name] \/ val[c] = NULL
        BY <2>1, <3>2, <4>1, Zenon DEF Follows
      <4> QED
        BY <3>1, <3>3, <3>4, <3>7, <4>2, <4>3, Zenon
    <3> QED
      BY <3>5, <3>6, <3>7
  <2>6. /\ Shared(c)' = Shared(c)
        /\ ~Shared(c) => unicode'[G(c)] /\ (OnBuiltins(c) \in watch_map_' => unicode'[B(c)])
    BY <1>3, <1>4, <1>8, <2>1, <2>3, SMTT(60) DEF Follows, Shared
  <2>8. item'[G(c)][key[c].name] = NULL => OnBuiltins(c) \in watch_map_' \/ val'[c] = NULL
    BY <1>1, <1>3, <1>7, <2>1, <2>4
  <2>7. {B(c), G(c)} \subseteq alive'
    BY <2>1 DEF Follows
  <2> QED
    BY <1>7, <1>8, <2>2, <2>8, <2>5, <2>6, <2>7, SMTT(60) DEF Follows
<1>14. CellsInv'
  <2>1. \A c \in 1 .. used : c \in Cell
    BY CellsAssumption DEF TypeOK, Cell
  <2>2. \A c \in (1 .. used) \ map_' : val'[c] = NULL
    BY <1>1, <1>7, <2>1, SMTT(60) DEF CellsInv
  <2> QED
    BY <1>7, <1>13, <2>2, Zenon DEF CellsInv
<1>15. check' = TRUE
  <2>1. \A c \in S : dict \in {G(c), B(c)} /\ (dict = G(c) \/ unicode[G(c)])
    BY <1>1 DEF CellsInv, Follows, Shared
  <2>2. \A c \in off : OnGlobals(c) \in watch_map_
    BY <1>10 DEF CellsInv, Follows
  <2> QED
    BY <1>7, <2>1, <2>2, Zenon
<1> QED
  BY <1>9, <1>12, <1>14, <1>15

-----------------------------------------------------------------------------
LEMMA SetItemKeeps ==
  ASSUME Inv, NEW dict \in Dict, NEW n \in Name, NEW v \in Value \cup {NULL}, SetItem(dict, n, v)
  PROVE  Inv'
<1>1. \A c : c \in Watching(dict, n) <=> c \in Cell /\ \E m \in {n} : <<dict, m, c>> \in watch_map_
  BY DEF Watching
<1>2. item' \in [Dict -> [Name -> Value \cup {NULL}]]
  BY DEF SetItem, Inv, TypeOK
<1>3. \A d \in Dict, m \in Name :
        item'[d][m] = IF d = dict /\ m \in {n} THEN v ELSE item[d][m]
  BY DEF SetItem, Inv, TypeOK
<1>4. /\ Update(Watching(dict, n), dict, v) /\ unicode' = unicode /\ alive' = alive
      /\ unicode' \in [Dict -> BOOLEAN]
  BY DEF SetItem, Inv, TypeOK
<1>5. \A d \in Dict : unicode[d] => unicode'[d]
  BY <1>4
<1>6. {n} \in SUBSET Name
  OBVIOUS
<1>7. Updated(dict, {n}, v, Watching(dict, n))
  BY <1>1, <1>2, <1>3, <1>4, <1>5 DEF Updated
<1> QED
  BY <1>6, <1>7, UpdateKeeps

LEMMA ClearKeeps == ASSUME Inv, NEW dict \in Dict, Clear(dict) PROVE Inv'
<1>1. \A c : c \in WatchingAny(dict) <=> c \in Cell /\ \E m \in Name : <<dict, m, c>> \in watch_map_
  <2>1. \A c : c \in WatchingAny(dict) <=> \E m \in Name : c \in Watching(dict, m)
    BY DEF WatchingAny
  <2> QED
    BY <2>1, Zenon DEF Watching
<1>2. item' \in [Dict -> [Name -> Value \cup {NULL}]]
  BY DEF Clear, Inv, TypeOK, Empty
<1>3. \A d \in Dict, m \in Name :
        item'[d][m] = IF d = dict /\ m \in Name THEN NULL ELSE item[d][m]
  BY DEF Clear, Inv, TypeOK, Empty
<1>4. Update(WatchingAny(dict), dict, NULL) /\ alive' = alive
  BY DEF Clear
<1>5. unicode' \in [Dict -> BOOLEAN] /\ \A d \in Dict : unicode[d] => unicode'[d]
  BY Zenon DEF Clear, Inv, TypeOK
<1>6. Name \in SUBSET Name /\ NULL \in Value \cup {NULL}
  OBVIOUS
<1>7. Updated(dict, Name, NULL, WatchingAny(dict))
  BY <1>1, <1>2, <1>3, <1>4, <1>5, Zenon DEF Updated
<1> QED
  BY <1>6, <1>7, UpdateKeeps

LEMMA ForgetKeeps ==
  ASSUME Inv, NEW dict \in Dict, SetOther(dict) \/ \E from \in Dict : Clone(dict, from)
  PROVE  Inv'
<1>1. notifyDictUnwatch(dict) /\ alive' = alive /\ alive \in SUBSET Dict
  BY DEF SetOther, Clone, Inv, TypeOK
<1>2. item' \in [Dict -> [Name -> Value \cup {NULL}]] /\ \A d \in Dict \ {dict} : item'[d] = item[d]
  BY DEF SetOther, Clone, Inv, TypeOK
<1>3. unicode' \in [Dict -> BOOLEAN]
  BY Zenon DEF SetOther, Clone, Inv, TypeOK
<1>4. \A d \in Dict \ {dict} : unicode'[d] = unicode[d]
  BY DEF SetOther, Clone, Inv, TypeOK
<1>5. \A c \in map_ : {B(c), G(c)} \subseteq alive'
  BY <1>1 DEF Inv, CellsInv, Follows
<1> QED
  BY <1>1, <1>2, <1>3, <1>4, <1>5, UnwatchKeeps

LEMMA DeallocKeeps == ASSUME Inv, PlainDicts, NEW dict \in Dict, Dealloc(dict) PROVE Inv'
<1>1. /\ notifyDictUnwatch(dict) /\ alive' = alive \ {dict} /\ alive' \in SUBSET Dict
      /\ \A p \in Pair : p[1] = dict => p[2] = dict \/ p[2] \notin alive
      /\ unicode' = unicode /\ unicode' \in [Dict -> BOOLEAN]
  BY DEF Dealloc, Inv, TypeOK, PlainDicts
<1>2. item' \in [Dict -> [Name -> Value \cup {NULL}]] /\ \A d \in Dict \ {dict} : item'[d] = item[d]
  BY DEF Dealloc, Inv, TypeOK, Empty
<1>3. ASSUME NEW c \in map_ \ WatchingAny(dict) PROVE {B(c), G(c)} \subseteq alive'
  <2>1. G(c) # dict /\ {B(c), G(c)} \subseteq alive /\ <<B(c), G(c)>> \in Pair
    BY <1>3, Independent, Mapped DEF Inv, CellsInv, Follows, TypeOK
  <2>2. B(c) # dict
    BY <1>1, <2>1
  <2> QED
    BY <1>1, <2>1, <2>2
<1> QED
  BY <1>1, <1>2, <1>3, UnwatchKeeps

LEMMA NewKeeps == ASSUME Inv, NEW dict \in Dict, New(dict) PROVE Inv'
<1> USE DEF Inv
<1>1. /\ UNCHANGED <<item, key, val, used, map_, watch_map_, check>>
      /\ alive' = alive \cup {dict} /\ dict \notin alive
  BY DEF New, caches
<1>2. unicode' \in [Dict -> BOOLEAN] /\ \A d \in Dict : unicode[d] => unicode'[d]
  BY Zenon DEF New, TypeOK
<1>3. TypeOK'
  BY <1>1, <1>2 DEF TypeOK, G, B
<1>4. WatchesInv'
  BY <1>1 DEF WatchesInv, OnGlobals, OnBuiltins, G, B
<1>5. \A c \in map_ : G(c) \in Dict /\ B(c) \in Dict
  BY Mapped
<1>6. CellsInv'
  BY <1>1, <1>2, <1>5, SMTT(60) DEF CellsInv, Follows, Shared, Lookup, OnGlobals, OnBuiltins, G, B
<1> QED
  BY <1>1, <1>3, <1>4, <1>6

LEMMA InvNext == PlainDicts /\ Inv /\ [Next]_vars => Inv'
<1> SUFFICES ASSUME PlainDicts, Inv, [Next]_vars PROVE Inv'
  OBVIOUS
<1>1. ASSUME NEW p \in Pair, NEW n \in Name, getGlobalCache(p[1], p[2], n) PROVE Inv'
  <2>1. <<p[1], p[2]>> \in Pair
    BY PairAssumption
  <2> QED
    BY <1>1, <2>1, CreateKeeps
<1>2. ASSUME NEW d \in Dict, NEW n \in Name, NEW v \in Stored(d), SetItem(d, n, v) PROVE Inv'
  <2>1. v \in Value \cup {NULL}
    BY DEF Stored, PlainDicts
  <2> QED
    BY <1>2, <2>1, SetItemKeeps
<1>3. CASE UNCHANGED vars
  BY <1>3, SMTT(60) DEF vars, dicts, caches, Inv, TypeOK, WatchesInv, CellsInv, Follows, Shared, Lookup,
              OnGlobals, OnBuiltins, G, B
<1> QED
  BY <1>1, <1>2, <1>3, ForgetKeeps, ClearKeeps, DeallocKeeps, NewKeeps, ClearAllKeeps DEF Next

LEMMA InvHolds == PlainDicts /\ Spec => []Inv
<1> SUFFICES ASSUME PlainDicts PROVE Spec => []Inv
  OBVIOUS
<1>1. Inv /\ [Next]_vars => Inv'
  BY InvNext
<1> QED
  BY <1>1, InvInit, PTL DEF Spec

\* Compiled code never reads a wrong global: whatever happens to globals and
\* builtins in whatever order, a cell is NULL or what the lookup gives
\* (initCache, updateCache, notifyDictUnwatch).
THEOREM CachesFollowDicts == PlainDicts /\ Spec => []CacheIsLookup
<1>1. Inv => CacheIsLookup
  BY DEF Inv, CellsInv, Follows, CacheIsLookup
<1> QED
  BY <1>1, InvHolds, PTL

\* watch_map_ never points to an erased cell and map_ has no key of a freed
\* dict, so that no update dereferences either (updateCache).
THEOREM RegistriesStayLive == PlainDicts /\ Spec => []RegistriesLive
<1>1. Inv => RegistriesLive
  BY DEF Inv, WatchesInv, CellsInv, Follows, RegistriesLive
<1> QED
  BY <1>1, InvHolds, PTL

\* No JIT_CHECK of updateCache and unwatchDictKey can fail, whatever dicts are
\* changed, watched and freed before.
THEOREM CacheChecksHold == PlainDicts /\ Spec => []ChecksHold
<1>1. Inv => ChecksHold
  BY DEF Inv, WatchesInv, CellsInv, Follows, ChecksHold
<1> QED
  BY <1>1, InvHolds, PTL

\* A cell that was forgotten is never written again: compiled code that still
\* points to it goes on to ask the dicts.
THEOREM ForgottenForEver == PlainDicts /\ Spec => ForgottenStaysNull
<1> SUFFICES ASSUME PlainDicts PROVE Spec => ForgottenStaysNull
  OBVIOUS
<1>1. ASSUME Inv, Inv', [Next]_vars, NEW c \in 1 .. used, c \notin map_
      PROVE  val[c] = NULL /\ (vars' # vars => val'[c] = NULL)
  <2>1. val[c] = NULL /\ used \in Nat /\ c \in Cell
    BY <1>1, CellsAssumption DEF Inv, CellsInv, TypeOK, Cell
  <2>2. CASE map_' \subseteq map_ /\ used' = used
    BY <1>1, <2>1, <2>2 DEF Inv, CellsInv
  <2>3. ASSUME NEW b, NEW g, NEW n, getGlobalCache(b, g, n) PROVE val'[c] = NULL
    BY <1>1, <2>1, <2>3 DEF getGlobalCache, initCache, Inv, TypeOK
  <2>4. ASSUME NEW S, NEW d, NEW v, Update(S, d, v) \/ notifyDictUnwatch(d)
        PROVE  map_' \subseteq map_ /\ used' = used
    BY <2>4, Zenon DEF Update, notifyDictUnwatch
  <2>5. CASE ClearAll \/ \E d \in Dict : New(d)
    BY <2>2, <2>5 DEF ClearAll, New, caches
  <2>6. ASSUME NEW d \in Dict, NEW n, NEW v,
               SetItem(d, n, v) \/ Clear(d) \/ SetOther(d) \/ Dealloc(d) \/ \E f \in Dict : Clone(d, f)
        PROVE  map_' \subseteq map_ /\ used' = used
    BY <2>4, <2>6 DEF SetItem, Clear, SetOther, Dealloc, Clone
  <2> QED
    BY <1>1, <2>1, <2>2, <2>3, <2>5, <2>6 DEF Next
<1>2. Inv /\ Inv' /\ [Next]_vars =>
        [\A c \in 1 .. used : c \notin map_ => val[c] = NULL /\ val'[c] = NULL]_vars
  BY <1>1
<1>3. Spec => []Inv
  BY InvHolds
<1> QED
  BY <1>2, <1>3, PTL DEF Spec, ForgottenStaysNull
=============================================================================
