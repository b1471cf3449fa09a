----------------------------- MODULE MCGCCollect -----------------------------
(* GCCollect for model checking: a, b and c are containers, w a weak reference *)
(* with a callback.                                                         *)
EXTENDS GCCollect, TLC

CONSTANTS a, b, c, w

Containers == {a, b, c}

\* Every heap in which each object has a reference to it.
AllHeaps ==
  {h \in [refs : {r @@ (w :> {}) : r \in [Containers -> SUBSET (Containers \cup {w})]},
          ext : SUBSET (Containers \cup {w}),
          wr : [{w} -> Containers \cup {NONE}]] :
     \A o \in Containers \cup {w} : o \in h.ext \/ \E p \in Containers : o \in h.refs[p]}

\* Cycles, with and without a tail, held by nothing, by a root or by w's holder;
\* w refers to an object with a finalizer, to the one with tp_del or to nothing.
\* b has no tp_clear: a reference of its to itself keeps it, and a, for ever.
CycleHeaps ==
  {h \in AllHeaps :
     /\ h.refs[a] \in {{b}, {b, w}} /\ h.refs[b] \in {{a}, {a, b}, {a, c}, {c}}
     /\ h.refs[c] \in {{}, {a}, {w}}
     /\ h.ext \subseteq {a, w} /\ h.wr[w] # b}
=============================================================================
