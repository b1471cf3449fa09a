--------------------------- MODULE MCBatchCompile ----------------------------
(* A function f, the code C nested in its code F, and closures g and h that *)
(* run C: the units g, h and C have one key.  C loads an attribute from     *)
(* instances of t1, which may hold a data descriptor of type td.  Either    *)
(* functions come and go, allocations fail and the types keep their shapes, *)
(* or the types change under one function and an inline cache that also     *)
(* sees instances of t2.                                                    *)
EXTENDS BatchCompile, TLC

CONSTANTS f, g, h, F, C, t1, t2, td, plain, descr, w1, w2, k

MCFunc == {f, g, h}
MCCode == {F, C}
MCMaxArts == F :> 1 @@ C :> 2
MCArt == {<<F, 1>>, <<C, 1>>, <<C, 2>>}
MCCodeOf == f :> F @@ g :> C @@ h :> C
MCNestedIn == F :> {C} @@ C :> {}
MCReceivers == F :> {} @@ C :> {t1}
MCDescrOf == plain :> NULL @@ descr :> td
MCShapes == [x \in {t1, t2} |-> [attr : {plain, descr}, slot : {FALSE}]]
         @@ td :> [attr : {plain}, slot : BOOLEAN]
FixedShapes == [x \in {t1, t2} |-> [attr : {descr}, slot : {FALSE}]]
            @@ td :> [attr : {plain}, slot : {TRUE}]
MCPrograms ==
  {[funcs |-> {f, g}, types |-> {t1}, shapes |-> FixedShapes, caches |-> {},
    memory_fails |-> TRUE],
   [funcs |-> {g, h}, types |-> {t1}, shapes |-> FixedShapes, caches |-> {},
    memory_fails |-> TRUE],
   [funcs |-> {g}, types |-> {t1, t2, td}, shapes |-> MCShapes, caches |-> {k},
    memory_fails |-> FALSE]}
MCSymmetry == Permutations({w1, w2})
=============================================================================
