------------------------------ MODULE MCParMark ------------------------------
(* ParMark for model checking.                                              *)
EXTENDS ParMark

Edges == {1, 2, 3} \X {1, 2, 3} \ {<<o, o>> : o \in {1, 2, 3}}

\* Two workers on the heaps of three objects without self references: up to
\* two references and any one or two roots, or three references and the first
\* object as the root.
TwoWorkers ==
  [workers : {2},
   edges : {e \in SUBSET Edges : Cardinality(e) <= 2},
   roots : {r \in SUBSET {1, 2, 3} : Cardinality(r) \in {1, 2}}]
  \cup [workers : {2}, edges : {e \in SUBSET Edges : Cardinality(e) = 3}, roots : {{1}}]

\* Three workers on a fan with two ways to one object.
ThreeWorkers ==
  [workers : {3}, edges : {{<<1, 2>>, <<1, 3>>, <<2, 3>>}}, roots : {{1}}]

AllHeaps == TwoWorkers \cup ThreeWorkers
=============================================================================
