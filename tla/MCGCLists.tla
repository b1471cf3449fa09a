------------------------------ MODULE MCGCLists ------------------------------
(* GCLists for model checking: every heap of three objects.                 *)
EXTENDS GCLists

AllHeaps ==
  {h \in [edges : SUBSET (Obj \X Obj \ {<<1, 1>>, <<3, 3>>}),
          roots : SUBSET Obj, immortal : {{}, {1}, {2}, {3}, {1, 3}}] :
     \A o \in Obj : o \in h.roots \cup h.immortal \/ \E e \in h.edges : e[2] = o}
=============================================================================
