--------------------------- MODULE MCWSDequeWeak ---------------------------
(* WSDequeWeak for model checking: the thieves are interchangeable.         *)
EXTENDS WSDequeWeak

Symmetry == Permutations(Thieves)
=============================================================================
