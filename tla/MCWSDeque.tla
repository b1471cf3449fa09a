----------------------------- MODULE MCWSDeque -----------------------------
(* WSDeque for model checking: the thieves are interchangeable.             *)
EXTENDS WSDeque, TLC

Symmetry == Permutations(Thieves)
=============================================================================
