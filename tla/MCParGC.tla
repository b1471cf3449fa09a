------------------------------- MODULE MCParGC -------------------------------
(* ParGC for model checking.                                                *)
EXTENDS ParGC
=============================================================================
