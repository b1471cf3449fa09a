---------------------------- MODULE MCGlobalCache ----------------------------
(* GlobalCache for model checking: a module, its builtins, and the module   *)
(* object of builtins itself.                                               *)
EXTENDS GlobalCache

CONSTANTS builtins, globals

Pairs == {<<builtins, globals>>, <<builtins, builtins>>}
OnePair == {<<builtins, globals>>}
=============================================================================
