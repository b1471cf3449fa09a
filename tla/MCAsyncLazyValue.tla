-------------------------- MODULE MCAsyncLazyValue ---------------------------
(* Two computations of one value, of which the first may fail and both may  *)
(* come to run at a time, and three waiters.                                *)
EXTENDS AsyncLazyValue
CONSTANTS c1, c2, f1, f2, f3
=============================================================================
