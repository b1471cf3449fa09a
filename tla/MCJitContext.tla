---------------------------- MODULE MCJitContext ----------------------------
EXTENDS JitContext, TLC
Symmetry == Permutations(Functions) \cup Permutations(Codes) \cup Permutations(Artifacts)

\* What finalizers do inside an operation.  No publication starts inside the
\* allocations of another one; where the artifact being published is held by
\* borrow only, nothing that could free it runs.  enable() is called at the
\* outermost level and before a compilation only, to have fewer states.
MCReentrant ==
  [p \in Points |->
     CASE p \in {"released", "callbacks"} -> Operations \ {"call", "enable"}
       [] p = "body" -> {"force_compile", "force_uncompile", "set_code", "die"}
       [] p = "preload" -> Operations \ {"call", "new", "anchor"}
       [] p = "compile" -> {"force_compile", "disable"}
       [] p \in {"create", "dict", "watch"} ->
            {"force_uncompile", "disable", "set_code", "anchor", "die"}
       [] p = "borrowed" -> {"disable", "set_code"}]
=============================================================================
