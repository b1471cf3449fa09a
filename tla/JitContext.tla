----------------------------- MODULE JitContext -----------------------------
(***************************************************************************)
(* The life of compiled code on CPython 3.11, in the build that gives      *)
(* every artifact (CompiledFunction) an entry stub of its own: which       *)
(* function holds which artifact, what the context's registries say of it, *)
(* and who keeps it in memory.  One interpreter runs; the interleavings    *)
(* are those of the Python code the interpreter runs in the middle of an   *)
(* operation, wherever the operation allocates (an allocation can start a  *)
(* collection, and a collection runs finalizers) or drops a reference.     *)
(*                                                                         *)
(* `st` is the context with the functions it serves; `stack` holds the     *)
(* operations in progress, the innermost last.  All functions share one    *)
(* pair of globals and builtins, so a compilation key is a code object.    *)
(***************************************************************************)
EXTENDS Naturals, Sequences, FiniteSets

CONSTANTS Functions,      \* function objects, by address
          Codes,          \* code objects
          Artifacts,      \* CompiledFunction objects, by address
          None,           \* the null pointer; as an entry point, the interpreter
          MaxDepth,       \* bound: operations in progress at once
          MaxDeferred,    \* bound: displaced anchors waiting for their release
          Reentrant       \* what Python may do at each point of an operation

\* The points of an operation where Python runs: preloading, code generation
\* and the allocation of the artifact, of a dictionary and of a weak reference;
\* the release of a reference, the body of a call, weak reference callbacks.
Points == {"preload", "compile", "create", "dict", "watch", "borrowed",
           "released", "body", "callbacks"}

Operations == {"force_compile", "force_uncompile", "attach", "enable", "disable",
               "call", "set_code", "anchor", "die", "new"}

ASSUME BoundsAssumption == MaxDepth \in Nat \ {0} /\ MaxDeferred \in Nat
ASSUME ReentrantAssumption == Reentrant \in [Points -> SUBSET Operations]

VARIABLES st, stack
vars == <<st, stack>>

OrNone(S) == S \cup {None}

\* The strong references to artifacts: the functions' dictionaries, the
\* queue of displaced anchors, a dictionary that was lost, and the locals of
\* the operations in progress.
Held(s, stk) ==
  {s.anchor[f] : f \in Functions} \cup s.leaked
    \cup {s.deferred_anchor_releases[i] : i \in DOMAIN s.deferred_anchor_releases}
    \cup {stk[i].pin : i \in DOMAIN stk} \cup {stk[i].displaced_anchor : i \in DOMAIN stk}

\* Context::forgetCompiledFunction, for the artifacts D: each dismantles only
\* what still names it.
forgetCompiledFunction(s, D) ==
  LET Own(m, f) == m[f] \in D /\ f \in s.functions[m[f]]
      Drop(m)   == [f \in Functions |-> IF Own(m, f) THEN None ELSE m[f]]
      Keyed(m)  == [c \in Codes |->
                      IF m[c] \in D /\ s.runtime[m[c]] = c THEN None ELSE m[c]]
  IN  [s EXCEPT
        !.vectorcall       = [f \in Functions |->
                                IF Own(s.compiled_funcs, f) THEN None ELSE @[f]],
        !.compiled_funcs   = Drop(@),
        !.associated_funcs = Drop(@),
        !.jit_compiled     = Keyed(@),
        !.compiled_codes   = Keyed(@)]

\* CompiledFunction::clear for the artifacts D: one with an owner leaves its
\* registries; one without only takes its stub off the members that still
\* enter through it.
clear(s, D) ==
  LET owned == D \cap s.owner
      bare  == D \ s.owner
      s1    == forgetCompiledFunction(s, owned)
  IN  [s1 EXCEPT
        !.vectorcall = [f \in Functions |->
                          IF @[f] \in bare /\ f \in s.functions[@[f]] THEN None ELSE @[f]],
        !.functions  = [a \in Artifacts |-> IF a \in owned THEN {} ELSE @[a]],
        !.owner      = @ \ owned]

\* Whatever lost its last reference is destroyed (~CompiledFunction).
Release(s, stk) ==
  LET D == s.resident \ Held(s, stk)
      s1 == clear(s, D)
  IN  IF D = {} THEN s
      ELSE [s1 EXCEPT !.resident  = @ \ D,
                      !.functions = [a \in Artifacts |-> IF a \in D THEN {} ELSE @[a]],
                      !.runtime   = [a \in Artifacts |-> IF a \in D THEN None ELSE @[a]]]

\* Ci_JitShell311_InstalledArtifact: a call of f runs machine code now.
isJitCompiled(s, f) ==
  LET a == s.jit_compiled[s.code[f]]
  IN  s.usable /\ a # None /\ s.vectorcall[f] = a /\ f \in s.functions[a]

\* Ci_JitShell311_ArtifactEntry: the stub f is called through takes the call.
EntersMachineCode(s, f) ==
  /\ s.usable
  /\ \E a \in s.resident : s.vectorcall[f] = a /\ s.runtime[a] = s.code[f]

\* Ci_JitShell311_ExecuteRefusal: nothing is published while the JIT is paused.
\* The refusals by the shape of the code or by its namespaces do not change
\* while the code object lives: no request for such code gets past them, and it
\* is a member of Codes that is never compiled.
ExecuteRefusal(s) == ~s.usable

Live(s, f) == s.life[f] = "live"

-----------------------------------------------------------------------------
(* An operation in progress.  The locals of finalizeFunc() carry its names. *)

Frame(op, f) ==
  [op |-> op, pc |-> "begin", func |-> f, compiled |-> None, key |-> None,
   pin |-> None, prior |-> None, prior_was_installed |-> FALSE,
   had_own_association |-> FALSE, was_member |-> FALSE, displaced_anchor |-> None,
   watch_created |-> FALSE, result |-> "none", todo |-> {}, state_before |-> FALSE]

Top == stack[Len(stack)]
At(pc) == stack # <<>> /\ Top.pc = pc
Below == SubSeq(stack, 1, Len(stack) - 1)

\* The innermost operation goes on as fr, in state s.
Go(s, fr) == /\ stack' = Append(Below, fr)
             /\ st' = Release(s, Append(Below, fr))

\* The innermost operation returns.
Return(s) == stack' = Below /\ st' = Release(s, Below)

\* Where the innermost operation stands; "borrowed" is an allocation in a
\* publication that holds no reference to the artifact it publishes.
Point == IF Top.pc \in {"dict", "watch"} /\ Top.pin = None THEN "borrowed" ELSE Top.pc

\* Python code runs: between operations, or inside one that allows it.
PythonRuns == stack = <<>> \/ Point \in Points

\* Python code starts operation op: always between operations, and inside one
\* only what the configuration lets finalizers do.
MayStart(op) ==
  /\ st.check
  /\ \/ stack = <<>>
     \/ stack # <<>> /\ Len(stack) < MaxDepth /\ Point \in Points /\ op \in Reentrant[Point]

\* The bound on the queue: no publication starts with the queue full.
Room == Len(st.deferred_anchor_releases) < MaxDeferred

Start(s, fr) == /\ stack' = Append(stack, fr)
                /\ st' = Release(s, Append(stack, fr))

\* An operation that runs to its end without running Python in the middle.
Do(s) == UNCHANGED stack /\ st' = Release(s, stack)

-----------------------------------------------------------------------------
(* Context::finalizeFunc: publish artifact fr.compiled on function fr.func.  *)
(* Each operator takes the state and the frame and gives both back; the      *)
(* publication runs on until it allocates ("dict", "watch") or "returned".   *)

Pair(s, fr) == [s |-> s, fr |-> fr]

Returned(s, fr, result) ==
  Pair(s, [fr EXCEPT !.pc = "returned", !.result = result, !.displaced_anchor = None])

\* Put the anchor the publication displaced back on the function.
RestoreAnchor(s, fr) == [s EXCEPT !.anchor[fr.func] = fr.displaced_anchor]

\* The unwind: put back what predated the attempt, erase what it created.
Unwind(s, fr) ==
  LET f == fr.func
      a == fr.compiled
      s1 == RestoreAnchor(s, fr)
  IN  [s1 EXCEPT
        !.func_death_watch[f] = IF fr.watch_created THEN "none" ELSE @,
        !.functions[a] = IF fr.was_member THEN @ ELSE @ \ {f},
        !.associated_funcs[f] =
           CASE fr.prior # None -> fr.prior
             [] fr.prior = None /\ ~fr.had_own_association /\ @ = a -> None
             [] OTHER -> @,
        !.compiled_funcs[f] =
           IF fr.prior # None /\ fr.prior_was_installed THEN fr.prior ELSE @]

\* Mutant: the function stays a member of the artifact it leaves.
SettleKeepsMember(s, fr) ==
  [s EXCEPT !.vectorcall[fr.func] = fr.compiled,
            !.deopted_funcs = @ \ {fr.func},
            !.deferred_anchor_releases =
               IF fr.displaced_anchor = None THEN @ ELSE Append(@, fr.displaced_anchor)]

\* Mutant: a takeover leaves the entry point of the prior artifact.
SettleKeepsEntry(s, fr) ==
  LET f == fr.func
  IN  [s EXCEPT
        !.vectorcall[f] = IF fr.prior = None THEN fr.compiled ELSE @,
        !.deopted_funcs = @ \ {f},
        !.functions = [b \in Artifacts |->
                         IF b = fr.prior THEN @[b] \ {f} ELSE @[b]],
        !.deferred_anchor_releases =
           IF fr.displaced_anchor = None THEN @ ELSE Append(@, fr.displaced_anchor)]

\* The settled tail: the entry point, then the end of the prior claim.
Settle(s, fr) ==
  LET f == fr.func
  IN  [s EXCEPT
        !.vectorcall[f] = fr.compiled,
        !.deopted_funcs = @ \ {f},
        !.functions = [b \in Artifacts |->
                         IF b = fr.prior THEN @[b] \ {f} ELSE @[b]],
        !.deferred_anchor_releases =
           IF fr.displaced_anchor = None THEN @ ELSE Append(@, fr.displaced_anchor)]

\* Everything after the death watch is armed.  `fail` is the allocation that
\* fails: the watch, the association map, the installed registry, or "no".
Commit(s, fr, fail) ==
  LET f == fr.func
      a == fr.compiled
      armed == IF fail # "watch" /\ s.func_death_watch[f] = "none"
               THEN [s EXCEPT !.func_death_watch[f] = "armed"] ELSE s
      subject_moved == a \notin s.owner \/ s.code[f] # s.runtime[a]
      associated == [armed EXCEPT !.associated_funcs[f] = a]
      installed == [associated EXCEPT !.compiled_funcs[f] = a]
  IN  IF fail = "watch" THEN Returned(Unwind(armed, fr), fr, "error")
      ELSE IF subject_moved THEN Returned(Unwind(armed, fr), fr, "true")
      ELSE IF fail = "assoc" THEN Returned(Unwind(armed, fr), fr, "error")
      ELSE IF fail = "install" THEN Returned(Unwind(associated, fr), fr, "error")
      ELSE IF ~fr.prior_was_installed /\ s.compiled_funcs[f] # None
           THEN Returned(Unwind(associated, fr), fr, "true")
      ELSE Returned(Settle(installed, fr), fr, "true")

\* associateFunctionWithCompiled, the owner check that follows it, and the
\* arming of the death watch if the function is already under it.
Associate(s, fr, fail) ==
  LET f == fr.func
      a == fr.compiled
      fr1 == [fr EXCEPT !.displaced_anchor = s.anchor[f],
                        !.watch_created = s.func_death_watch[f] = "none"]
      s1 == [s EXCEPT !.anchor[f] = a, !.functions[a] = @ \cup {f}]
  IN  IF fail = "member" THEN Returned(s, fr1, "error")
      ELSE IF a \notin s.owner
           THEN Returned([RestoreAnchor(s1, fr1) EXCEPT !.functions[a] = @ \ {f}],
                         fr1, "false")
      ELSE IF fr1.watch_created THEN Pair(s1, [fr1 EXCEPT !.pc = "watch"])
      ELSE Commit(s1, fr1, fail)

\* The function's dictionary arrives; one that Python gave the function while
\* it was being allocated is overwritten and lost with what it holds.
NewDict(s, fr) ==
  LET f == fr.func
  IN  [s EXCEPT !.has_dict[f] = TRUE, !.anchor[f] = None,
                !.leaked = @ \cup ({s.anchor[f]} \ {None})]

finalizeFunc(s, fr, fail) ==
  LET f == fr.func
      a == fr.compiled
      assoc == s.associated_funcs[f]
      prior == IF assoc = a THEN None ELSE assoc
      fr1 == [fr EXCEPT
                !.prior = prior,
                !.prior_was_installed = prior # None /\ s.compiled_funcs[f] = prior,
                !.had_own_association = assoc = a,
                !.was_member = f \in s.functions[a]]
      s1 == [s EXCEPT !.owner = @ \cup {a}]
  IN  IF ExecuteRefusal(s) THEN Returned(s, fr, "true")
      ELSE IF fail = "reserve" THEN Returned(s1, fr1, "error")
      ELSE IF s.compiled_funcs[f] = a
           THEN Returned([s1 EXCEPT !.deopted_funcs = @ \ {f}], fr1, "true")
      ELSE IF ~s.has_dict[f] THEN Pair(s1, [fr1 EXCEPT !.pc = "dict"])
      ELSE Associate(s1, fr1, fail)

\* The allocations that may fail from each point on.  They are followed where
\* the caller survives them: a compile request that meets one ends the process
\* (JIT_CHECK in compile_func).
Failures(op, pc) ==
  IF op \notin {"enable", "attach"} THEN {"no"}
  ELSE {"no", "assoc", "install"}
       \cup (IF pc = "watch" THEN {"watch"} ELSE {"member"})
       \cup (IF pc = "dict" THEN {"dict"} ELSE {})
       \cup (IF pc = "begin" THEN {"reserve"} ELSE {})

\* The publication goes on once its dictionary, or its death watch, is there.
PublishDict ==
  /\ At("dict")
  /\ \E fail \in Failures(Top.op, "dict") :
       LET r == IF fail = "dict" THEN Returned(st, Top, "error")
                ELSE Associate(NewDict(st, Top), Top, fail)
       IN  Go(r.s, r.fr)

PublishWatch ==
  /\ At("watch")
  /\ \E fail \in Failures(Top.op, "watch") :
       LET r == Commit(st, Top, fail) IN Go(r.s, r.fr)

-----------------------------------------------------------------------------
(* Draining the deferred anchors: one release at a time, Python after each. *)

DrainOne ==
  /\ stack # <<>> /\ Top.pc \in {"drain", "released"}
  /\ st.deferred_anchor_releases # <<>>
  /\ Go([st EXCEPT !.deferred_anchor_releases = SubSeq(@, 1, Len(@) - 1)],
        [Top EXCEPT !.pc = "released"])

Drained == /\ stack # <<>> /\ Top.pc \in {"drain", "released"}
           /\ st.deferred_anchor_releases = <<>>

-----------------------------------------------------------------------------
(* force_compile: compileFunction, compile_func, compilePreloaderImpl and    *)
(* makeCompiledFunction.                                                     *)

\* compile_func fixes the code the request is about and preloads.
compile_func(f) ==
  [Frame("force_compile", f) EXCEPT !.pc = "preload", !.key = st.code[f]]

\* The request is accepted: the function is put under the death watch and
\* preloading runs Python.
force_compile(f) ==
  /\ MayStart("force_compile") /\ Room /\ Live(st, f) /\ ~ExecuteRefusal(st) /\ ~isJitCompiled(st, f)
  /\ Start([st EXCEPT !.func_death_watch[f] = "armed"], compile_func(f))

\* Mutant: a key that is being compiled is not refused.
compilePreloaderTwice ==
  /\ At("preload")
  /\ LET a == st.compiled_codes[Top.key]
         r == finalizeFunc(st, [Top EXCEPT !.compiled = a], "no")
     IN  IF st.code[Top.func] # Top.key \/ ExecuteRefusal(st) THEN Return(st)
         ELSE IF a # None THEN Go(r.s, r.fr)
         ELSE Go([st EXCEPT !.active_compiles = @ \cup {Top.key}],
                 [Top EXCEPT !.pc = "compile"])

\* compilePreloaderImpl: refuse if the code moved or the JIT was paused; attach
\* to the artifact of the same key; else mark the key as being compiled.
compilePreloader ==
  /\ At("preload")
  /\ LET a == st.compiled_codes[Top.key]
         r == finalizeFunc(st, [Top EXCEPT !.compiled = a], "no")
     IN  IF st.code[Top.func] # Top.key \/ ExecuteRefusal(st)
            \/ (a = None /\ Top.key \in st.active_compiles)
         THEN Return(st)
         ELSE IF a # None THEN Go(r.s, r.fr)
         ELSE Go([st EXCEPT !.active_compiles = @ \cup {Top.key}],
                 [Top EXCEPT !.pc = "compile"])

\* Code generation ends: without machine code, or with it, and the
\* CompiledFunction object is allocated (the bound: if one is left).
CompileFailed ==
  /\ At("compile")
  /\ Return([st EXCEPT !.active_compiles = @ \ {Top.key}])

Compiled ==
  /\ At("compile") /\ st.resident # Artifacts
  /\ Go([st EXCEPT !.active_compiles = @ \ {Top.key}], [Top EXCEPT !.pc = "create"])

\* makeCompiledFunction, once the object is allocated: an artifact whose
\* subject moved is dropped; else it is filed under its key and published.  (A
\* failed allocation, of the code's extra block or of the entry, ends the
\* process as above.)
makeCompiledFunction ==
  /\ At("create")
  /\ \E a \in Artifacts \ st.resident :
       LET made == [st EXCEPT !.resident = @ \cup {a}, !.runtime[a] = Top.key]
           filed == [made EXCEPT !.compiled_codes[Top.key] = a]
           r == finalizeFunc(filed, [Top EXCEPT !.compiled = a, !.pin = a], "no")
       IN  IF ExecuteRefusal(st) \/ st.code[Top.func] # Top.key THEN Return(st)
           ELSE IF st.compiled_codes[Top.key] # None
                THEN Return([st EXCEPT !.check = FALSE])
           ELSE Go(r.s, r.fr)

\* finalizeFunc has returned to compilePreloaderImpl, which found the artifact
\* under the key: a failure without an exception fails its JIT_CHECK.
LookupReturn ==
  /\ At("returned") /\ Top.op = "force_compile" /\ Top.pin = None
  /\ Return([st EXCEPT !.check = @ /\ Top.result # "false"])

\* finalizeFunc has returned to makeCompiledFunction: a refusal takes the key
\* back; a success caches the artifact on the code.  Then the anchors drain.
MakeReturn ==
  /\ At("returned") /\ Top.op = "force_compile" /\ Top.pin # None
  /\ IF Top.result = "false" THEN Return([st EXCEPT !.compiled_codes[Top.key] = None])
     ELSE Go([st EXCEPT !.jit_compiled[Top.key] = Top.compiled],
             [Frame("force_compile", Top.func) EXCEPT
                !.pc = IF Top.pin \in Held(st, Below) THEN "drain" ELSE "released"])

\* The verdict, once the anchors have drained.
CompileDone == Drained /\ Top.op = "force_compile" /\ Return(st)

-----------------------------------------------------------------------------
(* attachFreshImpl311: an interpreted call meets an artifact of its code.   *)

attachFresh(f) ==
  LET a == st.jit_compiled[st.code[f]]
  IN  /\ MayStart("attach") /\ Room /\ Live(st, f) /\ ~ExecuteRefusal(st) /\ ~EntersMachineCode(st, f)
      /\ a # None /\ f \notin st.functions[a]
      /\ \E fail \in Failures("attach", "begin") :
           LET r == finalizeFunc(st, [Frame("attach", f) EXCEPT !.compiled = a, !.pin = a], fail)
           IN  Start(r.s, r.fr)

AttachReturn ==
  /\ At("returned") /\ Top.op = "attach"
  /\ Return(st)

-----------------------------------------------------------------------------
(* force_uncompile.                                                         *)

\* Mutant: the claim of a parked function is not ended.
funcDestroyedInstalled(s, f) ==
  [s EXCEPT !.functions = [a \in Artifacts |->
                             IF a = s.compiled_funcs[f] THEN @[a] \ {f} ELSE @[a]],
            !.compiled_funcs[f] = None,
            !.associated_funcs[f] = IF s.compiled_funcs[f] = None THEN @ ELSE None,
            !.deopted_funcs = @ \ {f}]

\* Context::funcDestroyed: erase the registries' records of f.
funcDestroyed(s, f) ==
  [s EXCEPT !.functions = [a \in Artifacts |->
                             IF a \in {s.compiled_funcs[f], s.associated_funcs[f]}
                             THEN @[a] \ {f} ELSE @[a]],
            !.compiled_funcs[f] = None,
            !.associated_funcs[f] = None,
            !.deopted_funcs = @ \ {f}]

hasCompilationState(s, f) ==
  \/ s.associated_funcs[f] # None
  \/ s.compiled_funcs[f] # None
  \/ f \in s.deopted_funcs

\* Context::forgetCodeForArtifact and forgetCodeEntry: retire a, if its key
\* still names it.  A retired artifact keeps its runtime until it is destroyed.
forgetCodeForArtifact(s, a) ==
  LET key == s.runtime[a]
      s1 == [s EXCEPT !.jit_compiled[key] = IF @ = a THEN None ELSE @]
  IN  IF a = None THEN s
      ELSE IF s.compiled_codes[key] # a THEN s
      ELSE [clear(s1, {a}) EXCEPT !.compiled_codes[key] = None]

\* Up to the settlement no Python runs; then the claimed artifact and the
\* anchors taken off its members are released, and the queue drains.
force_uncompile(f) ==
  LET claimed == st.associated_funcs[f]
      members == IF claimed = None THEN {} ELSE st.functions[claimed] \cup {f}
      unpublished == funcDestroyed([st EXCEPT !.vectorcall[f] = None], f)
      unanchored == [unpublished EXCEPT
                       !.anchor = [g \in Functions |->
                                     IF g \in members /\ @[g] = claimed THEN None ELSE @[g]]]
  IN  /\ MayStart("force_uncompile") /\ Live(st, f) /\ hasCompilationState(st, f)
      /\ Start(forgetCodeForArtifact(unanchored, claimed),
               [Frame("force_uncompile", f) EXCEPT !.pc = "released"])

UncompileDone == Drained /\ Top.op = "force_uncompile" /\ Return(st)

-----------------------------------------------------------------------------
(* disable() and enable().                                                  *)

isFunctionDeathPending(s, f) == s.func_death_watch[f] = "cleared"

\* disable_jit_impl; with deopt_all every installed function is deopted and
\* parked, but one whose death is pending is left to its callback, and one
\* that cannot be watched is not parked.
disable(deopt_all) ==
  LET gone == {f \in Functions : /\ deopt_all
                                 /\ st.compiled_funcs[f] # None
                                 /\ ~isFunctionDeathPending(st, f)}
  IN  /\ MayStart("disable") /\ (st.usable \/ gone # {})
      /\ \E missed \in SUBSET {f \in gone : st.func_death_watch[f] = "none"} :
         Do([st EXCEPT
               !.vectorcall     = [f \in Functions |-> IF f \in gone THEN None ELSE @[f]],
               !.compiled_funcs = [f \in Functions |-> IF f \in gone THEN None ELSE @[f]],
               !.deopted_funcs  = @ \cup (gone \ missed),
               !.func_death_watch = [f \in Functions |-> IF f \in gone \ missed THEN "armed" ELSE @[f]],
               !.usable = FALSE])

\* enable_jit_impl: the state flips first, then a snapshot of the parked
\* functions is walked.
enable ==
  /\ MayStart("enable") /\ (~st.usable \/ st.deopted_funcs # {})
  /\ Start([st EXCEPT !.usable = TRUE],
           [Frame("enable", None) EXCEPT
              !.pc = "walk", !.result = "true", !.state_before = st.usable,
              !.todo = {f \in st.deopted_funcs : ~isFunctionDeathPending(st, f)}])

\* reoptFuncWithContext for one function of the snapshot.
reoptFunc ==
  /\ At("walk")
  /\ \E f \in Top.todo :
       LET rest == [Top EXCEPT !.todo = @ \ {f}]
           a == st.compiled_codes[st.code[f]]
       IN  IF f \notin st.deopted_funcs \/ st.compiled_funcs[f] # None
           THEN Go(st, rest)
           ELSE IF a = None THEN Go([st EXCEPT !.deopted_funcs = @ \ {f}], rest)
           ELSE IF ExecuteRefusal(st) THEN Go(st, rest)
           ELSE \E fail \in Failures("enable", "begin") :
                  LET r == finalizeFunc(st, [rest EXCEPT !.func = f, !.compiled = a], fail)
                  IN  Go(r.s, r.fr)

\* A failed republication stops the walk; the anchors drain either way.
ReoptReturn ==
  /\ At("returned") /\ Top.op = "enable"
  /\ LET fr == [Frame("enable", None) EXCEPT
                  !.state_before = Top.state_before, !.todo = Top.todo]
     IN  Go(st, IF Top.result = "error" THEN [fr EXCEPT !.pc = "drain", !.result = "error"]
                ELSE [fr EXCEPT !.pc = "walk", !.result = "true"])

WalkDone ==
  /\ At("walk") /\ Top.todo = {}
  /\ Go(st, [Top EXCEPT !.pc = "drain"])

\* A walk that failed hands the flip back, unless a newer decision paused the
\* JIT already.
EnableDone ==
  /\ Drained /\ Top.op = "enable"
  /\ Return([st EXCEPT !.usable = @ /\ ~(Top.result = "error" /\ ~Top.state_before)])

-----------------------------------------------------------------------------
(* Calls, and what Python code does to a function.                          *)

\* A call through the artifact's stub pins the artifact for its duration.
Call(f) ==
  /\ MayStart("call") /\ Live(st, f) /\ EntersMachineCode(st, f)
  /\ Start(st, [Frame("call", f) EXCEPT !.pc = "body", !.pin = st.vectorcall[f]])

CallReturn == /\ stack # <<>> /\ Top.op = "call"
              /\ Return(st)

\* f.__code__ = c: 3.11 has no function watcher, nothing is told.
SetCode(f, c) ==
  /\ MayStart("set_code") /\ Live(st, f) /\ st.code[f] # c
  /\ Do([st EXCEPT !.code[f] = c])

\* The anchor is an ordinary entry of f.__dict__: it can be deleted ...
DeleteAnchor(f) ==
  /\ MayStart("anchor") /\ Live(st, f) /\ st.anchor[f] # None
  /\ Do([st EXCEPT !.anchor[f] = None])

\* ... and copied onto another function.
CopyAnchor(f, g) ==
  /\ MayStart("anchor") /\ Live(st, f) /\ Live(st, g)
  /\ st.anchor[f] \notin {None, st.anchor[g]}
  /\ Do([st EXCEPT !.anchor[g] = st.anchor[f], !.has_dict[g] = TRUE])

InUse(f) == \E i \in DOMAIN stack : f = stack[i].func \/ f \in stack[i].todo

\* The last reference to f goes: its weak references are cleared, and the
\* callbacks of other people's weak references run before the context's.
Die(f) ==
  /\ MayStart("die") /\ Live(st, f) /\ ~InUse(f)
  /\ Start([st EXCEPT !.life[f] = "dying",
                      !.func_death_watch[f] = IF @ = "armed" THEN "cleared" ELSE @],
           [Frame("die", f) EXCEPT !.pc = "callbacks"])

\* funcDeathWatch311, then func_dealloc drops the dictionary.
funcDeathWatch311 ==
  /\ At("callbacks") /\ Top.op = "die"
  /\ LET f == Top.func
         told == IF st.func_death_watch[f] = "cleared"
                 THEN [funcDestroyed(st, f) EXCEPT !.func_death_watch[f] = "none"]
                 ELSE st
     IN  Go([told EXCEPT !.anchor[f] = None, !.life[f] = "freed"],
            [Top EXCEPT !.pc = "released"])

DeathDone == /\ At("released") /\ Top.op = "die"
             /\ Return(st)

\* A new function object is allocated where a dead one was.
NewFunction(f, c) ==
  /\ MayStart("new") /\ st.life[f] = "freed" /\ ~InUse(f)
  /\ Do([st EXCEPT !.life[f] = "live", !.code[f] = c, !.has_dict[f] = FALSE,
                   !.vectorcall[f] = None])

-----------------------------------------------------------------------------
Init ==
  /\ stack = <<>>
  /\ \E code \in [Functions -> Codes] :
       st = [code |-> code,
             vectorcall       |-> [f \in Functions |-> None],
             has_dict         |-> [f \in Functions |-> FALSE],
             anchor           |-> [f \in Functions |-> None],
             compiled_codes   |-> [c \in Codes |-> None],
             jit_compiled     |-> [c \in Codes |-> None],
             compiled_funcs   |-> [f \in Functions |-> None],
             associated_funcs |-> [f \in Functions |-> None],
             deopted_funcs    |-> {},
             func_death_watch |-> [f \in Functions |-> "none"],
             functions        |-> [a \in Artifacts |-> {}],
             owner            |-> {},
             runtime          |-> [a \in Artifacts |-> None],
             resident         |-> {},
             active_compiles  |-> {},
             deferred_anchor_releases |-> <<>>,
             leaked           |-> {},
             life             |-> [f \in Functions |-> "live"],
             usable           |-> TRUE,
             check            |-> TRUE]

Next ==
  \/ \E f \in Functions :
       \/ force_compile(f) \/ force_uncompile(f) \/ attachFresh(f)
       \/ Call(f) \/ DeleteAnchor(f) \/ Die(f)
       \/ \E c \in Codes : SetCode(f, c) \/ NewFunction(f, c)
       \/ \E g \in Functions : CopyAnchor(f, g)
  \/ enable
  \/ \E deopt_all \in BOOLEAN : disable(deopt_all)
  \/ compilePreloader \/ CompileFailed \/ Compiled \/ makeCompiledFunction
  \/ PublishDict \/ PublishWatch
  \/ LookupReturn \/ MakeReturn \/ AttachReturn \/ ReoptReturn
  \/ reoptFunc \/ WalkDone \/ DrainOne
  \/ CompileDone \/ UncompileDone \/ EnableDone
  \/ CallReturn \/ funcDeathWatch311 \/ DeathDone

Spec == Init /\ [][Next]_vars

-----------------------------------------------------------------------------
(* Properties.                                                              *)

\* No borrowed pointer outlives what it names.  Every artifact that the
\* context, a code object's CodeExtra, the entry point of a living function or
\* a publication under way names is still in memory, whatever dropped the last
\* reference to it; and once a function is freed no registry and no artifact's
\* member set names its address, also when it was parked, had changed its
\* __code__ or was never completely published.
NothingStale ==
  /\ \A c \in Codes : {st.compiled_codes[c], st.jit_compiled[c]} \subseteq OrNone(st.resident)
  /\ \A f \in Functions :
       /\ {st.compiled_funcs[f], st.associated_funcs[f]} \subseteq OrNone(st.resident)
       /\ Live(st, f) => st.vectorcall[f] \in OrNone(st.resident)
       /\ st.life[f] = "freed" =>
            /\ ~hasCompilationState(st, f)
            /\ \A a \in st.resident : f \notin st.functions[a]
  /\ \A i \in DOMAIN stack :
       {stack[i].compiled, stack[i].prior} \subseteq OrNone(st.resident)

\* The invariants that lifecycleInvariantErrors311() looks for, between any
\* two operations: I1 an installed function has exactly that association; I2
\* associations and member sets mirror each other; I3 a function named by
\* borrow is under a live death watch; I4 no key is marked as being compiled;
\* I6 registered artifacts have an owner; I7 a code object's cache names the
\* artifact filed under its key.
LifecycleInvariants ==
  stack = <<>> =>
    /\ st.active_compiles = {}
    /\ \A f \in Functions :
         /\ st.compiled_funcs[f] \in {None, st.associated_funcs[f]}
         /\ \A a \in st.resident : st.associated_funcs[f] = a <=> f \in st.functions[a]
         /\ hasCompilationState(st, f) => st.func_death_watch[f] = "armed"
         /\ st.associated_funcs[f] \in OrNone(st.owner)
    /\ \A c \in Codes : /\ st.compiled_codes[c] \in OrNone(st.owner)
                        /\ st.jit_compiled[c] \in {None, st.compiled_codes[c]}

\* Whenever Python runs, a living function enters through exactly the artifact
\* the installed registry names, and is a member of it: the entry stub takes
\* its own address as the proof of membership (Ci_JitShell311_ArtifactEntry).
EntryIsInstalled ==
  PythonRuns =>
    \A f \in Functions : Live(st, f) =>
      /\ st.vectorcall[f] = st.compiled_funcs[f]
      /\ \A a \in st.resident : st.vectorcall[f] = a => f \in st.functions[a]

\* The JIT_CHECKs on the way of a compile request hold: a key is compiled by
\* one request at a time, and a failed publication has set an exception.
ChecksHold == st.check

\* lifecycleInvariantErrors311(), I5: between two operations no displaced
\* anchor is left in the queue.
NoDeferredAnchors == stack = <<>> => st.deferred_anchor_releases = <<>>
=============================================================================
