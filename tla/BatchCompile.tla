---------------------------- MODULE BatchCompile -----------------------------
(***************************************************************************)
(* Compiling everything that is registered (compile_all in Jit/pyjit.cpp,  *)
(* Jit/threaded_compile.h), and the registries of the compiled artifacts   *)
(* (Jit/context.cpp), in builds with function and type watchers (3.12 and  *)
(* later).                                                                 *)
(*                                                                         *)
(* The main thread preloads the units, which runs Python code, and then    *)
(* compiles them itself or with workers.  While workers run no Python code *)
(* does; what they cannot do without it is left to the main thread.  All   *)
(* functions share their globals and builtins, so a code object is a       *)
(* CompilationKey.                                                         *)
(***************************************************************************)
EXTENDS TypeWatch

CONSTANTS
  Func, Code, Worker, Interpreted, Lazy,
  CodeOf,         \* the code object of a function
  NestedIn,       \* findNestedCodes of a code object
  Receivers,      \* types whose attributes the code loads
  Fallible,       \* code that may fail to compile
  MaxArts,        \* artifacts of one code object alive at a time
  Programs        \* functions, types, their shapes, inline caches, and
                  \* whether an allocation whose failure is handled may fail

ASSUME ArtAssumption == Art = UNION {{c} \X (1 .. MaxArts[c]) : c \in Code}

ASSUME NamesAssumption ==
  /\ Func \cap Code = {} /\ Worker # {} /\ NULL \notin Func \cup Art
  /\ Interpreted \notin Art /\ Lazy \notin Art

ASSUME CodeAssumption ==
  /\ CodeOf \in [Func -> Code] /\ NestedIn \in [Code -> SUBSET Code]
  /\ Receivers \in [Code -> SUBSET Type]

ASSUME ProgramsAssumption ==
  \A p \in Programs :
    /\ p.funcs \subseteq Func /\ p.caches \subseteq Cache /\ p.types \subseteq Type
    /\ \A t \in Type : p.shapes[t] \subseteq Shapes[t]
    /\ p.memory_fails \in BOOLEAN

Unit == Func \cup UNION {NestedIn[c] : c \in Code}
Key(u) == IF u \in Func THEN CodeOf[u] ELSE u
FuncOf(u) == IF u \in Func THEN u ELSE NULL

VARIABLES
  prog,               \* never changes
  alive,              \* functions
  registered,         \* registered_compilation_units
  code_outer_funcs_, compiled_codes_, compiled_funcs_,
  vectorcall,         \* Interpreted, Lazy (jitVectorcall) or an artifact
  live, owned,        \* artifacts; those whose owner_ is set
  anchor, nested,     \* the artifacts in the __dict__ of a function
  pc,                 \* of compile_all
  cur, todo, compilation_units, deleted_units, deletion_record_lost,
  unit_deletion_tracking_failed, preloaders,
  work_list_, retry_list_, worker,
  active_compiles_, completed_compiles_, deferred_finalizations_,
  failed, retried,    \* history of the batch
  dangling            \* history: what is named without being held

program == <<prog, alive, vectorcall>>
registry == <<code_outer_funcs_, compiled_codes_, compiled_funcs_>>
arts == <<live, owned, anchor, nested>>
preload == <<cur, todo, compilation_units, deleted_units, deletion_record_lost,
             unit_deletion_tracking_failed>>
threads == <<work_list_, retry_list_, worker>>
inflight == <<active_compiles_, completed_compiles_, deferred_finalizations_>>
history == <<failed, retried, dangling>>
vars == <<twvars, program, registered, registry, arts, pc, preload,
          preloaders, threads, inflight, history>>

Idle == [at |-> "idle", unit |-> NULL]

Init ==
  /\ TWInit
  /\ prog \in Programs
  /\ \A t \in Type : [attr |-> attr[t], slot |-> slot[t]] \in prog.shapes[t]
  /\ alive = {} /\ registered = {} /\ vectorcall = [f \in Func |-> Interpreted]
  /\ code_outer_funcs_ = [c \in Code |-> NULL]
  /\ compiled_codes_ = [c \in Code |-> NULL]
  /\ compiled_funcs_ = [f \in Func |-> NULL]
  /\ live = {} /\ owned = {}
  /\ anchor = [f \in Func |-> NULL] /\ nested = [f \in Func |-> {}]
  /\ pc = "idle"
  /\ cur = NULL /\ todo = {} /\ compilation_units = {} /\ deleted_units = {}
  /\ deletion_record_lost = FALSE /\ unit_deletion_tracking_failed = FALSE
  /\ preloaders = {} /\ dangling = {}
  /\ work_list_ = {} /\ retry_list_ = {} /\ worker = [w \in Worker |-> Idle]
  /\ active_compiles_ = {} /\ completed_compiles_ = {}
  /\ deferred_finalizations_ = {} /\ failed = {} /\ retried = {}

\* Python code runs between batches, while a unit is preloaded, and in the
\* fixup of the entry caches, which may load types.
PythonRuns == pc \in {"idle", "python", "fixup"}

-----------------------------------------------------------------------------
(* Publication.                                                             *)

\* finalizeFunc, for a in live and the anchors nst of outer functions: an
\* artifact that the write to __dict__ displaces is freed with its last
\* anchor; it was retired before, so nothing else names it.  When the write
\* fails, f enters an artifact that it does not hold.
finalizeFunc(f, a, lv, nst) ==
  /\ owned' = owned \cup {a} /\ nested' = nst
  /\ IF compiled_funcs_[f] # NULL
     THEN live' = lv /\ UNCHANGED <<compiled_funcs_, vectorcall, anchor, dangling>>
     ELSE /\ compiled_funcs_' = [compiled_funcs_ EXCEPT ![f] = a]
          /\ vectorcall' = [vectorcall EXCEPT ![f] = a]
          /\ \/ LET anc == [anchor EXCEPT ![f] = a] IN
                /\ anchor' = anc /\ UNCHANGED dangling
                /\ live' = {b \in lv : b # anchor[f] \/
                              \E g \in alive : anc[g] = b \/ b \in nst[g]}
             \/ /\ prog.memory_fails /\ dangling' = dangling \cup {a}
                /\ live' = lv /\ UNCHANGED anchor

\* makeCompiledFunction; f = NULL for nested code.
makeCompiledFunction(f, c, a) ==
  LET outer == code_outer_funcs_[c]
      nst == IF outer \notin {NULL, f}
             THEN [nested EXCEPT ![outer] = @ \cup {a}] ELSE nested
  IN /\ IF f = NULL
        THEN /\ live' = live \cup {a} /\ nested' = nst
             /\ UNCHANGED <<owned, compiled_funcs_, vectorcall, anchor, dangling>>
        ELSE finalizeFunc(f, a, live \cup {a}, nst)
     /\ compiled_codes_' = IF dangling' = dangling
          THEN [compiled_codes_ EXCEPT ![c] = a] ELSE compiled_codes_

\* makeCompiledFunction that returns before that: a is not created, or not
\* anchored to its outer function.  It has no owner_ to tell.
dropCompiledFunction(a) ==
  /\ prog.memory_fails
  /\ dangling' = dangling \cup {b \in {a} :
       \E t \in Type : \E p \in type_deopt_patchers_'[t] : p.art = b}
  /\ UNCHANGED <<compiled_codes_, compiled_funcs_, vectorcall, arts>>

\* The next artifact of c takes the first name that is not in use.
InUse == live \cup {r.art : r \in completed_compiles_}
Fresh(c) ==
  {<<c, n>> : n \in {m \in 1 .. MaxArts[c] :
     <<c, m>> \notin InUse /\ \A k \in 1 .. m - 1 : <<c, k>> \in InUse}}

\* compilePreloaderImpl where no workers run, so that nothing is in flight:
\* attach to the artifact of c, or make one; f = NULL for nested code.
compilePreloader(f, c) ==
  \/ /\ compiled_codes_[c] # NULL
     /\ IF f = NULL
        THEN UNCHANGED <<arts, compiled_funcs_, vectorcall, dangling>>
        ELSE finalizeFunc(f, compiled_codes_[c], live, nested)
     /\ UNCHANGED <<twvars, compiled_codes_>>
  \/ /\ compiled_codes_[c] = NULL
     /\ \E a \in Fresh(c) : Link(a, Receivers[c]) /\ makeCompiledFunction(f, c, a)

MayFail(c) == c \in Fallible /\ compiled_codes_[c] = NULL

\* An artifact of c is made and dropped, which codeCompiled does not report.
CompileDropped(c) ==
  /\ compiled_codes_[c] = NULL
  /\ \E a \in Fresh(c) : Link(a, Receivers[c]) /\ dropCompiledFunction(a)

-----------------------------------------------------------------------------
(* compile_all: preloading.                                                 *)

CompileAll ==
  /\ pc = "idle" /\ pc' = "round"
  /\ UNCHANGED <<twvars, program, registered, registry, arts, preload,
                 preloaders, threads, inflight, history>>

NextRound ==
  /\ pc = "round" /\ todo = {} /\ registered # {}
  /\ todo' = registered /\ registered' = {}
  /\ UNCHANGED <<twvars, program, registry, arts, pc, cur,
                 compilation_units, deleted_units, deletion_record_lost,
                 unit_deletion_tracking_failed, preloaders, threads, inflight,
                 history>>

\* compile_all returns, by whatever way: its locals and the preloaders go.
Leave ==
  /\ pc' = "idle" /\ preloaders' = {} /\ todo' = {} /\ cur' = NULL
  /\ compilation_units' = {} /\ deleted_units' = {}
  /\ deletion_record_lost' = FALSE /\ failed' = {} /\ retried' = {}
  /\ UNCHANGED <<twvars, program, registered, registry, arts, threads, inflight, dangling>>

SkipDeleted(u) == u \in deleted_units

\* The function whose globals and builtins a unit is compiled against.
Subject(u) == IF u \in Func THEN u ELSE code_outer_funcs_[u]

\* preload(u): a preloader exists, or Python code runs to make one; without an
\* outer function the batch is given up.
PreloadUnit(u) ==
  LET found == Key(u) \in preloaders IN
  /\ pc = "round" /\ u \in todo
  /\ \/ /\ SkipDeleted(u) \/ found \/ Subject(u) # NULL
        /\ todo' = todo \ {u}
        /\ compilation_units' = IF ~SkipDeleted(u) /\ found
             THEN compilation_units \cup {u} ELSE compilation_units
        /\ IF SkipDeleted(u) \/ found THEN UNCHANGED <<pc, cur>>
           ELSE pc' = "python" /\ cur' = u
        /\ UNCHANGED <<twvars, program, registered, registry, arts, preloaders,
                       deleted_units, deletion_record_lost, threads, inflight,
                       history>>
     \/ ~SkipDeleted(u) /\ ~found /\ Subject(u) = NULL /\ Leave
  /\ UNCHANGED unit_deletion_tracking_failed

\* Preloader::make returns.
PreloadDone ==
  /\ pc = "python"
  /\ \/ /\ pc' = "round" /\ cur' = NULL
        /\ preloaders' = preloaders \cup {Key(cur)}
        /\ compilation_units' = compilation_units \cup {cur}
        /\ UNCHANGED <<twvars, program, registered, registry, arts, todo,
                       deleted_units, deletion_record_lost, threads, inflight,
                       history>>
     \/ Leave
  /\ UNCHANGED unit_deletion_tracking_failed

\* Mutant of Surviving: deleted units stay in the batch.
SurvivingAll == compilation_units

Surviving == compilation_units \ deleted_units

\* Every unit is preloaded; workers = 1 or more.
\* consumeUnitDeletionTrackingPoison is not called when the record is lost.
Preloaded ==
  /\ pc = "round" /\ todo = {} /\ registered = {}
  /\ unit_deletion_tracking_failed' =
       (deletion_record_lost /\ unit_deletion_tracking_failed)
  /\ \/ (deletion_record_lost \/ unit_deletion_tracking_failed) /\ Leave
     \/ /\ ~deletion_record_lost /\ ~unit_deletion_tracking_failed
        /\ compilation_units' = Surviving /\ work_list_' = Surviving
        /\ deleted_units' = {}
        /\ \/ pc' = "serial" /\ UNCHANGED <<worker, compile_running_>>
           \/ /\ pc' = "threads" /\ compile_running_' = TRUE
              /\ worker' = [w \in Worker |-> [Idle EXCEPT !.at = "next"]]
        /\ UNCHANGED <<types, deopt, icaches, program, registered, registry,
                       arts, cur, todo, deletion_record_lost, preloaders,
                       retry_list_, inflight, history>>

-----------------------------------------------------------------------------
(* compile_worker_thread; the lock is held through each of these steps.     *)

nextUnit(w) ==
  /\ pc = "threads" /\ worker[w].at = "next"
  /\ \/ /\ work_list_ = {}
        /\ worker' = [worker EXCEPT ![w] = [Idle EXCEPT !.at = "done"]]
        /\ UNCHANGED work_list_
     \/ \E u \in work_list_ :
          /\ work_list_' = work_list_ \ {u}
          /\ worker' = [worker EXCEPT ![w] = [at |-> "begin", unit |-> u]]
  /\ UNCHANGED <<twvars, program, registered, registry, arts, pc, preload, preloaders, retry_list_, inflight, history>>

HasCompleted(c) == \E r \in completed_compiles_ : r.code = c

\* The transition from "not compiled" to "in progress".
BeginCompile(w) ==
  LET u == worker[w].unit
      c == Key(u)
      next == worker' = [worker EXCEPT ![w] = [Idle EXCEPT !.at = "next"]]
  IN /\ pc = "threads" /\ worker[w].at = "begin"
     /\ \/ /\ compiled_codes_[c] # NULL /\ next
           /\ deferred_finalizations_' = deferred_finalizations_ \cup
                {[func |-> g, art |-> compiled_codes_[c]] : g \in {u} \cap Func}
           /\ UNCHANGED <<active_compiles_, retry_list_, retried>>
        \/ /\ compiled_codes_[c] = NULL /\ HasCompleted(c) /\ next
           /\ UNCHANGED <<active_compiles_, retry_list_, retried,
                          deferred_finalizations_>>
        \/ /\ compiled_codes_[c] = NULL /\ ~HasCompleted(c)
           /\ c \in active_compiles_ /\ next
           /\ retry_list_' = retry_list_ \cup {u} /\ retried' = retried \cup {u}
           /\ UNCHANGED <<active_compiles_, deferred_finalizations_>>
        \/ /\ compiled_codes_[c] = NULL /\ ~HasCompleted(c)
           /\ c \notin active_compiles_
           /\ active_compiles_' = active_compiles_ \cup {c}
           /\ worker' = [worker EXCEPT ![w] = [at |-> "compile", unit |-> u]]
           /\ UNCHANGED <<retry_list_, retried, deferred_finalizations_>>
     /\ UNCHANGED <<twvars, program, registered, registry, arts, pc, preload, preloaders, work_list_,
                    completed_compiles_, failed, dangling>>

\* Compile, removeActiveCompile and codeCompiled.
EndOfCompile(w) ==
  LET u == worker[w].unit
      c == Key(u)
  IN /\ pc = "threads" /\ worker[w].at = "compile"
     /\ active_compiles_' = active_compiles_ \ {c}
     /\ worker' = [worker EXCEPT ![w] = [Idle EXCEPT !.at = "next"]]
     /\ \/ \E a \in Fresh(c) :
             /\ Link(a, Receivers[c] \cap tag)
             /\ completed_compiles_' = completed_compiles_ \cup
                  {[code |-> c, art |-> a, func |-> FuncOf(u)]}
             /\ UNCHANGED failed
        \/ /\ c \in Fallible /\ failed' = failed \cup {c}
           /\ UNCHANGED <<twvars, completed_compiles_>>
     /\ UNCHANGED <<program, registered, registry, arts, pc, preload,
                    preloaders, work_list_, retry_list_,
                    deferred_finalizations_, retried, dangling>>

-----------------------------------------------------------------------------
(* multithread_compile_units_preloaded after the workers have started.      *)

Join ==
  /\ pc = "threads" /\ \A w \in Worker : worker[w].at = "done"
  /\ pc' = "fixup" /\ compile_running_' = FALSE
  /\ worker' = [w \in Worker |-> Idle]
  /\ UNCHANGED <<types, deopt, icaches, program, registered, registry, arts,
                 preload, preloaders, work_list_,
                 retry_list_, inflight, history>>

FixupDone ==
  /\ pc = "fixup" /\ pc' = "make"
  /\ watchPendingTypes
  /\ UNCHANGED <<attr, slot, code_patchers, patched, type_deopt_patchers_, missed,
                 icaches, compile_running_, program, registered, registry,
                 arts, preload, preloaders, threads,
                 inflight, history>>

MakeCompleted(r) ==
  /\ pc = "make" /\ r \in completed_compiles_
  /\ UNCHANGED twvars
  /\ \/ makeCompiledFunction(r.func, r.code, r.art) /\ UNCHANGED failed
     \/ dropCompiledFunction(r.art) /\ failed' = failed \cup {r.code}
  /\ completed_compiles_' = completed_compiles_ \ {r}
  /\ UNCHANGED <<prog, alive, registered, code_outer_funcs_, pc, preload, preloaders, threads, active_compiles_,
                 deferred_finalizations_, retried>>

FinalizeDeferred(d) ==
  /\ pc = "make" /\ completed_compiles_ = {} /\ d \in deferred_finalizations_
  /\ finalizeFunc(d.func, d.art, live, nested)
  /\ deferred_finalizations_' = deferred_finalizations_ \ {d}
  /\ UNCHANGED <<twvars, prog, alive, registered, code_outer_funcs_, compiled_codes_,
                 pc, preload, preloaders, threads,
                 active_compiles_, completed_compiles_, failed, retried>>

\* Mutant of Finalized: the retries are not made.
FinalizedNoRetry ==
  /\ pc = "make" /\ completed_compiles_ = {} /\ deferred_finalizations_ = {}
  /\ pc' = "serial" /\ retry_list_' = {}
  /\ UNCHANGED <<twvars, program, registered, registry, arts,
                 preload, preloaders, work_list_, worker, inflight, history>>

Finalized ==
  /\ pc = "make" /\ completed_compiles_ = {} /\ deferred_finalizations_ = {}
  /\ pc' = "serial" /\ work_list_' = retry_list_ /\ retry_list_' = {}
  /\ UNCHANGED <<twvars, program, registered, registry, arts, preload, preloaders, worker, inflight, history>>

\* compile_units_preloaded, for a small batch or for the retries.
CompileUnit(u) ==
  /\ pc = "serial" /\ u \in work_list_ /\ work_list_' = work_list_ \ {u}
  /\ \/ compilePreloader(FuncOf(u), Key(u)) /\ UNCHANGED failed
     \/ /\ MayFail(Key(u)) /\ failed' = failed \cup {Key(u)}
        /\ UNCHANGED <<twvars, vectorcall, compiled_codes_, compiled_funcs_, arts, dangling>>
     \/ CompileDropped(Key(u)) /\ failed' = failed \cup {Key(u)}
  /\ UNCHANGED <<prog, alive, registered, code_outer_funcs_, pc, preload,
                 preloaders, retry_list_, worker, inflight, retried>>

UnitsDone ==
  /\ pc = "serial" /\ work_list_ = {} /\ pc' = "return"
  /\ UNCHANGED <<twvars, program, registered, registry, arts, preload, preloaders, threads, inflight, history>>

Return == pc = "return" /\ Leave /\ UNCHANGED unit_deletion_tracking_failed

-----------------------------------------------------------------------------
(* What Python code does to functions, between batches or from a preload.   *)

FunctionsMove == pc \in {"idle", "python"}

\* trackEligibleCodeObjects; nested code is registered with a JIT list.
track(f) ==
  LET new == {c \in {CodeOf[f]} \cup NestedIn[CodeOf[f]] : code_outer_funcs_[c] = NULL}
  IN IF code_outer_funcs_[CodeOf[f]] = NULL
     THEN [outer |-> [c \in Code |-> IF c \in new THEN f ELSE code_outer_funcs_[c]],
           units |-> new \ {CodeOf[f]}]
     ELSE [outer |-> code_outer_funcs_, units |-> {}]

\* scheduleJitCompile: attach f to the artifact of its code, or wait for a
\* call or a batch.
CreateFunc(f) ==
  LET a == compiled_codes_[CodeOf[f]] IN
  /\ FunctionsMove /\ f \in prog.funcs \ alive
  /\ alive' = alive \cup {f}
  /\ code_outer_funcs_' = track(f).outer
  /\ IF a # NULL
     THEN /\ finalizeFunc(f, a, live, nested)
          /\ registered' = registered \cup track(f).units
     ELSE /\ registered' = registered \cup track(f).units \cup {f}
          /\ vectorcall' = [vectorcall EXCEPT ![f] = Lazy]
          /\ UNCHANGED <<arts, compiled_funcs_, dangling>>
  /\ UNCHANGED <<twvars, prog, compiled_codes_, pc, preload, preloaders,
                 threads, inflight, failed, retried>>

\* Mutant of clear: the patchers stay in type_deopt_patchers_.
clearWatched(A) ==
  /\ owned' = owned \ A
  /\ Without(A, {}) /\ UNCHANGED <<types, icaches, compile_running_>>

\* CompiledFunction::clear for the artifacts A, retired or freed.  An artifact
\* without an owner_ tells nobody.
clear(A) ==
  /\ owned' = owned \ A
  /\ Without(A, owned) /\ UNCHANGED <<types, icaches, compile_running_>>

\* What forgetCompiledFunction and unwatch would have taken a out of.
Named(a) ==
  \/ \E c \in Code : compiled_codes_[c] = a
  \/ \E t \in Type : \E p \in type_deopt_patchers_[t] : p.art = a

\* The units unregisterFunctionCodes announces as deleted, if the nested codes
\* can be listed.
UnitsOf(f, listed) ==
  IF listed /\ code_outer_funcs_[CodeOf[f]] = f THEN {f} \cup NestedIn[CodeOf[f]] ELSE {f}

\* unregisterFunctionCodes; a preload in progress records the units.
unregister(f, listed, recorded) ==
  /\ registered' = registered \ (UnitsOf(f, listed) \cup {CodeOf[f]})
  /\ code_outer_funcs_' = [c \in Code |->
       IF c \in {CodeOf[f]} \cup UnitsOf(f, listed) /\ code_outer_funcs_[c] = f
       THEN NULL ELSE code_outer_funcs_[c]]
  /\ unit_deletion_tracking_failed' = (unit_deletion_tracking_failed \/ ~listed)
  /\ IF pc = "python"
     THEN /\ deleted_units' = deleted_units \cup recorded
          /\ deletion_record_lost' =
               (deletion_record_lost \/ recorded # UnitsOf(f, listed))
     ELSE UNCHANGED <<deleted_units, deletion_record_lost>>

\* Where it can run out of memory: findNestedCodes, and every record.
Listed(f) ==
  IF prog.memory_fails /\ code_outer_funcs_[CodeOf[f]] = f THEN BOOLEAN ELSE {TRUE}
Recorded(f, listed) ==
  IF pc = "python" /\ prog.memory_fails THEN SUBSET UnitsOf(f, listed) ELSE {UnitsOf(f, listed)}

\* funcDestroyed, the release of __dict__, and what is freed by that.  A row
\* of code_outer_funcs_ that is left, and an artifact that tells nobody, dangle.
FuncDies(f, listed, recorded) ==
  LET freed == {a \in live : (anchor[f] = a \/ a \in nested[f]) /\
                  \A g \in alive \ {f} : anchor[g] # a /\ a \notin nested[g]}
  IN /\ FunctionsMove /\ f \in alive
     /\ unregister(f, listed, recorded)
     /\ alive' = alive \ {f}
     /\ vectorcall' = [vectorcall EXCEPT ![f] = Interpreted]
     /\ compiled_funcs_' = [compiled_funcs_ EXCEPT ![f] = NULL]
     /\ compiled_codes_' = [c \in Code |->
          IF compiled_codes_[c] \in freed \cap owned THEN NULL ELSE compiled_codes_[c]]
     /\ anchor' = [anchor EXCEPT ![f] = NULL]
     /\ nested' = [nested EXCEPT ![f] = {}]
     /\ live' = live \ freed /\ clear(freed)
     /\ dangling' = dangling \cup {a \in freed \ owned : Named(a)} \cup
          {g \in {f} : \E c \in Code : code_outer_funcs_'[c] = g}
     /\ UNCHANGED <<prog, pc, cur, todo, compilation_units, preloaders,
                    threads, inflight, failed, retried>>

\* force_uncompile: funcUnpublished, then forgetCode, which takes the code
\* away from every function that runs it.  (Bound: a name is left for the
\* next artifact.)
Uncompile(f, listed, recorded) ==
  LET c == CodeOf[f]
      a == compiled_codes_[c]
      nst == IF code_outer_funcs_[c] \notin {NULL, f}
             THEN [nested EXCEPT ![code_outer_funcs_[c]] = @ \ {a}] ELSE nested
      out == {g \in alive : compiled_funcs_[g] = a}
  IN /\ FunctionsMove /\ f \in alive /\ compiled_funcs_[f] # NULL
     /\ Fresh(c) # {}
     /\ unregister(f, listed, recorded)
     /\ nested' = nst /\ clear({a})
     /\ compiled_codes_' = [compiled_codes_ EXCEPT ![c] = NULL]
     /\ compiled_funcs_' = [g \in Func |-> IF g \in out THEN NULL ELSE compiled_funcs_[g]]
     /\ vectorcall' = [g \in Func |-> IF g \in out THEN Interpreted ELSE vectorcall[g]]
     /\ live' = {b \in live : b # a \/ \E g \in alive : anchor[g] = b \/ b \in nst[g]}
     /\ UNCHANGED <<prog, alive, anchor, pc, cur, todo, compilation_units,
                    preloaders, threads, inflight, history>>

\* forcedJitVectorcall: compileFunction with preloaders of its own, which
\* takes a failure of the tracking for one of its own.
CompileNow(f) ==
  /\ FunctionsMove /\ f \in alive /\ vectorcall[f] = Lazy
  /\ registered' = registered \ {f}
  /\ code_outer_funcs_' = track(f).outer
  /\ unit_deletion_tracking_failed' = FALSE
  /\ \/ /\ ~unit_deletion_tracking_failed
        /\ compilePreloader(f, CodeOf[f]) \/ CompileDropped(CodeOf[f])
     \/ /\ unit_deletion_tracking_failed \/ MayFail(CodeOf[f])
        /\ vectorcall' = [vectorcall EXCEPT ![f] = Interpreted]
        /\ UNCHANGED <<twvars, compiled_codes_, compiled_funcs_, arts, dangling>>
  /\ UNCHANGED <<prog, alive, pc, cur, todo, compilation_units, deleted_units,
                 deletion_record_lost, preloaders, threads, inflight, failed, retried>>

\* Python code changes a type, fills a cache or looks an attribute up.
TypeStep ==
  /\ PythonRuns
  /\ \/ \E t \in prog.types, seen \in Value : \E shape \in prog.shapes[t] :
          ModifyType(t, shape, seen)
     \/ \E c \in prog.caches, t \in prog.types : Fill(c, t)
     \/ \E t \in prog.types : AssignVersionTag(t)
  /\ UNCHANGED <<program, registered, registry, arts, pc, preload,
                 preloaders, threads, inflight, history>>

-----------------------------------------------------------------------------
Preload ==
  \/ CompileAll \/ NextRound
  \/ \E u \in Unit : PreloadUnit(u)
  \/ PreloadDone \/ Preloaded
Compile == \E w \in Worker : nextUnit(w) \/ BeginCompile(w) \/ EndOfCompile(w)
Finish ==
  \/ Join \/ FixupDone
  \/ \E r \in completed_compiles_ : MakeCompleted(r)
  \/ \E d \in deferred_finalizations_ : FinalizeDeferred(d)
  \/ Finalized
  \/ \E u \in work_list_ : CompileUnit(u)
  \/ UnitsDone \/ Return
Python ==
  \/ \E f \in Func : CreateFunc(f) \/ CompileNow(f)
  \/ \E f \in Func : \E listed \in Listed(f) : \E recorded \in Recorded(f, listed) :
       FuncDies(f, listed, recorded) \/ Uncompile(f, listed, recorded)
  \/ TypeStep

\* What happens after something dangles is undefined: the model stops.
Next ==
  \/ dangling = {} /\ (Preload \/ Compile \/ Finish \/ Python)
  \/ dangling # {} /\ UNCHANGED vars
Spec == Init /\ [][Next]_vars

-----------------------------------------------------------------------------
(* Properties.                                                              *)

\* Everything the registries name by a borrowed pointer is alive: the outer
\* functions, the registered units, the artifact of a key, the artifact a
\* function enters, and whoever waits for a change of a type
\* (unregisterFunctionCodes, funcDestroyed, forgetCompiledFunction, unwatch).
RegistriesLive == dangling = {} =>
  /\ \A c \in Code : code_outer_funcs_[c] \in alive \cup {NULL}
  /\ registered \cap Func \subseteq alive
  /\ \A c \in Code : compiled_codes_[c] \in live \cup {NULL}
  /\ \A f \in alive :
       /\ compiled_funcs_[f] # NULL =>
            /\ compiled_funcs_[f] = compiled_codes_[CodeOf[f]]
            /\ compiled_funcs_[f] = anchor[f]
       /\ vectorcall[f] \in Art <=> compiled_funcs_[f] # NULL
       /\ vectorcall[f] \in Art => vectorcall[f] = compiled_funcs_[f]
  /\ \A t \in Type : \A p \in type_deopt_patchers_[t] : p.art \in InUse

\* A unit in the hands of the compiler.
InCompiler ==
  work_list_ \cup retry_list_ \cup
    {worker[w].unit : w \in {x \in Worker : worker[x].at \in {"begin", "compile"}}}

\* What the JIT_CHECKs of a batch state: a unit that reaches the compiler is
\* alive, or nested code with an outer function, and has a preloader; no key
\* is compiled by two workers or published twice (compile_all,
\* compile_worker_thread, compilePreloaderImpl, makeCompiledFunction).
ChecksHold == dangling = {} =>
  /\ \A u \in InCompiler :
       /\ Key(u) \in preloaders
       /\ Subject(u) \in alive
  /\ \A v, w \in Worker : v # w /\ {worker[v].at, worker[w].at} = {"compile"}
       => Key(worker[v].unit) # Key(worker[w].unit)
  /\ \A r \in completed_compiles_ :
       /\ compiled_codes_[r.code] = NULL /\ r.code \notin active_compiles_
       /\ \A q \in completed_compiles_ : q.code = r.code => q = r

\* When a batch returns, nothing of it is in flight, every unit that survived
\* preloading has been compiled or has failed, and a function whose key was
\* busy at the first attempt has been attached (retryUnit,
\* finalizeMultiThreadedCompile).
BatchSettled ==
  pc = "return" /\ dangling = {} =>
    /\ active_compiles_ = {} /\ completed_compiles_ = {}
    /\ deferred_finalizations_ = {} /\ pending_watches_ = {}
    /\ work_list_ = {} /\ retry_list_ = {}
    /\ \A u \in compilation_units :
         compiled_codes_[Key(u)] # NULL \/ Key(u) \in failed
    /\ \A u \in retried \cap Func :
         compiled_funcs_[u] # NULL \/ Key(u) \in failed
=============================================================================
