--------------------------- MODULE AsyncLazyValue ----------------------------
(***************************************************************************)
(* A value computed by a coroutine when it is first awaited                *)
(* (async_lazy_value.cpp, CPython 3.12 and later).                         *)
(*                                                                         *)
(* The first await gets a compute object that drives the coroutine, later  *)
(* ones a future each, which the end of the computation resolves.  A       *)
(* failed computation leaves the value as if it had never been awaited.    *)
(* Futures schedule their callbacks, so no Python code runs while they are *)
(* notified; it does while the coroutine runs.                             *)
(***************************************************************************)
EXTENDS Naturals, Sequences

CONSTANTS Compute, Future, NULL

ASSUME NullAssumption == NULL \notin Compute

VARIABLES
  alv_state, alv_result, alv_args, alv_futures,
  compute,      \* state of each compute object
  fut,          \* state of each future, and the computation that resolved it
  creating,     \* the compute object of a task under construction
  mishap        \* history, see Mishap

value == <<alv_state, alv_result, alv_args, alv_futures>>
vars == <<value, compute, fut, creating, mishap>>

\* What has gone wrong so far:
\*   cut     the end of a computation could not tell all who wait for it;
\*   lost    a compute object went before its coroutine had ended;
\*   astray  a compute object runs that the state of the value does not tell
\*           of: create_task ran its first step, or failed when the loop had
\*           it already, or it was closed before.
Mishap == {"cut", "lost", "astray"}

TypeOK ==
  /\ alv_state \in {"not_started", "running", "done"}
  /\ alv_result \in Compute \cup {NULL} /\ alv_args \in BOOLEAN
  /\ alv_futures \in Seq(Future)
  /\ compute \in [Compute -> {"none", "new", "suspended", "executing",
                              "closing", "closed", "cleared"}]
  /\ fut \in [Future -> [st : {"none", "pending", "result", "error", "cancelled"},
                         by : Compute \cup {NULL}]]
  /\ creating \in Compute \cup {NULL}
  /\ mishap \subseteq Mishap

Init ==
  /\ alv_state = "not_started" /\ alv_result = NULL /\ alv_args = TRUE
  /\ alv_futures = << >>
  /\ compute = [c \in Compute |-> "none"]
  /\ fut = [f \in Future |-> [st |-> "none", by |-> NULL]]
  /\ creating = NULL /\ mishap = {}

\* Python code runs; create_task runs some only for an eager task.
Runs == creating # NULL => compute[creating] = "executing"

\* A computation that has to end for the waiters to be told.
Active(c) == compute[c] \in {"new", "suspended", "executing", "closing"}

-----------------------------------------------------------------------------
(* await and ensure_future.                                                 *)

\* Mutant of StartCompute: a value that is done is computed again.
StartComputeAgain(c) ==
  /\ Runs /\ alv_state # "running" /\ compute[c] = "none"
  /\ compute' = [compute EXCEPT ![c] = "new"]
  /\ alv_state' = "running"
  /\ UNCHANGED <<alv_result, alv_args, alv_futures, fut, creating, mishap>>

StartCompute(c) ==
  /\ Runs /\ alv_state = "not_started" /\ compute[c] = "none"
  /\ compute' = [compute EXCEPT ![c] = "new"]
  /\ alv_state' = "running"
  /\ UNCHANGED <<alv_result, alv_args, alv_futures, fut, creating, mishap>>

\* AsyncLazyValue_new_future, for both.
NewFuture(f) ==
  /\ Runs /\ alv_state = "running" /\ fut[f].st = "none"
  /\ fut' = [fut EXCEPT ![f].st = "pending"]
  /\ alv_futures' = Append(alv_futures, f)
  /\ UNCHANGED <<alv_state, alv_result, alv_args, compute, creating, mishap>>

DoneFuture(f) ==
  /\ Runs /\ alv_state = "done" /\ fut[f].st = "none"
  /\ fut' = [fut EXCEPT ![f] = [st |-> "result", by |-> alv_result]]
  /\ UNCHANGED <<value, compute, creating, mishap>>

\* AsyncLazyValue_new_task calls loop.create_task, which may fail ...
NewTask(c) ==
  /\ creating = NULL /\ alv_state = "not_started" /\ compute[c] = "none"
  /\ compute' = [compute EXCEPT ![c] = "new"]
  /\ creating' = c
  /\ UNCHANGED <<value, fut, mishap>>

\* ... and only then is the value running.  A task that the loop has already
\* scheduled when create_task fails runs all the same.
TaskCreated ==
  /\ creating # NULL /\ creating' = NULL
  /\ compute[creating] # "executing"
  /\ \/ alv_state' = "running" /\ UNCHANGED <<compute, mishap>>
     \/ /\ compute[creating] = "new"
        /\ compute' = [compute EXCEPT ![creating] = "cleared"]
        /\ UNCHANGED <<alv_state, mishap>>
     \/ mishap' = mishap \cup {"astray"} /\ UNCHANGED <<alv_state, compute>>
  /\ UNCHANGED <<alv_result, alv_args, alv_futures, fut>>

\* The task behind a future is cancelled.
CancelFuture(f) ==
  /\ Runs /\ fut[f].st = "pending"
  /\ fut' = [fut EXCEPT ![f] = [st |-> "cancelled", by |-> NULL]]
  /\ UNCHANGED <<value, compute, creating, mishap>>

-----------------------------------------------------------------------------
(* notify_futures.                                                          *)

\* Where it stops: behind the list, or at a future whose loop is closed or
\* that does not take the exception.
NotifyEnds ==
  {Len(alv_futures) + 1} \cup
  {i \in 1 .. Len(alv_futures) : fut[alv_futures[i]].st = "pending"}

Listed(f, n) == \E i \in 1 .. Len(alv_futures) : i < n /\ alv_futures[i] = f

\* Mutant of Notified: a future that is done ends the notification.
NotifiedUpTo(c, kind, n) ==
  [f \in Future |->
     IF /\ fut[f].st = "pending"
        /\ \E i \in 1 .. Len(alv_futures) :
             /\ i < n /\ alv_futures[i] = f
             /\ \A j \in 1 .. i : fut[alv_futures[j]].st = "pending"
     THEN [st |-> kind, by |-> c] ELSE fut[f]]

\* The first n - 1 futures have been told.
Notified(c, kind, n) ==
  [f \in Future |-> IF fut[f].st = "pending" /\ Listed(f, n)
                    THEN [st |-> kind, by |-> c] ELSE fut[f]]

\* Not all of them have.
Cut(n) == n <= Len(alv_futures)

CutMishap(n) == IF Cut(n) THEN mishap \cup {"cut"} ELSE mishap

set_result(c) ==
  \E n \in NotifyEnds :
    /\ alv_result' = c /\ alv_state' = "done"
    /\ fut' = Notified(c, "result", n)
    /\ alv_args' = (alv_args /\ Cut(n))
    /\ mishap' = CutMishap(n)
    /\ UNCHANGED alv_futures

\* Mutant of set_error: the list is dropped before the waiters are told.
set_errorDropped(c, kind) ==
  \E n \in NotifyEnds \cup {0} :
    /\ fut' = Notified(c, kind, n)
    /\ mishap' = CutMishap(n)
    /\ alv_futures' = << >>
    /\ IF Cut(n) THEN UNCHANGED alv_state ELSE alv_state' = "not_started"
    /\ UNCHANGED <<alv_result, alv_args>>

\* Mutant of set_error: a cancelled computation does not reset the state.
set_errorStuck(c, kind) ==
  \E n \in NotifyEnds \cup {0} :
    /\ fut' = Notified(c, kind, n)
    /\ mishap' = CutMishap(n)
    /\ IF Cut(n) THEN UNCHANGED <<alv_state, alv_futures>>
       ELSE /\ alv_futures' = << >>
            /\ alv_state' = IF kind = "cancelled" THEN alv_state ELSE "not_started"
    /\ UNCHANGED <<alv_result, alv_args>>

\* 0: CancelledError cannot be looked up or compared with the error.
set_error(c, kind) ==
  \E n \in NotifyEnds \cup {0} :
    /\ fut' = Notified(c, kind, n)
    /\ mishap' = CutMishap(n)
    /\ IF Cut(n) THEN UNCHANGED <<alv_state, alv_futures>>
       ELSE alv_futures' = << >> /\ alv_state' = "not_started"
    /\ UNCHANGED <<alv_result, alv_args>>

-----------------------------------------------------------------------------
(* The compute object.                                                      *)

\* send(): the coroutine is created if need be, and runs.  Without arguments
\* there is no coroutine to create but a crash, after which nothing happens.
Send(c) ==
  /\ Runs \/ (c = creating /\ compute[c] = "new")
  /\ \/ compute[c] = "suspended"
     \/ compute[c] \in {"new", "closed"} /\ alv_args
  /\ compute' = [compute EXCEPT ![c] = "executing"]
  /\ mishap' = IF c = creating \/ compute[c] = "closed"
               THEN mishap \cup {"astray"} ELSE mishap
  /\ UNCHANGED <<value, fut, creating>>

Yield(c) ==
  /\ compute[c] = "executing"
  /\ compute' = [compute EXCEPT ![c] = "suspended"]
  /\ UNCHANGED <<value, fut, creating, mishap>>

Finish(c) ==
  /\ compute[c] = "executing"
  /\ compute' = [compute EXCEPT ![c] = "cleared"]
  /\ set_result(c) \/ \E kind \in {"error", "cancelled"} : set_error(c, kind)
  /\ UNCHANGED creating

Losing(c) == IF compute[c] = "closed" THEN mishap ELSE mishap \cup {"lost"}

\* throw(): into the coroutine, which goes on or ends, or, for GeneratorExit,
\* is closed.  Without a coroutine the error goes to the caller alone.
Throw(c) ==
  /\ Runs /\ c # creating
  /\ \/ /\ compute[c] \in {"new", "closed"}
        /\ compute' = [compute EXCEPT ![c] = "cleared"]
        /\ mishap' = Losing(c)
     \/ /\ compute[c] = "suspended"
        /\ \E next \in {"executing", "closing"} : compute' = [compute EXCEPT ![c] = next]
        /\ UNCHANGED mishap
  /\ UNCHANGED <<value, fut, creating>>

\* close(); before the start it does nothing.
Close(c) ==
  /\ Runs /\ compute[c] = "suspended"
  /\ compute' = [compute EXCEPT ![c] = "closing"]
  /\ UNCHANGED <<value, fut, creating, mishap>>

\* The coroutine is closed; without an error of its own the compute object
\* keeps its target.
Closed(c) ==
  /\ compute[c] = "closing"
  /\ \/ compute' = [compute EXCEPT ![c] = "closed"] /\ set_error(c, "error")
     \/ /\ compute' = [compute EXCEPT ![c] = "cleared"]
        /\ \E kind \in {"error", "cancelled"} : set_error(c, kind)
  /\ UNCHANGED creating

\* The last reference to the compute object goes.
Drop(c) ==
  /\ Runs /\ c # creating /\ compute[c] \in {"new", "suspended", "closed"}
  /\ compute' = [compute EXCEPT ![c] = "cleared"]
  /\ mishap' = Losing(c)
  /\ UNCHANGED <<value, fut, creating>>

-----------------------------------------------------------------------------
Step(c) == Yield(c) \/ Finish(c) \/ Closed(c)

Next ==
  \/ \E c \in Compute :
       \/ StartCompute(c) \/ NewTask(c)
       \/ Send(c) \/ Step(c) \/ Throw(c) \/ Close(c) \/ Drop(c)
  \/ \E f \in Future : NewFuture(f) \/ DoneFuture(f) \/ CancelFuture(f)
  \/ TaskCreated

Spec == Init /\ [][Next]_vars

\* The loop runs every task, and coroutines end.  Nobody need go on with a
\* compute object that was closed.
Fairness ==
  /\ WF_vars(TaskCreated)
  /\ \A c \in Compute :
       /\ WF_vars(Send(c) /\ compute[c] # "closed") /\ WF_vars(Step(c))
       /\ SF_vars(Finish(c) \/ Closed(c))

FairSpec == Spec /\ Fairness

-----------------------------------------------------------------------------
(* Properties.                                                              *)

\* The coroutine is called only once: a value is running exactly as long as
\* one compute object has to end, there is never a second one, and the
\* arguments are there for it.  This is so until a compute object goes astray;
\* and a value runs for nothing only if a notification was cut off or a
\* compute object lost (AsyncLazyValue_await, ensure_future, set_error).
OneComputation ==
  "astray" \notin mishap =>
    /\ \A c, d \in Compute : Active(c) /\ Active(d) => c = d
    /\ \A c \in Compute : Active(c) =>
         (alv_state = "running" \/ creating = c) /\ alv_args
    /\ alv_state = "running" => mishap # {} \/ \E c \in Compute : Active(c)

\* Everybody who gets a result gets the cached one, and a value that has one
\* is done, whatever is lost or cut off, until a compute object goes astray
\* (AsyncLazyValue_set_result).
ResultsAgree ==
  "astray" \notin mishap =>
    /\ alv_result # NULL => alv_state = "done"
    /\ \A f \in Future : fut[f].st = "result" => fut[f].by = alv_result

\* Whatever goes wrong, a waiter that has not been told is on the list of the
\* value, where the end of a computation will find it, and the value is not
\* taken for one that nobody waits for.  A value is done before it has told
\* everyone only when the notification was cut off (AsyncLazyValue_new_future,
\* set_result, set_error).
NobodyForgotten ==
  \A f \in Future : fut[f].st = "pending" =>
    /\ Listed(f, Len(alv_futures) + 1) /\ alv_state # "not_started"
    /\ alv_state = "done" => "cut" \in mishap

\* Every waiter is told in the end, whichever of the tasks are cancelled,
\* unless one of the three mishaps comes between.
WaitersServed ==
  \A f \in Future : fut[f].st = "pending" ~> (fut[f].st # "pending" \/ mishap # {})
=============================================================================
