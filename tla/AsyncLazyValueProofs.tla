------------------------ MODULE AsyncLazyValueProofs -------------------------
(***************************************************************************)
(* The safety of AsyncLazyValue, for any number of awaits.                 *)
(***************************************************************************)
EXTENDS AsyncLazyValue, SequenceTheorems, TLAPS

\* Every compute object that may run is the value's own.
Orderly == "astray" \notin mishap

\* A task is under construction only before the value runs and before its
\* first step; a value is done exactly when it has a result, and only then has
\* a waiter one; the arguments are kept until then.
Own ==
  /\ OneComputation /\ ResultsAgree
  /\ creating # NULL => compute[creating] = "new" /\ alv_state = "not_started"
  /\ alv_state = "done" <=> alv_result # NULL
  /\ alv_state # "done" => alv_args
  /\ \A f \in Future : fut[f].st = "result" => alv_state = "done"

\* The inductive invariant: nobody is forgotten, whatever happens; the rest
\* holds while the value is orderly.
Inv == TypeOK /\ NobodyForgotten /\ (Orderly => Own)

LEMMA InvInit == Init => Inv
<1> SUFFICES ASSUME Init PROVE Inv
  OBVIOUS
<1>1. TypeOK
  <2>1. alv_args \in BOOLEAN /\ mishap \subseteq Mishap
    BY Zenon DEF Init
  <2>2. alv_futures \in Seq(Future)
    BY DEF Init
  <2>3. fut \in [Future -> [st : {"none", "pending", "result", "error", "cancelled"},
                            by : Compute \cup {NULL}]]
    BY DEF Init
  <2>4. compute \in [Compute -> {"none", "new", "suspended", "executing",
                                 "closing", "closed", "cleared"}]
    BY DEF Init
  <2>5. /\ alv_state \in {"not_started", "running", "done"}
        /\ alv_result \in Compute \cup {NULL} /\ creating \in Compute \cup {NULL}
    BY DEF Init
  <2> QED
    BY <2>1, <2>2, <2>3, <2>4, <2>5 DEF TypeOK
<1>2. \A c \in Compute : ~Active(c)
  BY DEF Init, Active
<1>3. \A f \in Future : fut[f].st = "none"
  BY DEF Init
<1> QED
  BY <1>1, <1>2, <1>3 DEF Init, Inv, Own, OneComputation, ResultsAgree, NobodyForgotten

-----------------------------------------------------------------------------
(* Type correctness.                                                        *)

LEMMA NotifiedType ==
  ASSUME TypeOK, NEW c \in Compute, NEW kind \in {"result", "error", "cancelled"}, NEW n
  PROVE  Notified(c, kind, n) \in
           [Future -> [st : {"none", "pending", "result", "error", "cancelled"},
                       by : Compute \cup {NULL}]]
BY DEF TypeOK, Notified

LEMMA TypeNext ==
  ASSUME TypeOK, [Next]_vars
  PROVE  TypeOK'
<1>1. ASSUME NEW c \in Compute, StartCompute(c) \/ NewTask(c) \/ Send(c) \/ Yield(c)
      PROVE  TypeOK'
  BY <1>1 DEF TypeOK, StartCompute, NewTask, Send, Yield, value, Mishap
<1>2. ASSUME NEW c \in Compute, set_result(c), compute' \in [Compute ->
        {"none", "new", "suspended", "executing", "closing", "closed", "cleared"}],
        UNCHANGED creating
      PROVE  TypeOK'
  BY <1>2, NotifiedType DEF TypeOK, set_result, Cut, CutMishap, Mishap
<1>3. ASSUME NEW c \in Compute, NEW kind \in {"error", "cancelled"}, set_error(c, kind),
        compute' \in [Compute ->
        {"none", "new", "suspended", "executing", "closing", "closed", "cleared"}],
        UNCHANGED creating
      PROVE  TypeOK'
  <2>1. PICK n \in NotifyEnds \cup {0} :
          /\ fut' = Notified(c, kind, n)
          /\ mishap' = CutMishap(n)
          /\ IF Cut(n) THEN UNCHANGED <<alv_state, alv_futures>>
             ELSE alv_futures' = << >> /\ alv_state' = "not_started"
          /\ UNCHANGED <<alv_result, alv_args>>
    BY <1>3 DEF set_error
  <2>2. mishap' \subseteq Mishap
    BY <2>1 DEF CutMishap, TypeOK, Mishap
  <2>3. fut' \in [Future -> [st : {"none", "pending", "result", "error", "cancelled"},
                             by : Compute \cup {NULL}]]
    BY <2>1, NotifiedType
  <2>4. alv_futures' \in Seq(Future) /\ alv_state' \in {"not_started", "running", "done"}
    <3>1. CASE Cut(n)
      BY <2>1, <3>1 DEF TypeOK
    <3>2. CASE ~Cut(n)
      BY <2>1, <3>2
    <3> QED
      BY <3>1, <3>2
  <2> QED
    BY <1>3, <2>1, <2>2, <2>3, <2>4 DEF TypeOK
<1>4. ASSUME NEW c \in Compute, Finish(c) PROVE TypeOK'
  BY <1>2, <1>3, <1>4 DEF Finish, TypeOK
<1>5. ASSUME NEW c \in Compute, Closed(c) PROVE TypeOK'
  BY <1>3, <1>5 DEF Closed, TypeOK
<1>6. ASSUME NEW c \in Compute, Throw(c) \/ Close(c) \/ Drop(c) PROVE TypeOK'
  BY <1>6 DEF TypeOK, Throw, Close, Drop, value, Losing, Mishap
<1>7. ASSUME NEW f \in Future, NewFuture(f) PROVE TypeOK'
  BY <1>7 DEF TypeOK, NewFuture
<1>8. ASSUME NEW f \in Future, DoneFuture(f) \/ CancelFuture(f) PROVE TypeOK'
  BY <1>8 DEF TypeOK, DoneFuture, CancelFuture, value
<1>9. CASE TaskCreated
  BY <1>9 DEF TypeOK, TaskCreated, Mishap
<1>10. CASE UNCHANGED vars
  BY <1>10 DEF TypeOK, vars, value
<1> QED
  BY <1>1, <1>4, <1>5, <1>6, <1>7, <1>8, <1>9, <1>10 DEF Next, Step

-----------------------------------------------------------------------------
(* Nobody is forgotten.                                                     *)

\* A notification that was not cut off has told everyone who was waiting.
LEMMA AllTold ==
  ASSUME TypeOK, NobodyForgotten, NEW c \in Compute,
         NEW kind \in {"result", "error", "cancelled"},
         NEW n \in NotifyEnds \cup {0}, ~Cut(n), NEW f \in Future
  PROVE  Notified(c, kind, n)[f].st # "pending"
<1>1. n = Len(alv_futures) + 1
  BY DEF NotifyEnds, Cut, TypeOK
<1>2. CASE fut[f].st = "pending"
  <2>1. Listed(f, n)
    BY <1>1, <1>2 DEF NobodyForgotten
  <2> QED
    BY <1>2, <2>1 DEF Notified
<1>3. CASE fut[f].st # "pending"
  BY <1>3 DEF Notified
<1> QED
  BY <1>2, <1>3

LEMMA StillWaiting ==
  ASSUME NEW c \in Compute, NEW kind \in {"result", "error", "cancelled"}, NEW n,
         NEW f \in Future, Notified(c, kind, n)[f].st = "pending"
  PROVE  fut[f].st = "pending"
BY DEF Notified

LEMMA ErrorForgetsNobody ==
  ASSUME TypeOK, NobodyForgotten, NEW c \in Compute,
         NEW kind \in {"error", "cancelled"}, set_error(c, kind)
  PROVE  NobodyForgotten'
<1>1. PICK n \in NotifyEnds \cup {0} :
        /\ fut' = Notified(c, kind, n)
        /\ mishap' = CutMishap(n)
        /\ IF Cut(n) THEN UNCHANGED <<alv_state, alv_futures>>
           ELSE alv_futures' = << >> /\ alv_state' = "not_started"
        /\ UNCHANGED <<alv_result, alv_args>>
  BY DEF set_error
<1> SUFFICES ASSUME NEW f \in Future, fut'[f].st = "pending"
             PROVE  /\ Listed(f, Len(alv_futures) + 1)' /\ alv_state' # "not_started"
                    /\ alv_state' = "done" => "cut" \in mishap'
  BY DEF NobodyForgotten
<1>2. Cut(n)
  BY <1>1, AllTold
<1>3. fut[f].st = "pending"
  BY <1>1, StillWaiting
<1> QED
  BY <1>1, <1>2, <1>3 DEF NobodyForgotten, Listed, CutMishap

LEMMA ResultForgetsNobody ==
  ASSUME TypeOK, NobodyForgotten, NEW c \in Compute, set_result(c)
  PROVE  NobodyForgotten'
<1>1. PICK n \in NotifyEnds :
        /\ alv_state' = "done" /\ fut' = Notified(c, "result", n)
        /\ mishap' = CutMishap(n) /\ UNCHANGED alv_futures
  BY DEF set_result
<1> SUFFICES ASSUME NEW f \in Future, fut'[f].st = "pending"
             PROVE  Listed(f, Len(alv_futures) + 1)' /\ "cut" \in mishap'
  BY <1>1 DEF NobodyForgotten
<1>2. Cut(n)
  BY <1>1, AllTold
<1>3. fut[f].st = "pending"
  BY <1>1, StillWaiting
<1> QED
  BY <1>1, <1>2, <1>3 DEF NobodyForgotten, Listed, CutMishap

LEMMA NobodyNext ==
  ASSUME TypeOK, NobodyForgotten, [Next]_vars
  PROVE  NobodyForgotten'
<1>1. ASSUME UNCHANGED <<alv_futures, fut>>, mishap \subseteq mishap',
             \/ alv_state' = alv_state
             \/ alv_state' = "running"
      PROVE  NobodyForgotten'
  BY <1>1 DEF NobodyForgotten, Listed
<1>2. ASSUME NEW c \in Compute,
             \/ StartCompute(c) \/ NewTask(c) \/ Send(c) \/ Yield(c)
             \/ Throw(c) \/ Close(c) \/ Drop(c)
      PROVE  NobodyForgotten'
  BY <1>1, <1>2 DEF StartCompute, NewTask, Send, Yield, Throw, Close, Drop, Losing, value
<1>3. ASSUME NEW c \in Compute, Finish(c) \/ Closed(c) PROVE NobodyForgotten'
  BY <1>3, ResultForgetsNobody, ErrorForgetsNobody DEF Finish, Closed
<1>4. ASSUME NEW f \in Future, NewFuture(f) PROVE NobodyForgotten'
  <2>1. alv_futures \in Seq(Future) /\ alv_futures' = Append(alv_futures, f)
    BY <1>4 DEF NewFuture, TypeOK
  <2>2. Len(alv_futures') = Len(alv_futures) + 1 /\ alv_futures'[Len(alv_futures) + 1] = f
    BY <2>1
  <2>3. \A i \in 1 .. Len(alv_futures) : alv_futures'[i] = alv_futures[i]
    BY <2>1
  <2>4. Listed(f, Len(alv_futures) + 1)'
    BY <2>1, <2>2 DEF Listed
  <2>5. ASSUME NEW g \in Future, Listed(g, Len(alv_futures) + 1)
        PROVE  Listed(g, Len(alv_futures) + 1)'
    BY <2>1, <2>2, <2>3, <2>5 DEF Listed
  <2>6. \A g \in Future : g # f => fut'[g] = fut[g]
    BY <1>4 DEF NewFuture, TypeOK
  <2> QED
    BY <1>4, <2>4, <2>5, <2>6 DEF NewFuture, NobodyForgotten
<1>5. ASSUME NEW f \in Future, DoneFuture(f) \/ CancelFuture(f) PROVE NobodyForgotten'
  <2>1. /\ fut'[f].st # "pending" /\ \A g \in Future : g # f => fut'[g] = fut[g]
        /\ UNCHANGED <<value, mishap>>
    BY <1>5 DEF DoneFuture, CancelFuture, TypeOK
  <2> QED
    BY <2>1 DEF NobodyForgotten, Listed, value
<1>6. CASE TaskCreated
  BY <1>1, <1>6 DEF TaskCreated
<1>7. CASE UNCHANGED vars
  BY <1>1, <1>7 DEF vars, value
<1> QED
  BY <1>2, <1>3, <1>4, <1>5, <1>6, <1>7 DEF Next, Step

-----------------------------------------------------------------------------
(* While the value is orderly: a computation ends.                          *)

\* The computation that ends is the only one, and the value is running.
LEMMA Alone ==
  ASSUME TypeOK, Own, Orderly,
         NEW c \in Compute, compute[c] \in {"suspended", "executing", "closing"}
  PROVE  /\ alv_state = "running" /\ alv_args /\ alv_result = NULL /\ creating = NULL
         /\ \A d \in Compute : Active(d) => d = c
         /\ \A f \in Future : fut[f].st # "result"
<1>1. Active(c)
  BY DEF Active
<1>2. \A d \in Compute : Active(d) => d = c
  BY <1>1 DEF Own, Orderly, OneComputation
<1>3. creating = NULL
  <2> SUFFICES ASSUME creating # NULL PROVE FALSE
    OBVIOUS
  <2>1. compute[creating] = "new" /\ creating \in Compute
    BY DEF Own, TypeOK
  <2> QED
    BY <1>2, <2>1 DEF Active
<1>4. alv_state = "running"
  BY <1>1, <1>3, NullAssumption DEF Own, Orderly, OneComputation
<1> QED
  BY <1>2, <1>3, <1>4 DEF Own

LEMMA SetResult ==
  ASSUME TypeOK, Own, Orderly, NEW c \in Compute, compute[c] = "executing",
         compute' = [compute EXCEPT ![c] = "cleared"],
         set_result(c), UNCHANGED creating
  PROVE  Own'
<1>1. PICK n \in NotifyEnds :
        /\ alv_result' = c /\ alv_state' = "done"
        /\ fut' = Notified(c, "result", n)
  BY DEF set_result
<1>2. /\ creating = NULL /\ \A d \in Compute : Active(d) => d = c
      /\ \A f \in Future : fut[f].st # "result"
  BY Alone
<1>3. \A d \in Compute : ~Active(d)'
  BY <1>2 DEF Active, TypeOK
<1>4. OneComputation'
  BY <1>1, <1>3 DEF OneComputation
<1>5. \A f \in Future : fut'[f].st = "result" => fut'[f].by = c
  BY <1>1, <1>2 DEF Notified
<1>6. ResultsAgree'
  BY <1>1, <1>5 DEF ResultsAgree
<1> QED
  BY <1>1, <1>2, <1>4, <1>6, NullAssumption DEF Own

LEMMA SetError ==
  ASSUME TypeOK, Own, Orderly, NEW c \in Compute,
         compute[c] \in {"executing", "closing"},
         NEW next \in {"closed", "cleared"}, NEW kind \in {"error", "cancelled"},
         compute' = [compute EXCEPT ![c] = next],
         set_error(c, kind), UNCHANGED creating
  PROVE  Own'
<1>1. PICK n \in NotifyEnds \cup {0} :
        /\ fut' = Notified(c, kind, n)
        /\ mishap' = CutMishap(n)
        /\ IF Cut(n) THEN UNCHANGED <<alv_state, alv_futures>>
           ELSE alv_futures' = << >> /\ alv_state' = "not_started"
        /\ UNCHANGED <<alv_result, alv_args>>
  BY DEF set_error
<1>2. /\ alv_state = "running" /\ alv_args /\ alv_result = NULL /\ creating = NULL
      /\ \A d \in Compute : Active(d) => d = c
      /\ \A f \in Future : fut[f].st # "result"
  BY Alone
<1>3. \A d \in Compute : ~Active(d)'
  BY <1>2 DEF Active, TypeOK
<1>4. alv_state' = "running" => mishap' # {}
  BY <1>1, <1>2 DEF CutMishap
<1>5. OneComputation'
  BY <1>3, <1>4 DEF OneComputation
<1>6. \A f \in Future : fut'[f].st # "result"
  BY <1>1, <1>2 DEF Notified
<1>7. /\ alv_state' \in {"running", "not_started"} /\ alv_result' = NULL
      /\ alv_args' /\ creating' = NULL
  BY <1>1, <1>2
<1>8. ResultsAgree'
  BY <1>6, <1>7 DEF ResultsAgree
<1> QED
  BY <1>5, <1>6, <1>7, <1>8 DEF Own

-----------------------------------------------------------------------------
(* The other steps.                                                         *)

\* A step of the only computation that does not end it.
LEMMA StillActive ==
  ASSUME TypeOK, Own, Orderly, NEW c \in Compute,
         NEW old \in {"new", "suspended", "executing"}, compute[c] = old,
         NEW next \in {"suspended", "executing", "closing"},
         compute' = [compute EXCEPT ![c] = next],
         creating = NULL, UNCHANGED <<value, fut, creating, mishap>>
  PROVE  Own'
<1>1. \A d \in Compute : Active(d)' <=> Active(d)
  BY DEF Active, TypeOK
<1>2. OneComputation'
  BY <1>1 DEF Own, OneComputation, value
<1>3. ResultsAgree'
  BY DEF Own, ResultsAgree, value
<1> QED
  BY <1>2, <1>3 DEF Own, value

\* A compute object goes: a closed one, or one that has not ended.
LEMMA Gone ==
  ASSUME TypeOK, Own, Orderly, NEW c \in Compute,
         compute[c] \in {"new", "suspended", "closed"},
         compute' = [compute EXCEPT ![c] = "cleared"], mishap' = Losing(c),
         c # creating, Runs, UNCHANGED <<value, fut, creating>>
  PROVE  Own'
<1>1. \A d \in Compute : Active(d)' => Active(d)
  BY DEF Active, TypeOK
<1>2. mishap' # {} \/ \A d \in Compute : Active(d)' <=> Active(d)
  BY DEF Active, TypeOK, Losing
<1>3. mishap # {} => mishap' # {}
  BY DEF Losing
<1>4. OneComputation'
  BY <1>1, <1>2, <1>3 DEF Own, Orderly, OneComputation, value
<1>5. ResultsAgree'
  BY DEF Own, Orderly, ResultsAgree, value
<1>6. creating = NULL
  BY DEF Own, Runs
<1> QED
  BY <1>4, <1>5, <1>6 DEF Own, value

LEMMA OwnNext ==
  ASSUME TypeOK, NobodyForgotten, Own, Orderly, Orderly', [Next]_vars
  PROVE  Own'
<1>0. Runs => creating = NULL
  BY DEF Own, Runs
<1>1. ASSUME NEW c \in Compute, StartCompute(c) PROVE Own'
  <2>1. creating = NULL /\ alv_state = "not_started" /\ alv_args
    BY <1>0, <1>1 DEF StartCompute, Own
  <2>2. \A d \in Compute : ~Active(d)
    BY <2>1, NullAssumption DEF Own, Orderly, OneComputation
  <2>3. \A d \in Compute : Active(d)' <=> d = c
    BY <1>1, <2>2 DEF StartCompute, Active, TypeOK
  <2>4. OneComputation'
    BY <1>1, <2>1, <2>3 DEF StartCompute, OneComputation
  <2>5. ResultsAgree'
    BY <1>1, <2>1 DEF StartCompute, Own, Orderly, ResultsAgree
  <2> QED
    BY <1>1, <2>1, <2>4, <2>5 DEF StartCompute, Own
<1>2. ASSUME NEW c \in Compute, NewTask(c) PROVE Own'
  <2>1. creating = NULL /\ alv_state = "not_started" /\ alv_args
    BY <1>2 DEF NewTask, Own
  <2>2. \A d \in Compute : ~Active(d)
    BY <2>1, NullAssumption DEF Own, Orderly, OneComputation
  <2>3. \A d \in Compute : Active(d)' <=> d = c
    BY <1>2, <2>2 DEF NewTask, Active, TypeOK
  <2>4. OneComputation'
    BY <1>2, <2>1, <2>3 DEF NewTask, OneComputation, value
  <2>5. ResultsAgree'
    BY <1>2 DEF NewTask, Own, ResultsAgree, value
  <2>6. compute'[creating'] = "new"
    BY <1>2 DEF NewTask, TypeOK
  <2> QED
    BY <1>2, <2>1, <2>4, <2>5, <2>6 DEF NewTask, Own, value
<1>3. ASSUME NEW c \in Compute, Send(c) PROVE Own'
  <2>1. c # creating /\ compute[c] \in {"new", "suspended"} /\ mishap' = mishap
    BY <1>3 DEF Send, Orderly
  <2>2. creating = NULL
    BY <1>0, <1>3, <2>1 DEF Send
  <2> QED
    BY <1>3, <2>1, <2>2, StillActive DEF Send
<1>4. ASSUME NEW c \in Compute, Yield(c) PROVE Own'
  BY <1>4, StillActive, Alone DEF Yield
<1>5. ASSUME NEW c \in Compute, Finish(c) PROVE Own'
  BY <1>5, SetResult, SetError DEF Finish
<1>6. ASSUME NEW c \in Compute, Closed(c) PROVE Own'
  BY <1>6, SetError DEF Closed
<1>7. ASSUME NEW c \in Compute, Throw(c) PROVE Own'
  BY <1>0, <1>7, StillActive, Gone DEF Throw
<1>8. ASSUME NEW c \in Compute, Close(c) PROVE Own'
  BY <1>0, <1>8, StillActive DEF Close
<1>9. ASSUME NEW c \in Compute, Drop(c) PROVE Own'
  BY <1>9, Gone DEF Drop
<1>10. ASSUME NEW f \in Future, NewFuture(f) PROVE Own'
  <2>1. \A g \in Future : g # f => fut'[g] = fut[g]
    BY <1>10 DEF NewFuture, TypeOK
  <2>2. fut'[f].st = "pending"
    BY <1>10 DEF NewFuture, TypeOK
  <2>3. OneComputation'
    BY <1>10 DEF NewFuture, Own, OneComputation, Active
  <2>4. ResultsAgree'
    BY <1>10, <2>1, <2>2 DEF NewFuture, Own, ResultsAgree
  <2> QED
    BY <1>10, <2>1, <2>2, <2>3, <2>4 DEF NewFuture, Own
<1>11. ASSUME NEW f \in Future, DoneFuture(f) \/ CancelFuture(f) PROVE Own'
  <2>1. \A g \in Future : g # f => fut'[g] = fut[g]
    BY <1>11 DEF DoneFuture, CancelFuture, TypeOK
  <2>2. \/ alv_state = "done" /\ fut'[f].st = "result" /\ fut'[f].by = alv_result
        \/ fut'[f].st = "cancelled"
    BY <1>11 DEF DoneFuture, CancelFuture, TypeOK
  <2>3. UNCHANGED <<value, compute, creating, mishap>>
    BY <1>11 DEF DoneFuture, CancelFuture
  <2>4. OneComputation'
    BY <2>3 DEF Own, OneComputation, Active, value
  <2>5. ResultsAgree'
    BY <2>1, <2>2, <2>3 DEF Own, ResultsAgree, value
  <2> QED
    BY <2>1, <2>2, <2>3, <2>4, <2>5 DEF Own, value
<1>12. CASE TaskCreated
  <2>1. /\ creating \in Compute /\ compute[creating] = "new" /\ alv_state = "not_started"
        /\ alv_args /\ Active(creating) /\ alv_result = NULL
    BY <1>12 DEF TaskCreated, Own, TypeOK, Active
  <2>2. \A d \in Compute : Active(d) => d = creating
    BY <2>1 DEF Own, Orderly, OneComputation
  <2>3. ResultsAgree'
    BY <1>12, <2>1 DEF TaskCreated, Own, Orderly, ResultsAgree
  <2>4. CASE alv_state' = "running" /\ UNCHANGED <<compute, mishap>>
    <3>1. OneComputation'
      BY <1>12, <2>1, <2>2, <2>4 DEF TaskCreated, OneComputation, Active
    <3> QED
      BY <1>12, <2>1, <2>3, <2>4, <3>1 DEF TaskCreated, Own
  <2>5. CASE /\ compute' = [compute EXCEPT ![creating] = "cleared"]
             /\ UNCHANGED <<alv_state, mishap>>
    <3>1. \A d \in Compute : ~Active(d)'
      BY <2>2, <2>5 DEF Active, TypeOK
    <3>2. OneComputation'
      BY <2>1, <2>5, <3>1 DEF OneComputation
    <3> QED
      BY <1>12, <2>1, <2>3, <2>5, <3>2 DEF TaskCreated, Own
  <2> QED
    BY <1>12, <2>4, <2>5 DEF TaskCreated, Orderly
<1>13. CASE UNCHANGED vars
  BY <1>13 DEF vars, value, Own, OneComputation, Active, ResultsAgree
<1> QED
  BY <1>1, <1>2, <1>3, <1>4, <1>5, <1>6, <1>7, <1>8, <1>9, <1>10, <1>11, <1>12, <1>13 DEF Next, Step

\* Nothing that went wrong is forgotten.
LEMMA OrderlyBefore == ASSUME [Next]_vars, Orderly' PROVE Orderly
<1>1. ASSUME NEW c \in Compute, Finish(c) \/ Closed(c) PROVE mishap \subseteq mishap'
  BY <1>1 DEF Finish, Closed, set_result, set_error, CutMishap
<1>2. ASSUME NEW c \in Compute,
             \/ StartCompute(c) \/ NewTask(c) \/ Send(c) \/ Yield(c)
             \/ Throw(c) \/ Close(c) \/ Drop(c)
      PROVE  mishap \subseteq mishap'
  BY <1>2 DEF StartCompute, NewTask, Send, Yield, Throw, Close, Drop, Losing
<1>3. ASSUME NEW f \in Future, NewFuture(f) \/ DoneFuture(f) \/ CancelFuture(f)
      PROVE  mishap \subseteq mishap'
  BY <1>3 DEF NewFuture, DoneFuture, CancelFuture
<1>4. CASE TaskCreated \/ UNCHANGED vars
  BY <1>4 DEF TaskCreated, vars, Orderly
<1> QED
  BY <1>1, <1>2, <1>3, <1>4 DEF Next, Step, Orderly

LEMMA InvHolds == Spec => []Inv
<1>1. Inv /\ [Next]_vars => Inv'
  BY TypeNext, NobodyNext, OwnNext, OrderlyBefore DEF Inv
<1> QED
  BY <1>1, InvInit, PTL DEF Spec

-----------------------------------------------------------------------------
\* The coroutine is called only once at a time: whatever is cancelled, closed,
\* dropped, fails or cannot be told, there is at most one computation, until a
\* compute object runs that the value does not know of; and a value runs
\* without a computation only after a mishap.
THEOREM OnlyOneComputation == Spec => []OneComputation
<1>1. Inv => OneComputation
  BY DEF Inv, Own, Orderly, OneComputation
<1> QED
  BY <1>1, InvHolds, PTL

\* Whoever gets a result gets the cached one, and a value with a result is
\* done, until a compute object runs that the value does not know of.
THEOREM AllResultsAgree == Spec => []ResultsAgree
<1>1. Inv => ResultsAgree
  BY DEF Inv, Own, Orderly, ResultsAgree
<1> QED
  BY <1>1, InvHolds, PTL

\* A waiter that has not been told is on the list of the value, which is
\* running, or done with a notification that was cut off: with eager tasks,
\* closed compute objects and failing notifications too.
THEOREM NobodyIsForgotten == Spec => []NobodyForgotten
BY InvHolds, PTL DEF Inv
=============================================================================
