------------------------------ MODULE RPCRequest ------------------------------
(***************************************************************************)
(* An RPCRequest and the threads that share it: one runs it, one cancels   *)
(* it, some register a callback, some wait, one more may try to run it     *)
(* again.  The call itself (call_fn_) may register an onCancel callback    *)
(* through its RPCContext and returns or throws at any time.  The fields   *)
(* of the request are the record q.  on_ready_ and on_cancel_ are read and *)
(* cleared outside the mutex: the test, the call and the clearing are      *)
(* steps of their own, and calling a callback that another thread cleared  *)
(* throws.                                                                 *)
(***************************************************************************)
EXTENDS Naturals, FiniteSets

CONSTANTS Threads, NoThread

VARIABLES
  q,        \* ready_, error_, running_, on_ready_, on_cancel_
  op,       \* what each thread does with the request
  at,       \* how far it is
  waiting,  \* threads in cv_.wait()
  called,   \* how often the callback of an observer ran
  cancelSeen    \* the call's onCancel callback: "no", "asked" for, "seen"

vars == <<q, op, at, waiting, called, cancelSeen>>

Ops == {"run", "cancel", "onReady", "wait", "waitFor"}

Init ==
  /\ q = [ready |-> FALSE, error |-> "null", running |-> FALSE,
          on_ready |-> NoThread, on_cancel |-> FALSE]
  /\ op \in [Threads -> Ops]
  /\ at = [t \in Threads |-> "idle"]
  /\ waiting = {} /\ called = [t \in Threads |-> 0] /\ cancelSeen = "no"

Goto(t, p) == at' = [at EXCEPT ![t] = p]

\* run(): refused when the request is finished or running.
run(t) ==
  /\ op[t] = "run" /\ at[t] = "idle"
  /\ IF q.ready \/ q.running
     THEN Goto(t, "raised") /\ UNCHANGED q
     ELSE Goto(t, "calling") /\ q' = [q EXCEPT !.running = TRUE]
  /\ UNCHANGED <<op, waiting, called, cancelSeen>>

\* RPCContext::onCancel() inside the call.
onCancel(t) ==
  /\ at[t] = "calling" /\ cancelSeen = "no"
  /\ IF q.error # "null" THEN cancelSeen' = "seen" /\ UNCHANGED q
     ELSE cancelSeen' = "asked" /\ q' = [q EXCEPT !.on_cancel = TRUE]
  /\ UNCHANGED <<op, at, waiting, called>>

\* returnSuccess(), first half: ready_ is set whatever it was.
returnSuccess(t) ==
  /\ at[t] = "calling"
  /\ q' = [q EXCEPT !.ready = TRUE] /\ Goto(t, "notify")
  /\ UNCHANGED <<op, waiting, called, cancelSeen>>

\* The call throws and returnError() settles the request; on a request that was
\* cancelled meanwhile it raises, and so does the retry with the plain message.
returnError(t) ==
  /\ at[t] = "calling"
  /\ IF q.ready THEN Goto(t, "raised") /\ UNCHANGED q
     ELSE q' = [q EXCEPT !.ready = TRUE, !.error = "failed"] /\ Goto(t, "notify")
  /\ UNCHANGED <<op, waiting, called, cancelSeen>>

\* Mutant: cancel() does not look at ready_.
cancel_unchecked(t) ==
  /\ op[t] = "cancel" /\ at[t] = "idle"
  /\ q' = [q EXCEPT !.ready = TRUE, !.error = "cancelled"] /\ Goto(t, "notify")
  /\ UNCHANGED <<op, waiting, called, cancelSeen>>

\* cancel(): nothing to do for a finished request.
cancel(t) ==
  /\ op[t] = "cancel" /\ at[t] = "idle"
  /\ IF q.ready THEN Goto(t, "done") /\ UNCHANGED q
     ELSE q' = [q EXCEPT !.ready = TRUE, !.error = "cancelled"] /\ Goto(t, "notify")
  /\ UNCHANGED <<op, waiting, called, cancelSeen>>

\* Mutant: only one waiter is woken.
notify_one(t) ==
  /\ at[t] = "notify"
  /\ IF waiting = {} THEN UNCHANGED waiting
                     ELSE \E w \in waiting : waiting' = waiting \ {w}
  /\ Goto(t, IF op[t] = "cancel" THEN "testCancel" ELSE "testReady")
  /\ UNCHANGED <<op, q, called, cancelSeen>>

\* cv_.notify_all(), after the mutex is released.
notify(t) ==
  /\ at[t] = "notify"
  /\ waiting' = {}
  /\ Goto(t, IF op[t] = "cancel" THEN "testCancel" ELSE "testReady")
  /\ UNCHANGED <<op, q, called, cancelSeen>>

\* Mutant: cancel() clears the callback it should call.
callOnCancel_cleared(t) ==
  /\ at[t] = "testCancel" /\ Goto(t, "testReady")
  /\ q' = [q EXCEPT !.on_cancel = FALSE]
  /\ UNCHANGED <<op, waiting, called, cancelSeen>>

\* cancel() tests on_cancel_ and calls it.
callOnCancel(t) ==
  /\ \/ /\ at[t] = "testCancel"
        /\ Goto(t, IF q.on_cancel THEN "callCancel" ELSE "testReady")
        /\ UNCHANGED cancelSeen
     \/ /\ at[t] = "callCancel"
        /\ IF q.on_cancel THEN cancelSeen' = "seen" /\ Goto(t, "testReady")
           ELSE Goto(t, "raised") /\ UNCHANGED cancelSeen
  /\ UNCHANGED <<q, op, waiting, called>>

\* Mutant: the callbacks are cleared before they are tested.
testOnReady_afterClear(t) ==
  /\ at[t] = "testReady" /\ Goto(t, "clear")
  /\ UNCHANGED <<q, op, waiting, called, cancelSeen>>

\* on_ready_ is tested ...
testOnReady(t) ==
  /\ at[t] = "testReady"
  /\ Goto(t, IF q.on_ready # NoThread THEN "callReady" ELSE "clear")
  /\ UNCHANGED <<q, op, waiting, called, cancelSeen>>

\* ... called, if it is still there ...
callOnReady(t) ==
  /\ at[t] = "callReady"
  /\ IF q.on_ready = NoThread THEN Goto(t, "raised") /\ UNCHANGED called
     ELSE /\ called' = [called EXCEPT ![q.on_ready] = @ + 1] /\ Goto(t, "clear")
  /\ UNCHANGED <<q, op, waiting, cancelSeen>>

\* ... and cleared with the others.
clearCallbacks(t) ==
  /\ at[t] = "clear" /\ Goto(t, "done")
  /\ q' = [q EXCEPT !.on_ready = NoThread, !.on_cancel = FALSE]
  /\ UNCHANGED <<op, waiting, called, cancelSeen>>

\* onReady(): runs the callback at once on a finished request, else stores it in
\* place of any other.
onReady(t) ==
  /\ op[t] = "onReady" /\ at[t] = "idle"
  /\ Goto(t, "done")
  /\ IF q.ready THEN called' = [called EXCEPT ![t] = @ + 1] /\ UNCHANGED q
     ELSE q' = [q EXCEPT !.on_ready = t] /\ UNCHANGED called
  /\ UNCHANGED <<op, waiting, cancelSeen>>

\* wait() and waitFor(): wait() goes on waiting until ready_, waitFor() waits once.
wait(t) ==
  /\ op[t] \in {"wait", "waitFor"} /\ t \notin waiting /\ at[t] \in {"idle", "slept"}
  /\ IF q.ready \/ (op[t] = "waitFor" /\ at[t] = "slept")
     THEN Goto(t, "done") /\ UNCHANGED waiting
     ELSE Goto(t, "slept") /\ waiting' = waiting \cup {t}
  /\ UNCHANGED <<q, op, called, cancelSeen>>

\* waitFor()'s time is up.
timeout(t) ==
  /\ op[t] = "waitFor" /\ t \in waiting /\ waiting' = waiting \ {t}
  /\ UNCHANGED <<q, op, at, called, cancelSeen>>

Step(t) ==
  \/ run(t) \/ onCancel(t) \/ returnSuccess(t) \/ returnError(t) \/ cancel(t)
  \/ notify(t) \/ callOnCancel(t) \/ testOnReady(t) \/ callOnReady(t)
  \/ clearCallbacks(t) \/ onReady(t) \/ wait(t) \/ timeout(t)

Next == \E t \in Threads : Step(t)

\* Every thread keeps running; a call returns.
Fairness == \A t \in Threads : WF_vars(Step(t))
Spec == Init /\ [][Next]_vars /\ Fairness

-----------------------------------------------------------------------------
Settling(t) == at[t] \in {"notify", "testCancel", "callCancel", "testReady",
                          "callReady", "clear"}

\* The outcome never changes once waiters can see it: a cancel() that comes after
\* the result, or an error after a cancel(), leaves error_ alone.
OutcomeFrozen == [][q.ready => (q'.ready /\ q'.error = q.error)]_vars

\* A registered callback runs, although run() and cancel() may both be settling
\* the request and each clears what the other tested: once nobody is settling,
\* the callback of an observer that no other one replaced has run.
ReadyCallbackRuns ==
  (q.ready /\ ~(\E t \in Threads : Settling(t)))
    => \A t \in Threads :
         (/\ op[t] = "onReady" /\ at[t] = "done"
          /\ \A u \in Threads \ {t} : op[u] # "onReady") => called[t] > 0

\* A call that registered a cancel callback and is still running when cancel()
\* has settled the request has been told.
CancelReachesCall ==
  (q.error = "cancelled" /\ \E r \in Threads : at[r] = "calling")
    => cancelSeen # "asked" \/ \E c \in Threads : Settling(c)

\* No waiter is left behind: when the request is settled, every thread that has called
\* wait() or waitFor() by then, or calls it later, returns.
RequestWaitersReturn ==
  []<>(q.ready => \A t \in Threads : op[t] \in {"wait", "waitFor"} => at[t] = "done")
=============================================================================
