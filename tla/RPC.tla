--------------------------------- MODULE RPC ---------------------------------
(***************************************************************************)
(* A remote call as its callers see it: an AnyRPC, the references to it,   *)
(* and HTTPRPCClient::call(), which leaves two callbacks with the future   *)
(* of an HTTP request.  The thread "loop" fulfils the future; a caller     *)
(* that registers a callback after that runs it itself.  ready_wakeup_ is  *)
(* an instance of Wakeup.  The future is one step for each of its          *)
(* operations (see Future), the request is settled once (see HTTPClient).  *)
(***************************************************************************)
EXTENDS Naturals, Sequences, FiniteSets

CONSTANTS Users, Callbacks

VARIABLES
  refcount_,
  handles,      \* the users that hold an AutoRef
  http,         \* how the HTTP request stands, or ended
  slots,        \* the callbacks left with its future
  at,           \* what each thread does now, and next, in call() or a callback
  status_, result_, is_ready_,
  told,         \* what each wait() and each callback found
  gen_, callbacks_, pc, oldgen, waiting, spliced, requested, firedAt

Threads == Users \cup {"loop"}

wakeupVars == <<gen_, callbacks_, pc, oldgen, waiting, spliced, requested, firedAt>>
rpcVars == <<status_, result_, is_ready_>>
vars == <<refcount_, handles, http, slots, at, rpcVars, told, wakeupVars>>

ready_wakeup_ == INSTANCE Wakeup WITH MaxGen <- 1, FutureGenerations <- FALSE

Outcomes == {"2xx", "undecodable", "not2xx", "failed"}
Slot(outcome) == IF outcome = "failed" THEN "onFailure" ELSE "onSuccess"

\* mkRPC(): the constructor counts a reference for the answer, the AutoRef another.
Init ==
  /\ refcount_ = 2
  /\ \E t \in Users : handles = {t}
  /\ http = "none" /\ slots = {}
  /\ at = [t \in Threads |-> <<>>]
  /\ status_ = "success" /\ result_ = FALSE /\ is_ready_ = FALSE
  /\ told = [x \in Users \cup Callbacks |-> "none"]
  /\ ready_wakeup_!Init

Goto(t, steps) == at' = [at EXCEPT ![t] = steps]
Does(t, step) == at[t] # <<>> /\ Head(at[t]) = step
Then(t, step) == Goto(t, <<step>> \o Tail(at[t]))

Free(t) == t \in handles /\ at[t] = <<>> /\ pc[t] = "idle"

\* A user hands a reference to another one, or drops its own.
copyRef(t, u) ==
  /\ Free(t) /\ u \notin handles
  /\ handles' = handles \cup {u} /\ refcount_' = refcount_ + 1
  /\ UNCHANGED <<http, slots, at, rpcVars, told, wakeupVars>>

dropRef(t) ==
  /\ Free(t)
  /\ handles' = handles \ {t} /\ refcount_' = refcount_ - 1
  /\ UNCHANGED <<http, slots, at, rpcVars, told, wakeupVars>>

\* HTTPRPCClient::call(): the pool accepts the request, or cannot resolve its host and
\* raises; rpc is passed by value.
call(t) ==
  /\ Free(t) /\ http = "none"
  /\ \/ http' = "pending" /\ Goto(t, <<"onSuccess", "onFailure", "return">>) /\ refcount_' = refcount_ + 1
     \/ http' = "raised" /\ UNCHANGED <<at, refcount_>>
  /\ UNCHANGED <<handles, slots, rpcVars, told, wakeupVars>>

\* onSuccess() and then onFailure() of the future: a callback holds a reference; it is
\* left there, or called at once when the answer has arrived.
register(t, slot) ==
  /\ Does(t, slot)
  /\ IF http = "pending" \/ Slot(http) # slot
     THEN /\ slots' = slots \cup {slot} /\ refcount_' = refcount_ + 1
          /\ Goto(t, Tail(at[t]))
     ELSE Then(t, "answer") /\ UNCHANGED <<slots, refcount_>>
  /\ UNCHANGED <<handles, http, rpcVars, told, wakeupVars>>

returnCall(t) ==
  /\ Does(t, "return")
  /\ Goto(t, <<>>) /\ refcount_' = refcount_ - 1
  /\ UNCHANGED <<handles, http, slots, rpcVars, told, wakeupVars>>

\* The promise is fulfilled; the callback for the outcome is called if it is there.
fulfil ==
  /\ http = "pending"
  /\ \E outcome \in Outcomes :
       /\ http' = outcome
       /\ IF Slot(outcome) \in slots THEN Goto("loop", <<"answer">>) ELSE UNCHANGED at
  /\ UNCHANGED <<refcount_, handles, slots, rpcVars, told, wakeupVars>>

\* The callbacks of call(): a response is decoded, which sets the result and calls
\* ready(), or raises; any other outcome is an error.
decode(t) ==
  /\ Does(t, "answer")
  /\ IF http = "2xx" THEN result_' = TRUE /\ UNCHANGED status_
     ELSE status_' = "error" /\ UNCHANGED result_
  /\ Then(t, "ready")
  /\ UNCHANGED <<refcount_, handles, http, slots, is_ready_, told, wakeupVars>>

\* ready(): is_ready_ under the mutex, ...
ready(t) ==
  /\ Does(t, "ready") /\ Then(t, "wakeup")
  /\ is_ready_' = TRUE
  /\ UNCHANGED <<refcount_, handles, http, slots, status_, result_, told, wakeupVars>>

\* Mutant: the reference is dropped before those who wait are woken.
wakeup_afterDecRef(t) ==
  /\ Does(t, "wakeup") /\ Goto(t, Tail(at[t]))
  /\ ready_wakeup_!wakeup(t)
  /\ refcount_' = refcount_ - 1
  /\ UNCHANGED <<handles, http, slots, rpcVars, told>>

\* ... ready_wakeup_.wakeup(), ...
wakeup(t) ==
  /\ Does(t, "wakeup") /\ Then(t, "decRef")
  /\ ready_wakeup_!wakeup(t)
  /\ UNCHANGED <<refcount_, handles, http, slots, rpcVars, told>>

\* Mutant: the reference of the answer is not returned.
decRef_forgets(t) ==
  /\ Does(t, "decRef") /\ pc[t] = "idle"
  /\ Goto(t, Tail(at[t]))
  /\ UNCHANGED <<refcount_, handles, http, slots, rpcVars, told, wakeupVars>>

\* ... and, when that has run the callbacks, the reference the constructor counted.
decRef(t) ==
  /\ Does(t, "decRef") /\ pc[t] = "idle"
  /\ refcount_' = refcount_ - 1 /\ Goto(t, Tail(at[t]))
  /\ UNCHANGED <<handles, http, slots, rpcVars, told, wakeupVars>>

\* The promise and its last future are gone, and with them the callbacks.
freeFuture ==
  /\ http \in Outcomes /\ slots # {} /\ \A t \in Threads : at[t] = <<>>
  /\ refcount_' = refcount_ - Cardinality(slots) /\ slots' = {}
  /\ UNCHANGED <<handles, http, at, rpcVars, told, wakeupVars>>

Found == IF status_ = "error" THEN "error" ELSE IF result_ THEN "result" ELSE "nothing"

\* wait() and onReady(), onSuccess(), onError(), of a user with a reference.
wait(t) ==
  /\ Free(t) /\ told[t] = "none" /\ ready_wakeup_!callWait(t, 0)
  /\ UNCHANGED <<refcount_, handles, http, slots, at, rpcVars, told>>

onReady(t, c) ==
  /\ Free(t) /\ ready_wakeup_!onWakeup(t, 0, c)
  /\ UNCHANGED <<refcount_, handles, http, slots, at, rpcVars, told>>

\* What goes on inside ready_wakeup_; a wait that ends looks at the status, and so does
\* a callback.
waits(t) ==
  /\ ready_wakeup_!waitForWakeup(t)
  /\ told' = IF pc'[t] = "idle" THEN [told EXCEPT ![t] = Found] ELSE told
  /\ UNCHANGED <<refcount_, handles, http, slots, at, rpcVars>>

spuriousWakeup(t) ==
  /\ ready_wakeup_!spuriousWakeup(t)
  /\ UNCHANGED <<refcount_, handles, http, slots, at, rpcVars, told>>

wakes(t) ==
  /\ ready_wakeup_!notifyAll(t) \/ ready_wakeup_!callCallback(t)
  /\ told' = [x \in DOMAIN told |->
                IF x \in Callbacks /\ firedAt'[x] # firedAt[x] THEN Found ELSE told[x]]
  /\ UNCHANGED <<refcount_, handles, http, slots, at, rpcVars>>

Continue(t) ==
  \/ register(t, "onSuccess") \/ register(t, "onFailure") \/ returnCall(t)
  \/ decode(t) \/ ready(t) \/ wakeup(t) \/ decRef(t) \/ waits(t) \/ wakes(t)

Next ==
  \/ fulfil \/ freeFuture
  \/ \E t \in Users : \/ dropRef(t) \/ call(t) \/ wait(t)
                      \/ \E u \in Users : copyRef(t, u)
                      \/ \E c \in Callbacks : onReady(t, c)
  \/ \E t \in Threads : Continue(t) \/ spuriousWakeup(t)

\* A thread inside call(), a callback or wait() that is not asleep goes on.
Spec == Init /\ [][Next]_vars /\ \A t \in Threads : WF_vars(Continue(t))

-----------------------------------------------------------------------------

Inside(t) == at[t] # <<>> \/ pc[t] # "idle"

\* Nobody is inside an AnyRPC that was deleted, although whoever waited may drop the last
\* reference while ready() is still waking the others; it is deleted when the answer has
\* arrived and the users are done with it; and whoever waits or is called back finds the
\* outcome of the HTTP request.
RPCLives ==
  /\ (handles # {} \/ \E t \in Threads : Inside(t)) => refcount_ > 0
  /\ (/\ handles = {} /\ is_ready_ /\ slots = {}
      /\ ~\E t \in Threads : Inside(t)) => refcount_ = 0
  /\ \A x \in DOMAIN told :
       told[x] # "none" => told[x] = IF http = "2xx" THEN "result" ELSE "error"

\* When the HTTP request has ended, every wait() returns and every callback is called.
RPCAnswers ==
  []<>(http \in Outcomes =>
         /\ \A t \in Threads : pc[t] \notin {"enter", "wait"}
         /\ \A c \in Callbacks : requested[c] # <<>> => firedAt[c] # <<>>)
=============================================================================
