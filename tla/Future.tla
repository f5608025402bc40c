------------------------------- MODULE Future -------------------------------
(***************************************************************************)
(* stx::Promise<T> and stx::Future<T>, thread/future_impl.h: one           *)
(* PromiseState shared by threads that fulfil it, wait for it, read it and *)
(* leave callbacks in its two slots.                                       *)
(*                                                                         *)
(* Every method runs under state_->mutex.  Two things happen beside that:  *)
(* the fulfiller notifies and calls its slot after the unlock, and a       *)
(* callback that comes late runs inside onX() with the mutex held.         *)
(***************************************************************************)
EXTENDS Naturals

CONSTANTS
  Users,     \* threads
  Callbacks, \* functions, each registered at most once
  None

VARIABLES
  mutex,      \* the thread that runs a callback under the mutex, or None
  ready,
  status,     \* "pending" stands for the initial eSuccess without a value
  on_failure,
  on_success,
  pc,
  waiting,    \* threads inside cv.wait or cv.wait_for
  told,       \* history: what callers have been told of the outcome
  kind,       \* history: how each callback was registered
  fired,      \* history: how often each callback was called
  replaced    \* history: <<callback, slot>> overwritten by a later registration

vars == <<mutex, ready, status, on_failure, on_success, pc, waiting, told, kind,
          fired, replaced>>

(***************************************************************************)
(* pc: "idle", "wait" and "waitFor" (in the method of that name),          *)
(* "waitAndGet" (its wait), "get" (its get), "notify" and "call" (success  *)
(* or failure after the unlock), "callback" (in onX with the mutex held).  *)
(***************************************************************************)
PCs == {"idle", "wait", "waitFor", "waitAndGet", "get", "notify", "call", "callback"}
Outcomes == {"success", "failure"}
Kinds == Outcomes \cup {"ready"}

\* None is no thread, no callback and no way to register one.
NoneIsNothing == None \notin Users \cup Callbacks \cup Kinds \cup {"pending", "true"}

\* The answers that say the promise is fulfilled; the others are "false", from
\* waitFor() and isReady(), and the errors "pending future" and "already fulfilled".
Answers == Outcomes \cup {"true"}
Flag(b) == IF b THEN "true" ELSE "false"

TypeOK ==
  /\ mutex \in Users \cup {None}
  /\ ready \in BOOLEAN
  /\ status \in Outcomes \cup {"pending"}
  /\ on_failure \in Callbacks \cup {None}
  /\ on_success \in Callbacks \cup {None}
  /\ pc \in [Users -> PCs]
  /\ waiting \in SUBSET Users
  /\ told \in SUBSET Answers
  /\ kind \in [Callbacks -> Kinds \cup {None}]
  /\ fired \in [Callbacks -> 0..1]
  /\ replaced \in SUBSET (Callbacks \X Outcomes)

Init ==
  /\ mutex = None
  /\ ready = FALSE
  /\ status = "pending"
  /\ on_failure = None
  /\ on_success = None
  /\ pc = [t \in Users |-> "idle"]
  /\ waiting = {}
  /\ told = {}
  /\ kind = [c \in Callbacks |-> None]
  /\ fired = [c \in Callbacks |-> 0]
  /\ replaced = {}

state == <<ready, status, on_failure, on_success, kind, fired, replaced>>

Goto(t, l) == pc' = [pc EXCEPT ![t] = l]
Return(t, r) == Goto(t, "idle") /\ told' = told \cup ({r} \cap Answers)

\* Mutant: ready is tested before the mutex is taken, the wait is unconditional.
waitReady_noTest(t, l) ==
  /\ mutex = None
  /\ pc[t] = "idle" \/ (pc[t] = l /\ t \notin waiting)
  /\ IF ready /\ pc[t] = l
     THEN /\ Goto(t, IF l = "waitAndGet" THEN "get" ELSE "idle")
          /\ UNCHANGED waiting
     ELSE Goto(t, l) /\ waiting' = waiting \cup {t}
  /\ UNCHANGED <<state, mutex, told>>

\* wait(), on its own or as the first half of waitAndGet(): one turn of the loop.
waitReady(t, l) ==
  /\ mutex = None
  /\ pc[t] = "idle" \/ (pc[t] = l /\ t \notin waiting)
  /\ IF ready
     THEN /\ Goto(t, IF l = "waitAndGet" THEN "get" ELSE "idle")
          /\ UNCHANGED waiting
     ELSE Goto(t, l) /\ waiting' = waiting \cup {t}
  /\ UNCHANGED <<state, mutex, told>>

\* waitFor(): true at once, or one wait_for ...
waitFor(t) ==
  /\ mutex = None
  /\ pc[t] = "idle"
  /\ IF ready
     THEN Return(t, "true") /\ UNCHANGED waiting
     ELSE Goto(t, "waitFor") /\ waiting' = waiting \cup {t} /\ UNCHANGED told
  /\ UNCHANGED <<state, mutex>>

\* Mutant: the end of the wait is taken for the outcome.
waitForReturn_true(t) ==
  /\ mutex = None
  /\ pc[t] = "waitFor" /\ t \notin waiting
  /\ Return(t, "true")
  /\ UNCHANGED <<state, mutex, waiting>>

\* ... and whatever ended it, the flag as it is now.
waitForReturn(t) ==
  /\ mutex = None
  /\ pc[t] = "waitFor" /\ t \notin waiting
  /\ Return(t, Flag(ready))
  /\ UNCHANGED <<state, mutex, waiting>>

\* The timeout of wait_for, or a spurious wakeup of either wait.
leaveWait(t) ==
  /\ t \in waiting
  /\ waiting' = waiting \ {t}
  /\ UNCHANGED <<state, mutex, pc, told>>

\* get(): raises on a pending future and on a failure, else returns the value.
get(t) ==
  /\ mutex = None
  /\ pc[t] \in {"idle", "get"}
  /\ Return(t, IF ready THEN status ELSE "pending future")
  /\ UNCHANGED <<state, mutex, waiting>>

\* isReady() and Promise::isFulfilled()
isReady(t) ==
  /\ mutex = None
  /\ pc[t] = "idle"
  /\ Return(t, Flag(ready))
  /\ UNCHANGED <<state, mutex, waiting>>

Overwritten(slot, o) == {<<slot, o>>} \ {<<None, o>>}

\* Mutant: onX() does not look at ready and leaves the callback in the slot.
register_ignoresReady(t, c, k) ==
  /\ mutex = None
  /\ pc[t] = "idle"
  /\ kind[c] = None
  /\ kind' = [kind EXCEPT ![c] = k]
  /\ on_success' = IF k = "failure" THEN on_success ELSE c
  /\ on_failure' = IF k = "success" THEN on_failure ELSE c
  /\ UNCHANGED <<mutex, pc, fired, replaced, ready, status, waiting, told>>

\* onSuccess(), onFailure() and onReady(): fill the slots of a pending promise,
\* call c at once under the mutex if the outcome is there and is c's.
register(t, c, k) ==
  /\ mutex = None
  /\ pc[t] = "idle"
  /\ kind[c] = None
  /\ kind' = [kind EXCEPT ![c] = k]
  /\ \/ /\ ~ready
        /\ on_success' = IF k = "failure" THEN on_success ELSE c
        /\ on_failure' = IF k = "success" THEN on_failure ELSE c
        /\ replaced' = replaced
             \cup (IF k = "failure" THEN {} ELSE Overwritten(on_success, "success"))
             \cup (IF k = "success" THEN {} ELSE Overwritten(on_failure, "failure"))
        /\ UNCHANGED <<mutex, pc, fired>>
     \/ /\ ready /\ k \in {status, "ready"}
        /\ mutex' = t
        /\ Goto(t, "callback")
        /\ fired' = [fired EXCEPT ![c] = @ + 1]
        /\ UNCHANGED <<on_success, on_failure, replaced>>
     \/ /\ ready /\ k \notin {status, "ready"}
        /\ UNCHANGED <<mutex, pc, fired, on_success, on_failure, replaced>>
  /\ UNCHANGED <<ready, status, waiting, told>>

\* The callback that ran under the mutex returns, and onX() with it.
callbackReturns(t) ==
  /\ pc[t] = "callback"
  /\ mutex' = None
  /\ Goto(t, "idle")
  /\ UNCHANGED <<state, waiting, told>>

\* Mutant: a second success() or failure() is not refused.
fulfil_twice(t, o) ==
  /\ mutex = None
  /\ pc[t] = "idle"
  /\ ready' = TRUE
  /\ status' = o
  /\ Goto(t, "notify")
  /\ UNCHANGED <<mutex, on_failure, on_success, waiting, told, kind, fired, replaced>>

\* success() and failure(): the part under the mutex.
fulfil(t, o) ==
  /\ mutex = None
  /\ pc[t] = "idle"
  /\ IF ready
     THEN /\ Return(t, "already fulfilled")
          /\ UNCHANGED <<ready, status>>
     ELSE /\ ready' = TRUE
          /\ status' = o
          /\ Goto(t, "notify")
          /\ UNCHANGED told
  /\ UNCHANGED <<mutex, on_failure, on_success, waiting, kind, fired, replaced>>

\* cv.notify_all() after the unlock ...
notifyAll(t) ==
  /\ pc[t] = "notify"
  /\ waiting' = {}
  /\ Goto(t, "call")
  /\ UNCHANGED <<state, mutex, told>>

\* Mutant: the failure slot is preferred whatever the outcome.
callSlot_failureFirst(t) ==
  /\ pc[t] = "call"
  /\ LET c == IF on_failure # None THEN on_failure ELSE on_success
     IN  fired' = IF c = None THEN fired ELSE [fired EXCEPT ![c] = @ + 1]
  /\ Return(t, None)
  /\ UNCHANGED <<mutex, ready, status, on_failure, on_success, waiting, kind, replaced>>

\* ... and the outcome's slot, if it is filled.
callSlot(t) ==
  /\ pc[t] = "call"
  /\ LET c == IF status = "success" THEN on_success ELSE on_failure
     IN  fired' = IF c = None THEN fired ELSE [fired EXCEPT ![c] = @ + 1]
  /\ Return(t, None)
  /\ UNCHANGED <<mutex, ready, status, on_failure, on_success, waiting, kind, replaced>>

Continue(t) ==
  \/ pc[t] = "wait" /\ waitReady(t, "wait")
  \/ pc[t] = "waitAndGet" /\ waitReady(t, "waitAndGet")
  \/ pc[t] = "get" /\ get(t)
  \/ waitForReturn(t) \/ callbackReturns(t) \/ notifyAll(t) \/ callSlot(t)

Next ==
  \E t \in Users :
    \/ \E l \in {"wait", "waitAndGet"} : waitReady(t, l)
    \/ waitFor(t) \/ waitForReturn(t) \/ leaveWait(t) \/ get(t) \/ isReady(t)
    \/ \E c \in Callbacks, k \in Kinds : register(t, c, k)
    \/ callbackReturns(t)
    \/ \E o \in Outcomes : fulfil(t, o)
    \/ notifyAll(t) \/ callSlot(t)

Spec == Init /\ [][Next]_vars

(***************************************************************************)
(* A thread inside a method that is not asleep goes on: it gets the mutex. *)
(* Callbacks return and do not use the future they are called from.  A     *)
(* wait_for times out.  Nobody has to fulfil the promise.                  *)
(***************************************************************************)
Fairness ==
  \A t \in Users :
    WF_vars(Continue(t)) /\ WF_vars(pc[t] = "waitFor" /\ leaveWait(t))

FairSpec == Spec /\ Fairness

-----------------------------------------------------------------------------
(***************************************************************************)
(* Properties                                                              *)
(***************************************************************************)

\* Callers agree: whoever is told that the promise is fulfilled is told so after the
\* fact, and nobody is told another outcome than anybody else.
AnswersAgree == told # {} => ready /\ told \cap Outcomes \subseteq {status}

\* A callback is called for its own outcome only, after it is known, and never
\* both from its slot and from onX().
CallbackMatchesOutcome ==
  \A c \in Callbacks :
    fired[c] > 0 => /\ fired[c] = 1
                    /\ ready
                    /\ kind[c] \in {status, "ready"}

\* Once a promise is fulfilled, its outcome and the slots the fulfiller reads
\* without the mutex never change again.
OutcomeFrozen ==
  [][ready => UNCHANGED <<ready, status, on_failure, on_success>>]_vars

\* A promise has one outcome: callers are told the same, it never changes, and a
\* callback runs at most once, when its outcome is known and is its own.
PromiseSafe == [](AnswersAgree /\ CallbackMatchesOutcome) /\ OutcomeFrozen

\* Every callback whose outcome has arrived was called, unless a later registration took
\* its slot, whether it was registered before or after; and nobody waits any more.
Settled ==
  ready =>
    /\ \A c \in Callbacks :
         kind[c] \in {status, "ready"} /\ <<c, status>> \notin replaced => fired[c] = 1
    /\ \A t \in Users : pc[t] \notin {"wait", "waitFor", "waitAndGet"}

\* The callbacks of a fulfilled promise run and every wait on it returns.
PromiseKept == []<>Settled
=============================================================================
