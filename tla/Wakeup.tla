------------------------------- MODULE Wakeup -------------------------------
(***************************************************************************)
(* stx::Wakeup, thread/wakeup.cc: an event with a generation counter.      *)
(* Threads block until the generation exceeds one they have seen, or leave *)
(* a callback; wakeup() advances the generation, wakes the blocked threads *)
(* and runs the callbacks after it has released mutex_.                    *)
(***************************************************************************)
EXTENDS Naturals, Sequences

CONSTANTS
  Threads,
  Callbacks,        \* callbacks, each passed to onWakeup() at most once
  MaxGen,           \* bound on the number of wakeup() calls
  FutureGenerations \* may onWakeup() be given a generation not reached yet?

VARIABLES
  gen_,
  callbacks_, \* the callbacks left by onWakeup()
  pc,
  oldgen,     \* the generation each waiting thread has seen
  waiting,    \* threads inside condvar_.wait
  spliced,    \* the local list of each thread inside wakeup()
  requested,  \* history: the generation each callback was registered with
  firedAt     \* history: the generations at which each callback ran

vars == <<gen_, callbacks_, pc, oldgen, waiting, spliced, requested, firedAt>>

(***************************************************************************)
(* pc: "idle", "enter" (waitForNextWakeup has read the generation), "wait" *)
(* (in the predicate loop), "notify" (wakeup() has unlocked), "call"       *)
(* (wakeup() is running its callbacks), "callNow" (onWakeup() has unlocked *)
(* and is about to run its callback).                                      *)
(***************************************************************************)
PCs == {"idle", "enter", "wait", "notify", "call", "callNow"}

TypeOK ==
  /\ gen_ \in 0..MaxGen
  /\ callbacks_ \in Seq(Callbacks)
  /\ pc \in [Threads -> PCs]
  /\ oldgen \in [Threads -> 0..MaxGen]
  /\ waiting \in SUBSET Threads
  /\ spliced \in [Threads -> Seq(Callbacks)]
  /\ requested \in [Callbacks -> Seq(0..MaxGen)]
  /\ firedAt \in [Callbacks -> Seq(0..MaxGen)]

Init ==
  /\ gen_ = 0
  /\ callbacks_ = <<>>
  /\ pc = [t \in Threads |-> "idle"]
  /\ oldgen = [t \in Threads |-> 0]
  /\ waiting = {}
  /\ spliced = [t \in Threads |-> <<>>]
  /\ requested = [c \in Callbacks |-> <<>>]
  /\ firedAt = [c \in Callbacks |-> <<>>]

\* waitForNextWakeup() reads generation() without the mutex, waitForFirstWakeup()
\* passes 0; waitForWakeup() may be given any generation seen before.
callWait(t, g) ==
  /\ pc[t] = "idle"
  /\ pc' = [pc EXCEPT ![t] = "enter"]
  /\ oldgen' = [oldgen EXCEPT ![t] = g]
  /\ UNCHANGED <<gen_, callbacks_, waiting, spliced, requested, firedAt>>

\* Mutant: the thread sleeps before it has tested the generation.
waitForWakeup_noTest(t) ==
  /\ pc[t] = "enter" \/ (pc[t] = "wait" /\ t \notin waiting)
  /\ IF pc[t] = "wait" /\ gen_ > oldgen[t]
     THEN pc' = [pc EXCEPT ![t] = "idle"] /\ UNCHANGED waiting
     ELSE pc' = [pc EXCEPT ![t] = "wait"] /\ waiting' = waiting \cup {t}
  /\ UNCHANGED <<gen_, callbacks_, oldgen, spliced, requested, firedAt>>

\* waitForWakeup(): the predicate is tested under the mutex before every sleep.
waitForWakeup(t) ==
  /\ pc[t] = "enter" \/ (pc[t] = "wait" /\ t \notin waiting)
  /\ IF gen_ > oldgen[t]
     THEN pc' = [pc EXCEPT ![t] = "idle"] /\ UNCHANGED waiting
     ELSE pc' = [pc EXCEPT ![t] = "wait"] /\ waiting' = waiting \cup {t}
  /\ UNCHANGED <<gen_, callbacks_, oldgen, spliced, requested, firedAt>>

spuriousWakeup(t) ==
  /\ t \in waiting
  /\ waiting' = waiting \ {t}
  /\ UNCHANGED <<gen_, callbacks_, pc, oldgen, spliced, requested, firedAt>>

\* Mutant: a callback whose generation has passed is run and also kept.
onWakeup_keeps(t, g, c) ==
  /\ pc[t] = "idle"
  /\ requested[c] = <<>>
  /\ requested' = [requested EXCEPT ![c] = <<g>>]
  /\ IF gen_ > g
     THEN /\ pc' = [pc EXCEPT ![t] = "callNow"]
          /\ spliced' = [spliced EXCEPT ![t] = <<c>>]
     ELSE UNCHANGED <<pc, spliced>>
  /\ callbacks_' = Append(callbacks_, c)
  /\ UNCHANGED <<gen_, oldgen, waiting, firedAt>>

\* onWakeup(): run the callback if the generation has passed, else keep it.
onWakeup(t, g, c) ==
  /\ pc[t] = "idle"
  /\ requested[c] = <<>>
  /\ requested' = [requested EXCEPT ![c] = <<g>>]
  /\ IF gen_ > g
     THEN /\ pc' = [pc EXCEPT ![t] = "callNow"]
          /\ spliced' = [spliced EXCEPT ![t] = <<c>>]
          /\ UNCHANGED callbacks_
     ELSE /\ callbacks_' = Append(callbacks_, c)
          /\ UNCHANGED <<pc, spliced>>
  /\ UNCHANGED <<gen_, oldgen, waiting, firedAt>>

\* Mutant: the callbacks are spliced before gen_++ in a section of their own, so
\* that wakeup() runs them although the generation has not changed.
wakeup_noIncrement(t) ==
  /\ pc[t] = "idle"
  /\ gen_ < MaxGen
  /\ spliced' = [spliced EXCEPT ![t] = callbacks_]
  /\ callbacks_' = <<>>
  /\ pc' = [pc EXCEPT ![t] = "notify"]
  /\ UNCHANGED <<gen_, oldgen, waiting, requested, firedAt>>

\* Mutant: the callbacks are cleared, not spliced.
wakeup_clears(t) ==
  /\ pc[t] = "idle"
  /\ gen_ < MaxGen
  /\ gen_' = gen_ + 1
  /\ callbacks_' = <<>>
  /\ pc' = [pc EXCEPT ![t] = "notify"]
  /\ UNCHANGED <<oldgen, waiting, spliced, requested, firedAt>>

\* wakeup(): gen_++ and the splice, under the mutex ...
wakeup(t) ==
  /\ pc[t] = "idle"
  /\ gen_ < MaxGen
  /\ gen_' = gen_ + 1
  /\ spliced' = [spliced EXCEPT ![t] = callbacks_]
  /\ callbacks_' = <<>>
  /\ pc' = [pc EXCEPT ![t] = "notify"]
  /\ UNCHANGED <<oldgen, waiting, requested, firedAt>>

\* ... notify_all ...
notifyAll(t) ==
  /\ pc[t] = "notify"
  /\ waiting' = {}
  /\ pc' = [pc EXCEPT ![t] = "call"]
  /\ UNCHANGED <<gen_, callbacks_, oldgen, spliced, requested, firedAt>>

\* ... and the callbacks one by one; onWakeup() calls its own the same way.
callCallback(t) ==
  /\ pc[t] \in {"call", "callNow"}
  /\ IF spliced[t] = <<>>
     THEN pc' = [pc EXCEPT ![t] = "idle"] /\ UNCHANGED <<spliced, firedAt>>
     ELSE /\ firedAt' = [firedAt EXCEPT ![Head(spliced[t])] = Append(@, gen_)]
          /\ spliced' = [spliced EXCEPT ![t] = Tail(@)]
          /\ UNCHANGED pc
  /\ UNCHANGED <<gen_, callbacks_, oldgen, waiting, requested>>

Next ==
  \E t \in Threads :
    \/ \E g \in 0..gen_ : callWait(t, g)
    \/ \E c \in Callbacks :
         \E g \in 0..(IF FutureGenerations THEN MaxGen ELSE gen_) : onWakeup(t, g, c)
    \/ waitForWakeup(t) \/ spuriousWakeup(t) \/ wakeup(t) \/ notifyAll(t)
    \/ callCallback(t)

Spec == Init /\ [][Next]_vars

Continue(t) == waitForWakeup(t) \/ notifyAll(t) \/ callCallback(t)

\* A thread inside the code above that is not asleep goes on; nobody has to call.
Fairness == \A t \in Threads : WF_vars(Continue(t))

FairSpec == Spec /\ Fairness

-----------------------------------------------------------------------------
(***************************************************************************)
(* Properties                                                              *)
(***************************************************************************)

\* Where callback c is: at a position of callbacks_, at one of some thread's local list,
\* or in the past.
Positions(l, c) == {i \in DOMAIN l : l[i] = c}
Kept(c) == {<<"kept", i>> : i \in Positions(callbacks_, c)}
InList(t, c) == {<<"list", <<t, i>>>> : i \in Positions(spliced[t], c)}
Ran(c) == {<<"ran", i>> : i \in DOMAIN firedAt[c]}
InLists(c) == UNION {InList(t, c) : t \in Threads}
Places(c) == Kept(c) \cup InLists(c) \cup Ran(c)

\* A callback that was registered is in one place: in callbacks_, in one wakeup()'s local
\* list, or it has run; so it is not lost and runs at most once although onWakeup() and
\* wakeup() race.
CallbackOnce ==
  \A c \in Callbacks :
    IF requested[c] = <<>> THEN Places(c) = {} ELSE \E p \in Places(c) : Places(c) = {p}

\* A callback runs only when the generation exceeds the one it was given.
AfterGeneration ==
  \A c \in Callbacks : \A i \in DOMAIN firedAt[c] : firedAt[c][i] > requested[c][1]

\* A thread sleeps for a generation that has passed only while the wakeup() that made it
\* pass is still to notify: the test and the sleep are under mutex_, the notification not.
NoLostWakeup ==
  \A t \in waiting : gen_ > oldgen[t] => \E u \in Threads : pc[u] = "notify"

\* No callback is lost, doubled or early, and nobody sleeps through a wakeup.
EventSafe == CallbackOnce /\ AfterGeneration /\ NoLostWakeup

\* Every callback whose generation has passed was run, and t does not wait for one that
\* has passed.
Served(t) ==
  /\ \A c \in Callbacks :
       requested[c] # <<>> /\ gen_ > requested[c][1] => firedAt[c] # <<>>
  /\ pc[t] \in {"enter", "wait"} => gen_ <= oldgen[t]

\* A callback registered for generation g runs once the generation exceeds g, and a thread
\* that waits for a generation that has passed returns.
EventServes == \A t \in Threads : []<>Served(t)
=============================================================================
