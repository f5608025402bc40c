--------------------------- MODULE ServicesProofs ---------------------------
(***************************************************************************)
(* Promises and the HTTP server, for any threads, callbacks and bodies.    *)
(*                                                                         *)
(* A promise has one outcome, which all its callers are told and which     *)
(* decides the callback that runs, once.  The slots are read without the   *)
(* mutex after the promise is fulfilled; that is safe because they are     *)
(* frozen by then and have one reader.                                     *)
(*                                                                         *)
(* A connection has at most one write outstanding, and exactly one holder  *)
(* of it: the worker, the queue of the loop, the descriptor or a callback  *)
(* of the loop.  From this follow who may hold a mutex, who may close the  *)
(* connection (one thread, once), and that the response leaves in order.   *)
(***************************************************************************)
EXTENDS Future, HTTPServer, TLAPS

Slots == {on_success, on_failure} \ {None}

\* t has fulfilled the promise and is still to call the slot.
Fulfilling(t) == pc[t] \in {"notify", "call"}

\* A callback sits in the slots of the outcomes it was registered for.
SlotsMatch ==
  /\ on_success # None => kind[on_success] \in {"success", "ready"}
  /\ on_failure # None => kind[on_failure] \in {"failure", "ready"}

\* Nothing is told, called or about to be called before the promise is fulfilled.
PendingQuiet ==
  IF ready THEN status \in Outcomes
  ELSE /\ told = {}
       /\ \A c \in Callbacks : fired[c] = 0
       /\ \A t \in Users : ~Fulfilling(t)

\* One thread fulfils the promise.
OneFulfiller == \A t, u \in Users : Fulfilling(t) /\ Fulfilling(u) => t = u

\* What is in the slots has not run while somebody may still call it.
SlotsUnfired ==
  \A t \in Users : Fulfilling(t) => \A c \in Slots : fired[c] = 0

\* Only what was registered runs.
Registered == \A c \in Callbacks : kind[c] = None => fired[c] = 0

\* The inductive invariant.  That a callback runs once needs all of it: its slot has one
\* reader, which finds it unfired, and onX() calls only what is in no slot.
Inv ==
  /\ TypeOK /\ SlotsMatch /\ PendingQuiet /\ OneFulfiller /\ SlotsUnfired /\ Registered
  /\ AnswersAgree /\ CallbackMatchesOutcome

\* The steps that neither fulfil the promise nor touch a slot or a callback.
LEMMA QuietStep ==
  ASSUME Inv, UNCHANGED state, TypeOK',
         \A t \in Users : Fulfilling(t)' => Fulfilling(t),
         told' = told \/ (ready /\ told' \cap Outcomes \subseteq {status})
  PROVE  Inv'
<1>1. SlotsMatch' /\ Registered' /\ OneFulfiller'
  BY DEF Inv, SlotsMatch, Registered, OneFulfiller, state
<1>2. PendingQuiet'
  BY DEF Inv, PendingQuiet, state
<1>3. SlotsUnfired'
  BY DEF Inv, SlotsUnfired, Slots, state
<1>4. AnswersAgree' /\ CallbackMatchesOutcome'
  BY DEF Inv, AnswersAgree, CallbackMatchesOutcome, state
<1> QED BY <1>1, <1>2, <1>3, <1>4 DEF Inv

\* What a return adds to the answers.
LEMMA ReturnTold ==
  ASSUME NEW t, NEW r, Return(t, r), r \in {"true", status} => ready,
         r \in Outcomes => r = status, told \subseteq Answers,
         told # {} => ready /\ told \cap Outcomes \subseteq {status}
  PROVE  /\ told' \subseteq Answers
         /\ told' = told \/ (ready /\ told' \cap Outcomes \subseteq {status})
BY DEF Return, Answers, Outcomes

\* onSuccess(), onFailure() and onReady().
LEMMA RegisterInv ==
  ASSUME NoneIsNothing, Inv, NEW t \in Users, NEW c \in Callbacks, NEW k \in Kinds,
         register(t, c, k)
  PROVE  Inv'
<1> USE DEF Inv, TypeOK, NoneIsNothing, Kinds, Outcomes
<1>1. /\ kind[c] = None /\ fired[c] = 0 /\ c # None /\ k # None
      /\ kind' = [kind EXCEPT ![c] = k]
      /\ UNCHANGED <<ready, status, waiting, told>>
      /\ pc[t] = "idle"
  BY DEF register, Registered
<1>2. c \notin Slots
  BY <1>1 DEF SlotsMatch, Slots
<1>3. CASE ~ready
  <2>1. /\ on_success' = IF k = "failure" THEN on_success ELSE c
        /\ on_failure' = IF k = "success" THEN on_failure ELSE c
        /\ replaced' = replaced
             \cup (IF k = "failure" THEN {} ELSE Overwritten(on_success, "success"))
             \cup (IF k = "success" THEN {} ELSE Overwritten(on_failure, "failure"))
        /\ UNCHANGED <<mutex, pc, fired>>
    BY <1>3 DEF register
  <2>2. replaced' \in SUBSET (Callbacks \X Outcomes)
    BY <2>1 DEF Overwritten
  <2>3. TypeOK'
    BY <1>1, <2>1, <2>2
  <2>4. SlotsMatch'
    BY <1>1, <2>1 DEF SlotsMatch
  <2>5. PendingQuiet' /\ OneFulfiller' /\ Registered'
    BY <1>1, <1>3, <2>1 DEF PendingQuiet, OneFulfiller, Registered, Fulfilling
  <2>6. SlotsUnfired'
    BY <1>1, <1>3, <2>1 DEF SlotsUnfired, PendingQuiet, Fulfilling
  <2>7. AnswersAgree' /\ CallbackMatchesOutcome'
    BY <1>1, <1>3, <2>1 DEF AnswersAgree, CallbackMatchesOutcome, PendingQuiet
  <2> QED BY <2>3, <2>4, <2>5, <2>6, <2>7
<1>4. CASE ready /\ k \in {status, "ready"}
  <2>1. /\ mutex' = t /\ pc' = [pc EXCEPT ![t] = "callback"]
        /\ fired' = [fired EXCEPT ![c] = @ + 1]
        /\ UNCHANGED <<on_success, on_failure, replaced>>
    BY <1>4 DEF register, Goto
  <2>2. fired'[c] = 1 /\ \A d \in Callbacks \ {c} : fired'[d] = fired[d]
    BY <1>1, <2>1
  <2>3. TypeOK'
    BY <1>1, <2>1, <2>2 DEF PCs
  <2>4. SlotsMatch'
    BY <1>1, <1>2, <2>1 DEF SlotsMatch, Slots
  <2>5. PendingQuiet' /\ OneFulfiller'
    BY <1>1, <1>4, <2>1 DEF PendingQuiet, OneFulfiller, Fulfilling
  <2>6. Registered'
    BY <1>1, <2>1, <2>2 DEF Registered
  <2>7. SlotsUnfired'
    BY <1>1, <1>2, <2>1, <2>2 DEF SlotsUnfired, Slots, Fulfilling
  <2>8. AnswersAgree'
    BY <1>1, <2>1 DEF AnswersAgree
  <2>9. CallbackMatchesOutcome'
    BY <1>1, <1>4, <2>1, <2>2 DEF CallbackMatchesOutcome
  <2> QED BY <2>3, <2>4, <2>5, <2>6, <2>7, <2>8, <2>9
<1>5. CASE ready /\ k \notin {status, "ready"}
  <2>1. UNCHANGED <<mutex, pc, fired, on_success, on_failure, replaced>>
    BY <1>5 DEF register
  <2>2. TypeOK' /\ SlotsMatch'
    BY <1>1, <1>2, <2>1 DEF SlotsMatch, Slots
  <2>3. PendingQuiet' /\ OneFulfiller' /\ Registered' /\ SlotsUnfired'
    BY <1>1, <1>5, <2>1
       DEF PendingQuiet, OneFulfiller, Registered, SlotsUnfired, Slots, Fulfilling
  <2>4. AnswersAgree' /\ CallbackMatchesOutcome'
    BY <1>1, <1>5, <2>1 DEF AnswersAgree, CallbackMatchesOutcome
  <2> QED BY <2>2, <2>3, <2>4
<1> QED BY <1>3, <1>4, <1>5

\* success() and failure(): the first to come decides, the others are refused.
LEMMA FulfilInv ==
  ASSUME NoneIsNothing, Inv, NEW t \in Users, NEW o \in Outcomes, fulfil(t, o)
  PROVE  Inv'
<1>1. CASE ready
  <2>1. UNCHANGED <<state, mutex, waiting>> /\ Return(t, "already fulfilled") /\ pc[t] = "idle"
    BY <1>1 DEF fulfil, state
  <2>2. TypeOK' /\ told' = told
    BY <2>1 DEF Inv, TypeOK, Return, Goto, Answers, Outcomes, state, PCs
  <2>3. \A u \in Users : Fulfilling(u)' => Fulfilling(u)
    BY <2>1 DEF Inv, TypeOK, Fulfilling, Return, Goto
  <2> QED BY <2>1, <2>2, <2>3, QuietStep
<1>2. CASE ~ready
  <2>1. /\ ready' = TRUE /\ status' = o /\ pc' = [pc EXCEPT ![t] = "notify"]
        /\ UNCHANGED <<mutex, on_failure, on_success, waiting, told, kind, fired, replaced>>
    BY <1>2 DEF fulfil, Goto
  <2>2. told = {} /\ (\A c \in Callbacks : fired[c] = 0) /\ \A u \in Users : ~Fulfilling(u)
    BY <1>2 DEF Inv, PendingQuiet
  <2>3. TypeOK'
    BY <2>1 DEF Inv, TypeOK, PCs, Outcomes
  <2>4. PendingQuiet'
    BY <2>1 DEF PendingQuiet
  <2>5. OneFulfiller'
    BY <2>1, <2>2 DEF Inv, TypeOK, OneFulfiller, Fulfilling
  <2>6. SlotsUnfired'
    BY <2>1, <2>2 DEF Inv, TypeOK, SlotsUnfired, Slots
  <2>7. SlotsMatch' /\ Registered'
    BY <2>1 DEF Inv, SlotsMatch, Registered
  <2>8. AnswersAgree' /\ CallbackMatchesOutcome'
    BY <2>1, <2>2 DEF AnswersAgree, CallbackMatchesOutcome
  <2> QED BY <2>3, <2>4, <2>5, <2>6, <2>7, <2>8 DEF Inv
<1> QED BY <1>1, <1>2

\* The fulfiller calls the slot of the outcome.
LEMMA CallSlotInv ==
  ASSUME NoneIsNothing, Inv, NEW t \in Users, callSlot(t)
  PROVE  Inv'
<1> DEFINE c == IF status = "success" THEN on_success ELSE on_failure
<1>1. /\ pc[t] = "call" /\ pc' = [pc EXCEPT ![t] = "idle"]
      /\ fired' = IF c = None THEN fired ELSE [fired EXCEPT ![c] = @ + 1]
      /\ UNCHANGED <<mutex, ready, status, on_failure, on_success, waiting, kind, replaced>>
      /\ told' = told
  BY DEF callSlot, Return, Goto, NoneIsNothing, Answers, Kinds, Outcomes
<1>2. Fulfilling(t) /\ ready /\ status \in Outcomes
  BY <1>1 DEF Fulfilling, Inv, PendingQuiet
<1>3. \A u \in Users : ~Fulfilling(u)'
  BY <1>1, <1>2 DEF Inv, TypeOK, OneFulfiller, Fulfilling
<1>4. c # None => c \in Callbacks /\ fired[c] = 0 /\ kind[c] \in {status, "ready"}
  BY <1>2 DEF Inv, TypeOK, SlotsUnfired, Slots, SlotsMatch, Outcomes
<1>5. \A d \in Callbacks :
        \/ fired'[d] = fired[d]
        \/ fired'[d] = 1 /\ kind[d] \in {status, "ready"}
  BY <1>1, <1>4 DEF Inv, TypeOK
<1>6. fired' \in [Callbacks -> 0..1]
  BY <1>1, <1>4 DEF Inv, TypeOK
<1> HIDE DEF c
<1>7. TypeOK'
  BY <1>1, <1>6 DEF Inv, TypeOK, PCs
<1>8. SlotsMatch' /\ PendingQuiet' /\ OneFulfiller' /\ SlotsUnfired' /\ AnswersAgree'
  BY <1>1, <1>2, <1>3
     DEF Inv, SlotsMatch, PendingQuiet, OneFulfiller, SlotsUnfired, AnswersAgree
<1>9. Registered'
  BY <1>1, <1>2, <1>5 DEF Inv, Registered, NoneIsNothing, Kinds, Outcomes
<1>10. CallbackMatchesOutcome'
  BY <1>1, <1>2, <1>5 DEF Inv, CallbackMatchesOutcome
<1> QED BY <1>7, <1>8, <1>9, <1>10 DEF Inv

\* Every step preserves the invariant.
LEMMA NextInv ==
  ASSUME NoneIsNothing, Inv, [Next]_vars
  PROVE  Inv'
<1>0. /\ TypeOK /\ told \subseteq Answers
      /\ told # {} => ready /\ told \cap Outcomes \subseteq {status}
      /\ ready => status \in Outcomes
  BY DEF Inv, TypeOK, AnswersAgree, PendingQuiet
<1>1. ASSUME NEW t \in Users, NEW l \in {"wait", "waitAndGet"}, waitReady(t, l)
      PROVE  Inv'
  <2>1. TypeOK' /\ told' = told /\ UNCHANGED state
    BY <1>0, <1>1 DEF waitReady, TypeOK, Goto, PCs, state
  <2>2. \A u \in Users : Fulfilling(u)' => Fulfilling(u)
    BY <1>0, <1>1 DEF waitReady, TypeOK, Goto, Fulfilling
  <2> QED BY <2>1, <2>2, QuietStep
<1>2. ASSUME NEW t \in Users,
             waitFor(t) \/ waitForReturn(t) \/ get(t) \/ isReady(t)
      PROVE  Inv'
  <2>1. UNCHANGED <<state, mutex>> /\ waiting' \in SUBSET Users
    BY <1>0, <1>2 DEF waitFor, waitForReturn, get, isReady, TypeOK
  <2>2. /\ told' \subseteq Answers
        /\ told' = told \/ (ready /\ told' \cap Outcomes \subseteq {status})
    <3>1. CASE waitFor(t)
      BY <1>0, <3>1, ReturnTold DEF waitFor, TypeOK, Outcomes
    <3>2. CASE waitForReturn(t) \/ isReady(t)
      BY <1>0, <3>2, ReturnTold DEF waitForReturn, isReady, Flag, TypeOK, Outcomes
    <3>3. CASE get(t)
      BY <1>0, <3>3, ReturnTold DEF get, TypeOK, Outcomes
    <3> QED BY <1>2, <3>1, <3>2, <3>3
  <2>3. /\ \/ pc' = [pc EXCEPT ![t] = "idle"]
           \/ pc' = [pc EXCEPT ![t] = "waitFor"]
    BY <1>2 DEF waitFor, waitForReturn, get, isReady, Return, Goto
  <2>4. TypeOK'
    BY <1>0, <2>1, <2>2, <2>3 DEF TypeOK, PCs, state
  <2>5. \A u \in Users : Fulfilling(u)' => Fulfilling(u)
    BY <1>0, <2>3 DEF TypeOK, Fulfilling
  <2> QED BY <2>1, <2>2, <2>4, <2>5, QuietStep
<1>3. ASSUME NEW t \in Users, leaveWait(t) \/ callbackReturns(t) \/ notifyAll(t)
      PROVE  Inv'
  <2>1. TypeOK' /\ told' = told /\ UNCHANGED state
    BY <1>0, <1>3 DEF leaveWait, callbackReturns, notifyAll, TypeOK, Goto, PCs, state
  <2>2. \A u \in Users : Fulfilling(u)' => Fulfilling(u)
    BY <1>0, <1>3 DEF leaveWait, callbackReturns, notifyAll, TypeOK, Goto, Fulfilling
  <2> QED BY <2>1, <2>2, QuietStep
<1>4. CASE UNCHANGED vars
  <2>1. TypeOK' /\ told' = told /\ UNCHANGED state
    BY <1>0, <1>4 DEF vars, TypeOK, state
  <2>2. \A u \in Users : Fulfilling(u)' => Fulfilling(u)
    BY <1>4 DEF vars, Fulfilling
  <2> QED BY <2>1, <2>2, QuietStep
<1> QED BY <1>1, <1>2, <1>3, <1>4, RegisterInv, FulfilInv, CallSlotInv DEF Next

\* A new promise satisfies the invariant.
LEMMA InitInv == ASSUME NoneIsNothing PROVE Init => Inv
<1> SUFFICES ASSUME Init PROVE Inv
  OBVIOUS
<1>1. TypeOK
  <2>1. /\ pc \in [Users -> PCs]
        /\ kind \in [Callbacks -> Kinds \cup {None}]
        /\ fired \in [Callbacks -> 0..1]
    BY DEF Init, PCs
  <2> QED BY <2>1 DEF Init, TypeOK
<1>2. SlotsMatch /\ Registered /\ AnswersAgree /\ CallbackMatchesOutcome
  BY DEF Init, SlotsMatch, Registered, AnswersAgree, CallbackMatchesOutcome
<1>3. PendingQuiet /\ OneFulfiller /\ SlotsUnfired
  BY DEF Init, PendingQuiet, OneFulfiller, SlotsUnfired, Fulfilling
<1> QED BY <1>1, <1>2, <1>3 DEF Inv

\* The invariant holds in every behaviour.
THEOREM InvAlways == ASSUME NoneIsNothing PROVE Spec => []Inv
<1>1. Init => Inv
  BY InitInv
<1>2. Inv /\ [Next]_vars => Inv'
  BY NextInv
<1> QED BY <1>1, <1>2, PTL DEF Spec

\* Every variable of the promise keeps its type; no callback is called twice.
THEOREM TypeCorrect == ASSUME NoneIsNothing PROVE Spec => []TypeOK
<1>1. Inv => TypeOK
  BY DEF Inv
<1> QED BY <1>1, InvAlways, PTL

\* A step of anybody leaves a fulfilled promise as it is.
LEMMA StepFrozen ==
  ASSUME [Next]_vars, ready
  PROVE  UNCHANGED <<ready, status, on_failure, on_success>>
<1>1. ASSUME NEW t \in Users, NEW c \in Callbacks, NEW k \in Kinds, register(t, c, k)
      PROVE  UNCHANGED <<ready, status, on_failure, on_success>>
  BY <1>1 DEF register
<1>2. ASSUME NEW t \in Users, NEW o \in Outcomes, fulfil(t, o)
      PROVE  UNCHANGED <<ready, status, on_failure, on_success>>
  BY <1>2 DEF fulfil
<1>3. ASSUME NEW t \in Users,
             \/ \E l \in {"wait", "waitAndGet"} : waitReady(t, l)
             \/ waitFor(t) \/ waitForReturn(t) \/ leaveWait(t) \/ get(t) \/ isReady(t)
             \/ callbackReturns(t) \/ notifyAll(t) \/ callSlot(t)
      PROVE  UNCHANGED <<ready, status, on_failure, on_success>>
  BY <1>3 DEF waitReady, waitFor, waitForReturn, leaveWait, get, isReady, callbackReturns,
              notifyAll, callSlot, state
<1> QED BY <1>1, <1>2, <1>3 DEF Next, vars

\* Once a promise is fulfilled, its outcome and its slots never change.
THEOREM FrozenCorrect == Spec => OutcomeFrozen
<1>1. [Next]_vars => [ready => UNCHANGED <<ready, status, on_failure, on_success>>]_vars
  BY StepFrozen
<1> QED BY <1>1, PTL DEF Spec, OutcomeFrozen

\* A promise has one outcome, which all callers are told, which never changes and for
\* which the right callback runs at most once, whoever races to fulfil, read or watch it.
THEOREM PromiseCorrect == ASSUME NoneIsNothing PROVE Spec => PromiseSafe
<1>1. Inv => AnswersAgree /\ CallbackMatchesOutcome
  BY DEF Inv
<1> QED BY <1>1, InvAlways, FrozenCorrect, PTL DEF PromiseSafe


-----------------------------------------------------------------------------
(* The connection: one write, one closer, the mutexes.                     *)

LoopPCs == {"idle", "close", "completed", "error", "decRef", "writeBody", "finish"}
WorkerPCs == {"absent", "start", "run", "installed", "waitForFirstWakeup", "catch",
              "respond", "finishStream", "cvWait", "writeHead", "writeBody", "finish",
              "cancelFD", "cancelled", "leave", "gone"}
Task == [task : {"chunk"}, size : Nat, last : BOOLEAN, by : {"L", "W"}]
          \cup [task : {"arm", "cancel"}, by : {"W"}]

Placed ==
  /\ doing \in [{"L", "W"} -> LoopPCs \cup WorkerPCs]
  /\ doing["L"] \in LoopPCs /\ doing["W"] \in WorkerPCs

ControlType ==
  /\ service \in {"streaming", "plain", "none"}
  /\ state_ \in {"HEADER", "BODY", "DONE"}
  /\ op \in {"none", "read", "write"}
  /\ runq \in Seq(Task)
  /\ closed \in BOOLEAN /\ callback_running \in BOOLEAN /\ headers_written \in BOOLEAN
  /\ response_finished \in BOOLEAN /\ error \in BOOLEAN
  /\ catching \in BOOLEAN /\ failed \in BOOLEAN
  /\ todo \in {"run", "finishStream", "leave"}
  /\ body_buf \in Nat

\* The owners of the two mutexes.
Locks ==
  /\ mutex_ = IF doing["L"] = "error" THEN "L"
              ELSE IF doing["W"] \in {"cancelFD", "cancelled"} THEN "W" ELSE "free"
  /\ lk = IF doing["L"] = "finish" THEN "L"
          ELSE IF doing["W"] \in {"finish", "cancelFD", "cancelled"} THEN "W" ELSE "free"
  /\ doing["W"] \in {"finish", "cancelFD", "cancelled"} => doing["L"] \in {"idle", "decRef"}

\* What is in the loop's queue.
Queued(k) == \E i \in DOMAIN runq : runq[i].task = k
QueuedBy(b) == \E i \in DOMAIN runq : runq[i].task = "chunk" /\ runq[i].by = b
LastQueued == \E i \in DOMAIN runq : runq[i].task = "chunk" /\ runq[i].last

\* Each thread has at most one chunk in it, and the worker one request.
OneOfEach ==
  \A i, j \in DOMAIN runq :
    runq[i].task = runq[j].task /\ runq[i].by = runq[j].by => i = j

\* Where the stream's one write may be: with the worker, which hands over the head or a
\* chunk, in the queue, armed at the descriptor, or in the hands of the loop.
AtHead == doing["W"] = "writeHead"
AtWorker == doing["W"] = "writeBody"
Armed == op = "write" /\ service # "none"
AtLoop == doing["L"] \in {"completed", "writeBody", "error"}
Handed == Queued("arm") \/ Armed \/ AtLoop

OneWrite ==
  /\ AtHead \/ AtWorker \/ Handed => callback_running /\ headers_written
  /\ AtWorker \/ Handed => state_ = "DONE" /\ ~closed
  /\ Handed => onError = "stream" /\ onWritten = "stream"
  /\ AtHead \/ AtWorker => ~Handed
  /\ Queued("arm") => ~Armed
  /\ AtLoop => op = "none" /\ ~Queued("arm")

ServiceOrder ==
  /\ service = "none" => doing["W"] = "absent" /\ ~headers_written
  /\ service # "streaming" /\ state_ # "DONE" => doing["W"] = "absent"
  /\ state_ = "HEADER" => doing["W"] = "absent"
  /\ doing["W"] \in {"absent", "start", "installed", "waitForFirstWakeup", "respond"}
       => ~headers_written
  /\ doing["W"] \in {"cvWait", "finishStream"} => headers_written
  /\ AtHead => todo # "leave"
  /\ response_finished =>
       /\ headers_written /\ todo = "leave"
       /\ doing["W"] \in {"writeBody", "finish", "cancelFD", "cancelled", "leave", "gone"}
  /\ Queued("cancel") => doing["W"] = "cancelFD"
  /\ service # "streaming" /\ LastQueued => doing["W"] = "absent" /\ state_ = "DONE"
  /\ service # "streaming" => ~QueuedBy("W")
  /\ service = "plain" /\ doing["W"] # "absent" => ~QueuedBy("L")
  /\ bodyCb = "buffer" => ~QueuedBy("L") /\ ~QueuedBy("W")
  /\ doing["W"] = "installed" => service = "streaming" /\ bodyCb = "deliver" /\ ~QueuedBy("W")

Ends ==
  /\ headers_written /\ ~callback_running => state_ = "DONE"
  /\ error => headers_written /\ ~callback_running /\ failed
  /\ doing["L"] = "error" => failed
  /\ doing["L"] = "finish" \/ doing["W"] \in {"finish", "cancelFD", "cancelled"} =>
       headers_written /\ ~callback_running /\ ~error /\ response_finished
  /\ doing["L"] = "finish" \/ doing["W"] = "finish" => ~closed
  /\ doing["W"] \in {"cancelFD", "cancelled"} => closed
  /\ doing["L"] = "close" =>
       /\ ~closed /\ op = "none"
       /\ failed \/ service = "none"
       /\ state_ # "DONE" \/ error \/ service = "none"
       /\ service # "streaming" => ~QueuedBy("L")
  /\ op = "read" => state_ # "DONE" /\ ~closed /\ doing["L"] = "idle"
  /\ closed =>
       /\ op # "write"
       /\ state_ = "DONE" /\ service # "none" => error \/ response_finished
       /\ service # "streaming" => ~QueuedBy("L")
       /\ ~failed /\ service # "none" => response_finished /\ ~callback_running
  /\ service = "none" /\ op = "write" =>
       /\ doing["L"] = "idle" /\ ~QueuedBy("L") /\ state_ = "DONE"
       /\ onWritten = "finish" /\ onError = "nop"

Control == Placed /\ ControlType /\ Locks /\ OneOfEach /\ OneWrite /\ ServiceOrder /\ Ends

-----------------------------------------------------------------------------
\* The chunk of thread b in the queue has n bytes, none of it if there is none.
Size(b, n) ==
  /\ \A i \in DOMAIN runq : runq[i].task = "chunk" /\ runq[i].by = b => runq[i].size = n
  /\ ~QueuedBy(b) => n = 0

\* Nothing of the body is queued behind a chunk that is marked as the last.
NothingAfterLast ==
  \A i, j \in DOMAIN runq :
    i < j /\ runq[i].task = "chunk" /\ runq[i].last /\ runq[j].task = "chunk"
      => runq[j].size = 0

\* Every byte that was read is delivered, in a queued chunk or buffered.
Counted ==
  \E l, w \in 0..got : Size("L", l) /\ Size("W", w) /\ delivered + l + w + body_buf = got

Body ==
  /\ expected \in Nat /\ got \in Nat /\ delivered \in Nat
  /\ woken \in BOOLEAN /\ reqError \in BOOLEAN /\ bodyRead \in BOOLEAN
  /\ state_ = "HEADER" => got = 0 /\ delivered = 0 /\ body_buf = 0
  /\ state_ = "DONE" => got = expected
  /\ Counted
  /\ NothingAfterLast
  /\ LastQueued => state_ = "DONE" /\ body_buf = 0
  /\ woken /\ ~reqError => state_ = "DONE" /\ delivered = expected
  /\ bodyRead => state_ = "DONE" /\ delivered = expected

-----------------------------------------------------------------------------
\* s is the piece of the response that begins at its a-th element.
Piece(s, a) == s \in Seq(Nat) /\ \A i \in DOMAIN s : s[i] = a + i - 1

\* The chunk on its way from buf_ to write_buf_.
Handing == IF doing["L"] = "writeBody" \/ doing["W"] = "writeBody" THEN out ELSE <<>>

InOrder ==
  /\ Piece(sent, 0)
  /\ Piece(write_buf, Len(sent))
  /\ Piece(Handing, Len(sent) + Len(write_buf))
  /\ Piece(buf, Len(sent) + Len(write_buf) + Len(Handing))

NotStarted == sent = <<>> /\ write_buf = <<>> /\ Handing = <<>> /\ buf = <<>> /\ given = 0

Pieces ==
  /\ given \in Nat /\ InOrder
  /\ NotStarted \/ Len(sent) + Len(write_buf) + Len(Handing) + Len(buf) = given + 1

Flow ==
  /\ AtHead \/ (~headers_written /\ service # "none") => NotStarted
  /\ NotStarted /\ headers_written =>
       /\ callback_running
       /\ doing["W"] \in {"writeHead", "catch", "finishStream", "leave", "gone"}
  /\ AtWorker \/ Handed => ~NotStarted
  /\ service = "none" /\ (state_ # "DONE" \/ LastQueued) => NotStarted
  /\ headers_written /\ ~callback_running /\ ~error => write_buf = <<>>
  /\ doing["L"] = "completed" => write_buf = <<>>
  /\ \/ doing["L"] = "finish" \/ doing["W"] \in {"finish", "cancelFD", "cancelled"}
     \/ closed /\ ~failed /\ service # "none"
     => buf = <<>>

Response == Pieces /\ Flow

\* What a task that joins the queue changes in it.
LEMMA PutTask ==
  ASSUME runq \in Seq(Task), NEW r \in Task, runq' = Append(runq, r)
  PROVE  /\ runq' \in Seq(Task)
         /\ \A k : Queued(k)' <=> Queued(k) \/ r.task = k
         /\ \A b : QueuedBy(b)' <=> QueuedBy(b) \/ (r.task = "chunk" /\ r.by = b)
         /\ LastQueued' <=> LastQueued \/ (r.task = "chunk" /\ r.last)
         /\ OneOfEach /\ (\A i \in DOMAIN runq : ~(runq[i].task = r.task /\ runq[i].by = r.by))
              => OneOfEach'
<1>1. /\ runq' \in Seq(Task) /\ Len(runq') = Len(runq) + 1 /\ Len(runq) \in Nat
      /\ DOMAIN runq = 1..Len(runq) /\ DOMAIN runq' = 1..(Len(runq) + 1)
      /\ \A i \in 1..Len(runq) : runq'[i] = runq[i]
      /\ runq'[Len(runq) + 1] = r
  OBVIOUS
<1>2. ASSUME NEW k PROVE Queued(k)' <=> Queued(k) \/ r.task = k
  BY <1>1 DEF Queued
<1>3. ASSUME NEW b PROVE QueuedBy(b)' <=> QueuedBy(b) \/ (r.task = "chunk" /\ r.by = b)
  BY <1>1 DEF QueuedBy
<1>4. LastQueued' <=> LastQueued \/ (r.task = "chunk" /\ r.last)
  BY <1>1 DEF LastQueued
<1>5. ASSUME OneOfEach, \A i \in DOMAIN runq : ~(runq[i].task = r.task /\ runq[i].by = r.by)
      PROVE  OneOfEach'
  BY <1>1, <1>5 DEF OneOfEach
<1> QED BY <1>1, <1>2, <1>3, <1>4, <1>5

\* What the task at the front leaves behind: nothing of its kind.
LEMMA TakeTask ==
  ASSUME runq \in Seq(Task), runq # <<>>, runq' = Tail(runq), OneOfEach
  PROVE  /\ runq' \in Seq(Task) /\ OneOfEach' /\ Head(runq) \in Task
         /\ \A k : Queued(k)' => Queued(k)
         /\ \A b : QueuedBy(b)' => QueuedBy(b)
         /\ LastQueued' => LastQueued
         /\ Queued(Head(runq).task)
         /\ \A k \in {"arm", "cancel"} : Head(runq).task = k => ~Queued(k)'
         /\ \A b : Head(runq).task = "chunk" /\ Head(runq).by = b => QueuedBy(b) /\ ~QueuedBy(b)'
         /\ Head(runq).task = "chunk" /\ Head(runq).last => LastQueued
<1>1. /\ runq' \in Seq(Task) /\ Len(runq') = Len(runq) - 1 /\ Len(runq) \in Nat \ {0}
      /\ DOMAIN runq = 1..Len(runq) /\ DOMAIN runq' = 1..(Len(runq) - 1)
      /\ \A i \in 1..(Len(runq) - 1) : runq'[i] = runq[i + 1]
      /\ Head(runq) = runq[1] /\ Head(runq) \in Task
  OBVIOUS
<1>2. OneOfEach'
  BY <1>1 DEF OneOfEach
<1>3. ASSUME NEW k PROVE Queued(k)' => Queued(k)
  BY <1>1 DEF Queued
<1>4. ASSUME NEW b PROVE QueuedBy(b)' => QueuedBy(b)
  BY <1>1 DEF QueuedBy
<1>5. (LastQueued' => LastQueued) /\ (Head(runq).task = "chunk" /\ Head(runq).last => LastQueued)
  BY <1>1 DEF LastQueued
<1>6. Queued(Head(runq).task)
  BY <1>1 DEF Queued
<1>7. ASSUME NEW k \in {"arm", "cancel"}, Head(runq).task = k PROVE ~Queued(k)'
  <2>1. \A t \in Task : t.task \in {"arm", "cancel"} => t.by = "W"
    BY DEF Task
  <2>2. ASSUME NEW i \in 1..(Len(runq) - 1) PROVE runq'[i].task # k
    <3>1. runq[i + 1] \in Task
      BY <1>1
    <3> QED BY <1>1, <1>7, <2>1, <3>1 DEF OneOfEach
  <2> QED BY <1>1, <2>2 DEF Queued
<1>8. ASSUME NEW b, Head(runq).task = "chunk", Head(runq).by = b
      PROVE  QueuedBy(b) /\ ~QueuedBy(b)'
  <2>1. QueuedBy(b)
    BY <1>1, <1>8 DEF QueuedBy
  <2>2. ASSUME NEW i \in 1..(Len(runq) - 1)
        PROVE ~(runq'[i].task = "chunk" /\ runq'[i].by = b)
    BY <1>1, <1>8 DEF OneOfEach
  <2> QED BY <1>1, <2>1, <2>2 DEF QueuedBy
<1> QED BY <1>1, <1>2, <1>3, <1>4, <1>5, <1>6, <1>7, <1>8

\* Nothing is said of the queue but what is in it.
LEMMA SameQueue ==
  ASSUME runq' = runq
  PROVE  /\ Queued("arm")' <=> Queued("arm")
         /\ Queued("cancel")' <=> Queued("cancel")
         /\ QueuedBy("L")' <=> QueuedBy("L")
         /\ QueuedBy("W")' <=> QueuedBy("W")
         /\ LastQueued' <=> LastQueued
         /\ OneOfEach' <=> OneOfEach
BY DEF Queued, QueuedBy, LastQueued, OneOfEach

\* An event of the descriptor is handled when the loop has queued nothing itself.
LEMMA NoneOfLoop ==
  ASSUME NEW o, LoopFree(o)
  PROVE  /\ doing["L"] = "idle" /\ op = o /\ mutex_ = "free"
         /\ ~QueuedBy("L")
BY DEF LoopFree, QueuedBy

\* Who holds what: the client goes away while the request is read: close() is next.
LEMMA ControlReadFails ==
  ASSUME Control, readFails
  PROVE  Control'
<1> USE DEF serverVars, parserVars, connVars, streamVars, readVars, workVars, workerOnly
<1>1. runq' = runq /\ OneOfEach'
  BY SameQueue DEF readFails, Control
<1>2. ~QueuedBy("L") /\ doing["L"] = "idle" /\ op = "read" /\ mutex_ = "free"
  BY NoneOfLoop DEF readFails
<1>4. Placed'
  BY DEF readFails, Go, Control, Placed, LoopPCs, WorkerPCs, ControlType
<1>5. ControlType'
  BY <1>1, <1>2, SameQueue DEF readFails, Control, ControlType
<1> USE DEF Control, Placed, LoopPCs, WorkerPCs, ControlType, Locks, OneWrite, AtHead,
      AtWorker, Armed, AtLoop, Handed, ServiceOrder, Ends
<1>6. Locks'
  BY <1>1, <1>2, SameQueue DEF readFails, Go
<1>7. OneWrite'
  BY <1>1, <1>2, SameQueue DEF readFails, Go
<1>8. ServiceOrder'
  BY <1>1, <1>2, SameQueue DEF readFails, Go
<1>9. Ends'
  BY <1>1, <1>2, SameQueue DEF readFails, Go
<1> QED BY <1>1, <1>4, <1>5, <1>6, <1>7, <1>8, <1>9

\* Who holds what: close() after a failure finds the connection still open.
LEMMA ControlClose ==
  ASSUME Control, close
  PROVE  Control'
<1> USE DEF serverVars, parserVars, connVars, streamVars, readVars, workVars, workerOnly
<1>1. runq' = runq /\ OneOfEach'
  BY SameQueue DEF close, Raise, Control
<1>2. ~closed
  BY DEF close, Control, ControlType, Ends
<1>4. Placed'
  BY <1>1, SameQueue, <1>2 DEF close, Raise, Go, Control, Placed, LoopPCs, WorkerPCs,
      ControlType, Locks, OneWrite, AtHead,
      AtWorker, Armed, AtLoop, Handed, ServiceOrder, Ends
<1>5. ControlType'
  BY <1>1, SameQueue, <1>2 DEF close, Raise, Go, Control, ControlType
<1> USE DEF Control, Placed, LoopPCs, WorkerPCs, ControlType, Locks, OneWrite, AtHead,
      AtWorker, Armed, AtLoop, Handed, ServiceOrder, Ends
<1>6. Locks'
  BY <1>1, SameQueue, <1>2 DEF close, Raise, Go
<1>7. OneWrite'
  BY <1>1, SameQueue, <1>2 DEF close, Raise, Go
<1>8. ServiceOrder'
  BY <1>1, SameQueue, <1>2 DEF close, Raise, Go
<1>9. Ends'
  BY <1>1, SameQueue, <1>2 DEF close, Raise, Go
<1> QED BY <1>1, <1>4, <1>5, <1>6, <1>7, <1>8, <1>9

\* Who holds what: the socket takes some pieces, and with the last one the callback is due.
LEMMA ControlWrite ==
  ASSUME Control, NEW k \in 1..Len(write_buf), write(k)
  PROVE  Control'
<1> USE DEF serverVars, parserVars, connVars, streamVars, readVars, workVars, workerOnly
<1>1. runq' = runq /\ OneOfEach'
  BY SameQueue DEF write, Control
<1>2. ~QueuedBy("L") /\ doing["L"] = "idle" /\ op = "write" /\ mutex_ = "free"
  BY NoneOfLoop DEF write
<1>4. Placed'
  BY DEF write, Go, Control, Placed, LoopPCs, WorkerPCs, ControlType
<1>5. ControlType'
  BY <1>1, <1>2, SameQueue DEF write, Control, ControlType
<1> USE DEF Control, Placed, LoopPCs, WorkerPCs, ControlType, Locks, OneWrite, AtHead,
      AtWorker, Armed, AtLoop, Handed, ServiceOrder, Ends
<1>6. Locks'
  BY <1>1, <1>2, SameQueue DEF write, Go
<1>7. OneWrite'
  BY <1>1, <1>2, SameQueue DEF write, Go
<1>8. ServiceOrder'
  BY <1>1, <1>2, SameQueue DEF write, Go
<1>9. Ends'
  BY <1>1, <1>2, SameQueue DEF write, Go
<1> QED BY <1>1, <1>4, <1>5, <1>6, <1>7, <1>8, <1>9

\* Who holds what: the client goes away while the response is written.
LEMMA ControlWriteFails ==
  ASSUME Control, writeFails
  PROVE  Control'
<1> USE DEF serverVars, parserVars, connVars, streamVars, readVars, workVars, workerOnly
<1>1. runq' = runq /\ OneOfEach'
  BY SameQueue DEF writeFails, Control
<1>2. ~QueuedBy("L") /\ doing["L"] = "idle" /\ op = "write" /\ mutex_ = "free"
  BY NoneOfLoop DEF writeFails
<1>4. Placed'
  BY DEF writeFails, Go, Control, Placed, LoopPCs, WorkerPCs, ControlType
<1>5. ControlType'
  BY <1>1, <1>2, SameQueue DEF writeFails, Control, ControlType
<1> USE DEF Control, Placed, LoopPCs, WorkerPCs, ControlType, Locks, OneWrite, AtHead,
      AtWorker, Armed, AtLoop, Handed, ServiceOrder, Ends
<1>6. Locks'
  BY <1>1, <1>2, SameQueue DEF writeFails, Go
<1>7. OneWrite'
  BY <1>1, <1>2, SameQueue DEF writeFails, Go
<1>8. ServiceOrder'
  BY <1>1, <1>2, SameQueue DEF writeFails, Go
<1>9. Ends'
  BY <1>1, <1>2, SameQueue DEF writeFails, Go
<1> QED BY <1>1, <1>4, <1>5, <1>6, <1>7, <1>8, <1>9

\* Who holds what: the stream records the error and wakes a waiting writer.
LEMMA ControlOnCallbackError ==
  ASSUME Control, onCallbackError
  PROVE  Control'
<1> USE DEF serverVars, parserVars, connVars, streamVars, readVars, workVars, workerOnly
<1>1. runq' = runq /\ OneOfEach'
  BY SameQueue DEF onCallbackError, Control
<1>4. Placed'
  BY DEF onCallbackError, DecRef, GoNotify, Control, Placed, LoopPCs, WorkerPCs, ControlType
<1>5. ControlType'
  BY <1>1, SameQueue DEF onCallbackError, Control, ControlType
<1> USE DEF Control, Placed, LoopPCs, WorkerPCs, ControlType, Locks, OneWrite, AtHead,
      AtWorker, Armed, AtLoop, Handed, ServiceOrder, Ends
<1>6. Locks'
  BY <1>1, SameQueue DEF onCallbackError, DecRef, GoNotify
<1>7. OneWrite'
  BY <1>1, SameQueue DEF onCallbackError, DecRef, GoNotify
<1>8. ServiceOrder'
  BY <1>1, SameQueue DEF onCallbackError, DecRef, GoNotify
<1>9. Ends'
  BY <1>1, SameQueue DEF onCallbackError, DecRef, GoNotify
<1> QED BY <1>1, <1>4, <1>5, <1>6, <1>7, <1>8, <1>9

\* Who holds what: the write is over: the next chunk, the end, or nothing.
LEMMA ControlOnCallbackCompleted ==
  ASSUME Control, onCallbackCompleted
  PROVE  Control'
<1> USE DEF serverVars, parserVars, connVars, streamVars, readVars, workVars, workerOnly
<1>1. runq' = runq /\ OneOfEach'
  BY SameQueue DEF onCallbackCompleted, onStateChanged, Control
<1>4. Placed'
  BY DEF onCallbackCompleted, onStateChanged, Resume, Go, GoNotify, Control, Placed, LoopPCs,
      WorkerPCs, ControlType
<1>5. ControlType'
  BY <1>1, SameQueue DEF onCallbackCompleted, onStateChanged, Control, ControlType
<1> USE DEF Control, Placed, LoopPCs, WorkerPCs, ControlType, Locks, OneWrite, AtHead,
      AtWorker, Armed, AtLoop, Handed, ServiceOrder, Ends
<1>6. Locks'
  BY <1>1, SameQueue DEF onCallbackCompleted, onStateChanged, Resume, Go, GoNotify
<1>7. OneWrite'
  BY <1>1, SameQueue DEF onCallbackCompleted, onStateChanged, Resume, Go, GoNotify
<1>8. ServiceOrder'
  BY <1>1, SameQueue DEF onCallbackCompleted, onStateChanged, Resume, Go, GoNotify
<1>9. Ends'
  BY <1>1, SameQueue DEF onCallbackCompleted, onStateChanged, Resume, Go, GoNotify
<1> QED BY <1>1, <1>4, <1>5, <1>6, <1>7, <1>8, <1>9

\* Who holds what: the loop drops the reference of the finished write.
LEMMA ControlDecRef ==
  ASSUME Control, decRef
  PROVE  Control'
<1> USE DEF serverVars, parserVars, connVars, streamVars, readVars, workVars, workerOnly
<1>1. runq' = runq /\ OneOfEach'
  BY SameQueue DEF decRef, Control
<1>4. Placed'
  BY DEF decRef, DecRef, Go, Control, Placed, LoopPCs, WorkerPCs, ControlType
<1>5. ControlType'
  BY <1>1, SameQueue DEF decRef, Control, ControlType
<1> USE DEF Control, Placed, LoopPCs, WorkerPCs, ControlType, Locks, OneWrite, AtHead,
      AtWorker, Armed, AtLoop, Handed, ServiceOrder, Ends
<1>6. Locks'
  BY <1>1, SameQueue DEF decRef, DecRef, Go
<1>7. OneWrite'
  BY <1>1, SameQueue DEF decRef, DecRef, Go
<1>8. ServiceOrder'
  BY <1>1, SameQueue DEF decRef, DecRef, Go
<1>9. Ends'
  BY <1>1, SameQueue DEF decRef, DecRef, Go
<1> QED BY <1>1, <1>4, <1>5, <1>6, <1>7, <1>8, <1>9

\* Who holds what: the loop hands the chunk over: the connection is still open.
LEMMA ControlWriteResponseBodyL ==
  ASSUME Control, writeResponseBody("L")
  PROVE  Control'
<1> USE DEF serverVars, parserVars, connVars, streamVars, readVars, workVars, workerOnly
<1>1. runq' = runq /\ OneOfEach'
  BY SameQueue DEF writeResponseBody, writeResponse, Raise, awaitWrite, Control
<1>4. Placed'
  BY <1>1, SameQueue DEF writeResponseBody, writeResponse, Raise, awaitWrite, Resume, Go,
      Control, Placed, LoopPCs, WorkerPCs, ControlType, Locks, OneWrite, AtHead,
      AtWorker, Armed, AtLoop, Handed, ServiceOrder, Ends
<1>5. ControlType'
  BY <1>1, SameQueue DEF writeResponseBody, writeResponse, Raise, awaitWrite, Resume, Go,
      Control, ControlType
<1> USE DEF Control, Placed, LoopPCs, WorkerPCs, ControlType, Locks, OneWrite, AtHead,
      AtWorker, Armed, AtLoop, Handed, ServiceOrder, Ends
<1>6. Locks'
  BY <1>1, SameQueue DEF writeResponseBody, writeResponse, Raise, awaitWrite, Resume, Go
<1>7. OneWrite'
  BY <1>1, SameQueue DEF writeResponseBody, writeResponse, Raise, awaitWrite, Resume, Go
<1>8. ServiceOrder'
  BY <1>1, SameQueue DEF writeResponseBody, writeResponse, Raise, awaitWrite, Resume, Go
<1>9. Ends'
  BY <1>1, SameQueue DEF writeResponseBody, writeResponse, Raise, awaitWrite, Resume, Go
<1> QED BY <1>1, <1>4, <1>5, <1>6, <1>7, <1>8, <1>9

\* Who holds what: the loop closes a connection that nobody has closed.
LEMMA ControlFinishResponseL ==
  ASSUME Control, finishResponse("L")
  PROVE  Control'
<1> USE DEF serverVars, parserVars, connVars, streamVars, readVars, workVars, workerOnly
<1>1. runq' = runq /\ OneOfEach'
  BY SameQueue DEF finishResponse, Raise, Control
<1>2. ~closed
  BY DEF finishResponse, Control, ControlType, Ends
<1>4. Placed'
  BY <1>1, SameQueue, <1>2 DEF finishResponse, Raise, Resume, Go, Control, Placed, LoopPCs,
      WorkerPCs, ControlType, Locks, OneWrite, AtHead,
      AtWorker, Armed, AtLoop, Handed, ServiceOrder, Ends
<1>5. ControlType'
  BY <1>1, SameQueue, <1>2 DEF finishResponse, Raise, Resume, Go, Control, ControlType
<1> USE DEF Control, Placed, LoopPCs, WorkerPCs, ControlType, Locks, OneWrite, AtHead,
      AtWorker, Armed, AtLoop, Handed, ServiceOrder, Ends
<1>6. Locks'
  BY <1>1, SameQueue, <1>2 DEF finishResponse, Raise, Resume, Go
<1>7. OneWrite'
  BY <1>1, SameQueue, <1>2 DEF finishResponse, Raise, Resume, Go
<1>8. ServiceOrder'
  BY <1>1, SameQueue, <1>2 DEF finishResponse, Raise, Resume, Go
<1>9. Ends'
  BY <1>1, SameQueue, <1>2 DEF finishResponse, Raise, Resume, Go
<1> QED BY <1>1, <1>4, <1>5, <1>6, <1>7, <1>8, <1>9

\* Who holds what: the pool thread makes the streams.
LEMMA ControlDispatchRequest ==
  ASSUME Control, dispatchRequest
  PROVE  Control'
<1> USE DEF serverVars, parserVars, connVars, streamVars, readVars, workVars, workerOnly
<1>1. runq' = runq /\ OneOfEach'
  BY SameQueue DEF dispatchRequest, Control
<1>4. Placed'
  BY DEF dispatchRequest, Go, Control, Placed, LoopPCs, WorkerPCs, ControlType
<1>5. ControlType'
  BY <1>1, SameQueue DEF dispatchRequest, Control, ControlType
<1> USE DEF Control, Placed, LoopPCs, WorkerPCs, ControlType, Locks, OneWrite, AtHead,
      AtWorker, Armed, AtLoop, Handed, ServiceOrder, Ends
<1>6. Locks'
  BY <1>1, SameQueue DEF dispatchRequest, Go
<1>7. OneWrite'
  BY <1>1, SameQueue DEF dispatchRequest, Go
<1>8. ServiceOrder'
  BY <1>1, SameQueue DEF dispatchRequest, Go
<1>9. Ends'
  BY <1>1, SameQueue DEF dispatchRequest, Go
<1> QED BY <1>1, <1>4, <1>5, <1>6, <1>7, <1>8, <1>9

\* Who holds what: the body callback is installed.
LEMMA ControlReadBody ==
  ASSUME Control, readBody
  PROVE  Control'
<1> USE DEF serverVars, parserVars, connVars, streamVars, readVars, workVars, workerOnly
<1>1. runq' = runq /\ OneOfEach'
  BY SameQueue DEF readBody, Control
<1>4. Placed'
  BY DEF readBody, Go, Control, Placed, LoopPCs, WorkerPCs, ControlType
<1>5. ControlType'
  BY <1>1, SameQueue DEF readBody, Control, ControlType
<1> USE DEF Control, Placed, LoopPCs, WorkerPCs, ControlType, Locks, OneWrite, AtHead,
      AtWorker, Armed, AtLoop, Handed, ServiceOrder, Ends
<1>6. Locks'
  BY <1>1, SameQueue DEF readBody, Go
<1>7. OneWrite'
  BY <1>1, SameQueue DEF readBody, Go
<1>8. ServiceOrder'
  BY <1>1, SameQueue DEF readBody, Go
<1>9. Ends'
  BY <1>1, SameQueue DEF readBody, Go
<1> QED BY <1>1, <1>4, <1>5, <1>6, <1>7, <1>8, <1>9

\* Who holds what: readBody() returns or throws.
LEMMA ControlReadBodyReturns ==
  ASSUME Control, readBodyReturns
  PROVE  Control'
<1> USE DEF serverVars, parserVars, connVars, streamVars, readVars, workVars, workerOnly
<1>1. runq' = runq /\ OneOfEach'
  BY SameQueue DEF readBodyReturns, Raise, Control
<1>4. Placed'
  BY DEF readBodyReturns, Raise, Go, Control, Placed, LoopPCs, WorkerPCs, ControlType
<1>5. ControlType'
  BY <1>1, SameQueue DEF readBodyReturns, Raise, Go, Control, ControlType
<1> USE DEF Control, Placed, LoopPCs, WorkerPCs, ControlType, Locks, OneWrite, AtHead,
      AtWorker, Armed, AtLoop, Handed, ServiceOrder, Ends
<1>6. Locks'
  BY <1>1, SameQueue DEF readBodyReturns, Raise, Go
<1>7. OneWrite'
  BY <1>1, SameQueue DEF readBodyReturns, Raise, Go
<1>8. ServiceOrder'
  BY <1>1, SameQueue DEF readBodyReturns, Raise, Go
<1>9. Ends'
  BY <1>1, SameQueue DEF readBodyReturns, Raise, Go
<1> QED BY <1>1, <1>4, <1>5, <1>6, <1>7, <1>8, <1>9

\* Who holds what: the head becomes the stream's outstanding write.
LEMMA ControlServiceStarts ==
  ASSUME Control, serviceStarts
  PROVE  Control'
<1> USE DEF serverVars, parserVars, connVars, streamVars, readVars, workVars, workerOnly
<1>1. runq' = runq /\ OneOfEach'
  BY SameQueue DEF serviceStarts, startResponse, Control
<1>4. Placed'
  BY DEF serviceStarts, startResponse, Go, Control, Placed, LoopPCs, WorkerPCs, ControlType
<1>5. ControlType'
  BY <1>1, SameQueue DEF serviceStarts, startResponse, Control, ControlType
<1> USE DEF Control, Placed, LoopPCs, WorkerPCs, ControlType, Locks, OneWrite, AtHead,
      AtWorker, Armed, AtLoop, Handed, ServiceOrder, Ends
<1>6. Locks'
  BY <1>1, SameQueue DEF serviceStarts, startResponse, Go
<1>7. OneWrite'
  BY <1>1, SameQueue DEF serviceStarts, startResponse, Go
<1>8. ServiceOrder'
  BY <1>1, SameQueue DEF serviceStarts, startResponse, Go
<1>9. Ends'
  BY <1>1, SameQueue DEF serviceStarts, startResponse, Go
<1> QED BY <1>1, <1>4, <1>5, <1>6, <1>7, <1>8, <1>9

\* Who holds what: the same for a service that answers in one call.
LEMMA ControlServiceResponds ==
  ASSUME Control, serviceResponds
  PROVE  Control'
<1> USE DEF serverVars, parserVars, connVars, streamVars, readVars, workVars, workerOnly
<1>1. runq' = runq /\ OneOfEach'
  BY SameQueue DEF serviceResponds, startResponse, Control
<1>4. Placed'
  BY DEF serviceResponds, startResponse, Go, Control, Placed, LoopPCs, WorkerPCs, ControlType
<1>5. ControlType'
  BY <1>1, SameQueue DEF serviceResponds, startResponse, Control, ControlType
<1> USE DEF Control, Placed, LoopPCs, WorkerPCs, ControlType, Locks, OneWrite, AtHead,
      AtWorker, Armed, AtLoop, Handed, ServiceOrder, Ends
<1>6. Locks'
  BY <1>1, SameQueue DEF serviceResponds, startResponse, Go
<1>7. OneWrite'
  BY <1>1, SameQueue DEF serviceResponds, startResponse, Go
<1>8. ServiceOrder'
  BY <1>1, SameQueue DEF serviceResponds, startResponse, Go
<1>9. Ends'
  BY <1>1, SameQueue DEF serviceResponds, startResponse, Go
<1> QED BY <1>1, <1>4, <1>5, <1>6, <1>7, <1>8, <1>9

\* Who holds what: finishResponse() of the stream, from the service or its catch block.
LEMMA ControlServiceFinishes ==
  ASSUME Control, serviceFinishes
  PROVE  Control'
<1> USE DEF serverVars, parserVars, connVars, streamVars, readVars, workVars, workerOnly
<1>1. runq' = runq /\ OneOfEach'
  BY SameQueue DEF serviceFinishes, finishStream, onStateChanged, Control
<1>4. Placed'
  BY DEF serviceFinishes, finishStream, onStateChanged, Resume, Go, GoNotify, Control, Placed,
      LoopPCs, WorkerPCs, ControlType
<1>5. ControlType'
  BY <1>1, SameQueue DEF serviceFinishes, finishStream, onStateChanged, Control, ControlType
<1> USE DEF Control, Placed, LoopPCs, WorkerPCs, ControlType, Locks, OneWrite, AtHead,
      AtWorker, Armed, AtLoop, Handed, ServiceOrder, Ends
<1>6. Locks'
  BY <1>1, SameQueue DEF serviceFinishes, finishStream, onStateChanged, Resume, Go, GoNotify
<1>7. OneWrite'
  BY <1>1, SameQueue DEF serviceFinishes, finishStream, onStateChanged, Resume, Go, GoNotify
<1>8. ServiceOrder'
  BY <1>1, SameQueue DEF serviceFinishes, finishStream, onStateChanged, Resume, Go, GoNotify
<1>9. Ends'
  BY <1>1, SameQueue DEF serviceFinishes, finishStream, onStateChanged, Resume, Go, GoNotify
<1> QED BY <1>1, <1>4, <1>5, <1>6, <1>7, <1>8, <1>9

\* Who holds what: a piece joins buf_, and goes out if no write is outstanding.
LEMMA ControlWriteBodyChunk ==
  ASSUME Control, writeBodyChunk
  PROVE  Control'
<1> USE DEF serverVars, parserVars, connVars, streamVars, readVars, workVars, workerOnly
<1>1. runq' = runq /\ OneOfEach'
  BY SameQueue DEF writeBodyChunk, onStateChanged, Control
<1>4. Placed'
  BY DEF writeBodyChunk, onStateChanged, Resume, Go, GoNotify, Control, Placed, LoopPCs,
      WorkerPCs, ControlType
<1>5. ControlType'
  BY <1>1, SameQueue DEF writeBodyChunk, onStateChanged, Control, ControlType
<1> USE DEF Control, Placed, LoopPCs, WorkerPCs, ControlType, Locks, OneWrite, AtHead,
      AtWorker, Armed, AtLoop, Handed, ServiceOrder, Ends
<1>6. Locks'
  BY <1>1, SameQueue DEF writeBodyChunk, onStateChanged, Resume, Go, GoNotify
<1>7. OneWrite'
  BY <1>1, SameQueue DEF writeBodyChunk, onStateChanged, Resume, Go, GoNotify
<1>8. ServiceOrder'
  BY <1>1, SameQueue DEF writeBodyChunk, onStateChanged, Resume, Go, GoNotify
<1>9. Ends'
  BY <1>1, SameQueue DEF writeBodyChunk, onStateChanged, Resume, Go, GoNotify
<1> QED BY <1>1, <1>4, <1>5, <1>6, <1>7, <1>8, <1>9

\* Who holds what: a writer waits for the reader.
LEMMA ControlWaitForReader ==
  ASSUME Control, waitForReader
  PROVE  Control'
<1> USE DEF serverVars, parserVars, connVars, streamVars, readVars, workVars, workerOnly
<1>1. runq' = runq /\ OneOfEach'
  BY SameQueue DEF waitForReader, Control
<1>4. Placed'
  BY DEF waitForReader, Go, Control, Placed, LoopPCs, WorkerPCs, ControlType
<1>5. ControlType'
  BY <1>1, SameQueue DEF waitForReader, Control, ControlType
<1> USE DEF Control, Placed, LoopPCs, WorkerPCs, ControlType, Locks, OneWrite, AtHead,
      AtWorker, Armed, AtLoop, Handed, ServiceOrder, Ends
<1>6. Locks'
  BY <1>1, SameQueue DEF waitForReader, Go
<1>7. OneWrite'
  BY <1>1, SameQueue DEF waitForReader, Go
<1>8. ServiceOrder'
  BY <1>1, SameQueue DEF waitForReader, Go
<1>9. Ends'
  BY <1>1, SameQueue DEF waitForReader, Go
<1> QED BY <1>1, <1>4, <1>5, <1>6, <1>7, <1>8, <1>9

\* Who holds what: the service throws.
LEMMA ControlThrows ==
  ASSUME Control, throws
  PROVE  Control'
<1> USE DEF serverVars, parserVars, connVars, streamVars, readVars, workVars, workerOnly
<1>1. runq' = runq /\ OneOfEach'
  BY SameQueue DEF throws, Control
<1>4. Placed'
  BY DEF throws, Go, Control, Placed, LoopPCs, WorkerPCs, ControlType
<1>5. ControlType'
  BY <1>1, SameQueue DEF throws, Control, ControlType
<1> USE DEF Control, Placed, LoopPCs, WorkerPCs, ControlType, Locks, OneWrite, AtHead,
      AtWorker, Armed, AtLoop, Handed, ServiceOrder, Ends
<1>6. Locks'
  BY <1>1, SameQueue DEF throws, Go
<1>7. OneWrite'
  BY <1>1, SameQueue DEF throws, Go
<1>8. ServiceOrder'
  BY <1>1, SameQueue DEF throws, Go
<1>9. Ends'
  BY <1>1, SameQueue DEF throws, Go
<1> QED BY <1>1, <1>4, <1>5, <1>6, <1>7, <1>8, <1>9

\* Who holds what: the catch block finishes the response or answers 500.
LEMMA ControlCatches ==
  ASSUME Control, catches
  PROVE  Control'
<1> USE DEF serverVars, parserVars, connVars, streamVars, readVars, workVars, workerOnly
<1>1. runq' = runq /\ OneOfEach'
  BY SameQueue DEF catches, Control
<1>4. Placed'
  BY DEF catches, Go, Control, Placed, LoopPCs, WorkerPCs, ControlType
<1>5. ControlType'
  BY <1>1, SameQueue DEF catches, Control, ControlType
<1> USE DEF Control, Placed, LoopPCs, WorkerPCs, ControlType, Locks, OneWrite, AtHead,
      AtWorker, Armed, AtLoop, Handed, ServiceOrder, Ends
<1>6. Locks'
  BY <1>1, SameQueue DEF catches, Go
<1>7. OneWrite'
  BY <1>1, SameQueue DEF catches, Go
<1>8. ServiceOrder'
  BY <1>1, SameQueue DEF catches, Go
<1>9. Ends'
  BY <1>1, SameQueue DEF catches, Go
<1> QED BY <1>1, <1>4, <1>5, <1>6, <1>7, <1>8, <1>9

\* Who holds what: the service is over.
LEMMA ControlLeaves ==
  ASSUME Control, leaves
  PROVE  Control'
<1> USE DEF serverVars, parserVars, connVars, streamVars, readVars, workVars, workerOnly
<1>1. runq' = runq /\ OneOfEach'
  BY SameQueue DEF leaves, Control
<1>4. Placed'
  BY DEF leaves, DecRef, Go, Control, Placed, LoopPCs, WorkerPCs, ControlType
<1>5. ControlType'
  BY <1>1, SameQueue DEF leaves, Control, ControlType
<1> USE DEF Control, Placed, LoopPCs, WorkerPCs, ControlType, Locks, OneWrite, AtHead,
      AtWorker, Armed, AtLoop, Handed, ServiceOrder, Ends
<1>6. Locks'
  BY <1>1, SameQueue DEF leaves, DecRef, Go
<1>7. OneWrite'
  BY <1>1, SameQueue DEF leaves, DecRef, Go
<1>8. ServiceOrder'
  BY <1>1, SameQueue DEF leaves, DecRef, Go
<1>9. Ends'
  BY <1>1, SameQueue DEF leaves, DecRef, Go
<1> QED BY <1>1, <1>4, <1>5, <1>6, <1>7, <1>8, <1>9

\* Who holds what: the loop has cancelled the descriptor: both mutexes are released.
LEMMA ControlCancelFDReturns ==
  ASSUME Control, cancelFDReturns
  PROVE  Control'
<1> USE DEF serverVars, parserVars, connVars, streamVars, readVars, workVars, workerOnly
<1>1. runq' = runq /\ OneOfEach'
  BY SameQueue DEF cancelFDReturns, Control
<1>4. Placed'
  BY DEF cancelFDReturns, Resume, Go, Control, Placed, LoopPCs, WorkerPCs, ControlType
<1>5. ControlType'
  BY <1>1, SameQueue DEF cancelFDReturns, Control, ControlType
<1> USE DEF Control, Placed, LoopPCs, WorkerPCs, ControlType, Locks, OneWrite, AtHead,
      AtWorker, Armed, AtLoop, Handed, ServiceOrder, Ends
<1>6. Locks'
  BY <1>1, SameQueue DEF cancelFDReturns, Resume, Go
<1>7. OneWrite'
  BY <1>1, SameQueue DEF cancelFDReturns, Resume, Go
<1>8. ServiceOrder'
  BY <1>1, SameQueue DEF cancelFDReturns, Resume, Go
<1>9. Ends'
  BY <1>1, SameQueue DEF cancelFDReturns, Resume, Go
<1> QED BY <1>1, <1>4, <1>5, <1>6, <1>7, <1>8, <1>9

\* The queue: the segment that completes the headers, and starts or feeds the handler.
LEMMA QueueReadHeaders ==
  ASSUME Control, NEW n \in 0..MaxRequestBody, NEW k \in 0..n, readHeaders(n, k)
  PROVE  /\ runq' \in Seq(Task) /\ OneOfEach'
         /\ Queued("arm")' <=> Queued("arm")
         /\ Queued("cancel")' <=> Queued("cancel")
         /\ QueuedBy("W")' <=> QueuedBy("W")
         /\ QueuedBy("L")' => QueuedBy("L") \/ service # "streaming"
         /\ LastQueued' => LastQueued \/ state_' = "DONE"
<1> USE DEF serverVars, parserVars, connVars, streamVars, readVars, workVars, workerOnly
<1>1. CASE runq' = runq
  BY <1>1, SameQueue DEF Control, ControlType
<1>2. CASE service # "streaming" /\ runq' = Append(runq, Chunk(k, k = n))
  <2>1. Chunk(k, k = n) \in Task
    BY ServerBounds DEF Task, Chunk
  <2>2. \A i \in DOMAIN runq : runq[i].by # "L"
    BY DEF readHeaders, LoopFree
  <2> QED BY <1>2, <2>1, <2>2, PutTask DEF Chunk, Control, ControlType, readHeaders
<1> QED BY <1>1, <1>2 DEF readHeaders

\* Who holds what: the segment that completes the headers, and starts or feeds the handler.
LEMMA ControlReadHeaders ==
  ASSUME Control, NEW n \in 0..MaxRequestBody, NEW k \in 0..n, readHeaders(n, k)
  PROVE  Control'
<1> USE DEF serverVars, parserVars, connVars, streamVars, readVars, workVars, workerOnly
<1>1. /\ runq' \in Seq(Task) /\ OneOfEach'
      /\ Queued("arm")' <=> Queued("arm")
      /\ Queued("cancel")' <=> Queued("cancel")
      /\ QueuedBy("W")' <=> QueuedBy("W")
      /\ QueuedBy("L")' => QueuedBy("L") \/ service # "streaming"
      /\ LastQueued' => LastQueued \/ state_' = "DONE"
  BY QueueReadHeaders
<1>2. ~QueuedBy("L") /\ doing["L"] = "idle" /\ op = "read"
  BY NoneOfLoop DEF readHeaders
<1>4. Placed'
  BY DEF readHeaders, Go, Control, Placed, LoopPCs, WorkerPCs, ControlType
<1>5. ControlType'
  BY <1>1, <1>2, ServerBounds DEF readHeaders, Control, ControlType
<1> USE DEF Control, Placed, LoopPCs, WorkerPCs, ControlType, Locks, OneWrite, AtHead,
      AtWorker, Armed, AtLoop, Handed, ServiceOrder, Ends
<1>6. Locks'
  BY <1>1, <1>2, ServerBounds DEF readHeaders, Go
<1>7. OneWrite'
  BY <1>1, <1>2, ServerBounds DEF readHeaders, Go
<1>8. ServiceOrder'
  BY <1>1, <1>2, ServerBounds DEF readHeaders, Go
<1>9. Ends'
  BY <1>1, <1>2, ServerBounds DEF readHeaders, Go
<1> QED BY <1>1, <1>4, <1>5, <1>6, <1>7, <1>8, <1>9

\* The queue: more bytes of the body, given to the callback installed by then.
LEMMA QueueReadMore ==
  ASSUME Control, NEW k \in 1..MaxRequestBody, readMore(k)
  PROVE  /\ runq' \in Seq(Task) /\ OneOfEach'
         /\ Queued("arm")' <=> Queued("arm")
         /\ Queued("cancel")' <=> Queued("cancel")
         /\ QueuedBy("W")' <=> QueuedBy("W")
         /\ QueuedBy("L")' => QueuedBy("L") \/ bodyCb # "buffer"
         /\ LastQueued' => LastQueued \/ state_' = "DONE"
<1> USE DEF serverVars, parserVars, connVars, streamVars, readVars, workVars, workerOnly
<1>1. CASE runq' = runq
  BY <1>1, SameQueue DEF Control, ControlType
<1>2. CASE bodyCb # "buffer" /\ runq' = Append(runq, Chunk(body_buf + k, state_' = "DONE"))
  <2>1. Chunk(body_buf + k, state_' = "DONE") \in Task
    BY ServerBounds DEF Task, Chunk, Control, ControlType
  <2>2. \A i \in DOMAIN runq : runq[i].by # "L"
    BY DEF readMore, LoopFree
  <2> QED BY <1>2, <2>1, <2>2, PutTask DEF Chunk, Control, ControlType
<1> QED BY <1>1, <1>2 DEF readMore

\* Who holds what: more bytes of the body, given to the callback installed by then.
LEMMA ControlReadMore ==
  ASSUME Control, NEW k \in 1..MaxRequestBody, readMore(k)
  PROVE  Control'
<1> USE DEF serverVars, parserVars, connVars, streamVars, readVars, workVars, workerOnly
<1>1. /\ runq' \in Seq(Task) /\ OneOfEach'
      /\ Queued("arm")' <=> Queued("arm")
      /\ Queued("cancel")' <=> Queued("cancel")
      /\ QueuedBy("W")' <=> QueuedBy("W")
      /\ QueuedBy("L")' => QueuedBy("L") \/ bodyCb # "buffer"
      /\ LastQueued' => LastQueued \/ state_' = "DONE"
  BY QueueReadMore
<1>2. ~QueuedBy("L") /\ doing["L"] = "idle" /\ op = "read"
  BY NoneOfLoop DEF readMore
<1>4. Placed'
  BY DEF readMore, Control, Placed, LoopPCs, WorkerPCs, ControlType
<1>5. ControlType'
  BY <1>1, <1>2, ServerBounds DEF readMore, Control, ControlType
<1> USE DEF Control, Placed, LoopPCs, WorkerPCs, ControlType, Locks, OneWrite, AtHead,
      AtWorker, Armed, AtLoop, Handed, ServiceOrder, Ends
<1>6. Locks'
  BY <1>1, <1>2, ServerBounds DEF readMore
<1>7. OneWrite'
  BY <1>1, <1>2, ServerBounds DEF readMore
<1>8. ServiceOrder'
  BY <1>1, <1>2, ServerBounds DEF readMore
<1>9. Ends'
  BY <1>1, <1>2, ServerBounds DEF readMore
<1> QED BY <1>1, <1>4, <1>5, <1>6, <1>7, <1>8, <1>9

\* The queue: a queued chunk is delivered, the last one may start the service.
LEMMA QueueRunChunk ==
  ASSUME Control, runChunk
  PROVE  /\ runq' \in Seq(Task) /\ OneOfEach' /\ Head(runq) \in Task
         /\ Queued("arm")' => Queued("arm")
         /\ Queued("cancel")' => Queued("cancel")
         /\ QueuedBy("W")' => QueuedBy("W")
         /\ QueuedBy("L")' => QueuedBy("L")
         /\ LastQueued' => LastQueued
         /\ QueuedBy(Head(runq).by)
         /\ \A b : Head(runq).by = b => ~QueuedBy(b)'
         /\ Head(runq).last => LastQueued
BY TakeTask DEF runChunk, Control, ControlType

\* Who holds what: a queued chunk is delivered, the last one may start the service.
LEMMA ControlRunChunk ==
  ASSUME Control, runChunk
  PROVE  Control'
<1> USE DEF serverVars, parserVars, connVars, streamVars, readVars, workVars, workerOnly
<1>1. /\ runq' \in Seq(Task) /\ OneOfEach' /\ Head(runq) \in Task
      /\ Queued("arm")' => Queued("arm")
      /\ Queued("cancel")' => Queued("cancel")
      /\ QueuedBy("W")' => QueuedBy("W")
      /\ QueuedBy("L")' => QueuedBy("L")
      /\ LastQueued' => LastQueued
      /\ QueuedBy(Head(runq).by)
      /\ \A b : Head(runq).by = b => ~QueuedBy(b)'
      /\ Head(runq).last => LastQueued
  BY QueueRunChunk
<1>2. Head(runq).by \in {"L", "W"}
  BY <1>1 DEF Task
<1>3. LastQueued' => QueuedBy("L")' \/ QueuedBy("W")'
  BY <1>1 DEF LastQueued, QueuedBy, Task
<1>4. Placed'
  BY DEF runChunk, Go, Control, Placed, LoopPCs, WorkerPCs, ControlType
<1>5. ControlType'
  BY <1>1, <1>2, <1>3 DEF runChunk, Control, ControlType
<1> USE DEF Control, Placed, LoopPCs, WorkerPCs, ControlType, Locks, OneWrite, AtHead,
      AtWorker, Armed, AtLoop, Handed, ServiceOrder, Ends
<1>6. Locks'
  BY <1>1, <1>2, <1>3 DEF runChunk, Go
<1>7. OneWrite'
  BY <1>1, <1>2, <1>3 DEF runChunk, Go
<1>8. ServiceOrder'
  BY <1>1, <1>2, <1>3 DEF runChunk, Go
<1>9. Ends'
  BY <1>1, <1>2, <1>3 DEF runChunk, Go
<1> QED BY <1>1, <1>4, <1>5, <1>6, <1>7, <1>8, <1>9

\* The queue: the loop arms or cancels the descriptor for the worker.
LEMMA QueueRunTask ==
  ASSUME Control, runTask
  PROVE  /\ runq' \in Seq(Task) /\ OneOfEach' /\ Head(runq) \in Task
         /\ Queued("arm")' => Queued("arm")
         /\ Queued("cancel")' => Queued("cancel")
         /\ QueuedBy("W")' => QueuedBy("W")
         /\ QueuedBy("L")' => QueuedBy("L")
         /\ LastQueued' => LastQueued
         /\ Queued(Head(runq).task)
         /\ \A k \in {"arm", "cancel"} : Head(runq).task = k => ~Queued(k)'
BY TakeTask DEF runTask, Control, ControlType

\* Who holds what: the loop arms or cancels the descriptor for the worker.
LEMMA ControlRunTask ==
  ASSUME Control, runTask
  PROVE  Control'
<1> USE DEF serverVars, parserVars, connVars, streamVars, readVars, workVars, workerOnly
<1>1. /\ runq' \in Seq(Task) /\ OneOfEach' /\ Head(runq) \in Task
      /\ Queued("arm")' => Queued("arm")
      /\ Queued("cancel")' => Queued("cancel")
      /\ QueuedBy("W")' => QueuedBy("W")
      /\ QueuedBy("L")' => QueuedBy("L")
      /\ LastQueued' => LastQueued
      /\ Queued(Head(runq).task)
      /\ \A k \in {"arm", "cancel"} : Head(runq).task = k => ~Queued(k)'
  BY QueueRunTask
<1>4. Placed'
  BY DEF runTask, Go, Control, Placed, LoopPCs, WorkerPCs, ControlType
<1>5. ControlType'
  BY <1>1 DEF runTask, Control, ControlType
<1> USE DEF Control, Placed, LoopPCs, WorkerPCs, ControlType, Locks, OneWrite, AtHead,
      AtWorker, Armed, AtLoop, Handed, ServiceOrder, Ends
<1>6. Locks'
  BY <1>1 DEF runTask, Go
<1>7. OneWrite'
  BY <1>1 DEF runTask, Go
<1>8. ServiceOrder'
  BY <1>1 DEF runTask, Go
<1>9. Ends'
  BY <1>1 DEF runTask, Go
<1> QED BY <1>1, <1>4, <1>5, <1>6, <1>7, <1>8, <1>9

\* The queue: what was buffered before is queued.
LEMMA QueueReadBuffered ==
  ASSUME Control, readBuffered
  PROVE  /\ runq' \in Seq(Task) /\ OneOfEach'
         /\ Queued("arm")' <=> Queued("arm")
         /\ Queued("cancel")' <=> Queued("cancel")
         /\ QueuedBy("L")' <=> QueuedBy("L")
<1> USE DEF serverVars, parserVars, connVars, streamVars, readVars, workVars, workerOnly
<1>1. CASE runq' = runq
  BY <1>1, SameQueue DEF Control, ControlType
<1>2. CASE runq' = Append(runq, [Chunk(body_buf, state_ = "DONE") EXCEPT !.by = "W"])
  <2>1. PICK r \in Task : /\ r = [Chunk(body_buf, state_ = "DONE") EXCEPT !.by = "W"]
                         /\ r.task = "chunk" /\ r.by = "W"
    <3>1. [Chunk(body_buf, state_ = "DONE") EXCEPT !.by = "W"]
            = [task |-> "chunk", size |-> body_buf, last |-> state_ = "DONE", by |-> "W"]
      BY DEF Chunk
    <3>2. [task |-> "chunk", size |-> body_buf, last |-> state_ = "DONE", by |-> "W"] \in Task
      BY DEF Task, Control, ControlType
    <3> QED BY <3>1, <3>2
  <2>2. \A i \in DOMAIN runq : ~(runq[i].task = "chunk" /\ runq[i].by = "W")
    BY DEF readBuffered, Control, ServiceOrder, QueuedBy
  <2>3. runq' = Append(runq, r) /\ r.task = "chunk" /\ r.by = "W"
    BY <1>2, <2>1
  <2>4. runq \in Seq(Task) /\ OneOfEach
    BY DEF Control, ControlType
  <2> QED BY <2>2, <2>3, <2>4, PutTask
<1> QED BY <1>1, <1>2 DEF readBuffered

\* Who holds what: what was buffered before is queued.
LEMMA ControlReadBuffered ==
  ASSUME Control, readBuffered
  PROVE  Control'
<1> USE DEF serverVars, parserVars, connVars, streamVars, readVars, workVars, workerOnly
<1>1. /\ runq' \in Seq(Task) /\ OneOfEach'
      /\ Queued("arm")' <=> Queued("arm")
      /\ Queued("cancel")' <=> Queued("cancel")
      /\ QueuedBy("L")' <=> QueuedBy("L")
  BY QueueReadBuffered
<1>4. Placed'
  BY DEF readBuffered, Go, Control, Placed, LoopPCs, WorkerPCs, ControlType
<1>5. ControlType'
  BY <1>1 DEF readBuffered, Control, ControlType
<1> USE DEF Control, Placed, LoopPCs, WorkerPCs, ControlType, Locks, OneWrite, AtHead,
      AtWorker, Armed, AtLoop, Handed, ServiceOrder, Ends
<1>6. Locks'
  BY <1>1 DEF readBuffered, Go
<1>7. OneWrite'
  BY <1>1 DEF readBuffered, Go
<1>8. ServiceOrder'
  BY <1>1 DEF readBuffered, Go
<1>9. Ends'
  BY <1>1 DEF readBuffered, Go
<1> QED BY <1>1, <1>4, <1>5, <1>6, <1>7, <1>8, <1>9

\* The queue: the head is handed over, or refused on an incomplete request.
LEMMA QueueWriteHead ==
  ASSUME Control, writeHead
  PROVE  /\ runq' \in Seq(Task) /\ OneOfEach'
         /\ Queued("cancel")' <=> Queued("cancel")
         /\ QueuedBy("L")' <=> QueuedBy("L")
         /\ QueuedBy("W")' <=> QueuedBy("W")
         /\ LastQueued' <=> LastQueued
         /\ Queued("arm")' => Queued("arm") \/ (state_ = "DONE" /\ ~closed)
<1> USE DEF serverVars, parserVars, connVars, streamVars, readVars, workVars, workerOnly
<1>1. CASE runq' = runq
  BY <1>1, SameQueue DEF Control, ControlType
<1>2. CASE runq' = Append(runq, [task |-> "arm", by |-> "W"]) /\ state_ = "DONE" /\ ~closed
  <2>1. [task |-> "arm", by |-> "W"] \in Task
    BY DEF Task
  <2>2. \A i \in DOMAIN runq : runq[i].task # "arm"
    BY DEF writeHead, writeResponse, awaitWrite, Raise, Resume, Go, Control, OneWrite, AtHead,
        AtWorker, Handed, Queued
  <2> QED BY <1>2, <2>1, <2>2, PutTask DEF Control, ControlType
<1> QED BY <1>1, <1>2 DEF writeHead, writeResponse, awaitWrite, Raise, Resume, Go

\* Who holds what: the head is handed over, or refused on an incomplete request.
LEMMA ControlWriteHead ==
  ASSUME Control, writeHead
  PROVE  Control'
<1> USE DEF serverVars, parserVars, connVars, streamVars, readVars, workVars, workerOnly
<1>1. /\ runq' \in Seq(Task) /\ OneOfEach'
      /\ Queued("cancel")' <=> Queued("cancel")
      /\ QueuedBy("L")' <=> QueuedBy("L")
      /\ QueuedBy("W")' <=> QueuedBy("W")
      /\ LastQueued' <=> LastQueued
      /\ Queued("arm")' => Queued("arm") \/ (state_ = "DONE" /\ ~closed)
  BY QueueWriteHead
<1>4. Placed'
  BY DEF writeHead, writeResponse, awaitWrite, Raise, Resume, Go, Control, Placed, LoopPCs,
      WorkerPCs, ControlType
<1>5. ControlType'
  BY <1>1 DEF writeHead, writeResponse, awaitWrite, Raise, Resume, Go, Control, ControlType
<1> USE DEF Control, Placed, LoopPCs, WorkerPCs, ControlType, Locks, OneWrite, AtHead,
      AtWorker, Armed, AtLoop, Handed, ServiceOrder, Ends
<1>6. Locks'
  BY <1>1 DEF writeHead, writeResponse, awaitWrite, Raise, Resume, Go
<1>7. OneWrite'
  BY <1>1 DEF writeHead, writeResponse, awaitWrite, Raise, Resume, Go
<1>8. ServiceOrder'
  BY <1>1 DEF writeHead, writeResponse, awaitWrite, Raise, Resume, Go
<1>9. Ends'
  BY <1>1 DEF writeHead, writeResponse, awaitWrite, Raise, Resume, Go
<1> QED BY <1>1, <1>4, <1>5, <1>6, <1>7, <1>8, <1>9

\* The queue: the worker hands the chunk over through the loop's queue.
LEMMA QueueWriteResponseBodyW ==
  ASSUME Control, writeResponseBody("W")
  PROVE  /\ runq' \in Seq(Task) /\ OneOfEach'
         /\ Queued("cancel")' <=> Queued("cancel")
         /\ QueuedBy("L")' <=> QueuedBy("L")
         /\ QueuedBy("W")' <=> QueuedBy("W")
         /\ LastQueued' <=> LastQueued
         /\ Queued("arm")' => Queued("arm") \/ (state_ = "DONE" /\ ~closed)
<1> USE DEF serverVars, parserVars, connVars, streamVars, readVars, workVars, workerOnly
<1>1. CASE runq' = runq
  BY <1>1, SameQueue DEF Control, ControlType
<1>2. CASE runq' = Append(runq, [task |-> "arm", by |-> "W"]) /\ state_ = "DONE" /\ ~closed
  <2>1. [task |-> "arm", by |-> "W"] \in Task
    BY DEF Task
  <2>2. \A i \in DOMAIN runq : runq[i].task # "arm"
    BY DEF writeResponseBody, writeResponse, awaitWrite, Raise, Resume, Go, Control, OneWrite,
        AtHead, AtWorker, Handed, Queued
  <2> QED BY <1>2, <2>1, <2>2, PutTask DEF Control, ControlType
<1> QED BY <1>1, <1>2 DEF writeResponseBody, writeResponse, awaitWrite, Raise, Resume, Go

\* Who holds what: the worker hands the chunk over through the loop's queue.
LEMMA ControlWriteResponseBodyW ==
  ASSUME Control, writeResponseBody("W")
  PROVE  Control'
<1> USE DEF serverVars, parserVars, connVars, streamVars, readVars, workVars, workerOnly
<1>1. /\ runq' \in Seq(Task) /\ OneOfEach'
      /\ Queued("cancel")' <=> Queued("cancel")
      /\ QueuedBy("L")' <=> QueuedBy("L")
      /\ QueuedBy("W")' <=> QueuedBy("W")
      /\ LastQueued' <=> LastQueued
      /\ Queued("arm")' => Queued("arm") \/ (state_ = "DONE" /\ ~closed)
  BY QueueWriteResponseBodyW
<1>4. Placed'
  BY DEF writeResponseBody, writeResponse, awaitWrite, Raise, Resume, Go, Control, Placed,
      LoopPCs, WorkerPCs, ControlType
<1>5. ControlType'
  BY <1>1 DEF writeResponseBody, writeResponse, awaitWrite, Raise, Resume, Go, Control,
      ControlType
<1> USE DEF Control, Placed, LoopPCs, WorkerPCs, ControlType, Locks, OneWrite, AtHead,
      AtWorker, Armed, AtLoop, Handed, ServiceOrder, Ends
<1>6. Locks'
  BY <1>1 DEF writeResponseBody, writeResponse, awaitWrite, Raise, Resume, Go
<1>7. OneWrite'
  BY <1>1 DEF writeResponseBody, writeResponse, awaitWrite, Raise, Resume, Go
<1>8. ServiceOrder'
  BY <1>1 DEF writeResponseBody, writeResponse, awaitWrite, Raise, Resume, Go
<1>9. Ends'
  BY <1>1 DEF writeResponseBody, writeResponse, awaitWrite, Raise, Resume, Go
<1> QED BY <1>1, <1>4, <1>5, <1>6, <1>7, <1>8, <1>9

\* The queue: the worker closes it and waits, with both mutexes, for an idle loop.
LEMMA QueueFinishResponseW ==
  ASSUME Control, finishResponse("W")
  PROVE  /\ runq' \in Seq(Task) /\ OneOfEach'
         /\ Queued("arm")' <=> Queued("arm")
         /\ QueuedBy("L")' <=> QueuedBy("L")
         /\ QueuedBy("W")' <=> QueuedBy("W")
         /\ LastQueued' <=> LastQueued
<1> USE DEF serverVars, parserVars, connVars, streamVars, readVars, workVars, workerOnly
<1>1. CASE runq' = runq
  BY <1>1, SameQueue DEF Control, ControlType
<1>2. CASE runq' = Append(runq, [task |-> "cancel", by |-> "W"])
  <2>1. [task |-> "cancel", by |-> "W"] \in Task
    BY DEF Task
  <2>2. \A i \in DOMAIN runq : runq[i].task # "cancel"
    BY DEF finishResponse, Control, ServiceOrder, Queued
  <2> QED BY <1>2, <2>1, <2>2, PutTask DEF Control, ControlType
<1> QED BY <1>1, <1>2 DEF finishResponse

\* Who holds what: the worker closes it and waits, with both mutexes, for an idle loop.
LEMMA ControlFinishResponseW ==
  ASSUME Control, finishResponse("W")
  PROVE  Control'
<1> USE DEF serverVars, parserVars, connVars, streamVars, readVars, workVars, workerOnly
<1>1. /\ runq' \in Seq(Task) /\ OneOfEach'
      /\ Queued("arm")' <=> Queued("arm")
      /\ QueuedBy("L")' <=> QueuedBy("L")
      /\ QueuedBy("W")' <=> QueuedBy("W")
      /\ LastQueued' <=> LastQueued
  BY QueueFinishResponseW
<1>2. ~closed
  BY DEF finishResponse, Control, ControlType, Ends
<1>4. Placed'
  BY DEF finishResponse, Raise, Resume, Go, Control, Placed, LoopPCs, WorkerPCs, ControlType
<1>5. ControlType'
  BY <1>1, <1>2 DEF finishResponse, Raise, Resume, Go, Control, ControlType
<1> USE DEF Control, Placed, LoopPCs, WorkerPCs, ControlType, Locks, OneWrite, AtHead,
      AtWorker, Armed, AtLoop, Handed, ServiceOrder, Ends
<1>6. Locks'
  BY <1>1, <1>2 DEF finishResponse, Raise, Resume, Go
<1>7. OneWrite'
  BY <1>1, <1>2 DEF finishResponse, Raise, Resume, Go
<1>8. ServiceOrder'
  BY <1>1, <1>2 DEF finishResponse, Raise, Resume, Go
<1>9. Ends'
  BY <1>1, <1>2 DEF finishResponse, Raise, Resume, Go
<1> QED BY <1>1, <1>4, <1>5, <1>6, <1>7, <1>8, <1>9

-----------------------------------------------------------------------------
(* The connection: the body of the request.                                *)

bodyVars == <<state_, expected, got, body_buf, delivered, woken, reqError, bodyRead>>

\* A chunk joins the queue.
LEMMA PutChunk ==
  ASSUME runq \in Seq(Task), NEW r \in Task, runq' = Append(runq, r), r.task = "chunk",
         NEW b, r.by = b, ~QueuedBy(b), NEW m, r.size = m
  PROVE  /\ Size(b, m)'
         /\ \A c, n : c # b /\ Size(c, n) => Size(c, n)'
         /\ NothingAfterLast /\ (LastQueued => m = 0) => NothingAfterLast'
<1>1. /\ Len(runq) \in Nat
      /\ DOMAIN runq = 1..Len(runq) /\ DOMAIN runq' = 1..(Len(runq) + 1)
      /\ \A i \in 1..Len(runq) : runq'[i] = runq[i]
      /\ runq'[Len(runq) + 1] = r
  OBVIOUS
<1>2. Size(b, m)'
  BY <1>1 DEF Size, QueuedBy
<1>3. ASSUME NEW c, NEW n, c # b, Size(c, n) PROVE Size(c, n)'
  BY <1>1, <1>3 DEF Size, QueuedBy
<1>4. ASSUME NothingAfterLast, LastQueued => m = 0 PROVE NothingAfterLast'
  BY <1>1, <1>4 DEF NothingAfterLast, LastQueued
<1> QED BY <1>2, <1>3, <1>4

\* A request of the worker joins the queue.
LEMMA PutRequest ==
  ASSUME runq \in Seq(Task), NEW r \in Task, runq' = Append(runq, r), r.task # "chunk"
  PROVE  /\ \A c, n : Size(c, n) => Size(c, n)'
         /\ NothingAfterLast => NothingAfterLast'
         /\ LastQueued' <=> LastQueued
<1>1. /\ Len(runq) \in Nat
      /\ DOMAIN runq = 1..Len(runq) /\ DOMAIN runq' = 1..(Len(runq) + 1)
      /\ \A i \in 1..Len(runq) : runq'[i] = runq[i]
      /\ runq'[Len(runq) + 1] = r
  OBVIOUS
<1>2. ASSUME NEW c, NEW n, Size(c, n) PROVE Size(c, n)'
  BY <1>1, <1>2 DEF Size, QueuedBy
<1>3. (NothingAfterLast => NothingAfterLast') /\ (LastQueued' <=> LastQueued)
  BY <1>1 DEF NothingAfterLast, LastQueued
<1> QED BY <1>2, <1>3

\* The task at the front leaves the queue.
LEMMA TakeChunk ==
  ASSUME runq \in Seq(Task), runq # <<>>, runq' = Tail(runq), OneOfEach, NothingAfterLast
  PROVE  /\ \A c, n : Size(c, n) /\ ~(Head(runq).task = "chunk" /\ Head(runq).by = c)
                        => Size(c, n)'
         /\ \A c : Head(runq).task = "chunk" /\ Head(runq).by = c => Size(c, 0)'
         /\ \A c, n : Head(runq).task = "chunk" /\ Head(runq).by = c /\ Size(c, n)
                        => Head(runq).size = n
         /\ \A c, n : Head(runq).task = "chunk" /\ Head(runq).last /\ Head(runq).by # c
                        /\ Size(c, n) => n = 0
         /\ NothingAfterLast'
         /\ LastQueued' => LastQueued
         /\ Head(runq).task = "chunk" /\ Head(runq).last => LastQueued
<1>1. /\ Len(runq) \in Nat \ {0}
      /\ DOMAIN runq = 1..Len(runq) /\ DOMAIN runq' = 1..(Len(runq) - 1)
      /\ \A i \in 1..(Len(runq) - 1) : runq'[i] = runq[i + 1]
      /\ Head(runq) = runq[1]
  OBVIOUS
<1>2. ASSUME NEW c, NEW n, Size(c, n), ~(Head(runq).task = "chunk" /\ Head(runq).by = c)
      PROVE  Size(c, n)'
  <2>1. QueuedBy(c) => QueuedBy(c)'
    <3> SUFFICES ASSUME QueuedBy(c) PROVE QueuedBy(c)'
      OBVIOUS
    <3>1. PICK i \in 1..Len(runq) : runq[i].task = "chunk" /\ runq[i].by = c
      BY <1>1 DEF QueuedBy
    <3>2. i # 1 /\ i - 1 \in 1..(Len(runq) - 1) /\ runq'[i - 1] = runq[i]
      BY <1>1, <1>2, <3>1
    <3> QED BY <1>1, <3>1, <3>2 DEF QueuedBy
  <2> QED BY <1>1, <1>2, <2>1 DEF Size
<1>3. ASSUME NEW c, Head(runq).task = "chunk", Head(runq).by = c PROVE Size(c, 0)'
  <2>1. ASSUME NEW i \in 1..(Len(runq) - 1)
        PROVE  ~(runq'[i].task = "chunk" /\ runq'[i].by = c)
    BY <1>1, <1>3 DEF OneOfEach
  <2> QED BY <1>1, <2>1 DEF Size
<1>4. ASSUME NEW c, NEW n, Head(runq).task = "chunk", Head(runq).by = c, Size(c, n)
      PROVE  Head(runq).size = n
  BY <1>1, <1>4 DEF Size
<1>5. ASSUME NEW c, NEW n, Head(runq).task = "chunk", Head(runq).last, Head(runq).by # c,
             Size(c, n)
      PROVE  n = 0
  <2>1. CASE QueuedBy(c)
    <3>1. PICK i \in 1..Len(runq) : runq[i].task = "chunk" /\ runq[i].by = c
      BY <1>1, <2>1 DEF QueuedBy
    <3>2. 1 < i /\ runq[i].size = 0
      BY <1>1, <1>5, <3>1 DEF NothingAfterLast
    <3> QED BY <1>1, <1>5, <3>1, <3>2 DEF Size
  <2> QED BY <1>5, <2>1 DEF Size
<1>6. NothingAfterLast'
  BY <1>1 DEF NothingAfterLast
<1>7. (LastQueued' => LastQueued) /\ (Head(runq).task = "chunk" /\ Head(runq).last => LastQueued)
  BY <1>1 DEF LastQueued
<1> QED BY <1>2, <1>3, <1>4, <1>5, <1>6, <1>7

\* A step that touches neither the body nor the queue.
LEMMA BodyStays ==
  ASSUME Body, UNCHANGED bodyVars, runq' = runq
  PROVE  Body'
<1>1. Counted'
  BY DEF Body, Counted, Size, QueuedBy, bodyVars
<1> QED BY <1>1 DEF Body, NothingAfterLast, LastQueued, bodyVars

\* The same for a step that queues a request of the worker.
LEMMA BodyKeeps ==
  ASSUME Body, UNCHANGED bodyVars, runq \in Seq(Task), NEW r \in Task, r.task # "chunk",
         runq' = Append(runq, r)
  PROVE  Body'
<1>1. Counted'
  <2>1. PICK l \in 0..got, w \in 0..got :
          Size("L", l) /\ Size("W", w) /\ delivered + l + w + body_buf = got
    BY DEF Body, Counted
  <2> QED BY <2>1, PutRequest DEF Counted, bodyVars
<1> QED BY <1>1, PutRequest DEF Body, bodyVars

\* A chunk is a task.
LEMMA ChunkTask ==
  ASSUME NEW n \in Nat, NEW d \in BOOLEAN
  PROVE  /\ Chunk(n, d) \in Task /\ Chunk(n, d).task = "chunk" /\ Chunk(n, d).by = "L"
         /\ Chunk(n, d).size = n /\ Chunk(n, d).last = d
BY DEF Task, Chunk

\* The count of the body: the segment that completes the headers, and starts or feeds the
\* handler.
LEMMA BodyReadHeaders ==
  ASSUME Control, Body, NEW n \in 0..MaxRequestBody, NEW k \in 0..n, readHeaders(n, k)
  PROVE  Body'
<1>1. /\ state_ = "HEADER" /\ got = 0 /\ delivered = 0 /\ body_buf = 0 /\ ~QueuedBy("L")
      /\ delivered' = 0 /\ got' = k /\ expected' = n /\ k \in Nat /\ n \in Nat
      /\ state_' = IF k = n THEN "DONE" ELSE "BODY"
      /\ woken' = woken /\ reqError' = reqError /\ bodyRead' = bodyRead
      /\ ~LastQueued
  BY ServerBounds, NoneOfLoop DEF readHeaders, Body, readVars
<1>2. Size("L", 0) /\ Size("W", 0)
  BY <1>1 DEF Body, Counted
<1>3. CASE runq' = runq /\ body_buf' = k
  <2>1. Size("L", 0)' /\ Size("W", 0)'
    BY <1>2, <1>3 DEF Size, QueuedBy
  <2>2. Counted'
    BY <1>1, <1>3, <2>1 DEF Counted
  <2>3. NothingAfterLast' /\ ~LastQueued'
    BY <1>1, <1>3 DEF Body, NothingAfterLast, LastQueued
  <2> QED BY <1>1, <2>2, <2>3 DEF Body
<1>4. CASE runq' = runq /\ body_buf' = 0 /\ k = 0
  <2>1. Size("L", 0)' /\ Size("W", 0)'
    BY <1>2, <1>4 DEF Size, QueuedBy
  <2>2. Counted'
    BY <1>1, <1>4, <2>1 DEF Counted
  <2>3. NothingAfterLast' /\ ~LastQueued'
    BY <1>1, <1>4 DEF Body, NothingAfterLast, LastQueued
  <2> QED BY <1>1, <2>2, <2>3 DEF Body
<1>5. CASE runq' = Append(runq, Chunk(k, k = n)) /\ body_buf' = 0
  <2>1. /\ Chunk(k, k = n) \in Task /\ Chunk(k, k = n).task = "chunk"
        /\ Chunk(k, k = n).by = "L" /\ Chunk(k, k = n).size = k
        /\ Chunk(k, k = n).last <=> k = n
    BY <1>1 DEF Task, Chunk
  <2>2. /\ Size("L", k)' /\ Size("W", 0)' /\ NothingAfterLast'
        /\ LastQueued' <=> k = n
    BY <1>1, <1>2, <1>5, <2>1, PutChunk, PutTask DEF Control, ControlType, Body
  <2>3. Counted'
    BY <1>1, <1>5, <2>2 DEF Counted
  <2> QED BY <1>1, <1>5, <2>2, <2>3 DEF Body
<1> QED BY <1>1, <1>3, <1>4, <1>5 DEF readHeaders

\* The count of the body: more bytes of the body, given to the callback installed by then.
LEMMA BodyReadMore ==
  ASSUME Control, Body, NEW k \in 1..MaxRequestBody, readMore(k)
  PROVE  Body'
<1>1. /\ state_ = "BODY" /\ ~QueuedBy("L") /\ ~LastQueued
      /\ delivered' = delivered /\ got' = got + k /\ expected' = expected /\ k \in Nat
      /\ state_' = IF got' = expected THEN "DONE" ELSE "BODY"
      /\ woken' = woken /\ reqError' = reqError /\ bodyRead' = bodyRead
      /\ body_buf \in Nat /\ got \in Nat
  BY ServerBounds, NoneOfLoop DEF readMore, Control, ControlType, Body, readVars
<1>2. PICK w \in 0..got : Size("L", 0) /\ Size("W", w) /\ delivered + w + body_buf = got
  <2>1. PICK l \in 0..got, w \in 0..got :
          Size("L", l) /\ Size("W", w) /\ delivered + l + w + body_buf = got
    BY DEF Body, Counted
  <2> QED BY <1>1, <2>1 DEF Size, Body
<1>3. CASE runq' = runq /\ body_buf' = body_buf + k
  <2>1. Size("L", 0)' /\ Size("W", w)'
    BY <1>2, <1>3 DEF Size, QueuedBy
  <2>2. Counted'
    BY <1>1, <1>2, <1>3, <2>1 DEF Counted, Body
  <2>3. NothingAfterLast' /\ ~LastQueued'
    BY <1>1, <1>3 DEF Body, NothingAfterLast, LastQueued
  <2> QED BY <1>1, <2>2, <2>3 DEF Body
<1>4. CASE runq' = Append(runq, Chunk(body_buf + k, state_' = "DONE")) /\ body_buf' = 0
  <2>1. PICK m \in Nat, r \in Task :
          /\ m = body_buf + k /\ runq' = Append(runq, r)
          /\ r.task = "chunk" /\ r.by = "L" /\ r.size = m /\ (r.last <=> state_' = "DONE")
    <3>1. PICK m \in Nat : m = body_buf + k
      BY <1>1
    <3>2. PICK d \in BOOLEAN : d = (state_' = "DONE")
      BY Zenon
    <3>3. runq' = Append(runq, Chunk(m, d))
      BY <1>4, <3>1, <3>2
    <3> QED BY <3>1, <3>2, <3>3, ChunkTask
  <2>2. /\ Size("L", m)' /\ Size("W", w)' /\ NothingAfterLast'
        /\ LastQueued' <=> state_' = "DONE"
    BY <1>1, <1>2, <2>1, PutChunk, PutTask DEF Control, ControlType, Body
  <2>3. Counted'
    BY <1>1, <1>2, <1>4, <2>1, <2>2 DEF Counted, Body
  <2> QED BY <1>1, <1>4, <2>2, <2>3 DEF Body
<1> QED BY <1>3, <1>4 DEF readMore

\* The count of the body: a queued chunk is delivered, the last one may start the service.
LEMMA BodyRunChunk ==
  ASSUME Control, Body, runChunk
  PROVE  Body'
<1>1. /\ runq \in Seq(Task) /\ runq # <<>> /\ runq' = Tail(runq) /\ OneOfEach
      /\ Head(runq) \in Task /\ Head(runq).task = "chunk"
      /\ delivered' = delivered + Head(runq).size
      /\ UNCHANGED <<state_, expected, got, body_buf, reqError, bodyRead>>
  BY DEF runChunk, Control, ControlType, Body, parserVars
<1>2. Head(runq).by \in {"L", "W"} /\ Head(runq).size \in Nat /\ Head(runq).last \in BOOLEAN
  BY <1>1 DEF Task
<1>3. woken' \in BOOLEAN /\ (woken' => woken \/ Head(runq).last)
  <2>1. CASE service = "streaming"
    BY <1>2, <2>1 DEF runChunk, Body
  <2>2. CASE service # "streaming"
    BY <2>2 DEF runChunk, Body
  <2> QED BY <2>1, <2>2
<1>4. PICK l \in 0..got, w \in 0..got :
        Size("L", l) /\ Size("W", w) /\ delivered + l + w + body_buf = got
  BY DEF Body, Counted
<1>5. /\ NothingAfterLast' /\ (LastQueued' => LastQueued) /\ (Head(runq).last => LastQueued)
      /\ Head(runq).by = "L" =>
           Head(runq).size = l /\ Size("L", 0)' /\ Size("W", w)' /\ (Head(runq).last => w = 0)
      /\ Head(runq).by = "W" =>
           Head(runq).size = w /\ Size("W", 0)' /\ Size("L", l)' /\ (Head(runq).last => l = 0)
  BY <1>1, <1>4, TakeChunk DEF Body
<1>6. body_buf \in Nat /\ got \in Nat /\ delivered \in Nat
  BY DEF Control, ControlType, Body
<1>7. delivered' \in Nat /\ (delivered = got => delivered' = got)
      /\ (Head(runq).last /\ body_buf = 0 => delivered' = got)
  BY <1>1, <1>2, <1>4, <1>5, <1>6
<1>8. Counted'
  <2>1. CASE Head(runq).by = "L"
    <3>1. delivered' = delivered + l /\ body_buf' = body_buf /\ got' = got
      BY <1>1, <1>5, <2>1
    <3>2. delivered' + 0 + w + body_buf' = got' /\ 0 \in 0..got' /\ w \in 0..got'
      BY <1>4, <1>6, <3>1
    <3> QED BY <1>5, <2>1, <3>2 DEF Counted
  <2>2. CASE Head(runq).by = "W"
    <3>1. delivered' = delivered + w /\ body_buf' = body_buf /\ got' = got
      BY <1>1, <1>5, <2>2
    <3>2. delivered' + l + 0 + body_buf' = got' /\ 0 \in 0..got' /\ l \in 0..got'
      BY <1>4, <1>6, <3>1
    <3> QED BY <1>5, <2>2, <3>2 DEF Counted
  <2> QED BY <1>2, <2>1, <2>2
<1>9. LastQueued => state_ = "DONE" /\ body_buf = 0 /\ got = expected
  BY DEF Body
<1>10. (woken' /\ ~reqError' => state_' = "DONE" /\ delivered' = expected')
       /\ (bodyRead' => state_' = "DONE" /\ delivered' = expected')
       /\ (state_' # "HEADER" \/ delivered' = 0)
  BY <1>1, <1>2, <1>3, <1>5, <1>6, <1>7, <1>9 DEF Body
<1> QED BY <1>1, <1>3, <1>5, <1>7, <1>8, <1>9, <1>10 DEF Body

\* The count of the body: what was buffered before is queued.
LEMMA BodyReadBuffered ==
  ASSUME Control, Body, readBuffered
  PROVE  Body'
<1>1. /\ ~QueuedBy("W") /\ body_buf' = 0 /\ body_buf \in Nat
      /\ UNCHANGED <<state_, expected, got, delivered, woken, reqError, bodyRead>>
  BY DEF readBuffered, Control, ControlType, ServiceOrder, readVars
<1>2. PICK l \in 0..got : Size("L", l) /\ Size("W", 0) /\ delivered + l + body_buf = got
  <2>1. PICK l \in 0..got, w \in 0..got :
          Size("L", l) /\ Size("W", w) /\ delivered + l + w + body_buf = got
    BY DEF Body, Counted
  <2> QED BY <1>1, <2>1 DEF Size, Body
<1>3. CASE runq' = runq /\ body_buf = 0
  <2>1. Size("L", l)' /\ Size("W", 0)'
    BY <1>2, <1>3 DEF Size, QueuedBy
  <2>2. Counted'
    BY <1>1, <1>2, <1>3, <2>1 DEF Counted, Body
  <2>3. NothingAfterLast' /\ (LastQueued' <=> LastQueued)
    BY <1>3 DEF Body, NothingAfterLast, LastQueued
  <2> QED BY <1>1, <1>3, <2>2, <2>3 DEF Body
<1>4. CASE runq' = Append(runq, [Chunk(body_buf, state_ = "DONE") EXCEPT !.by = "W"])
  <2>1. PICK m \in Nat, r \in Task :
          /\ m = body_buf /\ runq' = Append(runq, r)
          /\ r.task = "chunk" /\ r.by = "W" /\ r.size = m /\ (r.last <=> state_ = "DONE")
    <3>1. [Chunk(body_buf, state_ = "DONE") EXCEPT !.by = "W"]
            = [task |-> "chunk", size |-> body_buf, last |-> state_ = "DONE", by |-> "W"]
      BY DEF Chunk
    <3>2. [task |-> "chunk", size |-> body_buf, last |-> state_ = "DONE", by |-> "W"] \in Task
      BY <1>1 DEF Task
    <3> QED BY <1>1, <1>4, <3>1, <3>2
  <2>2. /\ Size("W", m)' /\ Size("L", l)' /\ NothingAfterLast'
        /\ LastQueued' <=> LastQueued \/ state_ = "DONE"
    BY <1>1, <1>2, <2>1, PutChunk, PutTask DEF Control, ControlType, Body
  <2>3. Counted'
    BY <1>1, <1>2, <2>1, <2>2 DEF Counted, Body
  <2> QED BY <1>1, <2>2, <2>3 DEF Body
<1> QED
  BY <1>1, <1>3, <1>4 DEF readBuffered, Control, ControlType

\* Every step of either thread counts the body right.
LEMMA BodyStep == Control /\ Body /\ ServerNext => Body'
<1> SUFFICES ASSUME Control, Body, ServerNext PROVE Body'
  OBVIOUS
<1> USE DEF parserVars, connVars, streamVars, readVars, workVars, workerOnly, bodyVars
<1>1. ASSUME NEW n \in 0..MaxRequestBody, NEW k \in 0..n, readHeaders(n, k) PROVE Body'
  BY <1>1, BodyReadHeaders
<1>2. ASSUME NEW k \in 1..MaxRequestBody, readMore(k) PROVE Body'
  BY <1>2, BodyReadMore
<1>3. CASE readFails
  <2>1. /\ UNCHANGED <<state_, expected, got, body_buf, delivered, bodyRead, runq>>
        /\ \/ UNCHANGED <<woken, reqError>>
           \/ woken' = TRUE /\ reqError' = TRUE
    BY <1>3 DEF readFails
  <2>2. Counted'
    BY <2>1 DEF Body, Counted, Size, QueuedBy
  <2>3. NothingAfterLast' /\ (LastQueued' <=> LastQueued)
    BY <2>1 DEF Body, NothingAfterLast, LastQueued
  <2>4. /\ woken' \in BOOLEAN /\ reqError' \in BOOLEAN
        /\ woken' /\ ~reqError' => state_' = "DONE" /\ delivered' = expected'
    <3>1. CASE UNCHANGED <<woken, reqError>>
      BY <2>1, <3>1 DEF Body
    <3>2. CASE woken' = TRUE /\ reqError' = TRUE
      BY <3>2
    <3> QED BY <2>1, <3>1, <3>2
  <2> QED BY <2>1, <2>2, <2>3, <2>4 DEF Body
<1>4. CASE runChunk
  BY <1>4, BodyRunChunk
<1>5. CASE runTask
  <2>1. /\ runq \in Seq(Task) /\ runq # <<>> /\ runq' = Tail(runq) /\ OneOfEach
        /\ Head(runq).task # "chunk" /\ UNCHANGED bodyVars
    BY <1>5 DEF runTask, Control, ControlType
  <2>2. PICK l \in 0..got, w \in 0..got :
          Size("L", l) /\ Size("W", w) /\ delivered + l + w + body_buf = got
    BY DEF Body, Counted
  <2>3. Size("L", l)' /\ Size("W", w)' /\ NothingAfterLast' /\ (LastQueued' => LastQueued)
    BY <2>1, <2>2, TakeChunk DEF Body
  <2>4. Counted'
    BY <2>1, <2>2, <2>3 DEF Counted
  <2> QED BY <2>1, <2>3, <2>4 DEF Body
<1>6. CASE readBuffered
  BY <1>6, BodyReadBuffered
<1>7. CASE readBodyReturns
  <2>1. /\ UNCHANGED <<state_, expected, got, body_buf, delivered, woken, reqError, runq>>
        /\ bodyRead' = bodyRead \/ (bodyRead' = TRUE /\ woken /\ ~reqError)
    BY <1>7 DEF readBodyReturns
  <2>2. Counted'
    BY <2>1 DEF Body, Counted, Size, QueuedBy
  <2>3. NothingAfterLast' /\ (LastQueued' <=> LastQueued)
    BY <2>1 DEF Body, NothingAfterLast, LastQueued
  <2>4. bodyRead' \in BOOLEAN /\ (bodyRead' => state_' = "DONE" /\ delivered' = expected')
    <3>1. CASE bodyRead' = bodyRead
      BY <2>1, <3>1 DEF Body
    <3>2. CASE bodyRead' = TRUE /\ woken /\ ~reqError
      BY <2>1, <3>2 DEF Body
    <3> QED BY <2>1, <3>1, <3>2
  <2> QED BY <2>1, <2>2, <2>3, <2>4 DEF Body
<1>8. CASE writeHead \/ writeResponseBody("W")
  <2>1. /\ UNCHANGED bodyVars /\ runq \in Seq(Task)
        /\ runq' = runq \/ runq' = Append(runq, [task |-> "arm", by |-> "W"])
    BY <1>8 DEF writeHead, writeResponseBody, writeResponse, awaitWrite, Control, ControlType
  <2>2. [task |-> "arm", by |-> "W"] \in Task /\ [task |-> "arm", by |-> "W"].task # "chunk"
    BY DEF Task
  <2> QED BY <2>1, <2>2, BodyStays, BodyKeeps
<1>9. CASE finishResponse("W")
  <2>1. /\ UNCHANGED bodyVars /\ runq \in Seq(Task)
        /\ runq' = runq \/ runq' = Append(runq, [task |-> "cancel", by |-> "W"])
    BY <1>9 DEF finishResponse, Control, ControlType
  <2>2. [task |-> "cancel", by |-> "W"] \in Task /\ [task |-> "cancel", by |-> "W"].task # "chunk"
    BY DEF Task
  <2> QED BY <2>1, <2>2, BodyStays, BodyKeeps
<1>10. CASE close
  BY <1>10, BodyStays DEF close
<1>11. CASE \E k \in 1..Len(write_buf) : write(k)
  BY <1>11, BodyStays DEF write
<1>12. CASE writeFails
  BY <1>12, BodyStays DEF writeFails
<1>13. CASE onCallbackError
  BY <1>13, BodyStays DEF onCallbackError
<1>14. CASE onCallbackCompleted
  BY <1>14, BodyStays DEF onCallbackCompleted, onStateChanged
<1>15. CASE decRef
  BY <1>15, BodyStays DEF decRef
<1>16. CASE writeResponseBody("L")
  BY <1>16, BodyStays DEF writeResponseBody, writeResponse, awaitWrite
<1>17. CASE finishResponse("L")
  BY <1>17, BodyStays DEF finishResponse
<1>18. CASE dispatchRequest
  BY <1>18, BodyStays DEF dispatchRequest
<1>19. CASE readBody
  BY <1>19, BodyStays DEF readBody
<1>20. CASE serviceStarts
  BY <1>20, BodyStays DEF serviceStarts, startResponse
<1>21. CASE serviceResponds
  BY <1>21, BodyStays DEF serviceResponds, startResponse
<1>22. CASE serviceFinishes
  BY <1>22, BodyStays DEF serviceFinishes, finishStream, onStateChanged
<1>23. CASE writeBodyChunk
  BY <1>23, BodyStays DEF writeBodyChunk, onStateChanged
<1>24. CASE waitForReader
  BY <1>24, BodyStays DEF waitForReader
<1>25. CASE throws
  BY <1>25, BodyStays DEF throws
<1>26. CASE catches
  BY <1>26, BodyStays DEF catches
<1>27. CASE leaves
  BY <1>27, BodyStays DEF leaves
<1>28. CASE cancelFDReturns
  BY <1>28, BodyStays DEF cancelFDReturns
<1> QED
  BY <1>1, <1>2, <1>3, <1>4, <1>5, <1>6, <1>7, <1>8, <1>9, <1>10, <1>11, <1>12, <1>13, <1>14,
      <1>15, <1>16, <1>17, <1>18, <1>19, <1>20, <1>21, <1>22, <1>23, <1>24, <1>25, <1>26, <1>27,
      <1>28 DEF ServerNext, Loop, Work

-----------------------------------------------------------------------------
(* The connection: the pieces of the response.                             *)

\* Pieces fit together, and come apart.
LEMMA PieceIs ==
  ASSUME NEW s \in Seq(Nat), NEW a
  PROVE  Piece(s, a) <=> \A i \in 1..Len(s) : s[i] = a + i - 1
<1>1. DOMAIN s = 1..Len(s)
  OBVIOUS
<1> QED BY <1>1 DEF Piece

\* Two adjacent pieces are one.
LEMMA PieceJoin ==
  ASSUME NEW s, NEW t, NEW a \in Nat, Piece(s, a), Piece(t, a + Len(s))
  PROVE  /\ Piece(s \o t, a) /\ Len(s \o t) = Len(s) + Len(t)
<1>1. /\ s \in Seq(Nat) /\ t \in Seq(Nat) /\ Len(s) \in Nat /\ Len(t) \in Nat
      /\ \A i \in 1..Len(s) : s[i] = a + i - 1
      /\ \A i \in 1..Len(t) : t[i] = a + Len(s) + i - 1
  BY PieceIs DEF Piece
<1>2. /\ s \o t \in Seq(Nat) /\ Len(s \o t) = Len(s) + Len(t)
      /\ \A i \in 1..(Len(s) + Len(t)) :
           (s \o t)[i] = IF i <= Len(s) THEN s[i] ELSE t[i - Len(s)]
  BY <1>1
<1>3. ASSUME NEW i \in 1..(Len(s) + Len(t)) PROVE (s \o t)[i] = a + i - 1
  <2>1. CASE i <= Len(s)
    BY <1>1, <1>2, <2>1
  <2>2. CASE ~(i <= Len(s))
    <3>1. i - Len(s) \in 1..Len(t) /\ (s \o t)[i] = t[i - Len(s)]
      BY <1>1, <1>2, <2>2
    <3> QED BY <1>1, <3>1
  <2> QED BY <2>1, <2>2
<1> QED BY <1>1, <1>2, <1>3, PieceIs

\* A piece cut anywhere is two adjacent pieces.
LEMMA PieceSplit ==
  ASSUME NEW s, NEW a \in Nat, Piece(s, a), NEW k \in 0..Len(s)
  PROVE  /\ Piece(SubSeq(s, 1, k), a) /\ Len(SubSeq(s, 1, k)) = k
         /\ Piece(SubSeq(s, k + 1, Len(s)), a + k)
         /\ Len(SubSeq(s, k + 1, Len(s))) = Len(s) - k
<1>1. s \in Seq(Nat) /\ Len(s) \in Nat /\ \A i \in 1..Len(s) : s[i] = a + i - 1
  BY PieceIs DEF Piece
<1>2. /\ SubSeq(s, 1, k) \in Seq(Nat) /\ Len(SubSeq(s, 1, k)) = k
      /\ \A i \in 1..k : SubSeq(s, 1, k)[i] = s[i]
  BY <1>1
<1>3. /\ SubSeq(s, k + 1, Len(s)) \in Seq(Nat) /\ Len(SubSeq(s, k + 1, Len(s))) = Len(s) - k
      /\ \A i \in 1..(Len(s) - k) : SubSeq(s, k + 1, Len(s))[i] = s[k + i]
  BY <1>1
<1>4. Piece(SubSeq(s, 1, k), a)
  <2>1. PICK p \in Seq(Nat) : p = SubSeq(s, 1, k)
    BY <1>2
  <2>2. \A i \in 1..Len(p) : p[i] = a + i - 1
    BY <1>1, <1>2, <2>1
  <2>3. Piece(p, a)
    BY <2>2, PieceIs
  <2> QED BY <2>1, <2>3
<1>5. Piece(SubSeq(s, k + 1, Len(s)), a + k)
  <2>1. PICK p \in Seq(Nat) : p = SubSeq(s, k + 1, Len(s))
    BY <1>3
  <2>2. \A i \in 1..Len(p) : p[i] = a + k + i - 1
    BY <1>1, <1>3, <2>1
  <2>3. Piece(p, a + k)
    BY <2>2, PieceIs
  <2> QED BY <2>1, <2>3
<1> QED BY <1>2, <1>3, <1>4, <1>5

\* The next element of the response extends a piece.
LEMMA PieceAppend ==
  ASSUME NEW s, NEW a \in Nat, Piece(s, a), NEW v, v = a + Len(s)
  PROVE  Piece(Append(s, v), a) /\ Len(Append(s, v)) = Len(s) + 1 /\ Append(s, v) # <<>>
<1>1. /\ s \in Seq(Nat) /\ Len(s) \in Nat /\ v \in Nat
      /\ \A i \in 1..Len(s) : s[i] = a + i - 1
  BY PieceIs DEF Piece
<1>2. /\ Append(s, v) \in Seq(Nat) /\ Len(Append(s, v)) = Len(s) + 1
      /\ \A i \in 1..Len(s) : Append(s, v)[i] = s[i]
      /\ Append(s, v)[Len(s) + 1] = v
  BY <1>1
<1>3. PICK p \in Seq(Nat) : p = Append(s, v)
  BY <1>2
<1>4. \A i \in 1..Len(p) : p[i] = a + i - 1
  BY <1>1, <1>2, <1>3
<1>5. Piece(p, a)
  BY <1>4, PieceIs
<1> QED BY <1>1, <1>2, <1>3, <1>5

\* Nothing is a piece anywhere.
LEMMA EmptyPiece ==
  /\ \A a \in Nat : Piece(<<>>, a)
  /\ Len(<<>>) = 0
  /\ \A s, a : Piece(s, a) => Len(s) \in Nat /\ (Len(s) = 0 <=> s = <<>>)
BY DEF Piece

\* A step that moves no piece.
LEMMA PiecesStay ==
  ASSUME Pieces, UNCHANGED <<sent, write_buf, buf, given>>, Handing' = Handing
  PROVE  Pieces' /\ (NotStarted' <=> NotStarted)
BY DEF Pieces, InOrder, NotStarted

\* The order of the response: the segment that completes the headers, and starts or feeds
\* the handler.
LEMMA ResponseReadHeaders ==
  ASSUME Control, Response, NEW n \in 0..MaxRequestBody, NEW k \in 0..n, readHeaders(n, k)
  PROVE  Response'
<1> USE DEF serverVars, parserVars, connVars, streamVars, readVars, workVars, workerOnly
<1>1. (Queued("arm")' => Queued("arm")) /\ (LastQueued' => LastQueued \/ state_ # "DONE")
  BY QueueReadHeaders DEF readHeaders
<1>2. UNCHANGED <<sent, write_buf, buf, given>> /\ Handing' = Handing
  BY DEF readHeaders, Go, Chunk, Handing, Control, Placed, ControlType, ServiceOrder
<1>3. Pieces' /\ (NotStarted' <=> NotStarted)
  BY <1>2, PiecesStay DEF Response
<1>4. Flow'
  BY <1>1, <1>2, <1>3 DEF readHeaders, Go, Chunk,
      Response, Flow, Control, Placed, LoopPCs, WorkerPCs, ControlType,
      Locks, OneWrite, AtHead, AtWorker, Armed, AtLoop, Handed, ServiceOrder, Ends
<1> QED BY <1>3, <1>4 DEF Response

\* The order of the response: more bytes of the body, given to the callback installed by
\* then.
LEMMA ResponseReadMore ==
  ASSUME Control, Response, NEW k \in 1..MaxRequestBody, readMore(k)
  PROVE  Response'
<1> USE DEF serverVars, parserVars, connVars, streamVars, readVars, workVars, workerOnly
<1>1. (Queued("arm")' => Queued("arm")) /\ (LastQueued' => LastQueued \/ state_ # "DONE")
  BY QueueReadMore DEF readMore
<1>2. UNCHANGED <<sent, write_buf, buf, given>> /\ Handing' = Handing
  BY DEF readMore, Chunk, Handing, Control, Placed, ControlType
<1>3. Pieces' /\ (NotStarted' <=> NotStarted)
  BY <1>2, PiecesStay DEF Response
<1>4. Flow'
  BY <1>1, <1>2, <1>3 DEF readMore, Chunk,
      Response, Flow, Control, Placed, LoopPCs, WorkerPCs, ControlType,
      Locks, OneWrite, AtHead, AtWorker, Armed, AtLoop, Handed, ServiceOrder, Ends
<1> QED BY <1>3, <1>4 DEF Response

\* The order of the response: the client goes away while the request is read: close() is
\* next.
LEMMA ResponseReadFails ==
  ASSUME Control, Response, readFails
  PROVE  Response'
<1> USE DEF serverVars, parserVars, connVars, streamVars, readVars, workVars, workerOnly
<1>1. (Queued("arm")' => Queued("arm")) /\ (LastQueued' => LastQueued)
  BY SameQueue DEF readFails, LoopFree
<1>2. UNCHANGED <<sent, write_buf, buf, given>> /\ Handing' = Handing
  BY DEF readFails, LoopFree, Go, Handing, Control, Placed, ControlType
<1>3. Pieces' /\ (NotStarted' <=> NotStarted)
  BY <1>2, PiecesStay DEF Response
<1>4. Flow'
  BY <1>1, <1>2, <1>3 DEF readFails, LoopFree, Go,
      Response, Flow, Control, Placed, LoopPCs, WorkerPCs, ControlType,
      Locks, OneWrite, AtHead, AtWorker, Armed, AtLoop, Handed, ServiceOrder, Ends
<1> QED BY <1>3, <1>4 DEF Response

\* The order of the response: close() after a failure finds the connection still open.
LEMMA ResponseClose ==
  ASSUME Control, Response, close
  PROVE  Response'
<1> USE DEF serverVars, parserVars, connVars, streamVars, readVars, workVars, workerOnly
<1>1. (Queued("arm")' => Queued("arm")) /\ (LastQueued' => LastQueued)
  BY SameQueue DEF close, Raise
<1>2. UNCHANGED <<sent, write_buf, buf, given>> /\ Handing' = Handing
  BY DEF close, Raise, Go, Handing, Control, Placed, ControlType
<1>3. Pieces' /\ (NotStarted' <=> NotStarted)
  BY <1>2, PiecesStay DEF Response
<1>4. Flow'
  BY <1>1, <1>2, <1>3 DEF close, Raise, Go,
      Response, Flow, Control, Placed, LoopPCs, WorkerPCs, ControlType,
      Locks, OneWrite, AtHead, AtWorker, Armed, AtLoop, Handed, ServiceOrder, Ends
<1> QED BY <1>3, <1>4 DEF Response

\* The order of the response: the loop arms or cancels the descriptor for the worker.
LEMMA ResponseRunTask ==
  ASSUME Control, Response, runTask
  PROVE  Response'
<1> USE DEF serverVars, parserVars, connVars, streamVars, readVars, workVars, workerOnly
<1>1. /\ (Queued("arm")' => Queued("arm")) /\ (LastQueued' => LastQueued)
      /\ Queued(Head(runq).task)
  BY QueueRunTask
<1>2. UNCHANGED <<sent, write_buf, buf, given>> /\ Handing' = Handing
  BY <1>1 DEF runTask, Go, Handing, Control, Placed, ControlType, ServiceOrder
<1>3. Pieces' /\ (NotStarted' <=> NotStarted)
  BY <1>2, PiecesStay DEF Response
<1>4. Flow'
  BY <1>1, <1>2, <1>3 DEF runTask, Go,
      Response, Flow, Control, Placed, LoopPCs, WorkerPCs, ControlType,
      Locks, OneWrite, AtHead, AtWorker, Armed, AtLoop, Handed, ServiceOrder, Ends
<1> QED BY <1>3, <1>4 DEF Response

\* The order of the response: the client goes away while the response is written.
LEMMA ResponseWriteFails ==
  ASSUME Control, Response, writeFails
  PROVE  Response'
<1> USE DEF serverVars, parserVars, connVars, streamVars, readVars, workVars, workerOnly
<1>1. (Queued("arm")' => Queued("arm")) /\ (LastQueued' => LastQueued)
  BY SameQueue DEF writeFails, LoopFree
<1>2. UNCHANGED <<sent, write_buf, buf, given>> /\ Handing' = Handing
  BY DEF writeFails, LoopFree, Go, Handing, Control, Placed, ControlType
<1>3. Pieces' /\ (NotStarted' <=> NotStarted)
  BY <1>2, PiecesStay DEF Response
<1>4. Flow'
  BY <1>1, <1>2, <1>3 DEF writeFails, LoopFree, Go,
      Response, Flow, Control, Placed, LoopPCs, WorkerPCs, ControlType,
      Locks, OneWrite, AtHead, AtWorker, Armed, AtLoop, Handed, ServiceOrder, Ends
<1> QED BY <1>3, <1>4 DEF Response

\* The order of the response: the stream records the error and wakes a waiting writer.
LEMMA ResponseOnCallbackError ==
  ASSUME Control, Response, onCallbackError
  PROVE  Response'
<1> USE DEF serverVars, parserVars, connVars, streamVars, readVars, workVars, workerOnly
<1>1. (Queued("arm")' => Queued("arm")) /\ (LastQueued' => LastQueued)
  BY SameQueue DEF onCallbackError
<1>2. UNCHANGED <<sent, write_buf, buf, given>> /\ Handing' = Handing
  BY DEF onCallbackError, DecRef, GoNotify, Handing, Control, Placed, ControlType
<1>3. Pieces' /\ (NotStarted' <=> NotStarted)
  BY <1>2, PiecesStay DEF Response
<1>4. Flow'
  BY <1>1, <1>2, <1>3 DEF onCallbackError, DecRef, GoNotify,
      Response, Flow, Control, Placed, LoopPCs, WorkerPCs, ControlType,
      Locks, OneWrite, AtHead, AtWorker, Armed, AtLoop, Handed, ServiceOrder, Ends
<1> QED BY <1>3, <1>4 DEF Response

\* The order of the response: the loop drops the reference of the finished write.
LEMMA ResponseDecRef ==
  ASSUME Control, Response, decRef
  PROVE  Response'
<1> USE DEF serverVars, parserVars, connVars, streamVars, readVars, workVars, workerOnly
<1>1. (Queued("arm")' => Queued("arm")) /\ (LastQueued' => LastQueued)
  BY SameQueue DEF decRef
<1>2. UNCHANGED <<sent, write_buf, buf, given>> /\ Handing' = Handing
  BY DEF decRef, DecRef, Go, Handing, Control, Placed, ControlType
<1>3. Pieces' /\ (NotStarted' <=> NotStarted)
  BY <1>2, PiecesStay DEF Response
<1>4. Flow'
  BY <1>1, <1>2, <1>3 DEF decRef, DecRef, Go,
      Response, Flow, Control, Placed, LoopPCs, WorkerPCs, ControlType,
      Locks, OneWrite, AtHead, AtWorker, Armed, AtLoop, Handed, ServiceOrder, Ends
<1> QED BY <1>3, <1>4 DEF Response

\* The order of the response: the loop closes a connection that nobody has closed.
LEMMA ResponseFinishResponseL ==
  ASSUME Control, Response, finishResponse("L")
  PROVE  Response'
<1> USE DEF serverVars, parserVars, connVars, streamVars, readVars, workVars, workerOnly
<1>1. (Queued("arm")' => Queued("arm")) /\ (LastQueued' => LastQueued)
  BY SameQueue DEF finishResponse, Raise
<1>2. UNCHANGED <<sent, write_buf, buf, given>> /\ Handing' = Handing
  BY DEF finishResponse, Raise, Resume, Go, Handing, Control, Placed, ControlType
<1>3. Pieces' /\ (NotStarted' <=> NotStarted)
  BY <1>2, PiecesStay DEF Response
<1>4. Flow'
  BY <1>1, <1>2, <1>3 DEF finishResponse, Raise, Resume, Go,
      Response, Flow, Control, Placed, LoopPCs, WorkerPCs, ControlType,
      Locks, OneWrite, AtHead, AtWorker, Armed, AtLoop, Handed, ServiceOrder, Ends
<1> QED BY <1>3, <1>4 DEF Response

\* The order of the response: the worker closes it and waits, with both mutexes, for an idle
\* loop.
LEMMA ResponseFinishResponseW ==
  ASSUME Control, Response, finishResponse("W")
  PROVE  Response'
<1> USE DEF serverVars, parserVars, connVars, streamVars, readVars, workVars, workerOnly
<1>1. (Queued("arm")' => Queued("arm")) /\ (LastQueued' => LastQueued)
  BY QueueFinishResponseW
<1>2. UNCHANGED <<sent, write_buf, buf, given>> /\ Handing' = Handing
  BY DEF finishResponse, Raise, Resume, Go, Handing, Control, Placed, ControlType
<1>3. Pieces' /\ (NotStarted' <=> NotStarted)
  BY <1>2, PiecesStay DEF Response
<1>4. Flow'
  BY <1>1, <1>2, <1>3 DEF finishResponse, Raise, Resume, Go,
      Response, Flow, Control, Placed, LoopPCs, WorkerPCs, ControlType,
      Locks, OneWrite, AtHead, AtWorker, Armed, AtLoop, Handed, ServiceOrder, Ends
<1> QED BY <1>3, <1>4 DEF Response

\* The order of the response: the pool thread makes the streams.
LEMMA ResponseDispatchRequest ==
  ASSUME Control, Response, dispatchRequest
  PROVE  Response'
<1> USE DEF serverVars, parserVars, connVars, streamVars, readVars, workVars, workerOnly
<1>1. (Queued("arm")' => Queued("arm")) /\ (LastQueued' => LastQueued)
  BY SameQueue DEF dispatchRequest
<1>2. UNCHANGED <<sent, write_buf, buf, given>> /\ Handing' = Handing
  BY DEF dispatchRequest, Go, Handing, Control, Placed, ControlType
<1>3. Pieces' /\ (NotStarted' <=> NotStarted)
  BY <1>2, PiecesStay DEF Response
<1>4. Flow'
  BY <1>1, <1>2, <1>3 DEF dispatchRequest, Go,
      Response, Flow, Control, Placed, LoopPCs, WorkerPCs, ControlType,
      Locks, OneWrite, AtHead, AtWorker, Armed, AtLoop, Handed, ServiceOrder, Ends
<1> QED BY <1>3, <1>4 DEF Response

\* The order of the response: the body callback is installed.
LEMMA ResponseReadBody ==
  ASSUME Control, Response, readBody
  PROVE  Response'
<1> USE DEF serverVars, parserVars, connVars, streamVars, readVars, workVars, workerOnly
<1>1. (Queued("arm")' => Queued("arm")) /\ (LastQueued' => LastQueued)
  BY SameQueue DEF readBody
<1>2. UNCHANGED <<sent, write_buf, buf, given>> /\ Handing' = Handing
  BY DEF readBody, Go, Handing, Control, Placed, ControlType
<1>3. Pieces' /\ (NotStarted' <=> NotStarted)
  BY <1>2, PiecesStay DEF Response
<1>4. Flow'
  BY <1>1, <1>2, <1>3 DEF readBody, Go,
      Response, Flow, Control, Placed, LoopPCs, WorkerPCs, ControlType,
      Locks, OneWrite, AtHead, AtWorker, Armed, AtLoop, Handed, ServiceOrder, Ends
<1> QED BY <1>3, <1>4 DEF Response

\* The order of the response: what was buffered before is queued.
LEMMA ResponseReadBuffered ==
  ASSUME Control, Response, readBuffered
  PROVE  Response'
<1> USE DEF serverVars, parserVars, connVars, streamVars, readVars, workVars, workerOnly
<1>1. (Queued("arm")' => Queued("arm")) /\ service # "none"
  BY QueueReadBuffered DEF readBuffered, Control, ServiceOrder
<1>2. UNCHANGED <<sent, write_buf, buf, given>> /\ Handing' = Handing
  BY DEF readBuffered, Chunk, Go, Handing, Control, Placed, ControlType
<1>3. Pieces' /\ (NotStarted' <=> NotStarted)
  BY <1>2, PiecesStay DEF Response
<1>4. Flow'
  BY <1>1, <1>2, <1>3 DEF readBuffered, Chunk, Go,
      Response, Flow, Control, Placed, LoopPCs, WorkerPCs, ControlType,
      Locks, OneWrite, AtHead, AtWorker, Armed, AtLoop, Handed, ServiceOrder, Ends
<1> QED BY <1>3, <1>4 DEF Response

\* The order of the response: readBody() returns or throws.
LEMMA ResponseReadBodyReturns ==
  ASSUME Control, Response, readBodyReturns
  PROVE  Response'
<1> USE DEF serverVars, parserVars, connVars, streamVars, readVars, workVars, workerOnly
<1>1. (Queued("arm")' => Queued("arm")) /\ (LastQueued' => LastQueued)
  BY SameQueue DEF readBodyReturns, Raise
<1>2. UNCHANGED <<sent, write_buf, buf, given>> /\ Handing' = Handing
  BY DEF readBodyReturns, Raise, Go, Handing, Control, Placed, ControlType
<1>3. Pieces' /\ (NotStarted' <=> NotStarted)
  BY <1>2, PiecesStay DEF Response
<1>4. Flow'
  BY <1>1, <1>2, <1>3 DEF readBodyReturns, Raise, Go,
      Response, Flow, Control, Placed, LoopPCs, WorkerPCs, ControlType,
      Locks, OneWrite, AtHead, AtWorker, Armed, AtLoop, Handed, ServiceOrder, Ends
<1> QED BY <1>3, <1>4 DEF Response

\* The order of the response: the head becomes the stream's outstanding write.
LEMMA ResponseServiceStarts ==
  ASSUME Control, Response, serviceStarts
  PROVE  Response'
<1> USE DEF serverVars, parserVars, connVars, streamVars, readVars, workVars, workerOnly
<1>1. (Queued("arm")' => Queued("arm")) /\ (LastQueued' => LastQueued)
  BY SameQueue DEF serviceStarts, startResponse
<1>2. UNCHANGED <<sent, write_buf, buf, given>> /\ Handing' = Handing
  BY DEF serviceStarts, startResponse, Go, Handing, Control, Placed, ControlType
<1>3. Pieces' /\ (NotStarted' <=> NotStarted)
  BY <1>2, PiecesStay DEF Response
<1>4. Flow'
  BY <1>1, <1>2, <1>3 DEF serviceStarts, startResponse, Go,
      Response, Flow, Control, Placed, LoopPCs, WorkerPCs, ControlType,
      Locks, OneWrite, AtHead, AtWorker, Armed, AtLoop, Handed, ServiceOrder, Ends
<1> QED BY <1>3, <1>4 DEF Response

\* The order of the response: the same for a service that answers in one call.
LEMMA ResponseServiceResponds ==
  ASSUME Control, Response, serviceResponds
  PROVE  Response'
<1> USE DEF serverVars, parserVars, connVars, streamVars, readVars, workVars, workerOnly
<1>1. (Queued("arm")' => Queued("arm")) /\ (LastQueued' => LastQueued)
  BY SameQueue DEF serviceResponds, startResponse
<1>2. UNCHANGED <<sent, write_buf, buf, given>> /\ Handing' = Handing
  BY DEF serviceResponds, startResponse, Go, Handing, Control, Placed, ControlType
<1>3. Pieces' /\ (NotStarted' <=> NotStarted)
  BY <1>2, PiecesStay DEF Response
<1>4. Flow'
  BY <1>1, <1>2, <1>3 DEF serviceResponds, startResponse, Go,
      Response, Flow, Control, Placed, LoopPCs, WorkerPCs, ControlType,
      Locks, OneWrite, AtHead, AtWorker, Armed, AtLoop, Handed, ServiceOrder, Ends
<1> QED BY <1>3, <1>4 DEF Response

\* The order of the response: a writer waits for the reader.
LEMMA ResponseWaitForReader ==
  ASSUME Control, Response, waitForReader
  PROVE  Response'
<1> USE DEF serverVars, parserVars, connVars, streamVars, readVars, workVars, workerOnly
<1>1. (Queued("arm")' => Queued("arm")) /\ (LastQueued' => LastQueued)
  BY SameQueue DEF waitForReader
<1>2. UNCHANGED <<sent, write_buf, buf, given>> /\ Handing' = Handing
  BY DEF waitForReader, Go, Handing, Control, Placed, ControlType
<1>3. Pieces' /\ (NotStarted' <=> NotStarted)
  BY <1>2, PiecesStay DEF Response
<1>4. Flow'
  BY <1>1, <1>2, <1>3 DEF waitForReader, Go,
      Response, Flow, Control, Placed, LoopPCs, WorkerPCs, ControlType,
      Locks, OneWrite, AtHead, AtWorker, Armed, AtLoop, Handed, ServiceOrder, Ends
<1> QED BY <1>3, <1>4 DEF Response

\* The order of the response: the service throws.
LEMMA ResponseThrows ==
  ASSUME Control, Response, throws
  PROVE  Response'
<1> USE DEF serverVars, parserVars, connVars, streamVars, readVars, workVars, workerOnly
<1>1. (Queued("arm")' => Queued("arm")) /\ (LastQueued' => LastQueued)
  BY SameQueue DEF throws
<1>2. UNCHANGED <<sent, write_buf, buf, given>> /\ Handing' = Handing
  BY DEF throws, Go, Handing, Control, Placed, ControlType
<1>3. Pieces' /\ (NotStarted' <=> NotStarted)
  BY <1>2, PiecesStay DEF Response
<1>4. Flow'
  BY <1>1, <1>2, <1>3 DEF throws, Go,
      Response, Flow, Control, Placed, LoopPCs, WorkerPCs, ControlType,
      Locks, OneWrite, AtHead, AtWorker, Armed, AtLoop, Handed, ServiceOrder, Ends
<1> QED BY <1>3, <1>4 DEF Response

\* The order of the response: the catch block finishes the response or answers 500.
LEMMA ResponseCatches ==
  ASSUME Control, Response, catches
  PROVE  Response'
<1> USE DEF serverVars, parserVars, connVars, streamVars, readVars, workVars, workerOnly
<1>1. (Queued("arm")' => Queued("arm")) /\ (LastQueued' => LastQueued)
  BY SameQueue DEF catches
<1>2. UNCHANGED <<sent, write_buf, buf, given>> /\ Handing' = Handing
  BY DEF catches, Go, Handing, Control, Placed, ControlType
<1>3. Pieces' /\ (NotStarted' <=> NotStarted)
  BY <1>2, PiecesStay DEF Response
<1>4. Flow'
  BY <1>1, <1>2, <1>3 DEF catches, Go,
      Response, Flow, Control, Placed, LoopPCs, WorkerPCs, ControlType,
      Locks, OneWrite, AtHead, AtWorker, Armed, AtLoop, Handed, ServiceOrder, Ends
<1> QED BY <1>3, <1>4 DEF Response

\* The order of the response: the service is over.
LEMMA ResponseLeaves ==
  ASSUME Control, Response, leaves
  PROVE  Response'
<1> USE DEF serverVars, parserVars, connVars, streamVars, readVars, workVars, workerOnly
<1>1. (Queued("arm")' => Queued("arm")) /\ (LastQueued' => LastQueued)
  BY SameQueue DEF leaves
<1>2. UNCHANGED <<sent, write_buf, buf, given>> /\ Handing' = Handing
  BY DEF leaves, DecRef, Go, Handing, Control, Placed, ControlType
<1>3. Pieces' /\ (NotStarted' <=> NotStarted)
  BY <1>2, PiecesStay DEF Response
<1>4. Flow'
  BY <1>1, <1>2, <1>3 DEF leaves, DecRef, Go,
      Response, Flow, Control, Placed, LoopPCs, WorkerPCs, ControlType,
      Locks, OneWrite, AtHead, AtWorker, Armed, AtLoop, Handed, ServiceOrder, Ends
<1> QED BY <1>3, <1>4 DEF Response

\* The order of the response: the loop has cancelled the descriptor: both mutexes are
\* released.
LEMMA ResponseCancelFDReturns ==
  ASSUME Control, Response, cancelFDReturns
  PROVE  Response'
<1> USE DEF serverVars, parserVars, connVars, streamVars, readVars, workVars, workerOnly
<1>1. (Queued("arm")' => Queued("arm")) /\ (LastQueued' => LastQueued)
  BY SameQueue DEF cancelFDReturns
<1>2. UNCHANGED <<sent, write_buf, buf, given>> /\ Handing' = Handing
  BY DEF cancelFDReturns, Resume, Go, Handing, Control, Placed, ControlType
<1>3. Pieces' /\ (NotStarted' <=> NotStarted)
  BY <1>2, PiecesStay DEF Response
<1>4. Flow'
  BY <1>1, <1>2, <1>3 DEF cancelFDReturns, Resume, Go,
      Response, Flow, Control, Placed, LoopPCs, WorkerPCs, ControlType,
      Locks, OneWrite, AtHead, AtWorker, Armed, AtLoop, Handed, ServiceOrder, Ends
<1> QED BY <1>3, <1>4 DEF Response

\* onStateChanged() moves the first pieces of b, or nothing.
LEMMA StateChanged ==
  ASSUME Control, Pieces, NEW t \in {"L", "W"}, NEW running \in BOOLEAN, NEW b,
         NEW finished \in BOOLEAN, onStateChanged(t, running, b, finished),
         doing[t] \notin {"writeBody", "cvWait"}, todo' \in {"run", "finishStream", "leave"},
         UNCHANGED <<sent, write_buf>>,
         Piece(b, Len(sent) + Len(write_buf) + Len(Handing)),
         ~running => doing["L"] # "writeBody" /\ doing["W"] # "writeBody"
  PROVE  /\ InOrder' /\ Len(Handing') + Len(buf') = Len(Handing) + Len(b)
         /\ running \/ ~headers_written \/ b = <<>> => buf' = b /\ Handing' = Handing
<1>1. Len(sent) \in Nat /\ Len(write_buf) \in Nat /\ Len(Handing) \in Nat /\ Len(b) \in Nat
  BY EmptyPiece DEF Pieces, InOrder
<1>2. CASE running \/ ~headers_written \/ b = <<>>
  <2>1. buf' = b /\ out' = out
    BY <1>2 DEF onStateChanged
  <2>2. doing'["L"] = "writeBody" \/ doing'["W"] = "writeBody"
          <=> doing["L"] = "writeBody" \/ doing["W"] = "writeBody"
    <3>1. \E p : p # "writeBody" /\ doing' = [doing EXCEPT ![t] = p]
      BY <1>2 DEF onStateChanged, Resume, Go
    <3> QED BY <3>1 DEF Control, Placed
  <2>3. Handing' = Handing
    BY <2>1, <2>2 DEF Handing
  <2> QED BY <2>1, <2>3 DEF Pieces, InOrder
<1>3. CASE ~running /\ headers_written /\ b # <<>>
  <2>1. Handing = <<>>
    BY <1>3 DEF Handing
  <2>2. PICK n \in 1..Len(b) : /\ out' = SubSeq(b, 1, n) /\ buf' = SubSeq(b, n + 1, Len(b))
                               /\ GoNotify(t, "writeBody")
    <3>1. Len(b) # 0
      BY <1>3, EmptyPiece
    <3>2. PICK n : /\ n = IF Len(b) > kMaxWriteBufferSize THEN kMaxWriteBufferSize ELSE Len(b)
                   /\ out' = SubSeq(b, 1, n) /\ buf' = SubSeq(b, n + 1, Len(b))
                   /\ GoNotify(t, "writeBody")
      BY <1>3 DEF onStateChanged
    <3>3. n \in 1..Len(b)
      BY <1>1, <3>1, <3>2, ServerBounds
    <3> QED BY <3>2, <3>3
  <2>3. doing'[t] = "writeBody"
    BY <2>2 DEF GoNotify, Control, Placed
  <2>4. Handing' = SubSeq(b, 1, n)
    BY <2>2, <2>3 DEF Handing
  <2>5. PICK a \in Nat : a = Len(sent) + Len(write_buf)
    BY <1>1
  <2>6. Piece(b, a)
    BY <1>1, <2>1, <2>5, EmptyPiece
  <2>7. /\ Piece(Handing', a) /\ Len(Handing') = n
        /\ Piece(buf', a + n) /\ Len(buf') = Len(b) - n
    BY <1>1, <2>2, <2>4, <2>6, PieceSplit
  <2> QED BY <1>1, <1>3, <2>1, <2>5, <2>7, EmptyPiece DEF Pieces, InOrder
<1> QED BY <1>2, <1>3

\* The order of the response: the write is over: the next chunk, the end, or nothing.
LEMMA ResponseOnCallbackCompleted ==
  ASSUME Control, Response, onCallbackCompleted
  PROVE  Response'
<1> USE DEF serverVars, parserVars, connVars, streamVars, readVars, workVars, workerOnly
<1>1. /\ UNCHANGED <<sent, write_buf, given, headers_written, todo, runq, op, response_finished>>
      /\ doing["L"] = "completed" /\ onStateChanged("L", FALSE, buf, response_finished)
  BY DEF onCallbackCompleted
<1>2. ~NotStarted /\ write_buf = <<>> /\ doing["W"] # "writeBody" /\ headers_written
      /\ service # "none"
  BY <1>1 DEF Response, Flow, Control, OneWrite, Handed, AtLoop, AtWorker, ServiceOrder
<1>3. /\ InOrder' /\ Len(Handing') + Len(buf') = Len(Handing) + Len(buf)
      /\ buf = <<>> => buf' = buf /\ Handing' = Handing
  BY <1>1, <1>2, StateChanged DEF Control, ControlType, Response, Pieces, InOrder
<1>4. Pieces' /\ ~NotStarted'
  <2>1. /\ given \in Nat /\ Len(sent) \in Nat /\ Len(write_buf) \in Nat
        /\ Len(Handing) \in Nat /\ Len(buf) \in Nat
        /\ Len(sent') \in Nat /\ Len(write_buf') \in Nat
        /\ Len(Handing') \in Nat /\ Len(buf') \in Nat
    BY <1>3, EmptyPiece DEF Response, Pieces, InOrder
  <2>2. Len(sent') + Len(write_buf') + Len(Handing') + Len(buf') = given' + 1
    BY <1>1, <1>2, <1>3, <2>1 DEF Response, Pieces
  <2>3. ~NotStarted'
    BY <1>1, <2>1, <2>2, EmptyPiece DEF NotStarted
  <2> QED BY <1>1, <1>3, <2>1, <2>2, <2>3 DEF Pieces
<1>5. Flow'
  BY <1>1, <1>2, <1>3, <1>4, SameQueue DEF onCallbackCompleted, onStateChanged, Resume, Go,
      GoNotify, Response, Flow, Control, Placed, LoopPCs, WorkerPCs, ControlType,
      Locks, OneWrite, AtHead, AtWorker, Armed, AtLoop, Handed, ServiceOrder, Ends
<1> QED BY <1>4, <1>5 DEF Response

\* The order of the response: a piece joins buf_, and goes out if no write is outstanding.
LEMMA ResponseWriteBodyChunk ==
  ASSUME Control, Response, writeBodyChunk
  PROVE  Response'
<1> USE DEF serverVars, parserVars, connVars, streamVars, readVars, workVars, workerOnly
<1>1. /\ UNCHANGED <<sent, write_buf, headers_written, runq, op, response_finished>>
      /\ doing["W"] = "run" /\ headers_written /\ todo' = "run" /\ service = "streaming"
  BY DEF writeBodyChunk
<1>2. ~NotStarted
  BY <1>1 DEF Response, Flow
<1>3. CASE error
  <2>1. UNCHANGED <<sent, write_buf, buf, given>> /\ Handing' = Handing
    BY <1>1, <1>3 DEF writeBodyChunk, Go, Handing, Control, Placed
  <2>2. Pieces' /\ (NotStarted' <=> NotStarted)
    BY <2>1, PiecesStay DEF Response
  <2>3. Flow'
    BY <1>1, <1>3, <2>1, <2>2, SameQueue DEF writeBodyChunk, Go,
        Response, Flow, Control, Placed, LoopPCs, WorkerPCs, ControlType,
        Locks, OneWrite, AtHead, AtWorker, Armed, AtLoop, Handed, ServiceOrder, Ends
  <2> QED BY <2>2, <2>3 DEF Response
<1>4. CASE ~error
  <2>1. PICK b : /\ b = Append(buf, given + 1) /\ given' = given + 1
                 /\ onStateChanged("W", callback_running, b, FALSE)
    BY <1>4 DEF writeBodyChunk
  <2>2. /\ given \in Nat /\ Len(sent) \in Nat /\ Len(write_buf) \in Nat
        /\ Len(Handing) \in Nat /\ Len(buf) \in Nat
    BY EmptyPiece DEF Response, Pieces, InOrder
  <2>3. PICK a \in Nat : a = Len(sent) + Len(write_buf) + Len(Handing)
    BY <2>2
  <2>4. Piece(buf, a) /\ given + 1 = a + Len(buf)
    BY <1>2, <2>2, <2>3 DEF Response, Pieces, InOrder
  <2>5. Piece(b, a) /\ Len(b) = Len(buf) + 1 /\ b # <<>>
    BY <2>1, <2>4, PieceAppend
  <2>6. ~callback_running => doing["L"] # "writeBody" /\ doing["W"] # "writeBody"
    BY DEF Control, OneWrite, AtWorker, Handed, AtLoop
  <2>7. InOrder' /\ Len(Handing') + Len(buf') = Len(Handing) + Len(b)
    BY <1>1, <2>1, <2>3, <2>5, <2>6, StateChanged DEF Control, ControlType, Response
  <2>8. /\ Len(sent') \in Nat /\ Len(write_buf') \in Nat
        /\ Len(Handing') \in Nat /\ Len(buf') \in Nat
    BY <2>7, EmptyPiece DEF InOrder
  <2>9. Len(sent') + Len(write_buf') + Len(Handing') + Len(buf') = given' + 1
    BY <1>1, <2>1, <2>2, <2>3, <2>4, <2>5, <2>7, <2>8
  <2>10. ~NotStarted'
    BY <2>1, <2>2, <2>9, EmptyPiece DEF NotStarted
  <2>11. Flow'
    BY <1>1, <1>2, <1>4, <2>1, <2>5, <2>10, SameQueue DEF writeBodyChunk, onStateChanged, Resume,
        Go, GoNotify, Response, Flow, Control, Placed, LoopPCs, WorkerPCs, ControlType,
        Locks, OneWrite, AtHead, AtWorker, Armed, AtLoop, Handed, ServiceOrder, Ends
  <2> QED BY <2>1, <2>2, <2>7, <2>9, <2>11 DEF Response, Pieces
<1> QED BY <1>3, <1>4 DEF Control, ControlType

\* The order of the response: finishResponse() of the stream, from the service or its catch
\* block.
LEMMA ResponseServiceFinishes ==
  ASSUME Control, Response, serviceFinishes
  PROVE  Response'
<1> USE DEF serverVars, parserVars, connVars, streamVars, readVars, workVars, workerOnly
<1>1. /\ UNCHANGED <<sent, write_buf, headers_written, runq, op, given, error>>
      /\ doing["W"] \in {"finishStream", "run"} /\ headers_written /\ todo' = "leave"
      /\ service # "none"
  BY DEF serviceFinishes, finishStream, Control, ServiceOrder
<1>2. CASE response_finished \/ error
  <2>1. UNCHANGED <<sent, write_buf, buf, given>> /\ Handing' = Handing
    BY <1>1, <1>2 DEF serviceFinishes, finishStream, Go, Handing, Control, Placed
  <2>2. Pieces' /\ (NotStarted' <=> NotStarted)
    BY <2>1, PiecesStay DEF Response
  <2>3. Flow'
    <3>1. /\ UNCHANGED <<callback_running, state_, closed, failed, service>>
          /\ \/ Go("W", "leave")
             \/ Go("W", "catch")
      BY <1>2 DEF serviceFinishes, finishStream, Control, ControlType
    <3> QED BY <1>1, <2>1, <2>2, <3>1, SameQueue DEF Go,
        Response, Flow, Control, Placed, LoopPCs, WorkerPCs, ControlType,
        Locks, OneWrite, AtHead, AtWorker, Armed, AtLoop, Handed, ServiceOrder, Ends
  <2> QED BY <2>2, <2>3 DEF Response
<1>3. CASE ~response_finished /\ ~error
  <2>1. onStateChanged("W", callback_running, buf, TRUE)
    BY <1>3 DEF serviceFinishes, finishStream
  <2>2. ~callback_running => doing["L"] # "writeBody" /\ doing["W"] # "writeBody"
    BY DEF Control, OneWrite, AtWorker, Handed, AtLoop
  <2>3. /\ InOrder' /\ Len(Handing') + Len(buf') = Len(Handing) + Len(buf)
        /\ callback_running \/ buf = <<>> => buf' = buf /\ Handing' = Handing
    BY <1>1, <2>1, <2>2, StateChanged DEF Control, ControlType, Response, Pieces, InOrder
  <2>4. /\ given \in Nat /\ Len(sent) \in Nat /\ Len(write_buf) \in Nat
        /\ Len(Handing) \in Nat /\ Len(buf) \in Nat
        /\ Len(sent') \in Nat /\ Len(write_buf') \in Nat
        /\ Len(Handing') \in Nat /\ Len(buf') \in Nat
    BY <2>3, EmptyPiece DEF Response, Pieces, InOrder
  <2>5. Pieces' /\ (NotStarted' <=> NotStarted)
    <3>1. CASE NotStarted
      BY <1>1, <2>3, <3>1, PiecesStay DEF Response, NotStarted
    <3>2. CASE ~NotStarted
      <4>1. Len(sent') + Len(write_buf') + Len(Handing') + Len(buf') = given' + 1
        BY <1>1, <2>3, <2>4, <3>2 DEF Response, Pieces
      <4>2. ~NotStarted'
        BY <1>1, <2>4, <4>1, EmptyPiece DEF NotStarted
      <4> QED BY <1>1, <2>3, <2>4, <3>2, <4>1, <4>2 DEF Pieces
    <3> QED BY <3>1, <3>2
  <2>6. Flow'
    BY <1>1, <1>3, <2>1, <2>3, <2>5, SameQueue DEF serviceFinishes, finishStream, onStateChanged,
        Resume, Go, GoNotify, Response, Flow, Control, Placed, LoopPCs, WorkerPCs, ControlType,
        Locks, OneWrite, AtHead, AtWorker, Armed, AtLoop, Handed, ServiceOrder, Ends
  <2> QED BY <2>5, <2>6 DEF Response
<1> QED BY <1>2, <1>3 DEF Control, ControlType

\* The order of the response: a queued chunk is delivered, the last one may start the
\* service.
LEMMA ResponseRunChunk ==
  ASSUME Control, Response, runChunk
  PROVE  Response'
<1> USE DEF serverVars, parserVars, connVars, streamVars, readVars, workVars, workerOnly
<1>1. /\ Queued("arm")' => Queued("arm")
      /\ LastQueued' => LastQueued
      /\ Head(runq).last => LastQueued
      /\ QueuedBy(Head(runq).by) /\ (\A b : Head(runq).by = b => ~QueuedBy(b)')
      /\ Head(runq).by \in {"L", "W"} /\ runq' \in Seq(Task)
  BY QueueRunChunk DEF Task, runChunk
<1>2. CASE service = "none" /\ Head(runq).last
  <2>1. NotStarted /\ QueuedBy("L") /\ ~QueuedBy("L")' /\ ~QueuedBy("W")'
    BY <1>1, <1>2, QueueRunChunk DEF Response, Flow, Control, ServiceOrder
  <2>2. ~LastQueued'
    BY <1>1, <2>1 DEF LastQueued, QueuedBy, Task
  <2>3. /\ write_buf' = <<0>> /\ Handing' = <<>> /\ UNCHANGED <<sent, buf, given, doing>>
        /\ UNCHANGED <<headers_written, state_, service>>
    BY <1>2, <2>1 DEF runChunk, Handing, NotStarted
  <2>4. Piece(<<0>>, 0) /\ Len(<<0>>) = 1
    BY DEF Piece
  <2>5. Pieces' /\ ~NotStarted'
    BY <2>1, <2>3, <2>4, EmptyPiece DEF Pieces, InOrder, NotStarted
  <2>6. state_ = "DONE" /\ ~headers_written
    BY <1>1, <1>2 DEF Control, ServiceOrder
  <2>7. Flow'
    BY <1>1, <1>2, <2>1, <2>2, <2>3, <2>5, <2>6 DEF runChunk,
        Response, Flow, Control, Placed, LoopPCs, WorkerPCs, ControlType,
        Locks, OneWrite, AtHead, AtWorker, Armed, AtLoop, Handed, ServiceOrder, Ends
  <2> QED BY <2>5, <2>7 DEF Response
<1>3. CASE ~(service = "none" /\ Head(runq).last)
  <2>1. doing["W"] # "writeBody" \/ doing' = doing
    BY <1>1 DEF runChunk, Control, ServiceOrder
  <2>2. UNCHANGED <<sent, write_buf, buf, given>> /\ Handing' = Handing
    BY <1>3, <2>1 DEF runChunk, Go, Handing, Control, Placed, ControlType
  <2>3. Pieces' /\ (NotStarted' <=> NotStarted)
    BY <2>2, PiecesStay DEF Response
  <2>4. Flow'
    BY <1>1, <1>3, <2>2, <2>3 DEF runChunk, Go,
        Response, Flow, Control, Placed, LoopPCs, WorkerPCs, ControlType,
        Locks, OneWrite, AtHead, AtWorker, Armed, AtLoop, Handed, ServiceOrder, Ends
  <2> QED BY <2>3, <2>4 DEF Response
<1> QED BY <1>2, <1>3

\* The order of the response: the socket takes some pieces, and with the last one the
\* callback is due.
LEMMA ResponseWrite ==
  ASSUME Control, Response, NEW k \in 1..Len(write_buf), write(k)
  PROVE  Response'
<1> USE DEF serverVars, parserVars, connVars, streamVars, readVars, workVars, workerOnly
<1>1. /\ sent' = sent \o SubSeq(write_buf, 1, k)
      /\ write_buf' = SubSeq(write_buf, k + 1, Len(write_buf))
      /\ UNCHANGED <<buf, given, out, runq>> /\ doing["L"] = "idle" /\ op = "write"
  BY DEF write, LoopFree
<1>2. Handing' = Handing
  BY <1>1 DEF write, Go, Handing, Control, Placed
<1>3. /\ given \in Nat /\ Len(sent) \in Nat /\ Len(write_buf) \in Nat
      /\ Len(Handing) \in Nat /\ Len(buf) \in Nat
  BY EmptyPiece DEF Response, Pieces, InOrder
<1>4. /\ Piece(SubSeq(write_buf, 1, k), Len(sent)) /\ Len(SubSeq(write_buf, 1, k)) = k
      /\ Piece(write_buf', Len(sent) + k) /\ Len(write_buf') = Len(write_buf) - k
  BY <1>1, <1>3, PieceSplit DEF Response, Pieces, InOrder
<1>5. Piece(sent', 0) /\ Len(sent') = Len(sent) + k
  <2>1. Piece(SubSeq(write_buf, 1, k), 0 + Len(sent))
    BY <1>3, <1>4
  <2> QED BY <1>1, <1>4, <2>1, PieceJoin DEF Response, Pieces, InOrder
<1>6. Len(sent') + Len(write_buf') = Len(sent) + Len(write_buf)
  BY <1>3, <1>4, <1>5
<1>7. ~NotStarted
  BY <1>3, EmptyPiece DEF NotStarted
<1>8. Pieces' /\ ~NotStarted'
  <2>1. InOrder'
    <3>1. Piece(write_buf', Len(sent'))
      BY <1>4, <1>5
    <3>2. /\ Piece(Handing', Len(sent') + Len(write_buf'))
          /\ Piece(buf', Len(sent') + Len(write_buf') + Len(Handing'))
      BY <1>1, <1>2, <1>6 DEF Response, Pieces, InOrder
    <3> QED BY <1>5, <3>1, <3>2 DEF InOrder
  <2>2. Len(sent') + Len(write_buf') + Len(Handing') + Len(buf') = given' + 1
    BY <1>1, <1>2, <1>6, <1>7 DEF Response, Pieces
  <2>3. ~NotStarted'
    <3>1. sent' # <<>>
      BY <1>3, <1>5, EmptyPiece
    <3> QED BY <3>1 DEF NotStarted
  <2> QED BY <1>1, <1>3, <2>1, <2>2, <2>3 DEF Pieces
<1>9. write_buf' = <<>> \/ k < Len(write_buf)
  BY <1>3, <1>4, EmptyPiece
<1>10. Flow'
  BY <1>1, <1>7, <1>8, <1>9, SameQueue DEF write, Go,
      Response, Flow, Control, Placed, LoopPCs, WorkerPCs, ControlType,
      Locks, OneWrite, AtHead, AtWorker, Armed, AtLoop, Handed, ServiceOrder, Ends
<1> QED BY <1>8, <1>10 DEF Response

\* The connection takes what it is handed: the head, or the next chunk.
LEMMA ResponseTaken ==
  ASSUME Control, Response, NEW t \in {"L", "W"}, writeResponseBody(t)
  PROVE  /\ Pieces' /\ ~NotStarted' /\ UNCHANGED <<sent, buf, given>>
         /\ state_ = "DONE" /\ ~closed
<1> USE DEF serverVars, parserVars, connVars, streamVars, readVars, workVars, workerOnly
<1>1. state_ = "DONE" /\ ~closed /\ doing[t] = "writeBody"
  BY DEF writeResponseBody, writeResponse, Control, OneWrite, AtWorker, AtLoop, Handed
<1>2. /\ write_buf' = write_buf \o out /\ UNCHANGED <<sent, buf, given, out, workVars>>
      /\ Resume(t)
  BY <1>1 DEF writeResponseBody, writeResponse
<1>3. Handing = out /\ Handing' = <<>> /\ ~NotStarted
  <2>1. doing'["L"] # "writeBody" /\ doing'["W"] # "writeBody"
    BY <1>1, <1>2 DEF Resume, Go, Control, Placed, ControlType, OneWrite, AtWorker, AtLoop, Handed
  <2> QED BY <1>1, <2>1 DEF Handing, Response, Flow, AtWorker, Handed, AtLoop
<1>4. /\ given \in Nat /\ Len(sent) \in Nat /\ Len(write_buf) \in Nat
      /\ Len(Handing) \in Nat /\ Len(buf) \in Nat
  BY EmptyPiece DEF Response, Pieces, InOrder
<1>5. Piece(write_buf', Len(sent)) /\ Len(write_buf') = Len(write_buf) + Len(Handing)
  BY <1>2, <1>3, <1>4, PieceJoin DEF Response, Pieces, InOrder
<1>6. InOrder'
  BY <1>2, <1>3, <1>4, <1>5, EmptyPiece DEF Response, Pieces, InOrder
<1>7. Len(sent') + Len(write_buf') + Len(Handing') + Len(buf') = given' + 1
  BY <1>2, <1>3, <1>4, <1>5, EmptyPiece DEF Response, Pieces
<1>8. ~NotStarted'
  BY <1>2, <1>4, <1>7, EmptyPiece DEF NotStarted
<1> QED BY <1>1, <1>2, <1>4, <1>6, <1>7, <1>8 DEF Pieces

\* The order of the response: the loop hands the chunk over: the connection is still open.
LEMMA ResponseWriteResponseBodyL ==
  ASSUME Control, Response, writeResponseBody("L")
  PROVE  Response'
<1> USE DEF serverVars, parserVars, connVars, streamVars, readVars, workVars, workerOnly
<1>1. /\ Pieces' /\ ~NotStarted' /\ UNCHANGED <<sent, buf, given>>
      /\ state_ = "DONE" /\ ~closed
  BY ResponseTaken
<1>2. runq' = runq
  BY <1>1 DEF writeResponseBody, writeResponse, awaitWrite
<1>3. Flow'
  BY <1>1, <1>2, SameQueue DEF writeResponseBody, writeResponse, awaitWrite, Resume, Go,
      Response, Flow, Control, Placed, LoopPCs, WorkerPCs, ControlType,
      Locks, OneWrite, AtHead, AtWorker, Armed, AtLoop, Handed, ServiceOrder, Ends
<1> QED BY <1>1, <1>3 DEF Response

\* The order of the response: the worker hands the chunk over through the loop's queue.
LEMMA ResponseWriteResponseBodyW ==
  ASSUME Control, Response, writeResponseBody("W")
  PROVE  Response'
<1> USE DEF serverVars, parserVars, connVars, streamVars, readVars, workVars, workerOnly
<1>1. /\ Pieces' /\ ~NotStarted' /\ UNCHANGED <<sent, buf, given>>
      /\ state_ = "DONE" /\ ~closed
  BY ResponseTaken
<1>2. Flow'
  BY <1>1 DEF writeResponseBody, writeResponse, awaitWrite, Resume, Go,
      Response, Flow, Control, Placed, LoopPCs, WorkerPCs, ControlType,
      Locks, OneWrite, AtHead, AtWorker, Armed, AtLoop, Handed, ServiceOrder, Ends
<1> QED BY <1>1, <1>2 DEF Response

\* The order of the response: the head is handed over, or refused on an incomplete request.
LEMMA ResponseWriteHead ==
  ASSUME Control, Response, writeHead
  PROVE  Response'
<1> USE DEF serverVars, parserVars, connVars, streamVars, readVars, workVars, workerOnly
<1>1. /\ NotStarted /\ doing["W"] = "writeHead" /\ doing["L"] # "writeBody"
      /\ headers_written /\ callback_running /\ service # "none"
      /\ UNCHANGED <<sent, buf, given, headers_written, callback_running, error, closed, failed,
                     state_, service>>
      /\ Queued("arm")' => Queued("arm") \/ (state_ = "DONE" /\ ~closed)
  BY QueueWriteHead DEF writeHead, writeResponse,
      Response, Flow, Control, Placed, LoopPCs, WorkerPCs, ControlType,
      Locks, OneWrite, AtHead, AtWorker, Armed, AtLoop, Handed, ServiceOrder, Ends
<1>2. CASE state_ # "DONE"
  <2>1. UNCHANGED <<write_buf, op, runq>> /\ (Go("W", "leave") \/ Go("W", "catch"))
    BY <1>2 DEF writeHead, writeResponse, Raise, Control, ControlType
  <2>2. Handing' = Handing
    BY <1>1, <2>1 DEF Go, Handing, Control, Placed
  <2>3. Pieces' /\ NotStarted'
    BY <1>1, <2>1, <2>2, PiecesStay DEF Response
  <2>4. Flow'
    BY <1>1, <1>2, <2>1, <2>3, SameQueue DEF Go,
        Response, Flow, Control, Placed, LoopPCs, WorkerPCs, ControlType,
        Locks, OneWrite, AtHead, AtWorker, Armed, AtLoop, Handed, ServiceOrder, Ends
  <2> QED BY <2>3, <2>4 DEF Response
<1>3. CASE state_ = "DONE"
  <2>1. ~closed
    BY <1>1, <1>3 DEF Control, ServiceOrder, Ends, OneWrite, AtHead
  <2>2. write_buf' = write_buf \o <<0>> /\ Resume("W") /\ UNCHANGED <<op, workVars>>
    BY <1>3, <2>1 DEF writeHead, writeResponse, awaitWrite
  <2>3. write_buf' = <<0>> /\ Handing' = <<>>
    BY <1>1, <2>2 DEF NotStarted, Resume, Go, Handing, Control, Placed, ControlType
  <2>4. Piece(<<0>>, 0) /\ Len(<<0>>) = 1
    BY DEF Piece
  <2>5. Pieces' /\ ~NotStarted'
    BY <1>1, <2>3, <2>4, EmptyPiece DEF Pieces, InOrder, NotStarted
  <2>6. Flow'
    BY <1>1, <1>3, <2>1, <2>2, <2>5 DEF Resume, Go,
        Response, Flow, Control, Placed, LoopPCs, WorkerPCs, ControlType,
        Locks, OneWrite, AtHead, AtWorker, Armed, AtLoop, Handed, ServiceOrder, Ends
  <2> QED BY <2>5, <2>6 DEF Response
<1> QED BY <1>2, <1>3

-----------------------------------------------------------------------------
(* The connection: the theorems.                                           *)

\* Every step of either thread keeps the control invariant.
LEMMA ControlStep == Control /\ ServerNext => Control'
<1> SUFFICES ASSUME Control, ServerNext PROVE Control'
  OBVIOUS
<1>1. ASSUME NEW n \in 0..MaxRequestBody, NEW k \in 0..n, readHeaders(n, k) PROVE Control'
  BY <1>1, ControlReadHeaders
<1>2. ASSUME NEW k \in 1..MaxRequestBody, readMore(k) PROVE Control'
  BY <1>2, ControlReadMore
<1>3. CASE readFails
  BY <1>3, ControlReadFails
<1>4. CASE close
  BY <1>4, ControlClose
<1>5. CASE runChunk
  BY <1>5, ControlRunChunk
<1>6. CASE runTask
  BY <1>6, ControlRunTask
<1>7. ASSUME NEW k \in 1..Len(write_buf), write(k) PROVE Control'
  BY <1>7, ControlWrite
<1>8. CASE writeFails
  BY <1>8, ControlWriteFails
<1>9. CASE onCallbackError
  BY <1>9, ControlOnCallbackError
<1>10. CASE onCallbackCompleted
  BY <1>10, ControlOnCallbackCompleted
<1>11. CASE decRef
  BY <1>11, ControlDecRef
<1>12. CASE writeResponseBody("L")
  BY <1>12, ControlWriteResponseBodyL
<1>13. CASE finishResponse("L")
  BY <1>13, ControlFinishResponseL
<1>14. CASE dispatchRequest
  BY <1>14, ControlDispatchRequest
<1>15. CASE readBody
  BY <1>15, ControlReadBody
<1>16. CASE readBuffered
  BY <1>16, ControlReadBuffered
<1>17. CASE readBodyReturns
  BY <1>17, ControlReadBodyReturns
<1>18. CASE serviceStarts
  BY <1>18, ControlServiceStarts
<1>19. CASE serviceResponds
  BY <1>19, ControlServiceResponds
<1>20. CASE serviceFinishes
  BY <1>20, ControlServiceFinishes
<1>21. CASE writeBodyChunk
  BY <1>21, ControlWriteBodyChunk
<1>22. CASE waitForReader
  BY <1>22, ControlWaitForReader
<1>23. CASE throws
  BY <1>23, ControlThrows
<1>24. CASE catches
  BY <1>24, ControlCatches
<1>25. CASE leaves
  BY <1>25, ControlLeaves
<1>26. CASE writeHead
  BY <1>26, ControlWriteHead
<1>27. CASE writeResponseBody("W")
  BY <1>27, ControlWriteResponseBodyW
<1>28. CASE finishResponse("W")
  BY <1>28, ControlFinishResponseW
<1>29. CASE cancelFDReturns
  BY <1>29, ControlCancelFDReturns
<1> QED
  BY <1>1, <1>2, <1>3, <1>4, <1>5, <1>6, <1>7, <1>8, <1>9, <1>10, <1>11, <1>12, <1>13,
     <1>14, <1>15, <1>16, <1>17, <1>18, <1>19, <1>20, <1>21, <1>22, <1>23, <1>24, <1>25,
     <1>26, <1>27, <1>28, <1>29
  DEF ServerNext, Loop, Work

\* Every step of either thread keeps the response in order.
LEMMA ResponseStep == Control /\ Response /\ ServerNext => Response'
<1> SUFFICES ASSUME Control, Response, ServerNext PROVE Response'
  OBVIOUS
<1>1. ASSUME NEW n \in 0..MaxRequestBody, NEW k \in 0..n, readHeaders(n, k) PROVE Response'
  BY <1>1, ResponseReadHeaders
<1>2. ASSUME NEW k \in 1..MaxRequestBody, readMore(k) PROVE Response'
  BY <1>2, ResponseReadMore
<1>3. CASE readFails
  BY <1>3, ResponseReadFails
<1>4. CASE close
  BY <1>4, ResponseClose
<1>5. CASE runChunk
  BY <1>5, ResponseRunChunk
<1>6. CASE runTask
  BY <1>6, ResponseRunTask
<1>7. ASSUME NEW k \in 1..Len(write_buf), write(k) PROVE Response'
  BY <1>7, ResponseWrite
<1>8. CASE writeFails
  BY <1>8, ResponseWriteFails
<1>9. CASE onCallbackError
  BY <1>9, ResponseOnCallbackError
<1>10. CASE onCallbackCompleted
  BY <1>10, ResponseOnCallbackCompleted
<1>11. CASE decRef
  BY <1>11, ResponseDecRef
<1>12. CASE writeResponseBody("L")
  BY <1>12, ResponseWriteResponseBodyL
<1>13. CASE finishResponse("L")
  BY <1>13, ResponseFinishResponseL
<1>14. CASE dispatchRequest
  BY <1>14, ResponseDispatchRequest
<1>15. CASE readBody
  BY <1>15, ResponseReadBody
<1>16. CASE readBuffered
  BY <1>16, ResponseReadBuffered
<1>17. CASE readBodyReturns
  BY <1>17, ResponseReadBodyReturns
<1>18. CASE serviceStarts
  BY <1>18, ResponseServiceStarts
<1>19. CASE serviceResponds
  BY <1>19, ResponseServiceResponds
<1>20. CASE serviceFinishes
  BY <1>20, ResponseServiceFinishes
<1>21. CASE writeBodyChunk
  BY <1>21, ResponseWriteBodyChunk
<1>22. CASE waitForReader
  BY <1>22, ResponseWaitForReader
<1>23. CASE throws
  BY <1>23, ResponseThrows
<1>24. CASE catches
  BY <1>24, ResponseCatches
<1>25. CASE leaves
  BY <1>25, ResponseLeaves
<1>26. CASE writeHead
  BY <1>26, ResponseWriteHead
<1>27. CASE writeResponseBody("W")
  BY <1>27, ResponseWriteResponseBodyW
<1>28. CASE finishResponse("W")
  BY <1>28, ResponseFinishResponseW
<1>29. CASE cancelFDReturns
  BY <1>29, ResponseCancelFDReturns
<1> QED
  BY <1>1, <1>2, <1>3, <1>4, <1>5, <1>6, <1>7, <1>8, <1>9, <1>10, <1>11, <1>12, <1>13,
     <1>14, <1>15, <1>16, <1>17, <1>18, <1>19, <1>20, <1>21, <1>22, <1>23, <1>24, <1>25,
     <1>26, <1>27, <1>28, <1>29
  DEF ServerNext, Loop, Work

-----------------------------------------------------------------------------
\* The inductive invariant of the connection.
ServerInv == Control /\ Body /\ Response

\* A connection that was just accepted satisfies it.
LEMMA ServerInitInv == ServerInit => ServerInv
<1> SUFFICES ASSUME ServerInit PROVE ServerInv
  OBVIOUS
<1>1. runq = <<>> /\ DOMAIN runq = {} /\ runq \in Seq(Task)
  BY DEF ServerInit
<1>2. /\ \A k : ~Queued(k)
      /\ \A b : ~QueuedBy(b)
      /\ ~LastQueued /\ OneOfEach /\ NothingAfterLast
  BY <1>1 DEF Queued, QueuedBy, LastQueued, OneOfEach, NothingAfterLast
<1>3. Placed /\ ControlType /\ Locks
  <2>1. DOMAIN doing = {"L", "W"} /\ doing["L"] = "idle" /\ doing["W"] = "absent"
    BY DEF ServerInit
  <2>2. doing = [t \in {"L", "W"} |-> IF t = "L" THEN "idle" ELSE "absent"]
    BY DEF ServerInit
  <2>3. Placed
    BY <2>1, <2>2 DEF Placed, LoopPCs, WorkerPCs
  <2> QED BY <1>1, <2>1, <2>3 DEF ServerInit, ControlType, Locks
<1>4. OneWrite
  BY <1>2 DEF ServerInit, OneWrite, AtHead, AtWorker, Handed, Armed, AtLoop
<1>5. ServiceOrder /\ Ends
  BY <1>2 DEF ServerInit, ServiceOrder, Ends, AtHead
<1>6. Body
  <2>1. Size("L", 0) /\ Size("W", 0)
    BY <1>1, <1>2 DEF Size
  <2>2. 0 \in 0..got /\ delivered + 0 + 0 + body_buf = got
    BY DEF ServerInit
  <2>3. Counted
    BY <2>1, <2>2 DEF Counted
  <2> QED BY <1>2, <2>3 DEF ServerInit, Body
<1>7. Handing = <<>> /\ NotStarted
  BY DEF ServerInit, Handing, NotStarted
<1>8. Pieces
  <2>1. Len(<<>>) = 0 /\ Len(sent) = 0 /\ Len(write_buf) = 0 /\ Len(Handing) = 0
    BY <1>7 DEF ServerInit
  <2>2. InOrder
    BY <1>7, <2>1, EmptyPiece DEF InOrder, ServerInit
  <2> QED BY <1>7, <2>2 DEF Pieces, ServerInit
<1>9. Flow
  BY <1>2, <1>7 DEF ServerInit, Flow, AtHead, AtWorker, Handed, Armed, AtLoop
<1> QED BY <1>2, <1>3, <1>4, <1>5, <1>6, <1>8, <1>9 DEF ServerInv, Control, Response

\* It does not depend on anything but the state of the connection.
LEMMA ServerStutters == ServerInv /\ UNCHANGED serverVars => ServerInv'
<1> SUFFICES ASSUME ServerInv, UNCHANGED serverVars PROVE ServerInv'
  OBVIOUS
<1> USE DEF serverVars, parserVars, connVars, streamVars, readVars, workVars
<1>1. runq' = runq /\ OneOfEach'
  BY SameQueue DEF ServerInv, Control
<1>2. Placed' /\ ControlType' /\ Locks'
  BY DEF ServerInv, Control, Placed, ControlType, Locks
<1>3. OneWrite' /\ ServiceOrder' /\ Ends'
  BY <1>1, SameQueue DEF ServerInv, Control, OneWrite, ServiceOrder, Ends, AtHead, AtWorker,
     Handed, Armed, AtLoop
<1>4. Body'
  BY <1>1, BodyStays DEF ServerInv, bodyVars
<1>5. Handing' = Handing
  BY DEF Handing
<1>6. Pieces' /\ (NotStarted' <=> NotStarted)
  BY <1>5, PiecesStay DEF ServerInv, Response
<1>7. Flow'
  BY <1>1, <1>6, SameQueue DEF ServerInv, Response, Flow, AtHead, AtWorker, Handed, Armed, AtLoop
<1> QED BY <1>1, <1>2, <1>3, <1>4, <1>6, <1>7 DEF ServerInv, Control, Response

\* The invariant holds of every connection, for bodies of any size, responses of any number
\* of pieces and any positive write buffer.
THEOREM ServerInvariant == ServerSpec => []ServerInv
<1>1. ServerInv /\ [ServerNext]_serverVars => ServerInv'
  BY ControlStep, BodyStep, ResponseStep, ServerStutters DEF ServerInv
<1> QED BY ServerInitInv, <1>1, PTL DEF ServerSpec

\* No exception escapes into the event loop: close() runs once, and no callback of the loop
\* writes to a closed connection; and close() on the worker never waits for a loop that is in
\* a callback which needs one of the two mutexes it holds.
THEOREM ServerSafeCorrect == ServerSpec => []ServerSafe
<1>1. ServerInv => ServerSafe
  BY DEF ServerInv, Control, Placed, LoopPCs, Locks, ServerSafe, LoopSurvives, NoLockCycle
<1> QED BY <1>1, ServerInvariant, PTL

\* What a closed connection without a client error has sent is the whole response.
LEMMA AllSent ==
  ASSUME ServerInv, closed, ~failed, service # "none"
  PROVE  sent = [i \in 1..(given + 1) |-> i - 1]
<1>1. response_finished /\ ~callback_running /\ headers_written /\ ~error
  BY DEF ServerInv, Control, ControlType, Ends, ServiceOrder
<1>2. buf = <<>> /\ write_buf = <<>> /\ ~NotStarted
  BY <1>1 DEF ServerInv, Response, Flow
<1>3. Handing = <<>>
  BY <1>1 DEF ServerInv, Control, OneWrite, AtWorker, Handed, AtLoop, Handing
<1>4. Len(sent) = given + 1 /\ sent \in Seq(Nat) /\ given \in Nat
  BY <1>2, <1>3 DEF ServerInv, Response, Pieces, InOrder, Piece
<1>5. \A i \in DOMAIN sent : sent[i] = i - 1
  <2>1. \A i \in DOMAIN sent : sent[i] = 0 + i - 1
    BY DEF ServerInv, Response, Pieces, InOrder, Piece
  <2>2. DOMAIN sent \subseteq Int
    BY <1>4
  <2> QED BY <2>1, <2>2
<1>6. DOMAIN sent = 1..(given + 1) /\ sent = [i \in DOMAIN sent |-> sent[i]]
  BY <1>4
<1> QED BY <1>5, <1>6

\* readBody() gives a service every byte of the body once, and a client that stays receives
\* the head and all pieces of the response, in order, before the connection is closed.
THEOREM ServerCompleteCorrect == ServerSpec => []ServerComplete
<1>1. ServerInv => BodyComplete
  <2> SUFFICES ASSUME ServerInv PROVE BodyComplete
    OBVIOUS
  <2>1. PICK l \in 0..got, w \in 0..got : delivered + l + w + body_buf = got
    BY DEF ServerInv, Body, Counted
  <2>2. delivered <= got
    BY <2>1 DEF ServerInv, Control, ControlType, Body
  <2> QED BY <2>2 DEF ServerInv, Body, BodyComplete
<1>2. ServerInv => ResponseComplete
  <2> SUFFICES ASSUME ServerInv PROVE ResponseComplete
    OBVIOUS
  <2>1. sent \in Seq(Nat) /\ \A i \in DOMAIN sent : sent[i] = 0 + i - 1
    BY DEF ServerInv, Response, Pieces, InOrder, Piece
  <2>2. \A i \in DOMAIN sent : sent[i] = i - 1
    BY <2>1
  <2> QED BY <2>2, AllSent DEF ResponseComplete
<1> QED BY <1>1, <1>2, ServerInvariant, PTL DEF ServerComplete

=============================================================================
