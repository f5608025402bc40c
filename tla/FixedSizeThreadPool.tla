------------------------ MODULE FixedSizeThreadPool ------------------------
(***************************************************************************)
(* stx::thread::FixedSizeThreadPool, thread/FixedSizeThreadPool.cc: a      *)
(* fixed number of workers that pop tasks from a thread::Queue, an owner   *)
(* that calls start() and stop(), clients (and tasks) that call run().     *)
(*                                                                         *)
(* The queue's own steps are the actions of module Queue, so every race    *)
(* between stop(), the workers' loop test and the queue's condition        *)
(* variable is a behaviour of this module.                                 *)
(***************************************************************************)
EXTENDS Integers, Sequences

CONSTANTS
  Workers,       \* the nthreads_ pool threads
  Clients,       \* threads outside the pool that call run()
  Owner,         \* the thread that calls start() and stop()
  Tasks,         \* tasks, each submitted at most once
  maxqueuelen,   \* constructor argument, -1 for unbounded
  block,         \* constructor argument
  ShortCtor,     \* the pool is built without an error handler
  HandlerAborts, \* the error handler passed to the long constructor aborts
  MaxLength,     \* bound on the length of an unbounded queue
  None

ASSUME PoolAssumption ==
  /\ maxqueuelen \in Nat \cup {-1}
  /\ MaxLength \in Nat
  /\ None \notin Tasks
  /\ Workers \cap Clients = {}
  /\ Owner \notin Workers \cup Clients

VARIABLES
  queue_, length_, waiting, op, arg, ret, \* the state of queue_
  running_,
  owner,     \* where the owner is in start() / stop()
  pc,        \* where each worker is
  current,   \* the task each worker runs
  submitted, \* tasks passed to run()
  accepted,  \* tasks that run() has put into the queue
  done,      \* tasks that have returned or thrown
  due,       \* tasks accepted before stop() was called
  aborted    \* the error handler has called abort()

poolVars == <<running_, owner, pc, current, submitted, accepted, done, due,
              aborted>>
queueVars == <<queue_, length_, waiting, op, arg, ret>>
vars == <<queueVars, poolVars>>

\* What the constructor that was used passes to the queue and stores in block_:
\* the short constructor does not forward maxqueuelen and block.
queueMaxSize == IF ShortCtor THEN -1 ELSE maxqueuelen
block_ == IF ShortCtor THEN TRUE ELSE block
AbortOnException == ShortCtor \/ HandlerAborts

Users == Workers \cup Clients \cup {Owner}

Q == INSTANCE Queue
       WITH Threads <- Users, Values <- Tasks, max_size_ <- queueMaxSize

Range(s) == {s[i] : i \in DOMAIN s}

(***************************************************************************)
(* owner: "new", "started", "drain" (in waitUntilEmpty), "drained",        *)
(* "flagged" (running_ is false, wakeup() not yet called), "join",         *)
(* "stopped".  pc: "none", "test" (about to load running_), "pop" (about   *)
(* to call interruptiblePop), "popping" (in it), "task", "exit".           *)
(***************************************************************************)
TypeOK ==
  /\ Q!TypeOK
  /\ running_ \in BOOLEAN
  /\ owner \in {"new", "started", "drain", "drained", "flagged", "join", "stopped"}
  /\ pc \in [Workers -> {"none", "test", "pop", "popping", "task", "exit"}]
  /\ current \in [Workers -> Tasks \cup {None}]
  /\ submitted \in SUBSET Tasks
  /\ accepted \in SUBSET Tasks
  /\ done \in SUBSET Tasks
  /\ due \in SUBSET Tasks
  /\ aborted \in BOOLEAN

Init ==
  /\ Q!Init
  /\ running_ = FALSE
  /\ owner = "new"
  /\ pc = [w \in Workers |-> "none"]
  /\ current = [w \in Workers |-> None]
  /\ submitted = {}
  /\ accepted = {}
  /\ done = {}
  /\ due = {}
  /\ aborted = FALSE

start ==
  /\ owner = "new"
  /\ owner' = "started"
  /\ running_' = TRUE
  /\ pc' = [w \in Workers |-> "test"]
  /\ UNCHANGED <<queueVars, current, submitted, accepted, done, due, aborted>>

\* run(): queue_.insert(task, block_), from a client or from inside a task.
run(c, t) ==
  /\ c \in Clients \/ (c \in Workers /\ pc[c] = "task")
  /\ t \notin submitted
  /\ submitted' = submitted \cup {t}
  /\ Q!insert(c, t, block_)
  /\ accepted' = accepted \cup Range(queue_')
  /\ UNCHANGED <<running_, owner, pc, current, done, due, aborted>>

\* A blocked run() tests the length again.
runAgain(c) ==
  /\ Q!insertAgain(c)
  /\ accepted' = accepted \cup Range(queue_')
  /\ UNCHANGED <<running_, owner, pc, current, submitted, done, due, aborted>>

\* notify_all at the end of insert() and interruptiblePop(), spurious wakeups.
notifyAll(c) == Q!notifyAll(c) /\ UNCHANGED poolVars
spuriousWakeup(c) == Q!spuriousWakeup(c) /\ UNCHANGED poolVars

\* while (running_.load())
testRunning(w) ==
  /\ pc[w] = "test"
  /\ pc' = [pc EXCEPT ![w] = IF running_ THEN "pop" ELSE "exit"]
  /\ UNCHANGED <<queueVars, running_, owner, current, submitted, accepted, done,
                 due, aborted>>

\* queue_.interruptiblePop(): the call, and the second test after its wait.
callPop(w) ==
  /\ pc[w] = "pop"
  /\ Q!interruptiblePop(w)
  /\ pc' = [pc EXCEPT ![w] = "popping"]
  /\ UNCHANGED <<running_, owner, current, submitted, accepted, done, due, aborted>>

popAgain(w) == Q!interruptiblePopAgain(w) /\ UNCHANGED poolVars

\* Mutant: a worker that gets no job ends.
gotJob_exitOnNone(w) ==
  /\ pc[w] = "popping"
  /\ op[w] = "idle"
  /\ pc' = [pc EXCEPT ![w] = IF ret[w] = None THEN "exit" ELSE "task"]
  /\ current' = [current EXCEPT ![w] = ret[w]]
  /\ UNCHANGED <<queueVars, running_, owner, submitted, accepted, done, due, aborted>>

\* interruptiblePop() has returned: run the job, or go back to the loop test.
gotJob(w) ==
  /\ pc[w] = "popping"
  /\ op[w] = "idle"
  /\ pc' = [pc EXCEPT ![w] = IF ret[w] = None THEN "test" ELSE "task"]
  /\ current' = [current EXCEPT ![w] = ret[w]]
  /\ UNCHANGED <<queueVars, running_, owner, submitted, accepted, done, due, aborted>>

\* The task returns, or throws a std::exception that is passed to the handler.
finishTask(w) ==
  /\ pc[w] = "task"
  /\ op[w] = "idle"
  /\ pc' = [pc EXCEPT ![w] = "test"]
  /\ done' = done \cup {current[w]}
  /\ current' = [current EXCEPT ![w] = None]
  /\ aborted' = AbortOnException \/ aborted' = aborted
  /\ UNCHANGED <<queueVars, running_, owner, submitted, accepted, due>>

\* stop() is called: queue_.waitUntilEmpty() ...
stop ==
  /\ owner = "started"
  /\ owner' = "drain"
  /\ due' = accepted
  /\ UNCHANGED <<queueVars, running_, pc, current, submitted, accepted, done, aborted>>

drainQueue ==
  /\ owner = "drain"
  /\ Q!waitUntilEmpty(Owner)
  /\ owner' = IF Q!Empty THEN "drained" ELSE "drain"
  /\ UNCHANGED <<running_, pc, current, submitted, accepted, done, due, aborted>>

\* ... running_ = false ...
clearRunning ==
  /\ owner = "drained"
  /\ running_' = FALSE
  /\ owner' = "flagged"
  /\ UNCHANGED <<queueVars, pc, current, submitted, accepted, done, due, aborted>>

\* ... queue_.wakeup() ...
wakeWorkers ==
  /\ owner = "flagged"
  /\ Q!wakeup(Owner)
  /\ owner' = "join"
  /\ UNCHANGED <<running_, pc, current, submitted, accepted, done, due, aborted>>

\* Mutant: stop() joins only the workers that are not running a task.
joinWorkers_idleOnly ==
  /\ owner = "join"
  /\ \A w \in Workers : pc[w] \in {"exit", "task"}
  /\ owner' = "stopped"
  /\ UNCHANGED <<queueVars, running_, pc, current, submitted, accepted, done, due,
                 aborted>>

\* ... and t.join() for every worker.
joinWorkers ==
  /\ owner = "join"
  /\ \A w \in Workers : pc[w] = "exit"
  /\ owner' = "stopped"
  /\ UNCHANGED <<queueVars, running_, pc, current, submitted, accepted, done, due,
                 aborted>>

WorkerStep(w) ==
  \/ testRunning(w) \/ callPop(w) \/ popAgain(w) \/ gotJob(w) \/ finishTask(w)

OwnerStep == drainQueue \/ clearRunning \/ wakeWorkers \/ joinWorkers

Next ==
  /\ ~aborted
  /\ \/ start \/ stop \/ OwnerStep
     \/ \E c \in Users, t \in Tasks : run(c, t)
     \/ \E c \in Users : runAgain(c) \/ notifyAll(c) \/ spuriousWakeup(c)
     \/ \E w \in Workers : WorkerStep(w)

Spec == Init /\ [][Next]_vars

\* Threads inside the pool's code are scheduled, and tasks terminate.  Nobody is
\* obliged to call start(), stop() or run().
Fairness ==
  /\ \A w \in Workers : WF_vars(~aborted /\ WorkerStep(w))
  /\ \A c \in Users : WF_vars(~aborted /\ (runAgain(c) \/ notifyAll(c)))
  /\ WF_vars(~aborted /\ OwnerStep)

FairSpec == Spec /\ Fairness

-----------------------------------------------------------------------------
(***************************************************************************)
(* Properties                                                              *)
(***************************************************************************)

\* When stop() returns, every task that run() had accepted before stop() was
\* called has finished: none is left in the queue or still running on a worker.
StopDrains == owner = "stopped" => due \subseteq done

\* A task is in one place only: queued, handed to one worker, or done.
TaskOnce ==
  /\ \A i, j \in DOMAIN queue_ : i # j => queue_[i] # queue_[j]
  /\ \A w, v \in Workers : w # v /\ current[w] # None => current[w] # current[v]
  /\ done \cap (Range(queue_) \cup {current[w] : w \in Workers}) = {}

\* stop() waits for what was accepted before it, and each task is given to one worker.
DrainsOnce == StopDrains /\ TaskOnce

\* A task blocks in run() on the full queue, and no worker is left to make room:
\* the others are in the same position or have ended.
WorkersStuck ==
  /\ \E w \in Workers : op[w] = "insert"
  /\ \A w \in Workers : op[w] = "insert" \/ pc[w] = "exit"

\* Every task accepted before stop() is called is eventually run, even if stop()
\* itself never returns; the only way out is that tasks block the workers by
\* calling run() on the full queue.
DueTasksRun == []<>(due \subseteq done \/ aborted \/ WorkersStuck)

\* stop() returns once it is called, whatever the workers are doing.
StopReturns == (owner = "drain") ~> (owner = "stopped" \/ aborted)
=============================================================================
