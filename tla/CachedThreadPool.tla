-------------------------- MODULE CachedThreadPool --------------------------
(***************************************************************************)
(* stx::thread::ThreadPool (alias CachedThreadPool), thread/threadpool.cc. *)
(*                                                                         *)
(* Any number of threads call run(); each call pushes a task and starts a  *)
(* pool thread when the run queue is longer than the number of idle pool   *)
(* threads.  The first max_cached_threads threads loop for ever, every     *)
(* other one serves a single task and exits.                               *)
(*                                                                         *)
(* A section the code runs under runq_mutex_ is one step.  notify_one is   *)
(* called after the unlock, so it is a step of its own: a caller in        *)
(* "notifying" has queued its task and not yet notified.                   *)
(***************************************************************************)
EXTENDS Naturals, Sequences, FiniteSets

CONSTANTS
  Clients,            \* threads outside the pool that call run()
  Threads,            \* slots for the threads the OS lets the pool create
  max_cached_threads, \* ThreadPool::max_cached_threads_
  MaxTasks,           \* bound: number of calls of run()
  SpawnMayFail,       \* std::thread's constructor may throw at any time
  AbortOnException    \* CatchAndAbortExceptionHandler, else a logging handler

ASSUME PoolAssumption ==
  /\ IsFiniteSet(Threads) /\ IsFiniteSet(Clients)
  /\ Threads \cap Clients = {}
  /\ max_cached_threads \in Nat
  /\ MaxTasks \in Nat
  /\ SpawnMayFail \in BOOLEAN /\ AbortOnException \in BOOLEAN

VARIABLES
  runq_,         \* the queued tasks; a task is the number of its run() call
  free_threads_, \* std::atomic<int>, only written under runq_mutex_
  num_threads_,
  pc,            \* where each pool thread is
  cache,         \* the "cache" flag captured by each pool thread
  task,          \* the task each pool thread last took
  notifying,     \* callers of run() between the unlock and notify_one
  submitted,     \* number of run() calls so far
  kind,          \* kind[i]: which run*() function submitted task i
  failedStarts,  \* history: thread creations that threw
  aborted        \* the exception handler has called abort()

vars == <<runq_, free_threads_, num_threads_, pc, cache, task, notifying,
          submitted, kind, failedStarts, aborted>>

\* run, or a run*() wrapper whose task first blocks in select() / waitForWakeup()
Kinds == {"run", "runOnReadable", "runOnWritable", "runOnWakeup"}

(***************************************************************************)
(* Program counters of a pool thread: "none" (no such thread), "top" (head *)
(* of the do-loop, mutex not yet taken), "awake" (counted free, about to   *)
(* test the queue), "waiting" (in wakeup_.wait), "blocked" (in a wrapper's *)
(* select or waitForWakeup), "task" (in the user's task), "exit" (out of   *)
(* the loop, still counted in num_threads_).                               *)
(***************************************************************************)
PCs == {"none", "top", "awake", "waiting", "blocked", "task", "exit"}

At(label) == {t \in Threads : pc[t] = label}
Free == {t \in Threads : pc[t] \in {"awake", "waiting"}}
Live == {t \in Threads : pc[t] # "none"}
Cached == {t \in Live : cache[t]}

\* A caller of run(): a client, or a pool thread from inside its task.
Callers == (Clients \cup At("task")) \ notifying

TypeOK ==
  /\ runq_ \in Seq(Nat)
  /\ free_threads_ \in Nat
  /\ num_threads_ \in Nat
  /\ pc \in [Threads -> PCs]
  /\ cache \in [Threads -> BOOLEAN]
  /\ task \in [Threads -> Nat]
  /\ notifying \in SUBSET (Clients \cup Threads)
  /\ submitted \in Nat
  /\ kind \in [1..MaxTasks -> Kinds]
  /\ failedStarts \in Nat
  /\ aborted \in BOOLEAN

Init ==
  /\ runq_ = <<>>
  /\ free_threads_ = 0
  /\ num_threads_ = 0
  /\ pc = [t \in Threads |-> "none"]
  /\ cache = [t \in Threads |-> FALSE]
  /\ task = [t \in Threads |-> 0]
  /\ notifying = {}
  /\ submitted = 0
  /\ kind = [i \in 1..MaxTasks |-> "run"]
  /\ failedStarts = 0
  /\ aborted = FALSE

\* error_handler_->onException(e)
onException == aborted' = AbortOnException

\* startThread() when std::thread's constructor returns.
startThreadOk ==
  /\ \E t \in At("none") :
       /\ pc' = [pc EXCEPT ![t] = "top"]
       /\ cache' = [cache EXCEPT ![t] = num_threads_ + 1 <= max_cached_threads]
  /\ UNCHANGED <<failedStarts, aborted>>

\* startThread() when it throws: num_threads_ keeps its increment.
startThreadFails ==
  /\ SpawnMayFail \/ At("none") = {}
  /\ failedStarts' = failedStarts + 1
  /\ onException
  /\ UNCHANGED <<pc, cache>>

startThread ==
  /\ num_threads_' = num_threads_ + 1
  /\ startThreadOk \/ startThreadFails

\* run(), and runOnReadable/runOnWritable/runOnWakeup which call it with a wrapper.
run(c, k) ==
  /\ c \in Callers
  /\ submitted < MaxTasks
  /\ submitted' = submitted + 1
  /\ kind' = [kind EXCEPT ![submitted + 1] = k]
  /\ runq_' = Append(runq_, submitted + 1)
  /\ IF Len(runq_') > free_threads_
     THEN startThread
     ELSE UNCHANGED <<num_threads_, pc, cache, failedStarts, aborted>>
  /\ notifying' = notifying \cup {c}
  /\ UNCHANGED <<free_threads_, task>>

\* wakeup_.notify_one() at the end of run().
notifyOne(c) ==
  /\ c \in notifying
  /\ notifying' = notifying \ {c}
  /\ IF At("waiting") = {}
     THEN UNCHANGED pc
     ELSE \E t \in At("waiting") : pc' = [pc EXCEPT ![t] = "awake"]
  /\ UNCHANGED <<runq_, free_threads_, num_threads_, cache, task, submitted,
                 kind, failedStarts, aborted>>

\* A condition variable may return without a notification.
spuriousWakeup(t) ==
  /\ pc[t] = "waiting"
  /\ pc' = [pc EXCEPT ![t] = "awake"]
  /\ UNCHANGED <<runq_, free_threads_, num_threads_, cache, task, notifying,
                 submitted, kind, failedStarts, aborted>>

\* Mutant: the task is copied from front() and never popped.
takeTask_noPop(t) ==
  /\ runq_ # <<>>
  /\ pc' = [pc EXCEPT ![t] =
              IF kind[Head(runq_)] = "run" THEN "task" ELSE "blocked"]
  /\ task' = [task EXCEPT ![t] = Head(runq_)]
  /\ UNCHANGED runq_

\* front() and pop_front(), then the task is called with the mutex released.
takeTask(t) ==
  /\ runq_ # <<>>
  /\ pc' = [pc EXCEPT ![t] =
              IF kind[Head(runq_)] = "run" THEN "task" ELSE "blocked"]
  /\ task' = [task EXCEPT ![t] = Head(runq_)]
  /\ runq_' = Tail(runq_)

\* Mutant: do { wait } while: the thread sleeps before it has tested the queue.
waitForTask_noTest(t) ==
  /\ pc' = [pc EXCEPT ![t] = "waiting"]
  /\ UNCHANGED <<runq_, task>>

\* while (runq_.size() == 0) wakeup_.wait(lk)
waitForTask(t) ==
  /\ runq_ = <<>>
  /\ pc' = [pc EXCEPT ![t] = "waiting"]
  /\ UNCHANGED <<runq_, task>>

\* Loop head: lock, free_threads_++, then the first test of the queue; a thread
\* that finds a task takes it and does free_threads_-- in the same section.
enterLoop(t) ==
  /\ pc[t] = "top"
  /\ \/ waitForTask(t) /\ free_threads_' = free_threads_ + 1
     \/ takeTask(t) /\ UNCHANGED free_threads_
  /\ UNCHANGED <<num_threads_, cache, notifying, submitted, kind,
                 failedStarts, aborted>>

\* Mutant: a thread that was woken takes its task without free_threads_--.
recheck_noDecrement(t) ==
  /\ pc[t] = "awake"
  /\ waitForTask(t) \/ takeTask(t)
  /\ UNCHANGED <<free_threads_, num_threads_, cache, notifying, submitted,
                 kind, failedStarts, aborted>>

\* Back from wakeup_.wait with the mutex: the while-loop tests the queue again.
recheck(t) ==
  /\ pc[t] = "awake"
  /\ \/ waitForTask(t) /\ UNCHANGED free_threads_
     \/ takeTask(t) /\ free_threads_' = free_threads_ - 1
  /\ UNCHANGED <<num_threads_, cache, notifying, submitted, kind,
                 failedStarts, aborted>>

\* The wrapper's select() or waitForWakeup() returns and the task is called.
unblock(t) ==
  /\ pc[t] = "blocked"
  /\ pc' = [pc EXCEPT ![t] = "task"]
  /\ UNCHANGED <<runq_, free_threads_, num_threads_, cache, task, notifying,
                 submitted, kind, failedStarts, aborted>>

\* The bottom of the do-loop: while (cache).
loopOrExit(t) == pc' = [pc EXCEPT ![t] = IF cache[t] THEN "top" ELSE "exit"]

\* select() fails or times out: RAISE, caught by the pool thread's handler.
selectRaises(t) ==
  /\ pc[t] = "blocked"
  /\ kind[task[t]] # "runOnWakeup"
  /\ loopOrExit(t)
  /\ onException
  /\ UNCHANGED <<runq_, free_threads_, num_threads_, cache, task, notifying,
                 submitted, kind, failedStarts>>

\* The task returns, or throws a std::exception that the pool thread catches.
finishTask(t) ==
  /\ pc[t] = "task"
  /\ t \notin notifying
  /\ loopOrExit(t)
  /\ onException \/ UNCHANGED aborted
  /\ UNCHANGED <<runq_, free_threads_, num_threads_, cache, task, notifying,
                 submitted, kind, failedStarts>>

\* Mutant: the thread ends without --num_threads_.
exitThread_keepsCount(t) ==
  /\ pc[t] = "exit"
  /\ pc' = [pc EXCEPT ![t] = "none"]
  /\ UNCHANGED <<runq_, free_threads_, num_threads_, cache, task, notifying,
                 submitted, kind, failedStarts, aborted>>

\* After the loop: lock, --num_threads_, the thread ends.
exitThread(t) ==
  /\ pc[t] = "exit"
  /\ pc' = [pc EXCEPT ![t] = "none"]
  /\ num_threads_' = num_threads_ - 1
  /\ UNCHANGED <<runq_, free_threads_, cache, task, notifying, submitted, kind,
                 failedStarts, aborted>>

Next ==
  /\ ~aborted
  /\ \/ \E c \in Clients \cup Threads, k \in Kinds : run(c, k)
     \/ \E c \in Clients \cup Threads : notifyOne(c)
     \/ \E t \in Threads :
          \/ spuriousWakeup(t) \/ enterLoop(t) \/ recheck(t) \/ unblock(t)
          \/ selectRaises(t) \/ finishTask(t) \/ exitThread(t)

Spec == Init /\ [][Next]_vars

(***************************************************************************)
(* A thread that waits for runq_mutex_ gets it, and a caller that has      *)
(* released it goes on to notify.  Nothing is assumed of the tasks: they   *)
(* may block for ever.                                                     *)
(***************************************************************************)
Fairness ==
  /\ \A t \in Threads : WF_vars(enterLoop(t)) /\ WF_vars(recheck(t))
  /\ \A c \in Clients \cup Threads : WF_vars(notifyOne(c))

FairSpec == Spec /\ Fairness

-----------------------------------------------------------------------------
(***************************************************************************)
(* Properties                                                              *)
(***************************************************************************)

\* free_threads_ is the number of pool threads waiting for a task, and
\* num_threads_ the number of live pool threads plus one for every thread
\* creation that threw: startThread() never takes its increment back.
Accounting ==
  /\ free_threads_ = Cardinality(Free)
  /\ num_threads_ = Cardinality(Live) + failedStarts

\* Tasks start in the order of the run() calls and no task is given to two
\* threads: the queue is exactly the last Len(runq_) tasks submitted.
StartedInOrder ==
  /\ \A i \in 1..Len(runq_) : runq_[i] + Len(runq_) = submitted + i
  /\ \A t \in Threads : task[t] + Len(runq_) <= submitted
  /\ \A t, u \in Threads : t # u /\ task[t] # 0 => task[t] # task[u]

\* The test "runq_.size() > free_threads_" in run() keeps a thread for every
\* queued task: one that is idle or on its way to the queue, or one whose
\* creation failed and was reported.
ThreadReserved ==
  Len(runq_) <= free_threads_ + Cardinality(At("top")) + failedStarts

\* No wakeup is lost although notify_one follows the unlock: while a pool thread
\* sleeps, every queued task has a thread that is about to test the queue or a
\* caller that is about to notify.
NoLostWakeup ==
  At("waiting") # {} =>
    Len(runq_) <= Cardinality(At("awake")) + Cardinality(At("top"))
                    + Cardinality(notifying)

\* A queued task that nobody is about to look at is one whose thread could not be
\* created, while every live thread is busy.
NoStrandedTask ==
  runq_ # <<>> /\ At("awake") = {} /\ At("top") = {} /\ notifying = {} =>
    At("waiting") = {} /\ Len(runq_) <= failedStarts

\* At most max_cached_threads_ pool threads live for ever.
CachedBound == Cardinality(Cached) <= max_cached_threads

\* The counters are exact, and no task waits while a thread that would take it sleeps.
WorkersSafe == Accounting /\ NoLostWakeup /\ NoStrandedTask

\* Every task handed to run() is started, even if the tasks started before it
\* block for ever, unless a thread could not be created or an exception handler
\* aborts the process.
EveryTaskStarts ==
  []<>(\A i \in 1..MaxTasks :
         i <= submitted => aborted \/ failedStarts > 0 \/ \A j \in DOMAIN runq_ : runq_[j] # i)

=============================================================================
