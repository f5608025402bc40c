------------------------------ MODULE ThreadPool ------------------------------
(***************************************************************************)
(* stx::ThreadPool, executor/ThreadPool.cc: a Scheduler whose timers and   *)
(* file descriptor watchers are tasks that block a worker.  One mutex and  *)
(* one condition variable serve the workers and the callers of wait(); the *)
(* flag and the counters the waits test are written without that mutex, so *)
(* a waiting thread tests its predicate and blocks in two steps here.      *)
(***************************************************************************)
EXTENDS Integers, Sequences, FiniteSets

CONSTANTS
  Workers,     \* threads_
  Jobs,        \* calls of the scheduler's operations, one thread each
  Kinds,       \* what the jobs are: functions from Jobs to "task", "after", "at",
               \* "reader", "writer" and "wakeup"
  Callers,     \* threads that call wait() or runLoop()
  Nobody

VARIABLES
  kind,          \* which operation each job is, fixed at the start
  active_,
  mutex_,        \* who holds it
  pendingTasks_,
  activeTasks_,
  active,        \* activeTimers_, activeReaders_ and activeWriters_
  pc,            \* where each worker is
  current,       \* the job each worker has
  job,           \* how far each call has come
  cancelled,     \* isCancelled_ of the handles
  caller,        \* where each caller of wait() is
  done,          \* jobs a worker has finished
  raised,        \* watchers whose select() failed
  stopper        \* where the destructor is

poolVars == <<pc, current, active_, activeTasks_>>
vars == <<kind, active_, mutex_, pendingTasks_, activeTasks_, active, pc, current, job, cancelled,
          caller, done, raised, stopper>>

Counter(j) ==
  CASE kind[j] = "reader" -> "readers" [] kind[j] = "writer" -> "writers" [] OTHER -> "timers"
Counted(j) == kind[j] # "task"

Init ==
  /\ kind \in Kinds
  /\ active_ = TRUE
  /\ mutex_ = Nobody
  /\ pendingTasks_ = <<>>
  /\ activeTasks_ = 0
  /\ active = [c \in {"timers", "readers", "writers"} |-> 0]
  /\ pc = [w \in Workers |-> "top"]
  /\ current = [w \in Workers |-> Nobody]
  /\ job = [j \in Jobs |-> "new"]
  /\ cancelled = {}
  /\ caller = [p \in Callers |-> "out"]
  /\ done = {}
  /\ raised = {}
  /\ stopper = "out"

\* condition_.notify_all()
notify_all ==
  /\ pc' = [w \in Workers |-> IF pc[w] = "waiting" THEN "woken" ELSE pc[w]]
  /\ caller' = [p \in Callers |-> IF caller[p] = "waiting" THEN "woken" ELSE caller[p]]

-----------------------------------------------------------------------------
(* The scheduler's operations.  A job is "new", "counted" (its counter is  *)
(* raised), "armed" (registered with a wakeup), "queued" (notify_all due), *)
(* "discount" (a wakeup's counter has to be lowered) and "returned".       *)

count(j, to) ==
  /\ job[j] = "new"
  /\ job' = [job EXCEPT ![j] = to]
  /\ active' = [active EXCEPT ![Counter(j)] = @ + 1]
  /\ UNCHANGED <<mutex_, pendingTasks_, poolVars, cancelled, caller, done, raised, stopper>>

executeOnReadable(j) == kind[j] = "reader" /\ count(j, "counted")
executeOnWritable(j) == kind[j] = "writer" /\ count(j, "counted")
executeAfter(j) == kind[j] = "after" /\ count(j, "counted")
executeAt(j) == kind[j] = "at" /\ count(j, "counted")
executeOnWakeup(j) == kind[j] = "wakeup" /\ count(j, "armed")

\* execute(): the task is queued under the mutex ...
execute(j) ==
  /\ job[j] \in {"counted", "armed"} \/ (job[j] = "new" /\ kind[j] = "task")
  /\ mutex_ = Nobody
  /\ job' = [job EXCEPT ![j] = "queued"]
  /\ pendingTasks_' = Append(pendingTasks_, j)
  /\ UNCHANGED <<mutex_, poolVars, active, cancelled, caller, done, raised, stopper>>

\* Mutant: execute() does not notify.
executeNotify_silent(j) ==
  /\ job[j] = "queued"
  /\ job' = [job EXCEPT ![j] = IF kind[j] = "wakeup" THEN "discount" ELSE "returned"]
  /\ UNCHANGED <<mutex_, pendingTasks_, poolVars, active, cancelled, caller, done, raised, stopper>>

\* ... and condition_.notify_all() follows the unlock.
executeNotify(j) ==
  /\ job[j] = "queued"
  /\ job' = [job EXCEPT ![j] = IF kind[j] = "wakeup" THEN "discount" ELSE "returned"]
  /\ notify_all
  /\ UNCHANGED <<mutex_, pendingTasks_, active_, activeTasks_, current, active, cancelled,
                 done, raised, stopper>>

\* The wakeup's callback lowers the counter behind execute().
onWakeupDone(j) ==
  /\ job[j] = "discount"
  /\ job' = [job EXCEPT ![j] = "returned"]
  /\ active' = [active EXCEPT !["timers"] = @ - 1]
  /\ UNCHANGED <<mutex_, pendingTasks_, poolVars, cancelled, caller, done, raised, stopper>>

\* Mutant: cancel() does not take the handle's mutex.
cancel_unlocked(j) ==
  /\ job[j] = "returned" /\ kind[j] \in {"writer", "after", "at"} /\ j \notin cancelled
  /\ cancelled' = cancelled \cup {j}
  /\ UNCHANGED <<mutex_, pendingTasks_, poolVars, active, job, caller, done, raised, stopper>>

\* Handle::cancel, with the handle's mutex, which fire() holds while the task runs;
\* executeOnReadable() returns no handle.
cancel(j) ==
  /\ job[j] = "returned" /\ kind[j] \in {"writer", "after", "at"} /\ j \notin cancelled
  /\ \A w \in Workers : current[w] = j => pc[w] # "firing"
  /\ cancelled' = cancelled \cup {j}
  /\ UNCHANGED <<mutex_, pendingTasks_, poolVars, active, job, caller, done, raised, stopper>>

-----------------------------------------------------------------------------
(* work().                                                                 *)

goto(w, to) == pc' = [pc EXCEPT ![w] = to]
bodyVars == <<mutex_, pendingTasks_, active_, current, job, cancelled, caller, stopper>>

\* while (active_); then, with the mutex, the predicate of condition_.wait(), the
\* test of active_ and the task taken.
workTest(w) ==
  \/ /\ ~active_ /\ goto(w, "exit")
     /\ UNCHANGED <<mutex_, pendingTasks_, current>>
  \/ /\ active_ /\ pendingTasks_ # <<>>
     /\ goto(w, "taken")
     /\ current' = [current EXCEPT ![w] = Head(pendingTasks_)]
     /\ pendingTasks_' = Tail(pendingTasks_)
     /\ UNCHANGED mutex_
  \/ /\ active_ /\ pendingTasks_ = <<>>
     /\ goto(w, "blocking") /\ mutex_' = w
     /\ UNCHANGED <<pendingTasks_, current>>

workTop(w) ==
  /\ pc[w] \in {"top", "woken"}
  /\ mutex_ = Nobody \/ (pc[w] = "top" /\ ~active_)
  /\ workTest(w)
  /\ UNCHANGED <<active_, activeTasks_, active, job, cancelled, caller, done, raised, stopper>>

workBlock(w) ==
  /\ pc[w] = "blocking" /\ goto(w, "waiting") /\ mutex_' = Nobody
  /\ UNCHANGED <<pendingTasks_, active_, activeTasks_, active, current, job, cancelled, caller,
                 done, raised, stopper>>

\* activeTasks_++, after the mutex was released.
workStart(w) ==
  /\ pc[w] = "taken" /\ goto(w, "body")
  /\ activeTasks_' = activeTasks_ + 1
  /\ UNCHANGED <<bodyVars, active, done, raised>>

\* The task itself, or a watcher's or a timer's wrapper: select() or usleep() ...
runTask(w) ==
  /\ pc[w] = "body" /\ kind[current[w]] \in {"task", "wakeup"}
  /\ goto(w, "ended") /\ done' = done \cup {current[w]}
  /\ UNCHANGED <<bodyVars, activeTasks_, active, raised>>

usleep(w) ==
  /\ pc[w] = "body" /\ kind[current[w]] \in {"after", "at"}
  /\ goto(w, "fire")
  /\ UNCHANGED <<bodyVars, activeTasks_, active, done, raised>>

\* select() returns, or fails and raises past the wrapper's counter.
waitForFD(w) ==
  /\ pc[w] = "body"
  /\ \/ goto(w, "fire") /\ UNCHANGED <<done, raised>>
     \/ /\ goto(w, "ended")
        /\ done' = done \cup {current[w]} /\ raised' = raised \cup {current[w]}
  /\ UNCHANGED <<bodyVars, activeTasks_, active>>
waitForReadable(w) == current[w] # Nobody /\ kind[current[w]] = "reader" /\ waitForFD(w)
waitForWritable(w) == current[w] # Nobody /\ kind[current[w]] = "writer" /\ waitForFD(w)

\* ... Handle::fire, which holds the handle's mutex over the task ...
fire(w) ==
  /\ pc[w] = "fire"
  /\ goto(w, IF current[w] \in cancelled THEN "discount" ELSE "firing")
  /\ UNCHANGED <<bodyVars, activeTasks_, active, done, raised>>

\* ... which returns or throws into safeCall() ...
safeCall(w) ==
  /\ pc[w] = "firing" /\ goto(w, "discount")
  /\ UNCHANGED <<bodyVars, activeTasks_, active, done, raised>>

\* ... and the counter.
discount(w) ==
  /\ pc[w] = "discount" /\ goto(w, "ended")
  /\ active' = [active EXCEPT ![Counter(current[w])] = @ - 1]
  /\ done' = done \cup {current[w]}
  /\ UNCHANGED <<bodyVars, activeTasks_, raised>>

\* activeTasks_-- and notify_all(), without the mutex.
workEnd(w) ==
  /\ pc[w] = "ended" /\ goto(w, "notify")
  /\ activeTasks_' = activeTasks_ - 1
  /\ UNCHANGED <<bodyVars, active, done, raised>>

workNotify(w) ==
  /\ pc[w] = "notify"
  /\ pc' = [v \in Workers |-> IF v = w THEN "top" ELSE IF pc[v] = "waiting" THEN "woken" ELSE pc[v]]
  /\ caller' = [p \in Callers |-> IF caller[p] = "waiting" THEN "woken" ELSE caller[p]]
  /\ current' = [current EXCEPT ![w] = Nobody]
  /\ UNCHANGED <<mutex_, pendingTasks_, active_, activeTasks_, active, job, cancelled, done,
                 raised, stopper>>

work(w) ==
  \/ workTop(w) \/ workBlock(w) \/ workStart(w) \/ runTask(w)
  \/ usleep(w) \/ fire(w) \/ safeCall(w) \/ discount(w) \/ workEnd(w) \/ workNotify(w)

-----------------------------------------------------------------------------
(* wait(), runLoop(), breakLoop() and the destructor.                      *)

Quiet == pendingTasks_ = <<>> /\ activeTasks_ = 0
waitVars == <<pendingTasks_, poolVars, active, job, cancelled, done, raised, stopper>>

\* wait(), called by its user or by runLoop(), with the mutex.  A woken caller tests
\* again.
waitTest(p) ==
  /\ caller[p] \in {"out", "woken"} /\ mutex_ = Nobody
  /\ \/ Quiet /\ caller' = [caller EXCEPT ![p] = "returned"] /\ UNCHANGED mutex_
     \/ ~Quiet /\ caller' = [caller EXCEPT ![p] = "blocking"] /\ mutex_' = p
  /\ UNCHANGED waitVars

waitBlock(p) ==
  /\ caller[p] = "blocking"
  /\ caller' = [caller EXCEPT ![p] = "waiting"] /\ mutex_' = Nobody
  /\ UNCHANGED waitVars

\* runLoop() calls runLoopOnce(), which is wait(), again while one of the four
\* counts is zero.
runLoop(p) ==
  /\ caller[p] = "returned"
  /\ activeTasks_ = 0 \/ \E c \in DOMAIN active : active[c] = 0
  /\ caller' = [caller EXCEPT ![p] = "out"]
  /\ UNCHANGED <<waitVars, mutex_>>

breakLoop ==
  /\ \E p \in Callers : caller[p] = "waiting"
  /\ notify_all
  /\ UNCHANGED <<mutex_, pendingTasks_, active_, activeTasks_, current, active, job, cancelled,
                 done, raised, stopper>>

\* stop(), called by the destructor, and its notify_all().
stop ==
  /\ stopper = "out" /\ stopper' = "flagged" /\ active_' = FALSE
  /\ UNCHANGED <<mutex_, pendingTasks_, activeTasks_, active, pc, current, job, cancelled, caller,
                 done, raised>>

stopNotify ==
  /\ stopper = "flagged" /\ stopper' = "joining" /\ notify_all
  /\ UNCHANGED <<mutex_, pendingTasks_, active_, activeTasks_, active, current, job, cancelled,
                 done, raised>>

join ==
  /\ stopper = "joining" /\ \A w \in Workers : pc[w] = "exit"
  /\ stopper' = "joined"
  /\ UNCHANGED <<mutex_, pendingTasks_, poolVars, active, job, cancelled, caller, done, raised>>

-----------------------------------------------------------------------------
Next ==
  /\ UNCHANGED kind
  /\ \/ \E j \in Jobs :
          \/ executeOnReadable(j) \/ executeOnWritable(j) \/ executeAfter(j) \/ executeAt(j)
          \/ executeOnWakeup(j) \/ execute(j) \/ executeNotify(j) \/ onWakeupDone(j) \/ cancel(j)
     \/ \E w \in Workers : work(w) \/ waitForReadable(w) \/ waitForWritable(w)
     \/ \E p \in Callers : waitTest(p) \/ waitBlock(p) \/ runLoop(p)
     \/ breakLoop \/ stop \/ stopNotify \/ join

Spec == Init /\ [][Next]_vars

\* Threads inside the pool's code are scheduled and usleep() and the tasks end; a
\* worker that waits for the mutex gets it while others take and release it.  Nobody
\* has to call an operation, and no file descriptor has to become ready.
Fairness ==
  /\ \A w \in Workers : WF_vars(UNCHANGED kind /\ work(w)) /\ SF_vars(UNCHANGED kind /\ workTop(w))
  /\ \A j \in Jobs : WF_vars(UNCHANGED kind /\ executeNotify(j))
  /\ \A p \in Callers : WF_vars(UNCHANGED kind /\ waitBlock(p))

FairSpec == Spec /\ Fairness

-----------------------------------------------------------------------------
\* A queued job is in one place only, queued or with one worker; the task counter
\* is the number of workers in a task; a timer or watcher is counted until its task
\* has run or was skipped, and for ever when select() failed; and a task does not
\* run while cancel() has returned for it.
PoolSafe ==
  LET holding == {w \in Workers : pc[w] \in {"body", "fire", "firing", "discount", "ended"}}
      outstanding(c) == {j \in Jobs : /\ Counted(j) /\ Counter(j) = c /\ job[j] # "new"
                                      /\ IF kind[j] = "wakeup" THEN job[j] # "returned"
                                         ELSE j \notin done \ raised}
  IN /\ \A i, k \in DOMAIN pendingTasks_ : i # k => pendingTasks_[i] # pendingTasks_[k]
     /\ \A w, v \in Workers : current[w] # Nobody /\ w # v => current[w] # current[v]
     /\ \A w \in Workers, i \in DOMAIN pendingTasks_ : current[w] # pendingTasks_[i]
     /\ \A i \in DOMAIN pendingTasks_ : pendingTasks_[i] \notin done
     /\ activeTasks_ = Cardinality(holding)
     /\ \A c \in DOMAIN active : active[c] = Cardinality(outstanding(c))
     /\ \A w \in Workers : pc[w] = "firing" => current[w] \notin cancelled

\* Every worker is blocked in select() for a file descriptor.
WorkersBlocked ==
  \A w \in Workers : pc[w] = "body" /\ kind[current[w]] \in {"reader", "writer"}

\* A queued job is taken, unless the pool is stopped or watchers hold all workers.
PoolServes ==
  \A j \in Jobs : []<>((\E i \in DOMAIN pendingTasks_ : pendingTasks_[i] = j)
                         => ~active_ \/ WorkersBlocked)
=============================================================================
