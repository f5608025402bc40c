----------------------------- MODULE EventLoop -----------------------------
(***************************************************************************)
(* stx::thread::EventLoop, thread/eventloop.cc: one thread that waits in   *)
(* select() and runs callbacks of file descriptors and queued tasks.       *)
(* Other threads reach it through runq_ and a pipe; callbacks and tasks    *)
(* call the loop's methods from inside it.                                 *)
(*                                                                         *)
(* Only the loop's thread touches the descriptor sets and callbacks_, so   *)
(* the steps of other threads are the push to runq_ under runq_mutex_ and  *)
(* the write to the pipe.                                                  *)
(***************************************************************************)
EXTENDS Integers, Sequences, FiniteSets

CONSTANTS
  Others,        \* threads other than the loop's
  FDs,           \* file descriptors, numbers
  Callbacks,     \* tasks passed to runOnReadable or runOnWritable, each once
  Tasks,         \* tasks passed to run or runAsync, each once
  MaxCancels,    \* bound on the calls of cancelFD
  PipeCapacity,  \* bytes the pipe holds before write() blocks
  TasksMayThrow, \* may a task or a callback throw?
  None

ASSUME EventLoopAssumption ==
  /\ FDs \subseteq Nat
  /\ MaxCancels \in Nat
  /\ PipeCapacity \in Nat \ {0}
  /\ TasksMayThrow \in BOOLEAN
  /\ None \notin Callbacks \cup ({"read", "write"} \X FDs)

VARIABLES
  op_read_, op_write_,
  callbacks_,
  num_fds_,   \* size_t, only compared with 0: below 0 stands for a wrapped value
  running_,
  runq_,
  pipe,       \* bytes in the wakeup pipe
  lpc,        \* where the loop's thread is
  back,       \* where user code on the loop's thread returns to
  mode,       \* "run" or "runOnce"
  tasks,      \* onRunQWakeup()'s local list
  snapR, snapW, \* what select() returned and poll() has still to serve
  pc,         \* where each other thread is
  done,       \* threads whose cancelFD() closure has run
  cancels,    \* number of cancelFD() calls
  reg,        \* history: kind and descriptor each callback was registered for
  installed,  \* history: callbacks whose registration has been executed
  revoked,    \* history: callbacks whose descriptor was cancelled afterwards
  selected,   \* history: callbacks whose event select() has reported
  fired,      \* history: how often each callback ran
  early,      \* history: callbacks that ran without their event
  queued,     \* history: tasks in the order they were pushed to runq_
  ran,        \* history: tasks from runq_ in the order they ran
  threw,      \* history: user code has thrown
  misused     \* history: a descriptor had two registrations at a time, or was
              \* cancelled while poll() was about to serve it

fdVars == <<op_read_, op_write_, callbacks_, num_fds_, installed, revoked>>
queueVars == <<runq_, pipe, queued>>
pollVars == <<tasks, snapR, snapW>>
fireVars == <<selected, fired, early>>
vars == <<fdVars, queueVars, pollVars, fireVars, running_, lpc, back, mode, pc, done,
          cancels, reg, ran, threw, misused>>

Kinds == {"read", "write"}

\* What is pushed to runq_: a task, or a call that another thread hands to the loop's.
Closures == [what : {"task"}, task : Tasks]
              \cup [what : Kinds, fd : FDs, cb : Callbacks]
              \cup [what : {"cancel"}, fd : FDs, by : Others]

(***************************************************************************)
(* lpc: "out" (not in run or runOnce), "test" (loop condition), "select",  *)
(* "drain" (read of the pipe), "splice", "tasks", "scan" (the loop over    *)
(* the descriptors), "user" (in a task or callback), "wake" (user code in  *)
(* wakeup()).  pc: "idle", "wake", "cancelWake", "cancelWait".             *)
(***************************************************************************)
TypeOK ==
  /\ op_read_ \in SUBSET FDs /\ op_write_ \in SUBSET FDs
  /\ callbacks_ \in [FDs -> Callbacks \cup {None}]
  /\ num_fds_ \in Int
  /\ running_ \in BOOLEAN
  /\ runq_ \in Seq(Closures) /\ tasks \in Seq(Closures)
  /\ pipe \in 0..PipeCapacity
  /\ lpc \in {"out", "test", "select", "drain", "splice", "tasks", "scan", "user", "wake"}
  /\ back \in {"out", "tasks", "scan"}
  /\ mode \in {"run", "runOnce"}
  /\ snapR \in SUBSET FDs /\ snapW \in SUBSET FDs
  /\ pc \in [Others -> {"idle", "wake", "cancelWake", "cancelWait"}]
  /\ done \in SUBSET Others
  /\ cancels \in 0..MaxCancels
  /\ reg \in [Callbacks -> (Kinds \X FDs) \cup {None}]
  /\ fired \in [Callbacks -> Nat]
  /\ {installed, revoked, selected, early} \subseteq SUBSET Callbacks
  /\ queued \in Seq(Tasks) /\ ran \in Seq(Tasks)
  /\ {threw, misused} \subseteq BOOLEAN

Init ==
  /\ op_read_ = {} /\ op_write_ = {}
  /\ callbacks_ = [fd \in FDs |-> None]
  /\ num_fds_ = 0
  /\ running_ = TRUE
  /\ runq_ = <<>> /\ tasks = <<>>
  /\ pipe = 0
  /\ lpc = "out" /\ back = "out" /\ mode = "run"
  /\ snapR = {} /\ snapW = {}
  /\ pc = [t \in Others |-> "idle"]
  /\ done = {}
  /\ cancels = 0
  /\ reg = [c \in Callbacks |-> None]
  /\ installed = {} /\ revoked = {} /\ selected = {} /\ early = {}
  /\ fired = [c \in Callbacks |-> 0]
  /\ queued = <<>> /\ ran = <<>>
  /\ threw = FALSE /\ misused = FALSE

-----------------------------------------------------------------------------
(***************************************************************************)
(* What the methods do on the loop's thread                                *)
(***************************************************************************)

\* Mutant: runOnWritable() sets the bit of runOnReadable().
setFD_readOnly(kind, fd, c) ==
  /\ op_read_' = op_read_ \cup {fd}
  /\ num_fds_' = num_fds_ + 1
  /\ callbacks_' = [callbacks_ EXCEPT ![fd] = c]
  /\ installed' = installed \cup {c}
  /\ UNCHANGED <<op_write_, revoked>>

\* runOnReadable(), runOnWritable(): the part after the thread test.
setFD(kind, fd, c) ==
  /\ op_read_' = IF kind = "read" THEN op_read_ \cup {fd} ELSE op_read_
  /\ op_write_' = IF kind = "write" THEN op_write_ \cup {fd} ELSE op_write_
  /\ num_fds_' = num_fds_ + 1
  /\ callbacks_' = [callbacks_ EXCEPT ![fd] = c]
  /\ installed' = installed \cup {c}
  /\ UNCHANGED revoked

\* Mutant: the callback stays in its slot.
clearFD_keepsCallback(fd) ==
  /\ num_fds_' = IF fd \in op_read_ \cup op_write_ THEN num_fds_ - 1 ELSE num_fds_
  /\ op_read_' = op_read_ \ {fd}
  /\ op_write_' = op_write_ \ {fd}
  /\ revoked' = revoked \cup {c \in installed : reg[c][2] = fd}
  /\ misused' = (misused \/ fd \in snapR \cup snapW)
  /\ UNCHANGED <<callbacks_, installed>>

\* Mutant: counts down although nothing is registered.
clearFD_alwaysCounts(fd) ==
  /\ num_fds_' = num_fds_ - 1
  /\ op_read_' = op_read_ \ {fd}
  /\ op_write_' = op_write_ \ {fd}
  /\ callbacks_' = [callbacks_ EXCEPT ![fd] = None]
  /\ revoked' = revoked \cup {c \in installed : reg[c][2] = fd}
  /\ misused' = (misused \/ fd \in snapR \cup snapW)
  /\ UNCHANGED installed

\* cancelFD(): the part after the thread test.
clearFD(fd) ==
  /\ num_fds_' = IF fd \in op_read_ \cup op_write_ THEN num_fds_ - 1 ELSE num_fds_
  /\ op_read_' = op_read_ \ {fd}
  /\ op_write_' = op_write_ \ {fd}
  /\ callbacks_' = [callbacks_ EXCEPT ![fd] = None]
  /\ revoked' = revoked \cup {c \in installed : reg[c][2] = fd}
  /\ misused' = (misused \/ fd \in snapR \cup snapW)
  /\ UNCHANGED installed

\* A callback is registered for an event of a descriptor, once.
register(kind, fd, c) ==
  /\ reg[c] = None
  /\ reg' = [reg EXCEPT ![c] = <<kind, fd>>]
  /\ misused' = (misused \/ \E d \in Callbacks \ revoked :
                              reg[d] # None /\ reg[d][2] = fd /\ fired[d] = 0)

\* appendToRunQ(): the push; the write to the pipe follows.
push(job) == runq_' = Append(runq_, job) /\ UNCHANGED pipe

Submittable(k) == \A i \in DOMAIN queued : queued[i] # k

-----------------------------------------------------------------------------
(***************************************************************************)
(* Other threads                                                           *)
(***************************************************************************)
othersOnly == <<fdVars, pollVars, fireVars, lpc, back, mode, ran, threw, misused>>

\* Mutant: appendToRunQ() without wakeup().
pushTask_noWakeup(t, k) ==
  /\ pc[t] = "idle"
  /\ Submittable(k)
  /\ push([what |-> "task", task |-> k])
  /\ queued' = Append(queued, k)
  /\ UNCHANGED <<othersOnly, pc, running_, done, cancels, reg>>

\* run(task) and runAsync(task) from another thread, also for runOnWakeup().
pushTask(t, k) ==
  /\ pc[t] = "idle"
  /\ Submittable(k)
  /\ push([what |-> "task", task |-> k])
  /\ queued' = Append(queued, k)
  /\ pc' = [pc EXCEPT ![t] = "wake"]
  /\ UNCHANGED <<othersOnly, running_, done, cancels, reg>>

\* runOnReadable() and runOnWritable() from another thread.
pushRegistration(t, kind, fd, c) ==
  /\ pc[t] = "idle"
  /\ register(kind, fd, c)
  /\ push([what |-> kind, fd |-> fd, cb |-> c])
  /\ pc' = [pc EXCEPT ![t] = "wake"]
  /\ UNCHANGED <<fdVars, pollVars, fireVars, lpc, back, mode, ran, threw, running_, done,
                 cancels, queued>>

\* cancelFD() from another thread.
pushCancel(t, fd) ==
  /\ pc[t] = "idle"
  /\ cancels < MaxCancels
  /\ cancels' = cancels + 1
  /\ push([what |-> "cancel", fd |-> fd, by |-> t])
  /\ pc' = [pc EXCEPT ![t] = "cancelWake"]
  /\ UNCHANGED <<othersOnly, running_, done, reg, queued>>

\* Mutant: shutdown() without wakeup().
shutdown_noWakeup(t) ==
  /\ pc[t] = "idle"
  /\ running_
  /\ running_' = FALSE
  /\ UNCHANGED <<othersOnly, queueVars, pc, done, cancels, reg>>

\* shutdown()
shutdown(t) ==
  /\ pc[t] = "idle"
  /\ running_
  /\ running_' = FALSE
  /\ pc' = [pc EXCEPT ![t] = "wake"]
  /\ UNCHANGED <<othersOnly, queueVars, done, cancels, reg>>

\* Mutant: cancelFD() waits before the byte is in the pipe.
writePipe_notForCancel(t) ==
  /\ pc[t] \in {"wake", "cancelWake"}
  /\ pipe < PipeCapacity
  /\ pipe' = IF pc[t] = "wake" THEN pipe + 1 ELSE pipe
  /\ pc' = [pc EXCEPT ![t] = IF @ = "wake" THEN "idle" ELSE "cancelWait"]
  /\ UNCHANGED <<othersOnly, runq_, queued, running_, done, cancels, reg>>

\* wakeup(): write() blocks while the pipe is full.
writePipe(t) ==
  /\ pc[t] \in {"wake", "cancelWake"}
  /\ pipe < PipeCapacity
  /\ pipe' = pipe + 1
  /\ pc' = [pc EXCEPT ![t] = IF @ = "wake" THEN "idle" ELSE "cancelWait"]
  /\ UNCHANGED <<othersOnly, runq_, queued, running_, done, cancels, reg>>

\* cancelFD() finds done set, at once or after its wait.
cancelReturns(t) ==
  /\ pc[t] = "cancelWait"
  /\ t \in done
  /\ done' = done \ {t}
  /\ pc' = [pc EXCEPT ![t] = "idle"]
  /\ UNCHANGED <<othersOnly, queueVars, running_, cancels, reg>>

-----------------------------------------------------------------------------
(***************************************************************************)
(* The loop                                                                *)
(***************************************************************************)
loopOnly == <<pc, cancels, reg, running_>>
history == <<ran, threw, misused>>

\* run() and runOnce() are called.
enterLoop(m) ==
  /\ lpc = "out"
  /\ lpc' = "test"
  /\ mode' = m
  /\ UNCHANGED <<fdVars, queueVars, pollVars, fireVars, loopOnly, back, done, history>>

\* The loop condition; runOnce() also returns when it has nothing to wait for.
testRunning ==
  /\ lpc = "test"
  /\ lpc' = IF ~running_ \/ (mode = "runOnce" /\ runq_ = <<>> /\ num_fds_ = 0)
            THEN "out" ELSE "select"
  /\ UNCHANGED <<fdVars, queueVars, pollVars, fireVars, loopOnly, back, mode, done,
                 history>>

\* select() returns some of the registered descriptors, and the pipe if it has
\* bytes.
select ==
  /\ lpc = "select"
  /\ \E R \in SUBSET op_read_, W \in SUBSET op_write_ :
       /\ pipe > 0 \/ R \cup W # {}
       /\ snapR' = R /\ snapW' = W
       /\ selected' = selected \cup {c \in installed :
            /\ callbacks_[reg[c][2]] = c
            /\ reg[c][2] \in (IF reg[c][1] = "read" THEN R ELSE W)}
  /\ lpc' = IF pipe > 0 THEN "drain" ELSE "scan"
  /\ UNCHANGED <<fdVars, queueVars, tasks, fired, early, loopOnly, back, mode, done,
                 history>>

\* select() fails with EINTR: poll() returns.
selectInterrupted ==
  /\ lpc = "select"
  /\ lpc' = "test"
  /\ UNCHANGED <<fdVars, queueVars, pollVars, fireVars, loopOnly, back, mode, done,
                 history>>

\* onRunQWakeup(): read until the pipe is empty ...
drainPipe ==
  /\ lpc = "drain"
  /\ pipe' = 0
  /\ lpc' = "splice"
  /\ UNCHANGED <<fdVars, runq_, queued, pollVars, fireVars, loopOnly, back, mode, done,
                 history>>

\* Mutant: the list is copied under the mutex and cleared after the tasks ran.
spliceTasks_copies ==
  /\ lpc = "splice"
  /\ tasks' = runq_
  /\ lpc' = "tasks"
  /\ UNCHANGED <<fdVars, runq_, pipe, queued, snapR, snapW, fireVars, loopOnly, back, mode,
                 done, history>>

\* ... take the whole list under the mutex ...
spliceTasks ==
  /\ lpc = "splice"
  /\ tasks' = runq_
  /\ runq_' = <<>>
  /\ lpc' = "tasks"
  /\ UNCHANGED <<fdVars, pipe, queued, snapR, snapW, fireVars, loopOnly, back, mode, done,
                 history>>

\* ... and run it.  Closures of other threads' calls come back as those calls.
runTask ==
  /\ lpc = "tasks"
  /\ IF tasks = <<>>
     THEN lpc' = "scan" /\ UNCHANGED <<fdVars, tasks, back, done, ran, misused>>
     ELSE LET j == Head(tasks) IN
          /\ tasks' = Tail(tasks)
          /\ \/ /\ j.what = "task"
                /\ ran' = Append(ran, j.task)
                /\ lpc' = "user" /\ back' = "tasks"
                /\ UNCHANGED <<fdVars, done, misused>>
             \/ /\ j.what \in Kinds
                /\ setFD(j.what, j.fd, j.cb)
                /\ UNCHANGED <<lpc, back, done, ran, misused>>
             \/ /\ j.what = "cancel"
                /\ clearFD(j.fd)
                /\ done' = done \cup {j.by}
                /\ UNCHANGED <<lpc, back, ran>>
  /\ UNCHANGED <<queueVars, snapR, snapW, fireVars, loopOnly, mode, threw>>

\* The loop over the descriptors: the lowest one that select() returned and that
\* has not been served; readable before writable, never both.
serveFD ==
  /\ lpc = "scan"
  /\ IF snapR \cup snapW = {}
     THEN lpc' = "test"
          /\ UNCHANGED <<op_read_, op_write_, num_fds_, snapR, snapW, fireVars, back>>
     ELSE LET fd == CHOOSE f \in snapR \cup snapW : \A g \in snapR \cup snapW : f <= g
              c == callbacks_[fd]
          IN
          /\ op_read_' = IF fd \in snapR THEN op_read_ \ {fd} ELSE op_read_
          /\ op_write_' = IF fd \in snapR THEN op_write_ ELSE op_write_ \ {fd}
          /\ num_fds_' = num_fds_ - 1
          /\ snapR' = snapR \ {fd} /\ snapW' = snapW \ {fd}
          /\ IF c = None
             THEN UNCHANGED <<fireVars, lpc, back>>
             ELSE /\ fired' = [fired EXCEPT ![c] = @ + 1]
                  /\ early' = IF c \in selected THEN early ELSE early \cup {c}
                  /\ selected' = selected \ {c}
                  /\ lpc' = "user" /\ back' = "scan"
  /\ UNCHANGED <<callbacks_, installed, revoked, queueVars, tasks, loopOnly, mode, done,
                 history>>

-----------------------------------------------------------------------------
(***************************************************************************)
(* User code on the loop's thread, inside a task or callback or around     *)
(* run()                                                                   *)
(***************************************************************************)
userOnly == <<pollVars, fireVars, mode, pc, done, ran, threw>>
userRest == <<userOnly, misused>>

\* run(task) calls its task at once when it is called here: user code goes on.
InUser == lpc \in {"user", "out"}

\* runAsync(task)
userRunAsync(k) ==
  /\ InUser
  /\ Submittable(k)
  /\ push([what |-> "task", task |-> k])
  /\ queued' = Append(queued, k)
  /\ back' = IF lpc = "out" THEN "out" ELSE back
  /\ lpc' = "wake"
  /\ UNCHANGED <<userRest, fdVars, running_, cancels, reg>>

userWritePipe ==
  /\ lpc = "wake"
  /\ pipe < PipeCapacity
  /\ pipe' = pipe + 1
  /\ lpc' = IF back = "out" THEN "out" ELSE "user"
  /\ UNCHANGED <<userRest, fdVars, runq_, queued, back, running_, cancels, reg>>

userRegister(kind, fd, c) ==
  /\ InUser
  /\ register(kind, fd, c)
  /\ setFD(kind, fd, c)
  /\ UNCHANGED <<userOnly, queueVars, lpc, back, running_, cancels>>

userCancel(fd) ==
  /\ InUser
  /\ cancels < MaxCancels
  /\ cancels' = cancels + 1
  /\ clearFD(fd)
  /\ UNCHANGED <<userOnly, queueVars, lpc, back, running_, reg>>

userShutdown ==
  /\ InUser
  /\ running_
  /\ running_' = FALSE
  /\ back' = IF lpc = "out" THEN "out" ELSE back
  /\ lpc' = "wake"
  /\ UNCHANGED <<userRest, fdVars, queueVars, cancels, reg>>

userReturns ==
  /\ lpc = "user"
  /\ lpc' = back
  /\ UNCHANGED <<userRest, fdVars, queueVars, back, running_, cancels, reg>>

\* An exception of a task or callback leaves run(): the local list and the rest
\* of the descriptors are forgotten.
userThrows ==
  /\ lpc = "user"
  /\ TasksMayThrow
  /\ lpc' = "out"
  /\ tasks' = <<>> /\ snapR' = {} /\ snapW' = {}
  /\ threw' = TRUE
  /\ UNCHANGED <<fdVars, queueVars, fireVars, back, mode, pc, done, ran, running_, cancels,
                 reg, misused>>

-----------------------------------------------------------------------------
User ==
  \/ userShutdown \/ userThrows
  \/ \E k \in Tasks : userRunAsync(k)
  \/ \E kind \in Kinds, fd \in FDs, c \in Callbacks : userRegister(kind, fd, c)
  \/ \E fd \in FDs : userCancel(fd)

Other(t) ==
  \/ \E k \in Tasks : pushTask(t, k)
  \/ \E kind \in Kinds, fd \in FDs, c \in Callbacks : pushRegistration(t, kind, fd, c)
  \/ \E fd \in FDs : pushCancel(t, fd)
  \/ shutdown(t)

Poll == select \/ drainPipe \/ spliceTasks \/ runTask \/ serveFD

Next ==
  \/ \E m \in {"run", "runOnce"} : enterLoop(m)
  \/ testRunning \/ Poll \/ selectInterrupted
  \/ User \/ userWritePipe \/ userReturns
  \/ \E t \in Others : Other(t) \/ writePipe(t) \/ cancelReturns(t)

Spec == Init /\ [][Next]_vars

(***************************************************************************)
(* The loop's thread and the threads inside wakeup() go on, tasks and      *)
(* callbacks return, and not every select() is interrupted.  Nobody has to *)
(* call anything.                                                          *)
(***************************************************************************)
Fairness ==
  /\ WF_vars(testRunning) /\ SF_vars(select)
  /\ WF_vars(drainPipe \/ spliceTasks \/ runTask \/ serveFD)
  /\ SF_vars(userReturns) /\ WF_vars(userWritePipe)
  /\ \A t \in Others : SF_vars(writePipe(t)) /\ WF_vars(cancelReturns(t))

FairSpec == Spec /\ Fairness

-----------------------------------------------------------------------------
(***************************************************************************)
(* Properties                                                              *)
(***************************************************************************)

\* A pushed task cannot be overlooked: while runq_ is not empty there is a byte in
\* the pipe, a thread about to write one, or the loop is about to take the list.
\* The pipe is drained before the list is taken, so a late byte only costs a turn.
NoLostRunQWakeup ==
  runq_ # <<>> =>
    \/ pipe > 0
    \/ lpc \in {"splice", "wake"}
    \/ \E t \in Others : pc[t] \in {"wake", "cancelWake"}

\* The tasks among the closures of a list.
TaskIds(q) == LET ts == SelectSeq(q, LAMBDA j : j.what = "task")
              IN  [i \in 1..Len(ts) |-> ts[i].task]

\* After cancelFD() the cancelled callback does not run any more, even if select()
\* had already returned its descriptor.
CancelledSilent == [][\A c \in revoked : fired'[c] = fired[c]]_vars

\* A callback runs only when the event it was registered for has happened, as long
\* as users have one registration per descriptor and do not cancel a descriptor
\* that select() has just returned.
FiresWhenReady == ~misused => early = {}

\* Under the same discipline runOnce() does not return by itself while a registered
\* descriptor is left, although cancelFD() and poll() both count num_fds_ down.
RunOnceServes ==
  [][testRunning /\ running_ /\ lpc' = "out" /\ ~misused
       => op_read_ = {} /\ op_write_ = {}]_vars

\* The loop does not sleep on what another thread has pushed to it, a callback runs only
\* when its event has happened and never after it was cancelled, and runOnce() does not
\* return while a registered descriptor is left.
LoopSafe == [](NoLostRunQWakeup /\ FiresWhenReady) /\ CancelledSilent /\ RunOnceServes

\* The loop is not running: its thread is outside run() and runOnce().
Outside == lpc = "out" \/ (lpc = "wake" /\ back = "out")

\* The one thing that can hold the running loop up: its own thread writes to the
\* pipe, which is full and which only it empties.
SelfBlocked == lpc = "wake" /\ pipe = PipeCapacity

\* A task that was pushed runs, unless the loop is not running or blocks itself.
TasksRun ==
  \A k \in Tasks :
    []<>(~Submittable(k) => \/ \E i \in DOMAIN ran : ran[i] = k
                            \/ Outside \/ threw \/ SelfBlocked)

\* cancelFD() from another thread returns, unless the loop is not running or blocks
\* itself.
CancelReturns ==
  \A t \in Others :
    []<>(pc[t] \in {"cancelWake", "cancelWait"} => Outside \/ threw \/ SelfBlocked)

\* After shutdown() the loop returns, unless it blocks itself.
ShutdownStops == []<>(running_ \/ Outside \/ SelfBlocked)

\* What the loop owes its users: tasks run, once each and in the order they were pushed,
\* whichever threads pushed them, unless one threw and took the rest of its list along;
\* cancelFD() returns, and so does the loop after shutdown().
LoopServes ==
  /\ [](~threw => queued = ran \o TaskIds(tasks) \o TaskIds(runq_))
  /\ TasksRun /\ CancelReturns /\ ShutdownStops
=============================================================================
