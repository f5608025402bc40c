------------------------------- MODULE Executors -------------------------------
(***************************************************************************)
(* The two executors that need no event loop; a behaviour is one of one of *)
(* them.                                                                   *)
(*                                                                         *)
(* stx::ThreadedExecutor, executor/ThreadedExecutor.cc: a thread for every *)
(* task.  execute() creates the thread first and enters it in threads_     *)
(* later, under the mutex; the thread of an unnamed task removes itself    *)
(* from threads_ and detaches, under the mutex, when its task has ended;   *)
(* joinAll() takes threads from the list and joins them.                   *)
(*                                                                         *)
(* stx::DirectExecutor, executor/DirectExecutor.cc: execute() runs a task  *)
(* in the caller, or defers it while another one runs, unless the executor *)
(* is recursive.  Tasks call execute() themselves; a frame of the stack is *)
(* an execute() that has not returned, with the task it runs.              *)
(***************************************************************************)
EXTENDS Integers, Sequences, SequencesExt

CONSTANTS
  Tasks,   \* tasks, each executed once; a task names its thread too
  Named    \* those passed to execute(name, task), whose threads do not detach

VARIABLES
  executor,  \* "threaded" or "direct"
  threads_,
  call,      \* how far execute() has come: "new", "created", "returned"
  thread,    \* each thread: "none", "task", "cleanup", "ended"
  detached,  \* threads that called pthread_detach()
  joiner,    \* joinAll(): "out", "loop", "join", "done"
  joining,   \* the thread it joins
  due,       \* tasks executed before joinAll() was called
  recursive_,
  running_,
  deferred_,
  stack,     \* the active calls of execute(): [task, deferred]
  called,    \* the tasks in the order of their execute()
  started    \* the tasks in the order in which they began

threadedVars == <<threads_, call, thread, detached, joiner, joining, due>>
directVars == <<recursive_, running_, deferred_, stack, called, started>>
vars == <<executor, threadedVars, directVars>>

ThreadedExecutor ==
  /\ threads_ = <<>>
  /\ call = [t \in Tasks |-> "new"]
  /\ thread = [t \in Tasks |-> "none"]
  /\ detached = {} /\ joiner = "out" /\ joining = <<>> /\ due = {}

DirectExecutor ==
  /\ recursive_ \in BOOLEAN /\ (executor = "threaded" => recursive_)
  /\ running_ = 0 /\ deferred_ = <<>> /\ stack = <<>> /\ called = <<>> /\ started = <<>>

Init == executor \in {"threaded", "direct"} /\ ThreadedExecutor /\ DirectExecutor

-----------------------------------------------------------------------------
(* ThreadedExecutor.                                                       *)

\* pthread_create(): the thread may run before execute() goes on.
create(t) ==
  /\ call[t] = "new"
  /\ call' = [call EXCEPT ![t] = "created"]
  /\ thread' = [thread EXCEPT ![t] = "task"]
  /\ UNCHANGED <<threads_, detached, joiner, joining, due>>

\* threads_.push_back(tid), whether the thread has ended or not.
enter(t) ==
  /\ call[t] = "created"
  /\ call' = [call EXCEPT ![t] = "returned"]
  /\ threads_' = Append(threads_, t)
  /\ UNCHANGED <<thread, detached, joiner, joining, due>>

\* launchme(): safeCall(task) returns, whatever the task throws.
launchme(t) ==
  /\ thread[t] = "task"
  /\ thread' = [thread EXCEPT ![t] = IF t \in Named THEN "ended" ELSE "cleanup"]
  /\ UNCHANGED <<threads_, call, detached, joiner, joining, due>>

\* Mutant: the thread leaves the list before its task runs.
cleanup_early(t) ==
  /\ t \notin Named /\ thread[t] \in {"task", "cleanup"} /\ t \notin detached
  /\ thread' = [thread EXCEPT ![t] = IF @ = "task" THEN "task" ELSE "ended"]
  /\ detached' = detached \cup {t}
  /\ threads_' = Remove(threads_, t)
  /\ UNCHANGED <<call, joiner, joining, due>>

\* The end of an unnamed task's thread, with the mutex.
cleanup(t) ==
  /\ thread[t] = "cleanup"
  /\ thread' = [thread EXCEPT ![t] = "ended"]
  /\ detached' = detached \cup {t}
  /\ threads_' = Remove(threads_, t)
  /\ UNCHANGED <<call, joiner, joining, due>>

joinAll ==
  /\ joiner = "out"
  /\ joiner' = "loop"
  /\ due' = {t \in Tasks : call[t] = "returned"}
  /\ UNCHANGED <<threads_, call, thread, detached, joining>>

takeFront ==
  /\ joiner = "loop"
  /\ \/ threads_ = <<>> /\ joiner' = "done" /\ UNCHANGED <<threads_, joining>>
     \/ /\ threads_ # <<>> /\ joiner' = "join"
        /\ joining' = <<Head(threads_)>> /\ threads_' = Tail(threads_)
  /\ UNCHANGED <<call, thread, detached, due>>

\* pthread_join(), which has no defined outcome for a detached thread: it may return
\* at once, or when a thread that got the same id has ended.
pthread_join ==
  /\ joiner = "join"
  /\ thread[joining[1]] = "ended" \/ joining[1] \in detached
  /\ joiner' = "loop" /\ joining' = <<>>
  /\ UNCHANGED <<threads_, call, thread, detached, due>>

-----------------------------------------------------------------------------
(* DirectExecutor.                                                         *)

\* Mutant: a nested task is run at once.
execute_nested(t) ==
  /\ t \notin ToSet(called)
  /\ called' = Append(called, t)
  /\ running_' = running_ + 1
  /\ stack' = Append(stack, [task |-> t, deferred |-> FALSE])
  /\ started' = Append(started, t)
  /\ UNCHANGED <<recursive_, deferred_>>

\* execute(), called from outside or by the task that runs.
execute(t) ==
  /\ t \notin ToSet(called)
  /\ called' = Append(called, t)
  /\ IF running_ > 0 /\ ~recursive_
     THEN /\ deferred_' = Append(deferred_, t)
          /\ UNCHANGED <<running_, stack, started>>
     ELSE /\ running_' = running_ + 1
          /\ stack' = Append(stack, [task |-> t, deferred |-> FALSE])
          /\ started' = Append(started, t)
          /\ UNCHANGED deferred_
  /\ UNCHANGED recursive_

\* The task returns or throws into safeCall(); a deferred one is popped only now, and
\* the next one begins, or execute() returns.
safeCall ==
  /\ stack # <<>>
  /\ LET left == IF Last(stack).deferred THEN Tail(deferred_) ELSE deferred_
     IN /\ deferred_' = left
        /\ IF left = <<>>
           THEN stack' = Front(stack) /\ running_' = running_ - 1 /\ UNCHANGED started
           ELSE /\ stack' = Append(Front(stack), [task |-> Head(left), deferred |-> TRUE])
                /\ started' = Append(started, Head(left))
                /\ UNCHANGED running_
  /\ UNCHANGED <<recursive_, called>>

-----------------------------------------------------------------------------
Threaded ==
  \/ \E t \in Tasks : create(t) \/ enter(t) \/ launchme(t) \/ cleanup(t)
  \/ joinAll \/ takeFront \/ pthread_join

Direct == (\E t \in Tasks : execute(t)) \/ safeCall

Next ==
  \/ executor = "threaded" /\ Threaded /\ UNCHANGED <<executor, directVars>>
  \/ executor = "direct" /\ Direct /\ UNCHANGED <<executor, threadedVars>>

Spec == Init /\ [][Next]_vars

-----------------------------------------------------------------------------
\* When joinAll() returns, every task whose execute() had returned before it was
\* called has ended, although threads leave the list by themselves and enter it
\* after they have ended.
JoinWaits == joiner = "done" => \A t \in due : thread[t] \in {"cleanup", "ended"}

\* Tasks begin in the order of their execute() calls, none inside another unless the
\* executor is recursive, and none is left when the outermost execute() returns.
DirectInOrder ==
  /\ IsPrefix(started, called)
  /\ ~recursive_ => Len(stack) <= 1
  /\ running_ = Len(stack)
  /\ stack = <<>> => started = called
=============================================================================
