---------------------------- MODULE PosixScheduler ----------------------------
(***************************************************************************)
(* stx::PosixScheduler, executor/PosixScheduler.cc: tasks, timers and file *)
(* descriptor watchers served by a loop around select().  The watchers are *)
(* linked through prev and next by the entries of watchers_, one per file  *)
(* descriptor; 0 is the null pointer.  lock_ is held within one action, or *)
(* for ever by a setupWatcher() that does not leave its search: nobody who *)
(* needs lock_ takes a step after that.                                    *)
(***************************************************************************)
EXTENDS Integers, Sequences, SequencesExt, FiniteSets

CONSTANTS
  Tasks,      \* tasks passed to execute()
  Timers,     \* timers
  Delay,      \* the delay of each timer
  Watches,    \* calls of executeOnReadable() and executeOnWritable()
  Watch,      \* Watch[r] = [fd, mode, tmo]
  Slots,      \* the size of watchers_
  Loads,      \* sets of tasks, timers and watches that are called together
  PipeFd,     \* the read end of wakeupPipe_
  Idle,       \* the wait of a loop with nothing to time
  MaxTime     \* bound on the clock

VARIABLES
  load,       \* the calls made in this behaviour
  now, tasks_, timers_, watchers_, firstWatcher_, lastWatcher_,
  counts,     \* readerCount_ and writerCount_
  pipe,       \* bytes in wakeupPipe_, 0 or more
  hung,       \* the descriptor whose setupWatcher() spins with lock_ held, or 0
  loop,       \* the loop thread: where it is, its fd sets, its deadline, activeTasks
  when,       \* when each timer is due
  called,     \* tasks in the order of execute(), and the timers and watches made
  cancelled,  \* timers whose isCancelled_ is set
  rejected,   \* watches that raised
  ran         \* what the loop ran, tasks, timers and watches with their outcome, and
              \* when cancel() returned for a timer or a watch

listVars == <<watchers_, firstWatcher_, lastWatcher_>>
vars == <<load, now, tasks_, timers_, listVars, counts, pipe, hung, loop, when, called,
          cancelled, rejected, ran>>

Fds == {Watch[r].fd : r \in Watches} \cap 0..(Slots - 1)
Huge == MaxTime + Idle + 1    \* a Duration that wrapped below zero
Free == [on |-> FALSE, watch |-> "none", timeout |-> 0, cancelled |-> FALSE, prev |-> 0, next |-> 0]

Init ==
  /\ load \in Loads
  /\ now = 0 /\ tasks_ = <<>> /\ timers_ = <<>> /\ pipe = 0 /\ hung = 0
  /\ watchers_ = [f \in Fds |-> Free] /\ firstWatcher_ = 0 /\ lastWatcher_ = 0
  /\ counts = [m \in {"readable", "writable"} |-> 0]
  /\ loop = [at |-> "test", fds |-> {}, deadline |-> 0, active |-> <<>>]
  /\ when = [t \in Timers |-> 0]
  /\ called = <<>> /\ cancelled = {} /\ rejected = {} /\ ran = <<>>

-----------------------------------------------------------------------------
(* The list of watchers: l is [ws, first, last].                           *)

List == [ws |-> watchers_, first |-> firstWatcher_, last |-> lastWatcher_]
SetList(l) == watchers_' = l.ws /\ firstWatcher_' = l.first /\ lastWatcher_' = l.last

linkWatcher(l, f, pred) ==
  LET succ == l.ws[pred].next
      linked == [l.ws EXCEPT ![f].prev = pred, ![f].next = succ, ![pred].next = f]
  IN IF succ = 0 THEN [l EXCEPT !.ws = linked, !.last = f]
     ELSE [l EXCEPT !.ws = [linked EXCEPT ![succ].prev = f]]

\* Mutant: the last watcher stays the last one.
unlinkWatcher_last(l, f) ==
  LET pred == l.ws[f].prev
      succ == l.ws[f].next
      a == IF pred = 0 THEN l.ws ELSE [l.ws EXCEPT ![pred].next = succ]
      b == IF succ = 0 THEN a ELSE [a EXCEPT ![succ].prev = pred]
  IN [ws |-> [b EXCEPT ![f].on = FALSE, ![f].timeout = 0, ![f].prev = 0, ![f].next = 0],
      first |-> IF pred = 0 THEN succ ELSE l.first,
      last |-> l.last]

\* unlinkWatcher() and Watcher::clear: the callbacks and isCancelled_ stay.
unlinkWatcher(l, f) ==
  LET pred == l.ws[f].prev
      succ == l.ws[f].next
      a == IF pred = 0 THEN l.ws ELSE [l.ws EXCEPT ![pred].next = succ]
      b == IF succ = 0 THEN a ELSE [a EXCEPT ![succ].prev = pred]
  IN [ws |-> [b EXCEPT ![f].on = FALSE, ![f].timeout = 0, ![f].prev = 0, ![f].next = 0],
      first |-> IF pred = 0 THEN succ ELSE l.first,
      last |-> IF succ = 0 THEN pred ELSE l.last]

\* The file descriptors from f on along next, and along prev; at most n of them.
RECURSIVE forward(_, _, _)
forward(ws, f, n) == IF f = 0 \/ n = 0 THEN <<>> ELSE <<f>> \o forward(ws, ws[f].next, n - 1)
RECURSIVE backward(_, _, _)
backward(ws, f, n) == IF f = 0 \/ n = 0 THEN <<>> ELSE <<f>> \o backward(ws, ws[f].prev, n - 1)
Linked == forward(watchers_, firstWatcher_, Cardinality(Fds) + 1)

\* setupWatcher() of a free watcher: into an empty list, in front of a single one,
\* or behind the one before the last if it times out no later; otherwise the search
\* does not move on.
insertWatcher(l, f) ==
  IF l.last = 0 THEN [l EXCEPT !.first = f, !.last = f]
  ELSE IF l.ws[l.last].prev = 0
       THEN [l EXCEPT !.ws[f].next = l.first, !.ws[l.first].prev = f, !.first = f]
       ELSE linkWatcher(l, f, l.ws[l.last].prev)

SearchSpins(l, timeout) ==
  l.last # 0 /\ l.ws[l.last].prev # 0 /\ timeout > l.ws[l.ws[l.last].prev].timeout

\* Raises for a descriptor that is too high or watched already; executeOnFD() has counted
\* it by then.
setupWatcher(r) ==
  LET f == Watch[r].fd
      timeout == now + Watch[r].tmo
      reset == [List EXCEPT !.ws[f] = [Free EXCEPT !.on = TRUE, !.watch = r, !.timeout = timeout]]
      spins == SearchSpins(List, timeout)
  IN IF f >= Slots \/ watchers_[f].on
     THEN rejected' = rejected \cup {r} /\ UNCHANGED <<listVars, hung>>
     ELSE /\ hung' = IF spins THEN f ELSE 0
          /\ SetList(IF spins THEN reset ELSE insertWatcher(reset, f))
          /\ UNCHANGED rejected

-----------------------------------------------------------------------------
(* Operations, on any thread; a task of the loop may call them too.        *)

\* execute(), and executeOnWakeup(), whose callback is execute(): breakLoop() follows.
execute(t) ==
  /\ hung = 0 /\ t \in load \ ToSet(called)
  /\ called' = Append(called, t)
  /\ tasks_' = Append(tasks_, t)
  /\ pipe' = 1
  /\ UNCHANGED <<now, timers_, listVars, counts, hung, loop, when, cancelled, rejected, ran>>

\* insertIntoTimersList(): in front of the last timer if that is due no earlier,
\* else in front of the last one before it that is, else in front of all.
insertIntoTimersList(at, t) ==
  LET later == {i \in 1..Len(timers_) : at[timers_[i]] >= at[t]}
  IN InsertAt(timers_, IF later = {} THEN 1 ELSE Max(later), t)

executeAfter(t) ==
  /\ hung = 0 /\ t \in load \ ToSet(called)
  /\ called' = Append(called, t)
  /\ when' = [when EXCEPT ![t] = now + Delay[t]]
  /\ timers_' = insertIntoTimersList(when', t)
  /\ UNCHANGED <<now, tasks_, listVars, counts, pipe, hung, loop, cancelled, rejected, ran>>

\* A timer's handle: its onCancel_ takes it from the list without lock_.
cancelTimer(t) ==
  /\ t \in ToSet(called) \ cancelled
  /\ cancelled' = cancelled \cup {t}
  /\ timers_' = Remove(timers_, t)
  /\ ran' = Append(ran, <<"cancel", t>>)
  /\ UNCHANGED <<now, tasks_, listVars, counts, pipe, hung, loop, when, called, rejected>>

executeOnFD(r, mode) ==
  /\ hung = 0 /\ r \in load \ ToSet(called) /\ Watch[r].mode = mode
  /\ called' = Append(called, r)
  /\ counts' = [counts EXCEPT ![mode] = @ + 1]
  /\ setupWatcher(r)
  /\ UNCHANGED <<now, tasks_, timers_, pipe, loop, when, cancelled, ran>>
executeOnReadable(r) == executeOnFD(r, "readable")
executeOnWritable(r) == executeOnFD(r, "writable")

\* cancelFD(), or cancel() of a watcher's handle: the watcher stays in the list.
cancelFD(f) ==
  /\ hung = 0 /\ watchers_[f].watch # "none" /\ ~watchers_[f].cancelled
  /\ watchers_' = [watchers_ EXCEPT ![f].cancelled = TRUE]
  /\ ran' = Append(ran, <<"cancel", watchers_[f].watch>>)
  /\ UNCHANGED <<now, tasks_, timers_, firstWatcher_, lastWatcher_, counts, pipe, hung, loop, when,
                 called, cancelled, rejected>>

-----------------------------------------------------------------------------
(* The loop.                                                               *)

\* An unsigned difference of two times.
Minus(a, b) == IF a >= b THEN a - b ELSE Huge

nextTimeout ==
  IF tasks_ # <<>> THEN 0
  ELSE Min({IF timers_ = <<>> THEN Idle ELSE Minus(when[timers_[1]], now),
            IF firstWatcher_ = 0 THEN Idle + 1 ELSE Minus(watchers_[firstWatcher_].timeout, now)})

runLoop ==
  /\ hung = 0 /\ loop.at = "test"
  /\ loop' = [loop EXCEPT !.at = IF tasks_ = <<>> /\ timers_ = <<>> /\ firstWatcher_ = 0
                                 THEN "returned" ELSE "prepare"]
  /\ UNCHANGED <<now, tasks_, timers_, listVars, counts, pipe, hung, when, called, cancelled,
                 rejected, ran>>

\* runLoopOnce(): the fd sets and the deadline, with lock_ ...
prepare ==
  /\ hung = 0 /\ loop.at = "prepare"
  /\ loop' = [loop EXCEPT !.at = "select", !.fds = ToSet(Linked), !.deadline = now + nextTimeout]
  /\ UNCHANGED <<now, tasks_, timers_, listVars, counts, pipe, hung, when, called, cancelled,
                 rejected, ran>>

\* ... select(), which sees the pipe only if a watched file descriptor is as high:
\* some are ready, the pipe is and gets drained, or the time is up ...
select ==
  LET seesPipe == pipe > 0 /\ \E f \in loop.fds : f >= PipeFd
  IN /\ loop.at = "select"
     /\ \E ready \in SUBSET loop.fds :
          /\ ready # {} \/ seesPipe \/ now >= loop.deadline
          /\ loop' = [loop EXCEPT !.at = "collect", !.fds = ready]
     /\ pipe' = IF seesPipe THEN 0 ELSE pipe
     /\ UNCHANGED <<now, tasks_, timers_, listVars, counts, hung, when, called, cancelled,
                    rejected, ran>>

selectFails ==
  /\ loop.at = "select" /\ loop' = [loop EXCEPT !.at = "raised"]
  /\ UNCHANGED <<now, tasks_, timers_, listVars, counts, pipe, hung, when, called, cancelled,
                 rejected, ran>>

\* ... collectActiveHandles() and collectTimeouts(), which stop at the first watcher
\* and at the first timer that is not due; c is [l, counts, active].
collectOne(c, f, what) ==
  LET r == c.l.ws[f].watch
  IN [l |-> unlinkWatcher(c.l, f), counts |-> [c.counts EXCEPT ![Watch[r].mode] = @ - 1],
      active |-> Append(c.active, what)]

collectActiveHandles(c, ready) ==
  FoldLeft(LAMBDA d, f : collectOne(d, f, <<"io", d.l.ws[f].watch>>), c,
           SelectSeq(Linked, LAMBDA f : f \in ready))

RECURSIVE collectTimeouts(_)
collectTimeouts(c) ==
  LET f == c.l.first
  IN IF f = 0 \/ c.l.ws[f].timeout > now THEN c
     ELSE collectTimeouts(collectOne(c, f, <<"timeout", f>>))

dueTimers ==
  LET later == {i \in 1..Len(timers_) : when[timers_[i]] > now}
  IN IF later = {} THEN Len(timers_) ELSE Min(later) - 1

collect ==
  LET tasks == [i \in 1..Len(tasks_) |-> <<"task", tasks_[i]>>]
      c == collectTimeouts(collectActiveHandles(
             [l |-> List, counts |-> counts, active |-> tasks], loop.fds))
      due == [i \in 1..dueTimers |-> <<"timer", timers_[i]>>]
  IN /\ hung = 0 /\ loop.at = "collect"
     /\ SetList(c.l) /\ counts' = c.counts /\ tasks_' = <<>>
     /\ timers_' = SubSeq(timers_, dueTimers + 1, Len(timers_))
     /\ loop' = [loop EXCEPT !.at = "run", !.active = c.active \o due, !.fds = {}, !.deadline = 0]
     /\ UNCHANGED <<now, pipe, hung, when, called, cancelled, rejected, ran>>


\* ... and safeCallEach(): a timeout calls what the watcher holds by now, unless it is
\* cancelled; a ready watcher's task is called even then.
runOne ==
  /\ loop.at = "run" /\ loop.active # <<>>
  /\ LET a == Head(loop.active)
     IN ran' = CASE a[1] = "timeout" ->
                      IF watchers_[a[2]].cancelled THEN ran
                      ELSE Append(ran, <<"timeout", watchers_[a[2]].watch>>)
                 [] a[1] = "timer" -> IF a[2] \in cancelled THEN ran ELSE Append(ran, a)
                 [] OTHER -> Append(ran, a)
  /\ loop' = [loop EXCEPT !.active = Tail(@)]
  /\ UNCHANGED <<now, tasks_, timers_, listVars, counts, pipe, hung, when, called, cancelled, rejected>>

runDone ==
  /\ loop.at = "run" /\ loop.active = <<>> /\ loop' = [loop EXCEPT !.at = "test"]
  /\ UNCHANGED <<now, tasks_, timers_, listVars, counts, pipe, hung, when, called, cancelled,
                 rejected, ran>>

Tick ==
  /\ now < MaxTime /\ now' = now + 1
  /\ UNCHANGED <<tasks_, timers_, listVars, counts, pipe, hung, loop, when, called, cancelled,
                 rejected, ran>>

Next ==
  /\ UNCHANGED load
  /\ \/ \E t \in Tasks : execute(t)
     \/ \E t \in Timers : executeAfter(t) \/ cancelTimer(t)
     \/ \E r \in Watches : executeOnReadable(r) \/ executeOnWritable(r)
     \/ \E f \in Fds : cancelFD(f)
     \/ runLoop \/ prepare \/ select \/ selectFails \/ collect \/ runOne \/ runDone \/ Tick

Spec == Init /\ [][Next]_vars

-----------------------------------------------------------------------------
\* The watchers are one list that reads the same in both directions and holds the
\* watchers in use, but for the one whose setup does not end, which takes two others in
\* the list; the counters are the watchers in use and those whose setup raised; tasks run
\* once and in the order of execute(); a timer runs at most once, not before it is due,
\* and is not in the list once it ran or was cancelled; when cancel() has returned, the
\* timer does not run any more, nor what the watch was to do on a timeout.
SchedulerSafe ==
  LET n == Cardinality(Fds) + 1
      on == {f \in Fds : watchers_[f].on}
      ranTasks == SelectSeq(ran, LAMBDA a : a[1] = "task")
      calledTasks == SelectSeq(called, LAMBDA t : t \in Tasks)
      ranTimers == {i \in 1..Len(ran) : ran[i][1] = "timer"}
  IN /\ Linked = Reverse(backward(watchers_, lastWatcher_, n))
     /\ ToSet(Linked) = on \ {hung}
     /\ hung # 0 => hung \in on /\ Len(Linked) >= 2
     /\ \A m \in DOMAIN counts :
          counts[m] = Cardinality({f \in on : Watch[watchers_[f].watch].mode = m})
                      + Cardinality({r \in rejected : Watch[r].mode = m})
     /\ IsPrefix([i \in 1..Len(ranTasks) |-> ranTasks[i][2]], calledTasks)
     /\ \A i \in ranTimers : /\ when[ran[i][2]] <= now
                             /\ ran[i][2] \notin ToSet(timers_)
                             /\ \A k \in ranTimers : ran[i][2] = ran[k][2] => i = k
     /\ cancelled \cap ToSet(timers_) = {}
     /\ \A i, k \in 1..Len(ran) :
          i < k /\ ran[i][1] = "cancel" /\ ran[k][1] \in {"timer", "timeout"} => ran[k][2] # ran[i][2]
=============================================================================
