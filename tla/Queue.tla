------------------------------- MODULE Queue -------------------------------
(***************************************************************************)
(* stx::thread::Queue<T>, thread/queue_impl.h.                             *)
(*                                                                         *)
(* Producers blocked on a full queue, consumers blocked on an empty one    *)
(* and threads in waitUntilEmpty() all sleep on one condition variable.    *)
(* Every operation runs under mutex_ up to its unlock, which is one step;  *)
(* notify_all follows the unlock and is a step of its own.                 *)
(***************************************************************************)
EXTENDS Integers, Sequences

CONSTANTS
  Threads,   \* threads that use the queue
  Values,    \* the jobs
  max_size_, \* size_t, with -1 for size_t(-1): unbounded
  MaxLength, \* bound on the length of the queue when it is unbounded
  None       \* the empty Option and "no value"

ASSUME QueueAssumption ==
  /\ max_size_ \in Nat \cup {-1}
  /\ MaxLength \in Nat
  /\ None \notin Values

VARIABLES
  queue_,
  length_,
  waiting, \* threads inside wakeup_.wait(lk)
  op,      \* what each thread is doing in the queue
  arg,     \* the job of a blocked insert
  ret      \* what the last operation of each thread returned

vars == <<queue_, length_, waiting, op, arg, ret>>

(***************************************************************************)
(* "idle": outside the queue; "notify": unlocked, notify_all still to      *)
(* come; the others name the operation whose wait loop the thread is in.   *)
(***************************************************************************)
Ops == {"idle", "notify", "insert", "pop", "interruptiblePop", "waitUntilEmpty"}

\* The exception insert() raises when the queue is full, and a void return.
QueueFull == "queue is full"
Void == "void"
Results == Values \cup {None, QueueFull, Void}

TypeOK ==
  /\ queue_ \in Seq(Values)
  /\ length_ \in Nat
  /\ waiting \in SUBSET Threads
  /\ op \in [Threads -> Ops]
  /\ arg \in [Threads -> Values \cup {None}]
  /\ ret \in [Threads -> Results]

Init ==
  /\ queue_ = <<>>
  /\ length_ = 0
  /\ waiting = {}
  /\ op = [t \in Threads |-> "idle"]
  /\ arg = [t \in Threads |-> None]
  /\ ret = [t \in Threads |-> Void]

Full == max_size_ # -1 /\ length_ >= max_size_
Empty == queue_ = <<>>

\* t goes to sleep on wakeup_ inside operation o.
wait(t, o) ==
  /\ op' = [op EXCEPT ![t] = o]
  /\ waiting' = waiting \cup {t}
  /\ UNCHANGED <<queue_, length_, ret>>

\* t returns r without having changed the queue: no notification.
return(t, r) ==
  /\ op' = [op EXCEPT ![t] = "idle"]
  /\ ret' = [ret EXCEPT ![t] = r]
  /\ UNCHANGED <<queue_, length_, waiting>>

\* emplace_back, ++length_, unlock
append(t, v) ==
  /\ queue_' = Append(queue_, v)
  /\ length_' = length_ + 1
  /\ op' = [op EXCEPT ![t] = "notify"]
  /\ ret' = [ret EXCEPT ![t] = Void]
  /\ UNCHANGED waiting

\* Mutant: pop_front without --length_.
take_noDecrement(t) ==
  /\ ~Empty
  /\ queue_' = Tail(queue_)
  /\ ret' = [ret EXCEPT ![t] = Head(queue_)]
  /\ op' = [op EXCEPT ![t] = "notify"]
  /\ UNCHANGED <<length_, waiting>>

\* Mutant: pop_back instead of pop_front.
take_back(t) ==
  /\ ~Empty
  /\ queue_' = SubSeq(queue_, 1, Len(queue_) - 1)
  /\ length_' = length_ - 1
  /\ ret' = [ret EXCEPT ![t] = Head(queue_)]
  /\ op' = [op EXCEPT ![t] = "notify"]
  /\ UNCHANGED waiting

\* Mutant: the job is copied from front() and never popped.
take_noPop(t) ==
  /\ ~Empty
  /\ ret' = [ret EXCEPT ![t] = Head(queue_)]
  /\ op' = [op EXCEPT ![t] = "notify"]
  /\ UNCHANGED <<queue_, length_, waiting>>

\* Mutant: a consumer does not notify.
take_noNotify(t) ==
  /\ ~Empty
  /\ queue_' = Tail(queue_)
  /\ length_' = length_ - 1
  /\ ret' = [ret EXCEPT ![t] = Head(queue_)]
  /\ op' = [op EXCEPT ![t] = "idle"]
  /\ UNCHANGED waiting

\* front(), pop_front, --length_, unlock
take(t) ==
  /\ ~Empty
  /\ queue_' = Tail(queue_)
  /\ length_' = length_ - 1
  /\ ret' = [ret EXCEPT ![t] = Head(queue_)]
  /\ op' = [op EXCEPT ![t] = "notify"]
  /\ UNCHANGED waiting

\* t may test the condition of operation o: it calls o, or was woken in o.
Enters(t) == op[t] = "idle"
Woken(t, o) == op[t] = o /\ t \notin waiting

insert(t, v, block) ==
  /\ Enters(t)
  /\ max_size_ = -1 => Len(queue_) < MaxLength
  /\ \/ ~Full /\ append(t, v) /\ UNCHANGED arg
     \/ Full /\ ~block /\ return(t, QueueFull) /\ UNCHANGED arg
     \/ Full /\ block /\ wait(t, "insert") /\ arg' = [arg EXCEPT ![t] = v]

\* The while-loop of a blocking insert() tests the length again.
insertAgain(t) ==
  /\ Woken(t, "insert")
  /\ \/ ~Full /\ append(t, arg[t]) /\ arg' = [arg EXCEPT ![t] = None]
     \/ Full /\ wait(t, "insert") /\ UNCHANGED arg

pop(t) ==
  /\ Enters(t) \/ Woken(t, "pop")
  /\ take(t) \/ (Empty /\ wait(t, "pop"))
  /\ UNCHANGED arg

\* interruptiblePop() waits at most once, whatever the reason of the wakeup.
interruptiblePop(t) ==
  /\ Enters(t)
  /\ take(t) \/ (Empty /\ wait(t, "interruptiblePop"))
  /\ UNCHANGED arg

interruptiblePopAgain(t) ==
  /\ Woken(t, "interruptiblePop")
  /\ take(t) \/ (Empty /\ return(t, None))
  /\ UNCHANGED arg

poll(t) ==
  /\ Enters(t)
  /\ take(t) \/ (Empty /\ return(t, None))
  /\ UNCHANGED arg

waitUntilEmpty(t) ==
  /\ Enters(t) \/ Woken(t, "waitUntilEmpty")
  /\ \/ Empty /\ return(t, Void)
     \/ ~Empty /\ wait(t, "waitUntilEmpty")
  /\ UNCHANGED arg

\* wakeup(): notify_all without the mutex.
wakeup(t) ==
  /\ Enters(t)
  /\ waiting' = {}
  /\ UNCHANGED <<queue_, length_, op, arg, ret>>

\* Mutant: notify_one.
notifyAll_one(t) ==
  /\ op[t] = "notify"
  /\ op' = [op EXCEPT ![t] = "idle"]
  /\ \/ waiting = {} /\ UNCHANGED waiting
     \/ \E u \in waiting : waiting' = waiting \ {u}
  /\ UNCHANGED <<queue_, length_, arg, ret>>

\* wakeup_.notify_all() after the unlock of insert, pop, interruptiblePop, poll.
notifyAll(t) ==
  /\ op[t] = "notify"
  /\ op' = [op EXCEPT ![t] = "idle"]
  /\ waiting' = {}
  /\ UNCHANGED <<queue_, length_, arg, ret>>

\* A condition variable may return without a notification.
spuriousWakeup(t) ==
  /\ t \in waiting
  /\ waiting' = waiting \ {t}
  /\ UNCHANGED <<queue_, length_, op, arg, ret>>

Continue(t) ==
  \/ insertAgain(t) \/ interruptiblePopAgain(t) \/ notifyAll(t)
  \/ Woken(t, "pop") /\ pop(t)
  \/ Woken(t, "waitUntilEmpty") /\ waitUntilEmpty(t)

Next ==
  \E t \in Threads :
    \/ \E v \in Values, block \in BOOLEAN : insert(t, v, block)
    \/ insertAgain(t) \/ pop(t) \/ interruptiblePop(t)
    \/ interruptiblePopAgain(t) \/ poll(t) \/ waitUntilEmpty(t) \/ wakeup(t)
    \/ notifyAll(t) \/ spuriousWakeup(t)

Spec == Init /\ [][Next]_vars

\* A thread that is inside an operation and not asleep goes on: it gets the mutex.
Fairness == \A t \in Threads : WF_vars(Continue(t))

FairSpec == Spec /\ Fairness

-----------------------------------------------------------------------------
(***************************************************************************)
(* Properties                                                              *)
(***************************************************************************)

\* length_, which bounds inserts, agrees with queue_.size(), which pops test, and
\* never exceeds max_size_ although blocked producers re-check concurrently.
LengthExact ==
  /\ length_ = Len(queue_)
  /\ max_size_ # -1 => length_ <= max_size_

\* What a sleeping thread waits for.
Ready(t) ==
  CASE op[t] = "insert" -> ~Full
    [] op[t] \in {"pop", "interruptiblePop"} -> ~Empty
    [] op[t] = "waitUntilEmpty" -> Empty
    [] OTHER -> TRUE

\* No lost wakeup: a thread whose condition holds sleeps only while some thread
\* that changed the queue is still to call notify_all, although three kinds of
\* waiters share wakeup_ and notify_all follows the unlock.
NoLostWakeup ==
  \A t \in waiting : Ready(t) => \E u \in Threads : op[u] = "notify"

\* The queue's counter is exact and nobody sleeps through what it waits for.
QueueSafe == LengthExact /\ NoLostWakeup

\* The queue is a FIFO of bounded capacity whatever the threads do.
FIFO == INSTANCE BoundedFIFO
          WITH items <- queue_,
               Capacity <- IF max_size_ = -1 THEN MaxLength ELSE max_size_
IsFIFO == FIFO!Spec

\* A thread blocked in the queue whose condition holds does not stay blocked: it
\* comes back from its wait, or another thread has made the condition false again.
BlockedProceed ==
  \A t \in Threads :
    []<>(op[t] \notin {"idle", "notify"} => ~Ready(t))
=============================================================================
