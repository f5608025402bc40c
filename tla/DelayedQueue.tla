---------------------------- MODULE DelayedQueue ----------------------------
(***************************************************************************)
(* stx::thread::DelayedQueue<T>, thread/DelayedQueue_impl.h: jobs ordered  *)
(* by the time at which they are due, producers that block on a full       *)
(* queue, consumers that sleep while it is empty and sleep until the first *)
(* job is due when it is not.                                              *)
(***************************************************************************)
EXTENDS Integers, Sequences, FiniteSets

CONSTANTS
  Producers, \* threads that call insert() and wakeup()
  Consumers, \* threads that call interruptiblePop()
  Jobs,
  max_size_, \* size_t, with -1 for size_t(-1): unbounded
  MaxLength, \* bound on length_ when the queue is unbounded
  MaxTime,   \* bound on the clock and on due times
  None

ASSUME DelayedQueueAssumption ==
  /\ max_size_ \in Nat \cup {-1}
  /\ MaxLength \in Nat
  /\ MaxTime \in Nat
  /\ None \notin Nat

Threads == Producers \cup Consumers

VARIABLES
  queue_,   \* the multiset, as the sequence its iterators run through
  length_,
  now,      \* WallClock::unixMicros()
  waiting,  \* threads inside wakeup_.wait or wakeup_.wait_for
  op,       \* what each thread is doing in the queue
  arg,      \* the job and time of a blocked insert
  deadline, \* until when a thread sleeps in wait_for
  ret       \* the entry an interruptiblePop() is about to return, or None

vars == <<queue_, length_, now, waiting, op, arg, deadline, ret>>

Times == 0..MaxTime
Entry == [when : Times, job : Jobs]

\* "popEmpty" and "popTimed" are the two sleeps of interruptiblePop().
Ops == {"idle", "notify", "insert", "popEmpty", "popTimed"}

TypeOK ==
  /\ queue_ \in Seq(Entry)
  /\ length_ \in Nat
  /\ now \in Times
  /\ waiting \in SUBSET Threads
  /\ op \in [Threads -> Ops]
  /\ arg \in [Threads -> Entry \cup {None}]
  /\ deadline \in [Threads -> Times]
  /\ ret \in [Threads -> Entry \cup {None}]

Init ==
  /\ queue_ = <<>>
  /\ length_ = 0
  /\ now = 0
  /\ waiting = {}
  /\ op = [t \in Threads |-> "idle"]
  /\ arg = [t \in Threads |-> None]
  /\ deadline = [t \in Threads |-> 0]
  /\ ret = [t \in Threads |-> None]

\* Mutant: emplace at the end.
emplace_back(q, e) == Append(q, e)

\* How many entries of the ordered q are due before w, and no later than w.
lower_bound(q, w) == Cardinality({i \in DOMAIN q : q[i].when < w})
upper_bound(q, w) == Cardinality({i \in DOMAIN q : q[i].when <= w})

\* queue_.emplace(): behind the entries that are due no later.
emplace(q, e) ==
  LET n == upper_bound(q, e.when)
  IN  SubSeq(q, 1, n) \o <<e>> \o SubSeq(q, n + 1, Len(q))

Full == max_size_ # -1 /\ length_ >= max_size_
Empty == queue_ = <<>>
Woken(t, o) == op[t] = o /\ t \notin waiting

sleep(t, o) ==
  /\ op' = [op EXCEPT ![t] = o]
  /\ waiting' = waiting \cup {t}
  /\ UNCHANGED <<queue_, length_, now, ret>>

\* Mutant: insert() does not notify.
put_silent(t, e) ==
  /\ queue_' = emplace(queue_, e)
  /\ length_' = length_ + 1
  /\ op' = [op EXCEPT ![t] = "idle"]
  /\ UNCHANGED <<now, waiting, ret, deadline>>

\* insert() up to the unlock, once there is room.
put(t, e) ==
  /\ queue_' = emplace(queue_, e)
  /\ length_' = length_ + 1
  /\ op' = [op EXCEPT ![t] = "notify"]
  /\ UNCHANGED <<now, waiting, ret, deadline>>

\* The call of insert(), with `Put' for what follows the wait for room.
insertCall(t, e, block, Put(_, _)) ==
  /\ op[t] = "idle"
  /\ max_size_ = -1 => length_ < MaxLength
  /\ \/ ~Full /\ Put(t, e) /\ UNCHANGED arg
     \/ Full /\ ~block /\ UNCHANGED vars \* raises "queue is full"
     \/ Full /\ block /\ sleep(t, "insert") /\ arg' = [arg EXCEPT ![t] = e]
                      /\ UNCHANGED deadline

\* A blocked insert() tests the length again.
insertRetry(t, Put(_, _)) ==
  /\ Woken(t, "insert")
  /\ \/ ~Full /\ Put(t, arg[t]) /\ arg' = [arg EXCEPT ![t] = None]
     \/ Full /\ sleep(t, "insert") /\ UNCHANGED <<arg, deadline>>

insert(t, e, block) == insertCall(t, e, block, put)
insertAgain(t) == insertRetry(t, put)

return(t) ==
  /\ op' = [op EXCEPT ![t] = "idle"]
  /\ UNCHANGED <<queue_, length_, now, waiting, deadline, ret>>

\* The first job is due: erase it, --length_, unlock.
take(t) ==
  /\ ret' = [ret EXCEPT ![t] = Head(queue_)]
  /\ queue_' = Tail(queue_)
  /\ length_' = length_ - 1
  /\ op' = [op EXCEPT ![t] = "notify"]
  /\ UNCHANGED <<now, waiting, deadline>>

\* interruptiblePop() of a queue that is not empty.
takeOrSleep(t) ==
  \/ now >= Head(queue_).when /\ take(t)
  \/ /\ now < Head(queue_).when
     /\ sleep(t, "popTimed")
     /\ deadline' = [deadline EXCEPT ![t] = Head(queue_).when]

interruptiblePop(t) ==
  /\ op[t] = "idle"
  /\ \/ Empty /\ sleep(t, "popEmpty") /\ UNCHANGED deadline
     \/ ~Empty /\ takeOrSleep(t)
  /\ UNCHANGED arg

\* After the first wait: nothing, or the second half on what is there now.
popAfterEmpty(t) ==
  /\ Woken(t, "popEmpty")
  /\ \/ Empty /\ return(t)
     \/ ~Empty /\ takeOrSleep(t)
  /\ UNCHANGED arg

\* After the timed wait interruptiblePop() returns None, whatever woke it.
popAfterTimed(t) ==
  /\ Woken(t, "popTimed")
  /\ return(t)
  /\ UNCHANGED arg

\* Mutant: a producer notifies one thread.
notifyAll_one(t) ==
  /\ op[t] = "notify"
  /\ op' = [op EXCEPT ![t] = "idle"]
  /\ \/ waiting = {} /\ UNCHANGED waiting
     \/ \E u \in waiting : waiting' = waiting \ {u}
  /\ ret' = [ret EXCEPT ![t] = None]
  /\ UNCHANGED <<queue_, length_, now, arg, deadline>>

\* notify_all after the unlock; then the operation returns.
notifyAll(t) ==
  /\ op[t] = "notify"
  /\ op' = [op EXCEPT ![t] = "idle"]
  /\ waiting' = {}
  /\ ret' = [ret EXCEPT ![t] = None]
  /\ UNCHANGED <<queue_, length_, now, arg, deadline>>

\* wakeup()
wakeup(t) ==
  /\ op[t] = "idle"
  /\ waiting' = {}
  /\ UNCHANGED <<queue_, length_, now, op, arg, deadline, ret>>

\* The timeout of wait_for.
timeout(t) ==
  /\ t \in waiting
  /\ op[t] = "popTimed"
  /\ now >= deadline[t]
  /\ waiting' = waiting \ {t}
  /\ UNCHANGED <<queue_, length_, now, op, arg, deadline, ret>>

spuriousWakeup(t) ==
  /\ t \in waiting
  /\ waiting' = waiting \ {t}
  /\ UNCHANGED <<queue_, length_, now, op, arg, deadline, ret>>

tick ==
  /\ now < MaxTime
  /\ now' = now + 1
  /\ UNCHANGED <<queue_, length_, waiting, op, arg, deadline, ret>>

Next ==
  \/ tick
  \/ \E p \in Producers :
       \/ \E e \in Entry, block \in BOOLEAN : insert(p, e, block)
       \/ insertAgain(p) \/ wakeup(p)
  \/ \E c \in Consumers :
       interruptiblePop(c) \/ popAfterEmpty(c) \/ popAfterTimed(c) \/ timeout(c)
  \/ \E t \in Threads : notifyAll(t) \/ spuriousWakeup(t)

Spec == Init /\ [][Next]_vars

(***************************************************************************)
(* Time passes, threads inside the queue go on, wait_for times out, and    *)
(* consumers call interruptiblePop() again, as the loop of a worker does.  *)
(***************************************************************************)
Fairness ==
  /\ WF_vars(tick)
  /\ \A t \in Threads : WF_vars(notifyAll(t))
  /\ \A p \in Producers : SF_vars(insertAgain(p))
  /\ \A c \in Consumers :
       /\ WF_vars(popAfterEmpty(c) \/ popAfterTimed(c)) /\ WF_vars(timeout(c))
       /\ WF_vars(interruptiblePop(c))

FairSpec == Spec /\ Fairness

-----------------------------------------------------------------------------
(***************************************************************************)
(* Properties                                                              *)
(***************************************************************************)

\* The first entry is the one that is due first, of equal ones the oldest, so the
\* only job interruptiblePop() looks at is the right one.
Sorted == \A i, j \in DOMAIN queue_ : i < j => queue_[i].when <= queue_[j].when

\* Nobody sleeps through a change: a producer with room, a consumer on a queue that
\* is not empty, or a consumer that would sleep past the first due time is asleep
\* only while a notify_all is pending.
NoOversleep ==
  \A t \in waiting :
    \/ \E u \in Threads : op[u] = "notify"
    \/ op[t] = "insert" /\ Full
    \/ op[t] = "popEmpty" /\ Empty
    \/ op[t] = "popTimed" /\ (Empty \/ deadline[t] <= Head(queue_).when)

\* The queue is in the order of the due times, and nobody sleeps through a change of it.
InTime == Sorted /\ NoOversleep

\* No job is due at the head of the queue, or one has just been taken.
NoneDue == ~Empty /\ now >= Head(queue_).when => \E c \in Consumers : op[c] = "notify"

\* While consumers pop, a job that is due at the head of the queue is taken, by
\* whichever of them comes first.
DueJobsLeave == []<>NoneDue
=============================================================================
