---------------------------- MODULE QueueProofs ----------------------------
(***************************************************************************)
(* For any set of threads, any jobs and any capacity: length_ is exact, no *)
(* wakeup is lost, and the queue implements BoundedFIFO.                   *)
(***************************************************************************)
EXTENDS Queue, SequenceTheorems, TLAPS

\* A thread blocks in insert() only on a bounded queue, holding its job.
BlockedInserts ==
  \A t \in Threads : op[t] = "insert" => max_size_ # -1 /\ arg[t] \in Values

\* Only a thread inside a wait loop is asleep.
Sleepers == \A t \in waiting : op[t] \notin {"idle", "notify"}

\* The inductive invariant: the typing of queue_ needs BlockedInserts, and no
\* wakeup is lost only because length_ and queue_.size() agree.
Inv == TypeOK /\ BlockedInserts /\ Sleepers /\ LengthExact /\ NoLostWakeup

\* t can execute a section of an operation.
Active(t) == op[t] # "notify" /\ t \notin waiting

\* Every operation appends, takes, returns or goes to sleep on a false condition;
\* only the thread's own argument changes.
LEMMA StepShape ==
  ASSUME TypeOK, BlockedInserts, Sleepers, NEW t \in Threads,
         \/ \E v \in Values, block \in BOOLEAN : insert(t, v, block)
         \/ insertAgain(t) \/ pop(t) \/ interruptiblePop(t)
         \/ interruptiblePopAgain(t) \/ poll(t) \/ waitUntilEmpty(t)
  PROVE  /\ \/ \E v \in Values :
                 /\ append(t, v) /\ ~Full
                 /\ max_size_ = -1 => Len(queue_) < MaxLength
            \/ take(t)
            \/ \E r \in Results : return(t, r)
            \/ /\ wait(t, "insert") /\ Full
               /\ arg'[t] \in Values
            \/ \E o \in {"pop", "interruptiblePop"} : wait(t, o) /\ Empty
            \/ wait(t, "waitUntilEmpty") /\ ~Empty
         /\ arg' \in [Threads -> Values \cup {None}]
         /\ \A u \in Threads \ {t} : arg'[u] = arg[u]
         /\ Active(t)
<1>0. Active(t)
  BY DEF Active, Sleepers, insert, insertAgain, pop, interruptiblePop,
         interruptiblePopAgain, poll, waitUntilEmpty, Enters, Woken
<1>1. CASE \E v \in Values, block \in BOOLEAN : insert(t, v, block)
  <2>1. PICK v \in Values, block \in BOOLEAN : insert(t, v, block)
    BY <1>1
  <2>2. CASE ~Full /\ append(t, v) /\ UNCHANGED arg
    BY <1>0, <2>1, <2>2 DEF insert, TypeOK
  <2>3. CASE Full /\ ~block /\ return(t, QueueFull) /\ UNCHANGED arg
    BY <1>0, <2>1, <2>3 DEF insert, TypeOK, Results
  <2>4. CASE Full /\ block /\ wait(t, "insert") /\ arg' = [arg EXCEPT ![t] = v]
    BY <1>0, <2>1, <2>4 DEF insert, TypeOK
  <2> QED BY <2>1, <2>2, <2>3, <2>4 DEF insert
<1>2. CASE insertAgain(t)
  <2>1. op[t] = "insert" /\ arg[t] \in Values /\ max_size_ # -1
    BY <1>2 DEF insertAgain, Woken, BlockedInserts
  <2>2. CASE ~Full /\ append(t, arg[t]) /\ arg' = [arg EXCEPT ![t] = None]
    BY <1>0, <2>1, <2>2 DEF TypeOK
  <2>3. CASE Full /\ wait(t, "insert") /\ UNCHANGED arg
    BY <1>0, <2>1, <2>3 DEF TypeOK
  <2> QED BY <1>2, <2>2, <2>3 DEF insertAgain
<1>3. CASE pop(t)
  BY <1>0, <1>3 DEF pop, TypeOK
<1>4. CASE interruptiblePop(t)
  BY <1>0, <1>4 DEF interruptiblePop, TypeOK
<1>5. CASE interruptiblePopAgain(t) \/ poll(t)
  BY <1>0, <1>5 DEF interruptiblePopAgain, poll, TypeOK, Results
<1>6. CASE waitUntilEmpty(t)
  BY <1>0, <1>6 DEF waitUntilEmpty, TypeOK, Results
<1> QED BY <1>0, <1>1, <1>2, <1>3, <1>4, <1>5, <1>6

\* Every step of the queue preserves the invariant.
LEMMA NextInv == Inv /\ [Next]_vars => Inv'
<1> SUFFICES ASSUME Inv, [Next]_vars PROVE Inv'
  OBVIOUS
<1> USE QueueAssumption
<1>0. /\ TypeOK /\ BlockedInserts /\ Sleepers /\ LengthExact /\ NoLostWakeup
      /\ queue_ \in Seq(Values) /\ Len(queue_) \in Nat
      /\ op \in [Threads -> Ops] /\ waiting \subseteq Threads
  BY LenProperties DEF Inv, TypeOK
<1>1. ASSUME NEW t \in Threads, NEW v \in Values, append(t, v), ~Full, Active(t),
             arg' \in [Threads -> Values \cup {None}],
             \A u \in Threads \ {t} : arg'[u] = arg[u]
      PROVE  Inv'
  <2>1. queue_' \in Seq(Values) /\ Len(queue_') = Len(queue_) + 1
    BY <1>0, <1>1, AppendProperties DEF append
  <2>2. TypeOK'
    BY <1>1, <2>1 DEF Inv, TypeOK, append, Ops, Results
  <2>3. BlockedInserts' /\ Sleepers'
    BY <1>0, <1>1 DEF BlockedInserts, Sleepers, append, Active
  <2>4. LengthExact'
    BY <1>0, <1>1, <2>1 DEF LengthExact, append, Full, TypeOK
  <2>5. NoLostWakeup'
    BY <1>0, <1>1 DEF NoLostWakeup, append
  <2> QED BY <2>2, <2>3, <2>4, <2>5 DEF Inv
<1>2. ASSUME NEW t \in Threads, take(t), Active(t),
             arg' \in [Threads -> Values \cup {None}],
             \A u \in Threads \ {t} : arg'[u] = arg[u]
      PROVE  Inv'
  <2>1. /\ queue_' \in Seq(Values) /\ Len(queue_') = Len(queue_) - 1
        /\ Head(queue_) \in Values /\ Len(queue_) > 0
    <3>1. Len(queue_) # 0
      BY <1>0, <1>2, EmptySeq DEF take, Empty
    <3> QED BY <1>0, <1>2, <3>1, HeadTailProperties DEF take, Empty
  <2>2. TypeOK'
    BY <1>0, <1>2, <2>1 DEF TypeOK, LengthExact, take, Ops, Results
  <2>3. BlockedInserts' /\ Sleepers'
    BY <1>0, <1>2 DEF BlockedInserts, Sleepers, take, Active
  <2>4. LengthExact'
    BY <1>0, <1>2, <2>1 DEF LengthExact, take, TypeOK
  <2>5. NoLostWakeup'
    BY <1>0, <1>2 DEF NoLostWakeup, take
  <2> QED BY <2>2, <2>3, <2>4, <2>5 DEF Inv
<1>3. ASSUME NEW t \in Threads, NEW r \in Results, return(t, r), Active(t),
             arg' \in [Threads -> Values \cup {None}],
             \A u \in Threads \ {t} : arg'[u] = arg[u]
      PROVE  Inv'
  <2>1. TypeOK' /\ BlockedInserts' /\ Sleepers'
    BY <1>0, <1>3 DEF TypeOK, BlockedInserts, Sleepers, return, Ops, Active
  <2>2. LengthExact'
    BY <1>0, <1>3 DEF LengthExact, return
  <2>3. NoLostWakeup'
    <3>1. ASSUME NEW u \in waiting', Ready(u)'
          PROVE  \E w \in Threads : op'[w] = "notify"
      <4>1. u \in waiting /\ u # t /\ u \in Threads
        BY <1>0, <1>3, <3>1 DEF return, Active
      <4>2. Ready(u)
        BY <1>0, <1>3, <3>1, <4>1 DEF return, Ready, Full, Empty
      <4>3. PICK w \in Threads : op[w] = "notify"
        BY <1>0, <4>1, <4>2 DEF NoLostWakeup
      <4> QED BY <1>0, <1>3, <4>3 DEF return, Active
    <3> QED BY <3>1 DEF NoLostWakeup
  <2> QED BY <2>1, <2>2, <2>3 DEF Inv
<1>4. ASSUME NEW t \in Threads, NEW o \in Ops \ {"idle", "notify"}, wait(t, o),
             Active(t),
             o = "insert" => Full /\ arg'[t] \in Values,
             o \in {"pop", "interruptiblePop"} => Empty,
             o = "waitUntilEmpty" => ~Empty,
             arg' \in [Threads -> Values \cup {None}],
             \A u \in Threads \ {t} : arg'[u] = arg[u]
      PROVE  Inv'
  <2>1. TypeOK' /\ Sleepers'
    BY <1>0, <1>4 DEF TypeOK, Sleepers, wait, Active
  <2>2. BlockedInserts'
    BY <1>0, <1>4 DEF BlockedInserts, wait, Full
  <2>3. LengthExact'
    BY <1>0, <1>4 DEF LengthExact, wait
  <2>4. NoLostWakeup'
    <3>1. ASSUME NEW u \in waiting', Ready(u)'
          PROVE  \E w \in Threads : op'[w] = "notify"
      <4>1. u \in Threads /\ (u = t \/ u \in waiting)
        BY <1>0, <1>4, <3>1 DEF wait
      <4>2. u # t
        <5>1. ASSUME u = t PROVE FALSE
          BY <1>0, <1>4, <3>1, <5>1 DEF wait, Ready, Full, Empty, Ops
        <5> QED BY <5>1
      <4>3. Ready(u) /\ u \in waiting
        BY <1>0, <1>4, <3>1, <4>1, <4>2 DEF wait, Ready, Full, Empty
      <4>4. PICK w \in Threads : op[w] = "notify"
        BY <1>0, <4>3 DEF NoLostWakeup
      <4> QED BY <1>0, <1>4, <4>4 DEF wait, Active
    <3> QED BY <3>1 DEF NoLostWakeup
  <2> QED BY <2>1, <2>2, <2>3, <2>4 DEF Inv
<1>5. ASSUME NEW t \in Threads,
             \/ \E v \in Values, block \in BOOLEAN : insert(t, v, block)
             \/ insertAgain(t) \/ pop(t) \/ interruptiblePop(t)
             \/ interruptiblePopAgain(t) \/ poll(t) \/ waitUntilEmpty(t)
      PROVE  Inv'
  BY <1>0, <1>1, <1>2, <1>3, <1>4, <1>5, StepShape DEF Ops
<1>6. ASSUME NEW t \in Threads, wakeup(t) \/ notifyAll(t)
      PROVE  Inv'
  <2>1. TypeOK' /\ BlockedInserts' /\ Sleepers'
    BY <1>0, <1>6 DEF TypeOK, BlockedInserts, Sleepers, wakeup, notifyAll, Ops
  <2>2. LengthExact' /\ NoLostWakeup'
    BY <1>0, <1>6 DEF LengthExact, NoLostWakeup, wakeup, notifyAll
  <2> QED BY <2>1, <2>2 DEF Inv
<1>7. ASSUME NEW t \in Threads, spuriousWakeup(t)
      PROVE  Inv'
  <2>1. TypeOK' /\ BlockedInserts' /\ Sleepers' /\ LengthExact'
    BY <1>0, <1>7 DEF TypeOK, BlockedInserts, Sleepers, LengthExact, spuriousWakeup
  <2>2. NoLostWakeup'
    BY <1>0, <1>7 DEF NoLostWakeup, spuriousWakeup, Ready, Full, Empty
  <2> QED BY <2>1, <2>2 DEF Inv
<1>8. CASE UNCHANGED vars
  <2>1. TypeOK' /\ BlockedInserts' /\ Sleepers' /\ LengthExact'
    BY <1>0, <1>8 DEF TypeOK, BlockedInserts, Sleepers, LengthExact, vars
  <2>2. NoLostWakeup'
    BY <1>0, <1>8 DEF NoLostWakeup, vars, Ready, Full, Empty
  <2> QED BY <2>1, <2>2 DEF Inv
<1> QED BY <1>5, <1>6, <1>7, <1>8 DEF Next

\* The empty queue satisfies the invariant.
LEMMA InitInv == Init => Inv
<1> SUFFICES ASSUME Init PROVE Inv
  OBVIOUS
<1>1. <<>> \in Seq(Values) /\ Len(<<>>) = 0
  BY EmptySeq
<1> QED BY <1>1, QueueAssumption DEF Init, Inv, TypeOK, BlockedInserts, Sleepers,
           LengthExact, NoLostWakeup, Ops, Results

\* The invariant holds in every behaviour of the queue.
THEOREM InvAlways == Spec => []Inv
BY InitInv, NextInv, PTL DEF Spec

\* Every variable of the queue keeps its type: length_ never goes below zero and a
\* blocked insert() always has a job to append.
THEOREM TypeCorrect == Spec => []TypeOK
BY InvAlways, PTL DEF Inv

\* length_ always agrees with queue_.size() and never exceeds max_size_.
THEOREM LengthCorrect == Spec => []LengthExact
BY InvAlways, PTL DEF Inv

\* No wakeup is ever lost on the shared condition variable.
THEOREM WakeupCorrect == Spec => []NoLostWakeup
BY InvAlways, PTL DEF Inv

\* What the run checks on its instance, for any threads, jobs and size: the counter is
\* exact and no wakeup is lost.
THEOREM QueueSafeCorrect == Spec => []QueueSafe
<1>1. LengthExact /\ NoLostWakeup => QueueSafe
  BY DEF QueueSafe
<1> QED BY <1>1, LengthCorrect, WakeupCorrect, PTL

\* Every step of the queue is a Put, a Take or a stutter of the abstract FIFO.
LEMMA StepRefines == Inv /\ [Next]_vars => [FIFO!Next]_queue_
<1> SUFFICES ASSUME Inv, [Next]_vars PROVE [FIFO!Next]_queue_
  OBVIOUS
<1>0. /\ TypeOK /\ BlockedInserts /\ Sleepers /\ LengthExact
      /\ queue_ \in Seq(Values) /\ Len(queue_) \in Nat
  BY LenProperties DEF Inv, TypeOK
<1>1. ASSUME NEW t \in Threads, NEW v \in Values, append(t, v), ~Full,
             max_size_ = -1 => Len(queue_) < MaxLength
      PROVE  FIFO!Next
  BY <1>0, <1>1, QueueAssumption
     DEF FIFO!Next, FIFO!Put, append, Full, LengthExact
<1>2. ASSUME NEW t \in Threads, take(t)
      PROVE  FIFO!Next
  BY <1>2 DEF FIFO!Next, FIFO!Take, take, Empty
<1>3. ASSUME NEW t \in Threads,
             \/ \E v \in Values, block \in BOOLEAN : insert(t, v, block)
             \/ insertAgain(t) \/ pop(t) \/ interruptiblePop(t)
             \/ interruptiblePopAgain(t) \/ poll(t) \/ waitUntilEmpty(t)
      PROVE  [FIFO!Next]_queue_
  BY <1>0, <1>1, <1>2, <1>3, StepShape DEF return, wait
<1>4. ASSUME NEW t \in Threads, wakeup(t) \/ notifyAll(t) \/ spuriousWakeup(t)
      PROVE  UNCHANGED queue_
  BY <1>4 DEF wakeup, notifyAll, spuriousWakeup
<1> QED BY <1>3, <1>4 DEF Next, vars

\* The queue implements the bounded FIFO: jobs leave in the order in which they
\* were inserted, each exactly once, never more than max_size_ of them held.
THEOREM QueueIsFIFO == Spec => IsFIFO
<1>1. Init => FIFO!Init
  BY DEF Init, FIFO!Init
<1> QED BY <1>1, StepRefines, InvAlways, PTL DEF Spec, IsFIFO, FIFO!Spec

=============================================================================
