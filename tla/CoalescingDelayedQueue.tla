----------------------- MODULE CoalescingDelayedQueue -----------------------
(***************************************************************************)
(* stx::thread::CoalescingDelayedQueue<T>,                                 *)
(* thread/CoalescingDelayedQueue_impl.h: a DelayedQueue with an index from *)
(* jobs to due times.  A job that is queued already is moved forward or    *)
(* left where it is.                                                       *)
(*                                                                         *)
(* queue_ is ordered by time alone, so erasing (time, job) erases every    *)
(* entry of that time; and a move counts in length_ like a new entry.      *)
(***************************************************************************)
EXTENDS DelayedQueue

VARIABLES
  map_,    \* the due time of each job, or None
  collided \* history: two jobs were queued for the same time

coalVars == <<vars, map_, collided>>

CoalTypeOK ==
  /\ TypeOK
  /\ map_ \in [Jobs -> Times \cup {None}]
  /\ collided \in BOOLEAN

CoalInit == Init /\ map_ = [j \in Jobs |-> None] /\ collided = FALSE

\* Mutant: the old entry of the job is not erased.
coalPut_keepsOld(t, e) ==
  IF map_[e.job] = None \/ map_[e.job] > e.when
  THEN /\ put(t, e)
       /\ map_' = [map_ EXCEPT ![e.job] = e.when]
  ELSE /\ op' = [op EXCEPT ![t] = "idle"]
       /\ UNCHANGED <<queue_, length_, now, waiting, ret, deadline, map_>>

\* queue_.erase() of a key: every entry of its time, since the order knows only the time.
erase(q, w) ==
  SubSeq(q, 1, lower_bound(q, w)) \o SubSeq(q, upper_bound(q, w) + 1, Len(q))

\* insert() once there is room.
coalPut(t, e) ==
  LET old == map_[e.job] IN
  IF old = None
  THEN put(t, e) /\ map_' = [map_ EXCEPT ![e.job] = e.when]
  ELSE IF old > e.when
  THEN /\ queue_' = emplace(erase(queue_, old), e)
       /\ map_' = [map_ EXCEPT ![e.job] = e.when]
       /\ length_' = length_ + 1
       /\ op' = [op EXCEPT ![t] = "notify"]
       /\ UNCHANGED <<now, waiting, ret, deadline>>
  ELSE /\ op' = [op EXCEPT ![t] = "idle"]
       /\ UNCHANGED <<queue_, length_, now, waiting, ret, deadline, map_>>

coalInsert(t, e, block) ==
  /\ insertCall(t, e, block, coalPut)
  /\ Full => UNCHANGED map_

coalInsertAgain(t) == insertRetry(t, coalPut) /\ (Full => UNCHANGED map_)

\* map_.erase() of the job that interruptiblePop() takes.
popMap(t) ==
  map_' = IF op'[t] = "notify" THEN [map_ EXCEPT ![Head(queue_).job] = None] ELSE map_

coalPop(t) ==
  /\ interruptiblePop(t) \/ popAfterEmpty(t) \/ popAfterTimed(t)
  /\ popMap(t)

Collision ==
  \E i, j \in DOMAIN queue_ : queue_[i].when = queue_[j].when /\ queue_[i].job # queue_[j].job

CoalStep ==
  \/ tick /\ UNCHANGED map_
  \/ \E p \in Producers :
       \/ \E e \in Entry, block \in BOOLEAN : coalInsert(p, e, block)
       \/ coalInsertAgain(p)
       \/ wakeup(p) /\ UNCHANGED map_
  \/ \E c \in Consumers : coalPop(c) \/ (timeout(c) /\ UNCHANGED map_)
  \/ \E t \in Threads : (notifyAll(t) \/ spuriousWakeup(t)) /\ UNCHANGED map_

CoalNext == CoalStep /\ collided' = (collided \/ Collision')

CoalSpec == CoalInit /\ [][CoalNext]_coalVars

-----------------------------------------------------------------------------
(***************************************************************************)
(* Properties                                                              *)
(***************************************************************************)

\* The index and the queue agree: a job that the index knows is queued once, at
\* the time of the index, and will be handed out; a job that it does not know is
\* not queued.  So no accepted job is lost, and each is handed out once, however
\* often it is moved, as long as no two jobs have been queued for the same time.
NoJobLost ==
  collided \/ \A j \in Jobs :
    LET at == {i \in DOMAIN queue_ : queue_[i].job = j} IN
    IF map_[j] = None THEN at = {}
    ELSE \E i \in at : at = {i} /\ queue_[i].when = map_[j]

\* insert() raises "queue is full", or blocks, only when max_size_ jobs are queued.
FullMeansFull == Full => Len(queue_) >= max_size_
=============================================================================
