--------------------- MODULE FixedSizeThreadPoolProofs ---------------------
(***************************************************************************)
(* For any workers, clients, tasks and queue size: a task is in one place, *)
(* and when stop() returns every task accepted before it has finished.     *)
(***************************************************************************)
EXTENDS FixedSizeThreadPool, TLAPS

\* Where a task can be: in the queue, in the hands of a worker that has popped it or runs
\* it, in a blocked run(), or done.
InQueue(x) == \E i \in DOMAIN queue_ : queue_[i] = x
Holds(w, x) ==
  \/ pc[w] = "popping" /\ op[w] \in {"idle", "notify"} /\ ret[w] = x
  \/ pc[w] = "task" /\ current[w] = x
Blocked(c, x) == op[c] = "insert" /\ arg[c] = x

\* A task that run() has accepted is in one place, one that is blocked was not accepted.
Placed(x) ==
  /\ InQueue(x) => x \in accepted /\ x \notin done /\ \A w \in Workers : ~Holds(w, x)
  /\ \A w \in Workers :
       Holds(w, x) => x \in accepted /\ x \notin done /\ \A v \in Workers : Holds(v, x) => v = w
  /\ x \in accepted => InQueue(x) \/ x \in done \/ \E w \in Workers : Holds(w, x)
  /\ \A c \in Users :
       Blocked(c, x) => x \in submitted \ accepted /\ \A d \in Users : Blocked(d, x) => d = c
Places == \A x \in Tasks : Placed(x)

Histories == done \subseteq accepted /\ accepted \subseteq submitted /\ due \subseteq accepted

QueueOnce == \A i, j \in DOMAIN queue_ : queue_[i] = queue_[j] => i = j

\* Where a worker is in the queue agrees with where it is in its loop.
WorkersAt ==
  \A w \in Workers :
    /\ op[w] = "insert" => pc[w] = "task"
    /\ op[w] = "interruptiblePop" => pc[w] = "popping"
    /\ pc[w] = "popping" /\ op[w] \in {"idle", "notify"} => ret[w] \in Tasks \cup {None}
    /\ pc[w] = "task" <=> current[w] # None
    /\ owner = "new" => pc[w] = "none"

BlockedArgs == \A c \in Users : op[c] = "insert" => arg[c] \in Tasks

\* What stop() has seen: the queue was empty once, so none of its tasks is queued.
Drained ==
  /\ owner \in {"drained", "flagged", "join"} => \A x \in due : ~InQueue(x)
  /\ owner = "stopped" => due \subseteq done

Typed == TypeOK /\ length_ = Len(queue_) /\ WorkersAt /\ BlockedArgs

\* The inductive invariant.
Inv == Typed /\ Places /\ Histories /\ QueueOnce /\ Drained

\* The queue after a task was appended or the first one taken.
LEMMA AppendTasks ==
  ASSUME NEW q \in Seq(Tasks), NEW x \in Tasks
  PROVE  /\ Append(q, x) \in Seq(Tasks) /\ Len(Append(q, x)) = Len(q) + 1
         /\ \A y : (\E i \in DOMAIN Append(q, x) : Append(q, x)[i] = y)
                     <=> (\E i \in DOMAIN q : q[i] = y) \/ y = x
         /\ (\A i \in DOMAIN q : q[i] # x) /\ (\A i, j \in DOMAIN q : q[i] = q[j] => i = j) =>
              \A i, j \in DOMAIN Append(q, x) : Append(q, x)[i] = Append(q, x)[j] => i = j
<1> DEFINE r == Append(q, x)
<1>1. /\ r \in Seq(Tasks) /\ Len(r) = Len(q) + 1 /\ Len(q) \in Nat
      /\ DOMAIN r = 1..(Len(q) + 1) /\ DOMAIN q = 1..Len(q)
      /\ r[Len(q) + 1] = x /\ \A i \in 1..Len(q) : r[i] = q[i]
  OBVIOUS
<1> HIDE DEF r
<1>2. \A i \in DOMAIN r : i \in DOMAIN q \/ i = Len(q) + 1
  BY <1>1
<1>3. \A i \in DOMAIN q : i \in DOMAIN r /\ r[i] = q[i]
  BY <1>1
<1>4. Len(q) + 1 \in DOMAIN r
  BY <1>1
<1>5. \A y : (\E i \in DOMAIN r : r[i] = y) <=> (\E i \in DOMAIN q : q[i] = y) \/ y = x
  BY <1>1, <1>2, <1>3, <1>4
<1>6. ASSUME \A i \in DOMAIN q : q[i] # x, \A i, j \in DOMAIN q : q[i] = q[j] => i = j
      PROVE  \A i, j \in DOMAIN r : r[i] = r[j] => i = j
  BY <1>1, <1>2, <1>3, <1>6
<1> QED BY <1>1, <1>5, <1>6 DEF r

LEMMA TailTasks ==
  ASSUME NEW q \in Seq(Tasks), q # <<>>, \A i, j \in DOMAIN q : q[i] = q[j] => i = j
  PROVE  /\ Tail(q) \in Seq(Tasks) /\ Len(Tail(q)) = Len(q) - 1 /\ Len(q) >= 1
         /\ Head(q) \in Tasks /\ \E i \in DOMAIN q : q[i] = Head(q)
         /\ \A y : (\E i \in DOMAIN Tail(q) : Tail(q)[i] = y)
                     <=> (\E i \in DOMAIN q : q[i] = y) /\ y # Head(q)
         /\ \A i, j \in DOMAIN Tail(q) : Tail(q)[i] = Tail(q)[j] => i = j
<1> DEFINE r == Tail(q)
<1>1. /\ r \in Seq(Tasks) /\ Len(q) \in Nat /\ Len(q) >= 1 /\ Len(r) = Len(q) - 1
      /\ DOMAIN r = 1..(Len(q) - 1) /\ DOMAIN q = 1..Len(q)
      /\ \A i \in 1..(Len(q) - 1) : r[i] = q[i + 1]
      /\ Head(q) = q[1] /\ q[1] \in Tasks
  OBVIOUS
<1> HIDE DEF r
<1>2. \A i \in DOMAIN r : i + 1 \in DOMAIN q /\ i + 1 # 1 /\ r[i] = q[i + 1]
  BY <1>1
<1>3. \A i \in DOMAIN q : i = 1 \/ (i - 1 \in DOMAIN r /\ r[i - 1] = q[i])
  <2> SUFFICES ASSUME NEW i \in 1..Len(q), i # 1
               PROVE  i - 1 \in DOMAIN r /\ r[i - 1] = q[i]
    BY <1>1
  <2>1. i - 1 \in 1..(Len(q) - 1) /\ (i - 1) + 1 = i
    BY <1>1
  <2> QED BY <1>1, <2>1
<1>4. 1 \in DOMAIN q
  BY <1>1
<1>5. ASSUME NEW y
      PROVE  (\E i \in DOMAIN r : r[i] = y) <=> (\E i \in DOMAIN q : q[i] = y) /\ y # Head(q)
  <2>1. ASSUME \E i \in DOMAIN r : r[i] = y PROVE (\E i \in DOMAIN q : q[i] = y) /\ y # Head(q)
    BY <1>1, <1>2, <1>4, <2>1
  <2>2. ASSUME \E i \in DOMAIN q : q[i] = y, y # Head(q) PROVE \E i \in DOMAIN r : r[i] = y
    BY <1>1, <1>3, <2>2
  <2> QED BY <2>1, <2>2
<1>6. ASSUME NEW i \in DOMAIN r, NEW j \in DOMAIN r, r[i] = r[j] PROVE i = j
  <2>1. i + 1 = j + 1
    BY <1>2, <1>6
  <2> QED BY <1>1, <2>1
<1> QED BY <1>1, <1>4, <1>5, <1>6 DEF r

\* What moves no task, except that a new one may be blocked, keeps every task in its place.
LEMMA PlacesKept ==
  ASSUME Inv, UNCHANGED <<queue_, accepted, done, due>>, submitted \subseteq submitted',
         \A x \in Tasks, w \in Workers : Holds(w, x)' <=> Holds(w, x),
         NEW b,
         \A x \in Tasks, c \in Users :
           Blocked(c, x)' => Blocked(c, x) \/ (c = b /\ x \in submitted' \ submitted)
  PROVE  Places' /\ Histories' /\ QueueOnce' /\ (owner' = owner => Drained')
<1>1. \A x : InQueue(x)' <=> InQueue(x)
  BY DEF InQueue
<1>2. Places'
  <2> SUFFICES ASSUME NEW x \in Tasks PROVE Placed(x)'
    BY DEF Places
  <2>1. Placed(x)
    BY DEF Inv, Places
  <2>2. accepted \subseteq submitted
    BY DEF Inv, Histories
  <2> QED BY <1>1, <2>1, <2>2 DEF Placed
<1>3. Histories' /\ QueueOnce'
  BY DEF Inv, Histories, QueueOnce
<1>4. owner' = owner => Drained'
  BY <1>1 DEF Inv, Drained
<1> QED BY <1>2, <1>3, <1>4

\* A step of a thread that leaves the pool alone: a notify_all or a spurious wakeup.
LEMMA NotifyStep ==
  ASSUME Inv, NEW c \in Users, notifyAll(c) \/ spuriousWakeup(c)
  PROVE  Inv'
<1>1. CASE notifyAll(c)
  <2>1. /\ op[c] = "notify" /\ op' = [op EXCEPT ![c] = "idle"] /\ waiting' = {}
        /\ UNCHANGED <<queue_, length_, arg, ret>> /\ UNCHANGED poolVars
    BY <1>1 DEF notifyAll, Q!notifyAll
  <2>2. op \in [Users -> Q!Ops] /\ Workers \subseteq Users
    BY DEF Inv, Typed, TypeOK, Q!TypeOK, Users
  <2>3. op'[c] = "idle" /\ \A d \in Users : d # c => op'[d] = op[d]
    BY <2>1, <2>2
  <2>4. Typed'
    <3>1. TypeOK' /\ length_' = Len(queue_')
      BY <2>1 DEF Inv, Typed, TypeOK, Q!TypeOK, Q!Ops, poolVars
    <3>2. WorkersAt'
      BY <2>1, <2>2, <2>3 DEF Inv, Typed, WorkersAt, poolVars
    <3>3. BlockedArgs'
      BY <2>1, <2>3 DEF Inv, Typed, BlockedArgs
    <3> QED BY <3>1, <3>2, <3>3 DEF Typed
  <2>5. \A x \in Tasks, w \in Workers : Holds(w, x)' <=> Holds(w, x)
    BY <2>1, <2>2, <2>3 DEF Holds, poolVars
  <2>6. \A x \in Tasks, d \in Users : Blocked(d, x)' => Blocked(d, x)
    BY <2>1, <2>3 DEF Blocked
  <2> QED BY <2>1, <2>4, <2>5, <2>6, PlacesKept DEF Inv, poolVars
<1>2. CASE spuriousWakeup(c)
  <2>1. /\ waiting' = waiting \ {c} /\ UNCHANGED <<queue_, length_, op, arg, ret>>
        /\ UNCHANGED poolVars
    BY <1>2 DEF spuriousWakeup, Q!spuriousWakeup
  <2>2. Typed'
    BY <2>1 DEF Inv, Typed, TypeOK, Q!TypeOK, WorkersAt, BlockedArgs, poolVars
  <2>3. \A x \in Tasks, w \in Workers : Holds(w, x)' <=> Holds(w, x)
    BY <2>1 DEF Holds, poolVars
  <2>4. \A x \in Tasks, d \in Users : Blocked(d, x)' => Blocked(d, x)
    BY <2>1 DEF Blocked
  <2> QED BY <2>1, <2>2, <2>3, <2>4, PlacesKept DEF Inv, poolVars
<1> QED BY <1>1, <1>2

\* run() has put a task into the queue that nobody has.
LEMMA AcceptStep ==
  ASSUME Inv, NEW c \in Users, NEW x \in Tasks, Q!append(c, x),
         op[c] # "notify", c \in Workers => pc[c] = "task",
         arg' \in [Users -> Tasks \cup {None}], \A d \in Users : d # c => arg'[d] = arg[d],
         x \notin accepted, \A d \in Users : d # c => ~Blocked(d, x),
         submitted \subseteq submitted', submitted' \subseteq Tasks, x \in submitted',
         accepted' = accepted \cup Range(queue_'),
         UNCHANGED <<running_, owner, pc, current, done, due, aborted>>
  PROVE  Inv'
<1>1. /\ queue_' = Append(queue_, x) /\ length_' = length_ + 1 /\ waiting' = waiting
      /\ op' = [op EXCEPT ![c] = "notify"] /\ ret' = [ret EXCEPT ![c] = Q!Void]
  BY DEF Q!append
<1>2. /\ queue_ \in Seq(Tasks) /\ op \in [Users -> Q!Ops] /\ Workers \subseteq Users
      /\ ret \in [Users -> Q!Results] /\ length_ = Len(queue_)
      /\ Places /\ Histories /\ QueueOnce /\ Drained /\ WorkersAt /\ BlockedArgs
      /\ accepted \subseteq Tasks
  BY DEF Inv, Typed, TypeOK, Q!TypeOK, Users
<1>3. ~InQueue(x) /\ \A w \in Workers : ~Holds(w, x)
  BY <1>2 DEF Places, Placed
<1>4. /\ queue_' \in Seq(Tasks) /\ Len(queue_') = Len(queue_) + 1 /\ Len(queue_) \in Nat
      /\ \A y : InQueue(y)' <=> InQueue(y) \/ y = x
      /\ QueueOnce'
  BY <1>1, <1>2, <1>3, AppendTasks DEF InQueue, QueueOnce
<1>5. /\ op'[c] = "notify" /\ ret'[c] = Q!Void
      /\ \A d \in Users : d # c => op'[d] = op[d] /\ ret'[d] = ret[d]
  BY <1>1, <1>2
<1>6. accepted' = accepted \cup {x}
  <2>1. \A y : y \in Range(queue_') <=> InQueue(y)'
    BY DEF Range, InQueue
  <2>2. \A y \in Tasks : InQueue(y) => y \in accepted
    BY <1>2 DEF Places, Placed
  <2>3. \A y : InQueue(y) => y \in Tasks
    BY <1>2 DEF InQueue
  <2>4. \A y : y \in accepted' <=> y \in accepted \/ y = x
    BY <1>4, <2>1, <2>2, <2>3
  <2> QED BY <2>4
<1>7. \A y \in Tasks, w \in Workers : Holds(w, y)' <=> Holds(w, y)
  BY <1>2, <1>5 DEF Holds
<1>8. \A y \in Tasks, d \in Users : Blocked(d, y)' => Blocked(d, y) /\ d # c
  BY <1>5 DEF Blocked
<1>9. Typed'
  <2>1. TypeOK'
    BY <1>1, <1>2, <1>4, <1>6 DEF Inv, Typed, TypeOK, Q!TypeOK, Q!Ops, Q!Results
  <2>2. WorkersAt'
    BY <1>2, <1>5 DEF WorkersAt
  <2>3. BlockedArgs'
    BY <1>2, <1>5 DEF BlockedArgs
  <2> QED BY <1>1, <1>2, <1>4, <2>1, <2>2, <2>3 DEF Typed
<1>10. Places'
  <2> SUFFICES ASSUME NEW y \in Tasks PROVE Placed(y)'
    BY DEF Places
  <2>1. Placed(y)
    BY <1>2 DEF Places
  <2>2. x \notin done
    BY <1>2 DEF Histories
  <2>3. CASE y = x
    BY <1>3, <1>4, <1>6, <1>7, <1>8, <2>2, <2>3 DEF Placed
  <2>4. CASE y # x
    BY <1>4, <1>6, <1>7, <1>8, <2>1, <2>4 DEF Placed
  <2> QED BY <2>3, <2>4
<1>11. Histories'
  BY <1>2, <1>6 DEF Histories
<1>12. Drained'
  <2>1. x \notin due
    BY <1>2 DEF Histories
  <2> QED BY <1>2, <1>4, <2>1 DEF Drained
<1> QED BY <1>4, <1>9, <1>10, <1>11, <1>12 DEF Inv

\* What is queued was accepted.
LEMMA QueuedAccepted ==
  ASSUME Inv, queue_' = queue_
  PROVE  accepted \cup Range(queue_') = accepted
<1>1. \A i \in DOMAIN queue_ : queue_[i] \in Tasks /\ InQueue(queue_[i])
  BY DEF Inv, Typed, TypeOK, Q!TypeOK, InQueue
<1> QED BY <1>1 DEF Inv, Places, Placed, Range

LEMMA RunStep ==
  ASSUME Inv, NEW c \in Users, NEW t \in Tasks, run(c, t)
  PROVE  Inv'
<1>1. /\ c \in Clients \/ (c \in Workers /\ pc[c] = "task")
      /\ t \notin submitted /\ submitted' = submitted \cup {t} /\ op[c] = "idle"
      /\ accepted' = accepted \cup Range(queue_')
      /\ UNCHANGED <<running_, owner, pc, current, done, due, aborted>>
  BY DEF run, Q!insert, Q!Enters
<1>2. /\ op \in [Users -> Q!Ops] /\ arg \in [Users -> Tasks \cup {None}] /\ Workers \subseteq Users
      /\ ret \in [Users -> Q!Results] /\ submitted \subseteq Tasks
      /\ WorkersAt /\ BlockedArgs /\ TypeOK /\ length_ = Len(queue_) /\ Histories /\ Places
  BY DEF Inv, Typed, TypeOK, Q!TypeOK, Users
<1>3. c \in Workers => pc[c] = "task"
  BY <1>1, PoolAssumption
<1>4. CASE Q!append(c, t) /\ UNCHANGED arg
  <2>1. t \notin accepted /\ \A d \in Users : ~Blocked(d, t)
    BY <1>1, <1>2 DEF Histories, Places, Placed
  <2> QED BY <1>1, <1>2, <1>3, <1>4, <2>1, AcceptStep
<1>5. CASE Q!return(c, Q!QueueFull) /\ UNCHANGED arg
  <2>1. /\ op' = [op EXCEPT ![c] = "idle"] /\ ret' = [ret EXCEPT ![c] = Q!QueueFull]
        /\ UNCHANGED <<queue_, length_, waiting, arg>> /\ op' = op
    BY <1>1, <1>2, <1>5 DEF Q!return
  <2>2. accepted' = accepted
    BY <1>1, <2>1, QueuedAccepted
  <2>3. \A d \in Users : d # c => ret'[d] = ret[d]
    BY <1>2, <2>1
  <2>4. Typed'
    <3>1. TypeOK' /\ length_' = Len(queue_')
      BY <1>1, <1>2, <2>1, <2>2 DEF TypeOK, Q!TypeOK, Q!Results
    <3>2. WorkersAt' /\ BlockedArgs'
      BY <1>1, <1>2, <1>3, <2>1, <2>3 DEF WorkersAt, BlockedArgs
    <3> QED BY <3>1, <3>2 DEF Typed
  <2>5. \A x \in Tasks, w \in Workers : Holds(w, x)' <=> Holds(w, x)
    BY <1>1, <1>2, <1>3, <2>1, <2>3 DEF Holds
  <2>6. \A x \in Tasks, d \in Users : Blocked(d, x)' => Blocked(d, x)
    BY <2>1 DEF Blocked
  <2> QED BY <1>1, <2>1, <2>2, <2>4, <2>5, <2>6, PlacesKept DEF Inv
<1>6. CASE Q!wait(c, "insert") /\ arg' = [arg EXCEPT ![c] = t]
  <2>1. /\ op' = [op EXCEPT ![c] = "insert"] /\ waiting' = waiting \cup {c}
        /\ UNCHANGED <<queue_, length_, ret>> /\ arg' = [arg EXCEPT ![c] = t]
    BY <1>6 DEF Q!wait
  <2>2. accepted' = accepted
    BY <1>1, <2>1, QueuedAccepted
  <2>3. /\ op'[c] = "insert" /\ arg'[c] = t
        /\ \A d \in Users : d # c => op'[d] = op[d] /\ arg'[d] = arg[d]
    BY <1>2, <2>1
  <2>4. Typed'
    <3>1. TypeOK' /\ length_' = Len(queue_')
      BY <1>1, <1>2, <2>1, <2>2 DEF TypeOK, Q!TypeOK, Q!Ops
    <3>2. WorkersAt'
      BY <1>1, <1>2, <1>3, <2>1, <2>3 DEF WorkersAt
    <3>3. BlockedArgs'
      BY <1>2, <2>3 DEF BlockedArgs
    <3> QED BY <3>1, <3>2, <3>3 DEF Typed
  <2>5. \A x \in Tasks, w \in Workers : Holds(w, x)' <=> Holds(w, x)
    BY <1>1, <1>2, <1>3, <2>1, <2>3 DEF Holds
  <2>6. \A x \in Tasks, d \in Users :
          Blocked(d, x)' => Blocked(d, x) \/ (d = c /\ x \in submitted' \ submitted)
    BY <1>1, <2>3 DEF Blocked
  <2> QED BY <1>1, <2>1, <2>2, <2>4, <2>5, <2>6, PlacesKept DEF Inv
<1> QED BY <1>4, <1>5, <1>6 DEF run, Q!insert

LEMMA RunAgainStep ==
  ASSUME Inv, NEW c \in Users, runAgain(c)
  PROVE  Inv'
<1>1. /\ op[c] = "insert" /\ accepted' = accepted \cup Range(queue_')
      /\ UNCHANGED <<running_, owner, pc, current, submitted, done, due, aborted>>
  BY DEF runAgain, Q!insertAgain, Q!Woken
<1>2. /\ op \in [Users -> Q!Ops] /\ arg \in [Users -> Tasks \cup {None}] /\ Workers \subseteq Users
      /\ WorkersAt /\ BlockedArgs /\ TypeOK /\ length_ = Len(queue_) /\ Places
      /\ submitted \subseteq Tasks
  BY DEF Inv, Typed, TypeOK, Q!TypeOK, Users
<1>3. arg[c] \in Tasks /\ Blocked(c, arg[c]) /\ (c \in Workers => pc[c] = "task")
  BY <1>1, <1>2 DEF WorkersAt, BlockedArgs, Blocked
<1>4. CASE Q!append(c, arg[c]) /\ arg' = [arg EXCEPT ![c] = None]
  <2>1. /\ arg[c] \in submitted \ accepted
        /\ \A d \in Users : d # c => ~Blocked(d, arg[c])
    BY <1>2, <1>3 DEF Places, Placed
  <2>2. arg' \in [Users -> Tasks \cup {None}] /\ \A d \in Users : d # c => arg'[d] = arg[d]
    BY <1>2, <1>4
  <2> QED BY <1>1, <1>2, <1>3, <1>4, <2>1, <2>2, AcceptStep
<1>5. CASE Q!wait(c, "insert") /\ UNCHANGED arg
  <2>1. /\ op' = [op EXCEPT ![c] = "insert"] /\ waiting' = waiting \cup {c}
        /\ UNCHANGED <<queue_, length_, ret, arg>>
    BY <1>5 DEF Q!wait
  <2>2. accepted' = accepted /\ op' = op
    BY <1>1, <1>2, <2>1, QueuedAccepted
  <2>3. Typed'
    BY <1>1, <1>2, <2>1, <2>2 DEF TypeOK, Q!TypeOK, Typed, WorkersAt, BlockedArgs
  <2>4. \A x \in Tasks, w \in Workers : Holds(w, x)' <=> Holds(w, x)
    BY <1>1, <2>1, <2>2 DEF Holds
  <2>5. \A x \in Tasks, d \in Users : Blocked(d, x)' => Blocked(d, x)
    BY <2>1, <2>2 DEF Blocked
  <2> QED BY <1>1, <2>1, <2>2, <2>3, <2>4, <2>5, PlacesKept DEF Inv
<1> QED BY <1>4, <1>5 DEF runAgain, Q!insertAgain

\* A worker takes the first task of the queue: now it holds it.
LEMMA TakeStep ==
  ASSUME Inv, NEW w \in Workers, Q!take(w), pc'[w] = "popping",
         pc' \in [Workers -> {"none", "test", "pop", "popping", "task", "exit"}],
         \A v \in Workers : v # w => pc'[v] = pc[v],
         pc[w] = "pop" \/ (pc[w] = "popping" /\ op[w] = "interruptiblePop"),
         UNCHANGED <<arg, running_, owner, current, submitted, accepted, done, due, aborted>>
  PROVE  Inv'
<1> DEFINE h == Head(queue_)
<1>1. /\ queue_ # <<>> /\ queue_' = Tail(queue_) /\ length_' = length_ - 1 /\ waiting' = waiting
      /\ op' = [op EXCEPT ![w] = "notify"] /\ ret' = [ret EXCEPT ![w] = h]
  BY DEF Q!take, Q!Empty
<1>2. /\ queue_ \in Seq(Tasks) /\ op \in [Users -> Q!Ops] /\ Workers \subseteq Users /\ w \in Users
      /\ ret \in [Users -> Q!Results] /\ length_ = Len(queue_)
      /\ TypeOK /\ Places /\ Histories /\ QueueOnce /\ Drained /\ WorkersAt /\ BlockedArgs
  BY DEF Inv, Typed, TypeOK, Q!TypeOK, Users
<1>3. /\ queue_' \in Seq(Tasks) /\ Len(queue_') = Len(queue_) - 1 /\ Len(queue_) \in Nat
      /\ Len(queue_) >= 1 /\ h \in Tasks /\ InQueue(h)
      /\ \A y : InQueue(y)' <=> InQueue(y) /\ y # h
      /\ QueueOnce'
  <2>1. \A i, j \in DOMAIN queue_ : queue_[i] = queue_[j] => i = j
    BY <1>2 DEF QueueOnce
  <2>2. /\ Tail(queue_) \in Seq(Tasks) /\ Len(Tail(queue_)) = Len(queue_) - 1 /\ Len(queue_) >= 1
        /\ h \in Tasks /\ \E i \in DOMAIN queue_ : queue_[i] = h
        /\ \A y : (\E i \in DOMAIN Tail(queue_) : Tail(queue_)[i] = y)
                    <=> (\E i \in DOMAIN queue_ : queue_[i] = y) /\ y # h
        /\ \A i, j \in DOMAIN Tail(queue_) : Tail(queue_)[i] = Tail(queue_)[j] => i = j
    BY <1>1, <1>2, <2>1, TailTasks
  <2>3. Len(queue_) \in Nat
    BY <1>2
  <2> HIDE DEF h
  <2>4. QueueOnce' /\ InQueue(h) /\ \A y : InQueue(y)' <=> InQueue(y) /\ y # h
    BY <1>1, <2>2 DEF InQueue, QueueOnce
  <2> QED BY <1>1, <2>2, <2>3, <2>4
<1> HIDE DEF h
<1>4. /\ op'[w] = "notify" /\ ret'[w] = h
      /\ \A d \in Users : d # w => op'[d] = op[d] /\ ret'[d] = ret[d]
  BY <1>1, <1>2
<1>5. /\ \A y \in Tasks : ~Holds(w, y) /\ (Holds(w, y)' <=> y = h)
      /\ \A y \in Tasks, v \in Workers : v # w => (Holds(v, y)' <=> Holds(v, y))
  <2>1. \A y \in Tasks : ~Holds(w, y)
    BY DEF Holds
  <2>2. \A y \in Tasks : Holds(w, y)' <=> y = h
    BY <1>4 DEF Holds
  <2>3. \A y \in Tasks, v \in Workers : v # w => (Holds(v, y)' <=> Holds(v, y))
    BY <1>2, <1>4 DEF Holds
  <2> QED BY <2>1, <2>2, <2>3
<1>6. \A y \in Tasks, d \in Users : Blocked(d, y)' => Blocked(d, y)
  BY <1>4 DEF Blocked
<1>7. Typed'
  <2>1. length_' \in Nat /\ length_' = Len(queue_')
    BY <1>1, <1>2, <1>3
  <2>2. TypeOK'
    BY <1>1, <1>2, <1>3, <2>1 DEF TypeOK, Q!TypeOK, Q!Ops, Q!Results
  <2>3. WorkersAt'
    <3>1. current[w] = None
      BY <1>2 DEF WorkersAt
    <3>2. owner # "new"
      BY <1>2 DEF WorkersAt
    <3> QED BY <1>2, <1>3, <1>4, <3>1, <3>2 DEF WorkersAt
  <2>4. BlockedArgs'
    BY <1>2, <1>4 DEF BlockedArgs
  <2> QED BY <2>1, <2>2, <2>3, <2>4 DEF Typed
<1>8. Places'
  <2> SUFFICES ASSUME NEW y \in Tasks PROVE Placed(y)'
    BY DEF Places
  <2>1. Placed(y)
    BY <1>2 DEF Places
  <2>2. CASE y = h
    BY <1>3, <1>5, <1>6, <2>1, <2>2 DEF Placed
  <2>3. CASE y # h
    BY <1>3, <1>5, <1>6, <2>1, <2>3 DEF Placed
  <2> QED BY <2>2, <2>3
<1>9. Histories' /\ Drained'
  BY <1>2, <1>3 DEF Histories, Drained
<1> QED BY <1>3, <1>7, <1>8, <1>9 DEF Inv

\* A worker calls interruptiblePop() or comes back from its wait.
LEMMA PopStep ==
  ASSUME Inv, NEW w \in Workers, callPop(w) \/ popAgain(w)
  PROVE  Inv'
<1>1. /\ op \in [Users -> Q!Ops] /\ Workers \subseteq Users /\ w \in Users
      /\ ret \in [Users -> Q!Results] /\ length_ = Len(queue_)
      /\ pc \in [Workers -> {"none", "test", "pop", "popping", "task", "exit"}]
      /\ TypeOK /\ WorkersAt /\ BlockedArgs
  BY DEF Inv, Typed, TypeOK, Q!TypeOK, Users
<1>2. CASE callPop(w)
  <2>1. /\ pc[w] = "pop" /\ op[w] = "idle" /\ pc' = [pc EXCEPT ![w] = "popping"] /\ arg' = arg
        /\ UNCHANGED <<running_, owner, current, submitted, accepted, done, due, aborted>>
    BY <1>2 DEF callPop, Q!interruptiblePop, Q!Enters
  <2>2. CASE Q!take(w)
    BY <1>1, <2>1, <2>2, TakeStep
  <2>3. CASE Q!wait(w, "interruptiblePop")
    <3>1. /\ op' = [op EXCEPT ![w] = "interruptiblePop"] /\ waiting' = waiting \cup {w}
          /\ UNCHANGED <<queue_, length_, ret>>
      BY <2>3 DEF Q!wait
    <3>2. /\ op'[w] = "interruptiblePop" /\ \A d \in Users : d # w => op'[d] = op[d]
          /\ pc'[w] = "popping" /\ \A v \in Workers : v # w => pc'[v] = pc[v]
      BY <1>1, <2>1, <3>1
    <3>3. Typed'
      <4>1. TypeOK' /\ length_' = Len(queue_')
        BY <1>1, <2>1, <3>1 DEF TypeOK, Q!TypeOK, Q!Ops
      <4>2. WorkersAt'
        BY <1>1, <2>1, <3>1, <3>2 DEF WorkersAt
      <4>3. BlockedArgs'
        BY <1>1, <2>1, <3>2 DEF BlockedArgs
      <4> QED BY <4>1, <4>2, <4>3 DEF Typed
    <3>4. \A x \in Tasks, v \in Workers : Holds(v, x)' <=> Holds(v, x)
      BY <1>1, <2>1, <3>1, <3>2 DEF Holds
    <3>5. \A x \in Tasks, d \in Users : Blocked(d, x)' => Blocked(d, x)
      BY <2>1, <3>2 DEF Blocked
    <3> QED BY <2>1, <3>1, <3>3, <3>4, <3>5, PlacesKept DEF Inv
  <2> QED BY <1>2, <2>2, <2>3 DEF callPop, Q!interruptiblePop
<1>3. CASE popAgain(w)
  <2>1. /\ op[w] = "interruptiblePop" /\ arg' = arg /\ UNCHANGED poolVars
    BY <1>3 DEF popAgain, Q!interruptiblePopAgain, Q!Woken
  <2>2. pc[w] = "popping" /\ pc' = pc
    BY <1>1, <2>1 DEF WorkersAt, poolVars
  <2>3. CASE Q!take(w)
    BY <1>1, <2>1, <2>2, <2>3, TakeStep DEF poolVars
  <2>4. CASE Q!return(w, None)
    <3>1. /\ op' = [op EXCEPT ![w] = "idle"] /\ ret' = [ret EXCEPT ![w] = None]
          /\ UNCHANGED <<queue_, length_, waiting>>
      BY <2>4 DEF Q!return
    <3>2. /\ op'[w] = "idle" /\ ret'[w] = None
          /\ \A d \in Users : d # w => op'[d] = op[d] /\ ret'[d] = ret[d]
      BY <1>1, <3>1
    <3>3. Typed'
      <4>1. TypeOK' /\ length_' = Len(queue_')
        BY <1>1, <2>1, <3>1 DEF TypeOK, Q!TypeOK, Q!Ops, Q!Results, poolVars
      <4>2. WorkersAt'
        BY <1>1, <2>1, <2>2, <3>2 DEF WorkersAt, poolVars
      <4>3. BlockedArgs'
        BY <1>1, <2>1, <3>2 DEF BlockedArgs
      <4> QED BY <4>1, <4>2, <4>3 DEF Typed
    <3>4. \A x \in Tasks, v \in Workers : Holds(v, x)' <=> Holds(v, x)
      BY <1>1, <2>1, <2>2, <3>2, PoolAssumption DEF Holds, poolVars
    <3>5. \A x \in Tasks, d \in Users : Blocked(d, x)' => Blocked(d, x)
      BY <2>1, <3>2 DEF Blocked
    <3> QED BY <2>1, <3>1, <3>3, <3>4, <3>5, PlacesKept DEF Inv, poolVars
  <2> QED BY <1>3, <2>3, <2>4 DEF popAgain, Q!interruptiblePopAgain
<1> QED BY <1>2, <1>3

\* A worker tests running_, or starts what it has popped.
LEMMA LoopStep ==
  ASSUME Inv, NEW w \in Workers, testRunning(w) \/ gotJob(w)
  PROVE  Inv'
<1>1. /\ pc \in [Workers -> {"none", "test", "pop", "popping", "task", "exit"}]
      /\ current \in [Workers -> Tasks \cup {None}]
      /\ TypeOK /\ WorkersAt /\ BlockedArgs /\ length_ = Len(queue_)
  BY DEF Inv, Typed, TypeOK
<1>2. CASE testRunning(w)
  <2>1. /\ pc[w] = "test" /\ pc' = [pc EXCEPT ![w] = IF running_ THEN "pop" ELSE "exit"]
        /\ UNCHANGED <<queueVars, running_, owner, current, submitted, accepted, done, due, aborted>>
    BY <1>2 DEF testRunning
  <2>2. pc'[w] \in {"pop", "exit"} /\ \A v \in Workers : v # w => pc'[v] = pc[v]
    BY <1>1, <2>1
  <2>3. Typed'
    <3>1. TypeOK' /\ length_' = Len(queue_')
      BY <1>1, <2>1 DEF TypeOK, Q!TypeOK, queueVars
    <3>2. WorkersAt'
      BY <1>1, <2>1, <2>2 DEF WorkersAt, queueVars
    <3>3. BlockedArgs'
      BY <1>1, <2>1 DEF BlockedArgs, queueVars
    <3> QED BY <3>1, <3>2, <3>3 DEF Typed
  <2>4. \A x \in Tasks, v \in Workers : Holds(v, x)' <=> Holds(v, x)
    BY <2>1, <2>2 DEF Holds, queueVars
  <2>5. \A x \in Tasks, d \in Users : Blocked(d, x)' => Blocked(d, x)
    BY <2>1 DEF Blocked, queueVars
  <2> QED BY <2>1, <2>3, <2>4, <2>5, PlacesKept DEF Inv, queueVars
<1>3. CASE gotJob(w)
  <2>1. /\ pc[w] = "popping" /\ op[w] = "idle" /\ current' = [current EXCEPT ![w] = ret[w]]
        /\ pc' = [pc EXCEPT ![w] = IF ret[w] = None THEN "test" ELSE "task"]
        /\ UNCHANGED <<queueVars, running_, owner, submitted, accepted, done, due, aborted>>
    BY <1>3 DEF gotJob
  <2>2. /\ pc'[w] = IF ret[w] = None THEN "test" ELSE "task"
        /\ current'[w] = ret[w] /\ ret[w] \in Tasks \cup {None}
        /\ \A v \in Workers : v # w => pc'[v] = pc[v] /\ current'[v] = current[v]
    BY <1>1, <2>1 DEF WorkersAt
  <2>3. Typed'
    <3>1. TypeOK' /\ length_' = Len(queue_')
      BY <1>1, <2>1, <2>2 DEF TypeOK, Q!TypeOK, queueVars
    <3>2. WorkersAt'
      BY <1>1, <2>1, <2>2 DEF WorkersAt, queueVars
    <3>3. BlockedArgs'
      BY <1>1, <2>1 DEF BlockedArgs, queueVars
    <3> QED BY <3>1, <3>2, <3>3 DEF Typed
  <2>4. \A x \in Tasks, v \in Workers : Holds(v, x)' <=> Holds(v, x)
    BY <2>1, <2>2, PoolAssumption DEF Holds, queueVars
  <2>5. \A x \in Tasks, d \in Users : Blocked(d, x)' => Blocked(d, x)
    BY <2>1 DEF Blocked, queueVars
  <2> QED BY <2>1, <2>3, <2>4, <2>5, PlacesKept DEF Inv, queueVars
<1> QED BY <1>2, <1>3

\* A task ends and is done.
LEMMA FinishStep ==
  ASSUME Inv, NEW w \in Workers, finishTask(w)
  PROVE  Inv'
<1> DEFINE t == current[w]
<1>1. /\ pc[w] = "task" /\ op[w] = "idle" /\ pc' = [pc EXCEPT ![w] = "test"]
      /\ done' = done \cup {t} /\ current' = [current EXCEPT ![w] = None]
      /\ aborted' = AbortOnException \/ aborted' = aborted
      /\ UNCHANGED <<queueVars, running_, owner, submitted, accepted, due>>
  BY DEF finishTask
<1>2. /\ pc \in [Workers -> {"none", "test", "pop", "popping", "task", "exit"}]
      /\ current \in [Workers -> Tasks \cup {None}]
      /\ TypeOK /\ WorkersAt /\ BlockedArgs /\ length_ = Len(queue_)
      /\ Places /\ Histories /\ QueueOnce /\ Drained
  BY DEF Inv, Typed, TypeOK
<1>3. /\ pc'[w] = "test" /\ current'[w] = None /\ t \in Tasks /\ Holds(w, t)
      /\ \A v \in Workers : v # w => pc'[v] = pc[v] /\ current'[v] = current[v]
  BY <1>1, <1>2 DEF WorkersAt, Holds
<1>4. Typed'
  <2>1. aborted' \in BOOLEAN
    BY <1>1, <1>2 DEF AbortOnException, TypeOK
  <2>2. TypeOK' /\ length_' = Len(queue_')
    BY <1>1, <1>2, <1>3, <2>1 DEF TypeOK, Q!TypeOK, queueVars
  <2>3. WorkersAt'
    BY <1>1, <1>2, <1>3 DEF WorkersAt, queueVars
  <2>4. BlockedArgs'
    BY <1>1, <1>2 DEF BlockedArgs, queueVars
  <2> QED BY <2>2, <2>3, <2>4 DEF Typed
<1> HIDE DEF t
<1>5. /\ \A y : InQueue(y)' <=> InQueue(y)
      /\ \A y \in Tasks : ~Holds(w, y)' /\ (Holds(w, y) <=> y = t)
      /\ \A y \in Tasks, v \in Workers : v # w => (Holds(v, y)' <=> Holds(v, y))
      /\ \A y \in Tasks, d \in Users : Blocked(d, y)' <=> Blocked(d, y)
  BY <1>1, <1>3 DEF InQueue, Holds, Blocked, queueVars, t
<1>6. Places'
  <2> SUFFICES ASSUME NEW y \in Tasks PROVE Placed(y)'
    BY DEF Places
  <2>1. Placed(y)
    BY <1>2 DEF Places
  <2>2. CASE y = t
    BY <1>1, <1>3, <1>5, <2>1, <2>2 DEF Placed
  <2>3. CASE y # t
    BY <1>1, <1>5, <2>1, <2>3 DEF Placed
  <2> QED BY <2>2, <2>3
<1>7. t \in accepted
  BY <1>2, <1>3 DEF Places, Placed
<1>8. Histories' /\ QueueOnce' /\ Drained'
  BY <1>1, <1>2, <1>5, <1>7 DEF Histories, QueueOnce, Drained, queueVars
<1> QED BY <1>4, <1>6, <1>8 DEF Inv

\* start() and the steps of stop().
LEMMA OwnerSteps ==
  ASSUME Inv, start \/ stop \/ OwnerStep
  PROVE  Inv'
<1>1. /\ op \in [Users -> Q!Ops] /\ ret \in [Users -> Q!Results] /\ Owner \in Users
      /\ pc \in [Workers -> {"none", "test", "pop", "popping", "task", "exit"}]
      /\ TypeOK /\ WorkersAt /\ BlockedArgs /\ length_ = Len(queue_)
      /\ Places /\ Histories /\ QueueOnce /\ Drained /\ Workers \subseteq Users
  BY DEF Inv, Typed, TypeOK, Q!TypeOK, Users
<1>2. CASE start
  <2>1. /\ owner = "new" /\ owner' = "started" /\ running_' = TRUE
        /\ pc' = [w \in Workers |-> "test"]
        /\ UNCHANGED <<queueVars, current, submitted, accepted, done, due, aborted>>
    BY <1>2 DEF start
  <2>2. \A w \in Workers : pc[w] = "none" /\ pc'[w] = "test"
    BY <1>1, <2>1 DEF WorkersAt
  <2>3. Typed'
    <3>1. TypeOK' /\ length_' = Len(queue_')
      BY <1>1, <2>1 DEF TypeOK, Q!TypeOK, queueVars
    <3>2. WorkersAt'
      BY <1>1, <2>1, <2>2 DEF WorkersAt, queueVars
    <3>3. BlockedArgs'
      BY <1>1, <2>1 DEF BlockedArgs, queueVars
    <3> QED BY <3>1, <3>2, <3>3 DEF Typed
  <2>4. \A x \in Tasks, v \in Workers : Holds(v, x)' <=> Holds(v, x)
    BY <2>2 DEF Holds
  <2>5. \A x \in Tasks, d \in Users : Blocked(d, x)' => Blocked(d, x)
    BY <2>1 DEF Blocked, queueVars
  <2>6. Drained'
    BY <2>1 DEF Drained
  <2> QED BY <2>1, <2>3, <2>4, <2>5, <2>6, PlacesKept DEF Inv, queueVars
<1>3. CASE stop
  <2>1. /\ owner = "started" /\ owner' = "drain" /\ due' = accepted
        /\ UNCHANGED <<queueVars, running_, pc, current, submitted, accepted, done, aborted>>
    BY <1>3 DEF stop
  <2>2. Typed'
    BY <1>1, <2>1 DEF Typed, TypeOK, Q!TypeOK, WorkersAt, BlockedArgs, queueVars
  <2>3. Places'
    BY <1>1, <2>1 DEF Places, Placed, InQueue, Holds, Blocked, queueVars
  <2>4. Histories' /\ QueueOnce' /\ Drained'
    BY <1>1, <2>1 DEF Histories, QueueOnce, Drained, queueVars
  <2> QED BY <2>2, <2>3, <2>4 DEF Inv
<1>4. CASE drainQueue
  <2>1. /\ owner = "drain" /\ arg' = arg /\ op[Owner] \in {"idle", "waitUntilEmpty"}
        /\ owner' = IF Q!Empty THEN "drained" ELSE "drain"
        /\ UNCHANGED <<running_, pc, current, submitted, accepted, done, due, aborted>>
        /\ \/ Q!Empty /\ Q!return(Owner, Q!Void)
           \/ ~Q!Empty /\ Q!wait(Owner, "waitUntilEmpty")
    BY <1>4 DEF drainQueue, Q!waitUntilEmpty, Q!Enters, Q!Woken
  <2>2. /\ queue_' = queue_ /\ length_' = length_ /\ waiting' \subseteq Users
        /\ op' \in [Users -> Q!Ops] /\ ret' \in [Users -> Q!Results]
        /\ op'[Owner] \in {"idle", "waitUntilEmpty"}
        /\ \A d \in Users : d # Owner => op'[d] = op[d] /\ ret'[d] = ret[d]
    BY <1>1, <2>1 DEF TypeOK, Q!TypeOK, Q!return, Q!wait, Q!Ops, Q!Results
  <2>3. \A w \in Workers : w \in Users /\ w # Owner
    BY <1>1, PoolAssumption
  <2>4. Typed'
    <3>1. TypeOK' /\ length_' = Len(queue_')
      BY <1>1, <2>1, <2>2 DEF TypeOK, Q!TypeOK
    <3>2. WorkersAt'
      BY <1>1, <2>1, <2>2, <2>3 DEF WorkersAt
    <3>3. BlockedArgs'
      BY <1>1, <2>1, <2>2 DEF BlockedArgs
    <3> QED BY <3>1, <3>2, <3>3 DEF Typed
  <2>5. \A x \in Tasks, v \in Workers : Holds(v, x)' <=> Holds(v, x)
    BY <2>1, <2>2, <2>3 DEF Holds
  <2>6. \A x \in Tasks, d \in Users : Blocked(d, x)' => Blocked(d, x)
    BY <2>1, <2>2 DEF Blocked
  <2>7. Drained'
    <3>1. CASE Q!Empty
      BY <2>1, <2>2, <3>1 DEF Drained, InQueue, Q!Empty
    <3>2. CASE ~Q!Empty
      BY <2>1, <3>2 DEF Drained
    <3> QED BY <3>1, <3>2
  <2> QED BY <2>1, <2>2, <2>4, <2>5, <2>6, <2>7, PlacesKept DEF Inv
<1>5. CASE clearRunning \/ wakeWorkers \/ joinWorkers
  <2>1. /\ \/ owner = "drained" /\ owner' = "flagged"
           \/ owner = "flagged" /\ owner' = "join"
           \/ owner = "join" /\ owner' = "stopped" /\ \A w \in Workers : pc[w] = "exit"
        /\ running_' \in BOOLEAN /\ waiting' \subseteq waiting
        /\ UNCHANGED <<queue_, length_, op, arg, ret>>
        /\ UNCHANGED <<pc, current, submitted, accepted, done, due, aborted>>
    BY <1>1, <1>5 DEF clearRunning, wakeWorkers, joinWorkers, Q!wakeup, queueVars, TypeOK
  <2>2. Typed'
    <3>1. TypeOK' /\ length_' = Len(queue_')
      BY <1>1, <2>1 DEF TypeOK, Q!TypeOK
    <3>2. WorkersAt' /\ BlockedArgs'
      BY <1>1, <2>1 DEF WorkersAt, BlockedArgs
    <3> QED BY <3>1, <3>2 DEF Typed
  <2>3. \A x \in Tasks, v \in Workers : Holds(v, x)' <=> Holds(v, x)
    BY <2>1 DEF Holds
  <2>4. \A x \in Tasks, d \in Users : Blocked(d, x)' => Blocked(d, x)
    BY <2>1 DEF Blocked
  <2>5. Drained'
    <3>1. CASE owner' # "stopped"
      BY <1>1, <2>1, <3>1 DEF Drained, InQueue
    <3>2. CASE owner' = "stopped"
      <4>1. \A w \in Workers, x \in Tasks : ~Holds(w, x)
        BY <2>1, <3>2 DEF Holds
      <4>2. \A x \in due : x \in Tasks /\ x \in accepted /\ ~InQueue(x)
        BY <1>1, <2>1, <3>2 DEF Drained, TypeOK, Histories
      <4>3. due \subseteq done
        BY <1>1, <4>1, <4>2 DEF Places, Placed
      <4> QED BY <2>1, <3>2, <4>3 DEF Drained
    <3> QED BY <3>1, <3>2
  <2> QED BY <2>1, <2>2, <2>3, <2>4, <2>5, PlacesKept DEF Inv
<1> QED BY <1>2, <1>3, <1>4, <1>5 DEF OwnerStep

LEMMA InitInv == Init => Inv
<1> SUFFICES ASSUME Init PROVE Inv
  OBVIOUS
<1>1. /\ queue_ = <<>> /\ length_ = 0 /\ waiting = {} /\ op = [c \in Users |-> "idle"]
      /\ arg = [c \in Users |-> None] /\ ret = [c \in Users |-> Q!Void] /\ Workers \subseteq Users
  BY DEF Init, Q!Init, Users
<1>2. TypeOK /\ length_ = Len(queue_)
  <2>1. queue_ \in Seq(Tasks) /\ length_ = Len(queue_) /\ length_ \in Int
    BY <1>1
  <2>2. Q!TypeOK
    BY <1>1, <2>1 DEF Q!TypeOK, Q!Ops, Q!Results
  <2> QED BY <2>1, <2>2 DEF Init, TypeOK
<1>3. WorkersAt /\ BlockedArgs
  BY <1>1 DEF Init, WorkersAt, BlockedArgs
<1>4. Places
  <2>1. \A x : ~InQueue(x)
    BY <1>1 DEF InQueue
  <2>2. \A x \in Tasks, w \in Workers : ~Holds(w, x)
    BY DEF Init, Holds
  <2>3. \A x \in Tasks, c \in Users : ~Blocked(c, x)
    BY <1>1 DEF Blocked
  <2>4. accepted = {}
    BY DEF Init
  <2> QED BY <2>1, <2>2, <2>3, <2>4 DEF Places, Placed
<1>5. Histories /\ QueueOnce /\ Drained
  BY <1>1 DEF Init, Histories, QueueOnce, Drained
<1> QED BY <1>2, <1>3, <1>4, <1>5 DEF Inv, Typed

LEMMA NextInv == Inv /\ [Next]_vars => Inv'
<1> SUFFICES ASSUME Inv, [Next]_vars PROVE Inv'
  OBVIOUS
<1>1. CASE UNCHANGED vars
  <2>1. UNCHANGED queueVars /\ UNCHANGED poolVars
    BY <1>1 DEF vars
  <2>2. Typed'
    BY <2>1 DEF Inv, Typed, TypeOK, Q!TypeOK, WorkersAt, BlockedArgs, queueVars, poolVars
  <2>3. Places' /\ Histories' /\ QueueOnce' /\ Drained'
    <3>1. \A x \in Tasks, v \in Workers : Holds(v, x)' <=> Holds(v, x)
      BY <2>1 DEF Holds, queueVars, poolVars
    <3>2. \A x \in Tasks, d \in Users : Blocked(d, x)' => Blocked(d, x)
      BY <2>1 DEF Blocked, queueVars
    <3> QED BY <2>1, <3>1, <3>2, PlacesKept DEF queueVars, poolVars
  <2> QED BY <2>2, <2>3 DEF Inv
<1>2. CASE Next
  <2>1. \A w \in Workers : WorkerStep(w) => Inv'
    BY PopStep, LoopStep, FinishStep DEF WorkerStep
  <2> QED BY <1>2, <2>1, OwnerSteps, RunStep, RunAgainStep, NotifyStep DEF Next
<1> QED BY <1>1, <1>2

\* Type correctness of FixedSizeThreadPool and of the queue inside it.
THEOREM TypeCorrect == Spec => []TypeOK
<1>1. Inv => TypeOK
  BY DEF Inv, Typed
<1> QED BY <1>1, InitInv, NextInv, PTL DEF Spec

\* When stop() returns, every task accepted before it was called has finished, and no task
\* is ever queued twice, run by two workers or run again.
THEOREM DrainsCorrect == Spec => []DrainsOnce
<1>1. Inv => DrainsOnce
  <2> SUFFICES ASSUME Inv PROVE StopDrains /\ TaskOnce
    BY DEF DrainsOnce
  <2>1. TypeOK /\ WorkersAt /\ Places /\ QueueOnce /\ Drained
    BY DEF Inv, Typed
  <2>2. \A w \in Workers : current[w] # None => current[w] \in Tasks /\ Holds(w, current[w])
    BY <2>1 DEF TypeOK, WorkersAt, Holds
  <2>3. \A w, v \in Workers : w # v /\ current[w] # None => current[w] # current[v]
    BY <2>1, <2>2 DEF Places, Placed
  <2>4. ASSUME NEW x \in done PROVE x \notin Range(queue_) /\ \A w \in Workers : current[w] # x
    <3>1. x \in Tasks /\ x # None
      BY <2>1, PoolAssumption DEF TypeOK
    <3>2. ~InQueue(x) /\ \A w \in Workers : ~Holds(w, x)
      BY <2>1, <3>1 DEF Places, Placed
    <3> QED BY <2>2, <3>1, <3>2 DEF InQueue, Range
  <2>5. done \cap (Range(queue_) \cup {current[w] : w \in Workers}) = {}
    BY <2>4
  <2> QED BY <2>1, <2>3, <2>5 DEF StopDrains, TaskOnce, Drained, QueueOnce
<1> QED BY <1>1, InitInv, NextInv, PTL DEF Spec
=============================================================================
