-------------------------- MODULE EventLoopProofs --------------------------
(***************************************************************************)
(* For any threads, descriptors, callbacks and tasks: what is pushed to    *)
(* the loop is not overlooked, a cancelled callback stays silent, and as   *)
(* long as a descriptor has one registration at a time, callbacks run for  *)
(* their own event only and num_fds_ counts the registered descriptors.    *)
(***************************************************************************)
EXTENDS EventLoop, FiniteSetTheorems, SequenceTheorems, WellFoundedInduction, TLAPS

\* c is registered, or on its way to be, and was neither cancelled nor run.
Live(c) == reg[c] # None /\ c \notin revoked /\ fired[c] = 0

\* A registration in a list is not executed yet, and is in one place only.
OnItsWay(j) == j.what \in Kinds => reg[j.cb] = <<j.what, j.fd>> /\ j.cb \notin installed
Same(i, j) == i.what \in Kinds /\ j.what \in Kinds /\ i.cb = j.cb
Pending ==
  /\ \A i \in DOMAIN runq_ : OnItsWay(runq_[i])
  /\ \A i \in DOMAIN tasks : OnItsWay(tasks[i])
  /\ \A i, j \in DOMAIN runq_ : Same(runq_[i], runq_[j]) => i = j
  /\ \A i, j \in DOMAIN tasks : Same(tasks[i], tasks[j]) => i = j
  /\ \A i \in DOMAIN runq_, j \in DOMAIN tasks : ~Same(runq_[i], tasks[j])

\* What is cancelled, has run or sits in callbacks_ was installed; what sits in callbacks_
\* is there for its own descriptor and not cancelled.
Slots ==
  /\ revoked \subseteq installed
  /\ \A c \in installed : reg[c] # None
  /\ \A c \in Callbacks : fired[c] > 0 => c \in installed
  /\ \A fd \in FDs : callbacks_[fd] # None =>
       callbacks_[fd] \in installed \ revoked /\ reg[callbacks_[fd]][2] = fd

\* A descriptor in a set has the callback of that set, which has not run.
Armed(kind, fd) ==
  /\ callbacks_[fd] # None
  /\ fired[callbacks_[fd]] = 0
  /\ reg[callbacks_[fd]] = <<kind, fd>>

\* What holds while every descriptor has one registration at a time.
OneEach ==
  \A c, d \in Callbacks : Live(c) /\ Live(d) /\ reg[c][2] = reg[d][2] => c = d
Sets ==
  /\ \A fd \in op_read_ : Armed("read", fd)
  /\ \A fd \in op_write_ : Armed("write", fd)
Served ==
  /\ snapR \subseteq op_read_ /\ snapW \subseteq op_write_
  /\ \A fd \in snapR \cup snapW : callbacks_[fd] \in selected
  /\ early = {}
Counted ==
  /\ IsFiniteSet(op_read_) /\ IsFiniteSet(op_write_)
  /\ num_fds_ = Cardinality(op_read_) + Cardinality(op_write_)
Disciplined == ~misused => OneEach /\ Sets /\ Served /\ Counted

Inv == TypeOK /\ NoLostRunQWakeup /\ Pending /\ Slots /\ Disciplined

-----------------------------------------------------------------------------
\* The kinds of closure and what they hold.
LEMMA ClosureType ==
  \A j \in Closures :
    /\ j.what \in Kinds \cup {"task", "cancel"}
    /\ j.what \in Kinds => j.fd \in FDs /\ j.cb \in Callbacks
    /\ j.what = "cancel" => j.fd \in FDs /\ j.by \in Others
    /\ j.what = "task" => j.task \in Tasks
BY DEF Closures, Kinds

\* The parts of the type invariant that the arguments below need.
LEMMA Types ==
  ASSUME TypeOK
  PROVE  /\ op_read_ \in SUBSET FDs /\ op_write_ \in SUBSET FDs
         /\ callbacks_ \in [FDs -> Callbacks \cup {None}]
         /\ reg \in [Callbacks -> (Kinds \X FDs) \cup {None}]
         /\ fired \in [Callbacks -> Nat]
         /\ installed \subseteq Callbacks /\ revoked \subseteq Callbacks
         /\ selected \subseteq Callbacks /\ early \subseteq Callbacks
         /\ runq_ \in Seq(Closures) /\ tasks \in Seq(Closures)
         /\ snapR \in SUBSET FDs /\ snapW \in SUBSET FDs
         /\ misused \in BOOLEAN /\ threw \in BOOLEAN
         /\ None \notin Callbacks /\ None \notin Kinds \X FDs
BY EventLoopAssumption DEF TypeOK, Kinds

\* A step that changes neither registrations nor callbacks, and forgets what was selected
\* or spliced or keeps it.
LEMMA ControlStep ==
  ASSUME Inv, UNCHANGED <<fdVars, fireVars, reg, misused, runq_>>,
         tasks' = tasks \/ tasks' = <<>>,
         snapR' \subseteq snapR, snapW' \subseteq snapW
  PROVE  Pending' /\ Slots' /\ Disciplined'
<1>1. Pending'
  <2>1. CASE tasks' = tasks
    BY <2>1 DEF Inv, Pending, OnItsWay, fdVars
  <2>2. CASE tasks' = <<>>
    <3>1. DOMAIN tasks' = {}
      BY <2>2
    <3> QED BY <3>1 DEF Inv, Pending, OnItsWay, fdVars
  <2> QED BY <2>1, <2>2
<1>2. Slots'
  BY DEF Inv, Slots, fdVars, fireVars
<1>3. Disciplined'
  <2>1. OneEach' = OneEach /\ Sets' = Sets /\ Counted' = Counted
    BY DEF OneEach, Live, Sets, Armed, Counted, fdVars, fireVars
  <2>2. Served => Served'
    BY DEF Served, fdVars, fireVars
  <2> QED BY <2>1, <2>2 DEF Inv, Disciplined
<1> QED BY <1>1, <1>2, <1>3

\* The list is taken.
LEMMA SpliceStep ==
  ASSUME Inv, spliceTasks
  PROVE  Pending' /\ Slots' /\ Disciplined'
<1>1. /\ tasks' = runq_ /\ runq_' = <<>> /\ DOMAIN runq_' = {}
      /\ UNCHANGED <<fdVars, fireVars, reg, misused, snapR, snapW>>
  BY DEF spliceTasks, loopOnly, history
<1>2. Pending'
  BY <1>1 DEF Inv, Pending, OnItsWay, fdVars
<1>3. Slots'
  BY <1>1 DEF Inv, Slots, fdVars, fireVars
<1>4. OneEach' = OneEach /\ Sets' = Sets /\ Counted' = Counted /\ Served' = Served
  BY <1>1 DEF OneEach, Live, Sets, Armed, Counted, Served, fdVars, fireVars
<1> QED BY <1>1, <1>2, <1>3, <1>4 DEF Inv, Disciplined

\* What Append, Head and Tail do to a list of closures.
LEMMA Lists ==
  ASSUME NEW q \in Seq(Closures)
  PROVE  /\ \A j \in Closures :
              LET r == Append(q, j) IN
              /\ r \in Seq(Closures) /\ r # <<>>
              /\ \A i \in DOMAIN r : \/ i \in DOMAIN q /\ r[i] = q[i]
                                     \/ i = Len(q) + 1 /\ r[i] = j
              /\ Len(q) + 1 \notin DOMAIN q
         /\ q # <<>> =>
              /\ Head(q) = q[1] /\ Head(q) \in Closures /\ 1 \in DOMAIN q
              /\ Tail(q) \in Seq(Closures)
              /\ \A i \in DOMAIN Tail(q) :
                   i + 1 \in DOMAIN q /\ Tail(q)[i] = q[i + 1] /\ i + 1 # 1 /\ i \in Nat
<1>1. ASSUME NEW j \in Closures
      PROVE  LET r == Append(q, j) IN
              /\ r \in Seq(Closures) /\ r # <<>>
              /\ \A i \in DOMAIN r : \/ i \in DOMAIN q /\ r[i] = q[i]
                                     \/ i = Len(q) + 1 /\ r[i] = j
              /\ Len(q) + 1 \notin DOMAIN q
  OBVIOUS
<1>2. ASSUME q # <<>>
      PROVE  /\ Head(q) = q[1] /\ Head(q) \in Closures /\ 1 \in DOMAIN q
             /\ Tail(q) \in Seq(Closures)
             /\ \A i \in DOMAIN Tail(q) :
                  i + 1 \in DOMAIN q /\ Tail(q)[i] = q[i + 1] /\ i + 1 # 1 /\ i \in Nat
  BY <1>2
<1> QED BY <1>1, <1>2

\* A task or a cancellation is pushed.
LEMMA PushStep ==
  ASSUME Inv, NEW j \in Closures, j.what \notin Kinds, push(j),
         UNCHANGED <<fdVars, fireVars, pollVars, reg, misused>>
  PROVE  Pending' /\ Slots' /\ Disciplined'
<1>1. runq_ \in Seq(Closures) /\ runq_' = Append(runq_, j) /\ tasks' = tasks
  BY Types DEF Inv, push, pollVars
<1>2. \A i \in DOMAIN runq_' : \/ i \in DOMAIN runq_ /\ runq_'[i] = runq_[i]
                               \/ i = Len(runq_) + 1 /\ runq_'[i] = j
  BY <1>1, Lists
<1>3. Pending'
  <2>1. UNCHANGED <<reg, installed>> /\ Pending
    BY DEF Inv, fdVars
  <2>2. \A i \in DOMAIN runq_' : OnItsWay(runq_[i])'
    BY <1>2, <2>1 DEF Pending, OnItsWay
  <2>3. \A i \in DOMAIN runq_', k \in Closures : Same(runq_'[i], k) \/ Same(k, runq_'[i]) =>
          i \in DOMAIN runq_ /\ runq_'[i] = runq_[i]
    BY <1>2 DEF Same
  <2>4. \A i \in DOMAIN runq_' : runq_'[i] \in Closures
    BY <1>1, <1>2, ElementOfSeq
  <2>5. \A i, k \in DOMAIN runq_' : Same(runq_'[i], runq_'[k]) => i = k
    BY <2>1, <2>3, <2>4 DEF Pending
  <2>6. \A i \in DOMAIN runq_', k \in DOMAIN tasks : ~Same(runq_'[i], tasks[k])
    <3>1. \A k \in DOMAIN tasks : tasks[k] \in Closures
      BY Types, ElementOfSeq DEF Inv
    <3> QED BY <2>1, <2>3, <3>1 DEF Pending
  <2>7. \A i \in DOMAIN tasks' : OnItsWay(tasks[i])'
    BY <1>1, <2>1 DEF Pending, OnItsWay
  <2> QED BY <1>1, <2>1, <2>2, <2>5, <2>6, <2>7 DEF Pending
<1>4. Slots'
  BY DEF Inv, Slots, fdVars, fireVars
<1>5. OneEach' = OneEach /\ Sets' = Sets /\ Counted' = Counted /\ Served' = Served
  BY DEF OneEach, Live, Sets, Armed, Counted, Served, fdVars, fireVars, pollVars
<1> QED BY <1>3, <1>4, <1>5 DEF Inv, Disciplined

\* A registration that is new keeps the others, and is the only live one of its descriptor
\* unless the descriptor is misused.
LEMMA RegisterKeeps ==
  ASSUME TypeOK, Pending, Slots, NEW kind \in Kinds, NEW fd \in FDs, NEW c \in Callbacks,
         register(kind, fd, c)
  PROVE  /\ c \notin installed /\ c \notin revoked /\ fired[c] = 0
         /\ reg' \in [Callbacks -> (Kinds \X FDs) \cup {None}]
         /\ reg'[c] = <<kind, fd>> /\ reg'[c] # None
         /\ \A d \in Callbacks : d # c => reg'[d] = reg[d]
         /\ \A d \in Callbacks : reg[d] # None => d # c
         /\ misused' \in BOOLEAN /\ (misused => misused')
         /\ ~misused' => \A d \in Callbacks : Live(d) => reg[d][2] # fd
<1>1. reg[c] = None /\ reg' = [reg EXCEPT ![c] = <<kind, fd>>]
  BY DEF register
<1>2. c \notin installed /\ c \notin revoked /\ fired[c] = 0
  BY <1>1, Types DEF Slots
<1>3. /\ reg' \in [Callbacks -> (Kinds \X FDs) \cup {None}]
      /\ reg'[c] = <<kind, fd>> /\ reg'[c] # None
      /\ \A d \in Callbacks : d # c => reg'[d] = reg[d]
  BY <1>1, Types
<1>4. misused' = (misused \/ \E d \in Callbacks \ revoked :
                              reg[d] # None /\ reg[d][2] = fd /\ fired[d] = 0)
  BY DEF register
<1>5. misused' \in BOOLEAN /\ (misused => misused')
  BY <1>4, Types
<1>6. ~misused' => \A d \in Callbacks : Live(d) => reg[d][2] # fd
  BY <1>4 DEF Live
<1> QED BY <1>1, <1>2, <1>3, <1>5, <1>6

\* A closure on its way registers what has been registered and has not been installed.
LEMMA OnItsWayRegistered ==
  ASSUME TypeOK, NEW j \in Closures, OnItsWay(j), j.what \in Kinds
  PROVE  /\ j.cb \in Callbacks /\ j.fd \in FDs /\ j.cb \notin installed
         /\ reg[j.cb] = <<j.what, j.fd>> /\ reg[j.cb] # None
<1>1. j.cb \in Callbacks /\ j.fd \in FDs
  BY ClosureType
<1>2. <<j.what, j.fd>> \in Kinds \X FDs
  BY <1>1
<1> QED BY <1>1, <1>2, Types DEF OnItsWay

\* Another thread pushes a registration.
LEMMA PushRegistrationStep ==
  ASSUME Inv, NEW t \in Others, NEW kind \in Kinds, NEW fd \in FDs, NEW c \in Callbacks,
         pushRegistration(t, kind, fd, c)
  PROVE  Pending' /\ Slots' /\ Disciplined'
<1> DEFINE j == [what |-> kind, fd |-> fd, cb |-> c]
<1>1. /\ register(kind, fd, c) /\ runq_' = Append(runq_, j)
      /\ UNCHANGED <<fdVars, fireVars, tasks, snapR, snapW>>
  BY DEF pushRegistration, push, pollVars
<1>2. /\ j \in Closures /\ j.what = kind /\ j.fd = fd /\ j.cb = c
      /\ runq_ \in Seq(Closures) /\ tasks \in Seq(Closures)
  BY Types DEF Inv, Closures
<1>3. \A i \in DOMAIN runq_' : \/ i \in DOMAIN runq_ /\ runq_'[i] = runq_[i]
                               \/ i = Len(runq_) + 1 /\ runq_'[i] = j
  BY <1>1, <1>2, Lists
<1>4. /\ c \notin installed /\ reg'[c] = <<kind, fd>> /\ reg'[c] # None
      /\ \A d \in Callbacks : d # c => reg'[d] = reg[d]
      /\ \A d \in Callbacks : reg[d] # None => d # c
      /\ misused => misused'
      /\ ~misused' => \A d \in Callbacks : Live(d) => reg[d][2] # fd
  BY <1>1, RegisterKeeps DEF Inv
<1>5. installed' = installed /\ Pending /\ Slots /\ (~misused => OneEach /\ Sets /\ Served /\ Counted)
  BY <1>1 DEF Inv, Disciplined, fdVars
<1>6. Pending'
  <2>1. ASSUME NEW k \in Closures, OnItsWay(k) PROVE OnItsWay(k)' /\ ~Same(k, j) /\ ~Same(j, k)
    <3>1. k.what \in Kinds => k.cb \in Callbacks /\ reg[k.cb] # None
      BY <2>1, OnItsWayRegistered DEF Inv
    <3>2. k.what \in Kinds => k.cb # c /\ reg'[k.cb] = reg[k.cb]
      BY <1>4, <3>1
    <3> QED BY <1>2, <1>5, <2>1, <3>2 DEF OnItsWay, Same
  <2>2. /\ \A i \in DOMAIN runq_ : runq_[i] \in Closures /\ OnItsWay(runq_[i])
        /\ \A i \in DOMAIN tasks : tasks[i] \in Closures /\ OnItsWay(tasks[i])
    BY <1>2, <1>5, ElementOfSeq DEF Pending
  <2>3. OnItsWay(j)'
    BY <1>2, <1>4, <1>5 DEF OnItsWay
  <2>4. \A i \in DOMAIN runq_' : OnItsWay(runq_[i])'
    BY <1>3, <2>1, <2>2, <2>3 DEF OnItsWay
  <2>5. \A i \in DOMAIN tasks' : OnItsWay(tasks[i])'
    BY <1>1, <2>1, <2>2 DEF OnItsWay
  <2>6. \A i, k \in DOMAIN runq_' : Same(runq_'[i], runq_'[k]) => i = k
    BY <1>3, <1>5, <2>1, <2>2 DEF Pending
  <2>7. \A i \in DOMAIN runq_', k \in DOMAIN tasks : ~Same(runq_'[i], tasks[k])
    BY <1>3, <1>5, <2>1, <2>2 DEF Pending
  <2> QED BY <1>1, <1>5, <2>4, <2>5, <2>6, <2>7 DEF Pending
<1>7. \A d \in installed : d # c /\ reg'[d] = reg[d]
  BY <1>4, Types DEF Inv
<1>8. \A f \in FDs : callbacks_[f] # None => callbacks_[f] \in installed
  BY <1>5 DEF Slots
<1>9. Slots'
  BY <1>1, <1>5, <1>7, <1>8 DEF Slots, fdVars, fireVars
<1>10. ASSUME ~misused' PROVE OneEach' /\ Sets' /\ Served' /\ Counted'
  <2>1. ~misused /\ OneEach /\ Sets /\ Served /\ Counted
    BY <1>4, <1>5, <1>10
  <2>2. OneEach'
    <3>1. \A d \in Callbacks : d # c /\ Live(d)' => Live(d) /\ reg'[d] = reg[d] /\ reg[d][2] # fd
      BY <1>1, <1>4, <1>10 DEF Live, fdVars, fireVars
    <3>2. reg'[c][2] = fd
      BY <1>4
    <3> QED BY <2>1, <3>1, <3>2 DEF OneEach
  <2>3. Sets'
    <3>1. \A f \in FDs, k \in Kinds : Armed(k, f) => Armed(k, f)'
      BY <1>1, <1>7, <1>8 DEF Armed, fdVars, fireVars
    <3> QED BY <1>1, <2>1, <3>1, Types DEF Inv, Sets, Kinds, fdVars
  <2>4. Served' /\ Counted'
    BY <1>1, <2>1 DEF Served, Counted, fdVars, fireVars
  <2> QED BY <2>2, <2>3, <2>4
<1> QED BY <1>6, <1>9, <1>10 DEF Disciplined

\* select() returns descriptors of the sets, whose callbacks it marks.
LEMMA SelectStep ==
  ASSUME Inv, select
  PROVE  /\ Pending' /\ Slots' /\ Disciplined'
         /\ snapR' \in SUBSET FDs /\ snapW' \in SUBSET FDs /\ selected' \subseteq Callbacks
<1>1. /\ UNCHANGED <<fdVars, fired, early, reg, misused, runq_, tasks>>
      /\ lpc' = IF pipe > 0 THEN "drain" ELSE "scan"
  BY DEF select, loopOnly, history, queueVars
<1>2. PICK R \in SUBSET op_read_, W \in SUBSET op_write_ :
        /\ snapR' = R /\ snapW' = W
        /\ selected' = selected \cup {c \in installed :
             /\ callbacks_[reg[c][2]] = c
             /\ reg[c][2] \in (IF reg[c][1] = "read" THEN R ELSE W)}
  BY DEF select
<1>3. Pending'
  BY <1>1 DEF Inv, Pending, OnItsWay, fdVars
<1>4. Slots'
  BY <1>1 DEF Inv, Slots, fdVars
<1>5. snapR' \in SUBSET FDs /\ snapW' \in SUBSET FDs /\ selected' \subseteq Callbacks
  BY <1>2, Types DEF Inv
<1>6. ASSUME ~misused' PROVE OneEach' /\ Sets' /\ Served' /\ Counted'
  <2>1. OneEach /\ Sets /\ Served /\ Counted
    BY <1>1, <1>6 DEF Inv, Disciplined
  <2>2. OneEach' /\ Sets' /\ Counted'
    BY <1>1, <2>1 DEF OneEach, Live, Sets, Armed, Counted, fdVars
  <2>3. ASSUME NEW fd \in R PROVE callbacks_[fd] \in selected'
    <3>1. Armed("read", fd) /\ fd \in FDs
      BY <2>1, Types DEF Sets, Inv
    <3>2. callbacks_[fd] \in installed
      BY <3>1 DEF Armed, Inv, Slots
    <3> QED BY <1>2, <3>1, <3>2 DEF Armed
  <2>4. ASSUME NEW fd \in W PROVE callbacks_[fd] \in selected'
    <3>1. Armed("write", fd) /\ fd \in FDs
      BY <2>1, Types DEF Sets, Inv
    <3>2. callbacks_[fd] \in installed
      BY <3>1 DEF Armed, Inv, Slots
    <3> QED BY <1>2, <3>1, <3>2 DEF Armed
  <2>5. Served'
    BY <1>1, <1>2, <2>1, <2>3, <2>4 DEF Served, fdVars
  <2> QED BY <2>2, <2>5
<1> QED BY <1>3, <1>4, <1>5, <1>6 DEF Disciplined

\* The registration of a live callback for a descriptor whose other registrations are not
\* live any more.
LEMMA SetStep ==
  ASSUME TypeOK, Slots, Disciplined, NEW kind \in Kinds, NEW fd \in FDs, NEW c \in Callbacks,
         setFD(kind, fd, c), c \notin installed,
         reg'[c] = <<kind, fd>>, \A d \in Callbacks : d # c => reg'[d] = reg[d],
         misused => misused',
         ~misused' => \A d \in Callbacks : d # c /\ Live(d) => reg[d][2] # fd,
         UNCHANGED <<fireVars, snapR, snapW>>
  PROVE  Slots' /\ Disciplined'
<1>1. /\ callbacks_' = [callbacks_ EXCEPT ![fd] = c] /\ installed' = installed \cup {c}
      /\ revoked' = revoked /\ num_fds_' = num_fds_ + 1
      /\ op_read_' = IF kind = "read" THEN op_read_ \cup {fd} ELSE op_read_
      /\ op_write_' = IF kind = "write" THEN op_write_ \cup {fd} ELSE op_write_
      /\ fired' = fired /\ selected' = selected /\ early' = early
  BY DEF setFD, fireVars
<1>2. /\ c \notin revoked /\ fired[c] = 0 /\ reg'[c] # None /\ reg'[c][2] = fd
      /\ callbacks_'[fd] = c /\ \A f \in FDs : f # fd => callbacks_'[f] = callbacks_[f]
      /\ \A d \in installed : reg'[d] = reg[d]
  <2>1. <<kind, fd>> \in Kinds \X FDs
    OBVIOUS
  <2> QED BY <1>1, <2>1, Types DEF Slots
<1>3. Slots'
  <2>1. /\ revoked' \subseteq installed'
        /\ \A d \in installed' : reg'[d] # None
        /\ \A d \in Callbacks : fired'[d] > 0 => d \in installed'
    BY <1>1, <1>2 DEF Slots
  <2>2. ASSUME NEW f \in FDs, callbacks_'[f] # None
        PROVE  callbacks_'[f] \in installed' \ revoked' /\ reg'[callbacks_'[f]][2] = f
    <3>1. CASE f = fd
      BY <1>1, <1>2, <3>1
    <3>2. CASE f # fd
      <4>1. callbacks_'[f] = callbacks_[f]
        BY <1>2, <3>2
      <4>2. callbacks_[f] \in installed \ revoked /\ reg[callbacks_[f]][2] = f
        BY <2>2, <4>1 DEF Slots
      <4> QED BY <1>1, <1>2, <4>1, <4>2
    <3> QED BY <3>1, <3>2
  <2> QED BY <2>1, <2>2 DEF Slots
<1>4. ASSUME ~misused' PROVE OneEach' /\ Sets' /\ Served' /\ Counted'
  <2>1. OneEach /\ Sets /\ Served /\ Counted
    BY <1>4 DEF Disciplined
  <2>2. fd \notin op_read_ \cup op_write_
    <3>1. SUFFICES ASSUME NEW k \in Kinds, Armed(k, fd) PROVE FALSE
      BY <2>1 DEF Sets, Kinds
    <3> DEFINE d == callbacks_[fd]
    <3>2. d \in installed \ revoked /\ d \in Callbacks /\ d # c /\ reg[d] # None /\ reg[d][2] = fd
      BY <3>1, Types DEF Armed, Slots
    <3> QED BY <1>4, <3>1, <3>2 DEF Live, Armed
  <2>3. OneEach'
    <3>1. \A d \in Callbacks : d # c /\ Live(d)' => Live(d) /\ reg'[d] = reg[d] /\ reg[d][2] # fd
      BY <1>1, <1>4 DEF Live
    <3> QED BY <1>2, <2>1, <3>1 DEF OneEach
  <2>4. Sets'
    <3>1. ASSUME NEW k \in Kinds, NEW f \in FDs, f # fd, Armed(k, f) PROVE Armed(k, f)'
      BY <1>1, <1>2, <3>1 DEF Armed, Slots
    <3>2. Armed(kind, fd)'
      BY <1>1, <1>2, Types DEF Armed
    <3> QED BY <1>1, <2>1, <2>2, <3>1, <3>2, Types DEF Sets, Kinds
  <2>5. Served'
    BY <1>1, <1>2, <2>1, <2>2, Types DEF Served
  <2>6. Counted'
    <3>0. /\ Cardinality(op_read_) \in Nat /\ Cardinality(op_write_) \in Nat
          /\ IsFiniteSet(op_read_) /\ IsFiniteSet(op_write_)
          /\ num_fds_ = Cardinality(op_read_) + Cardinality(op_write_)
      BY <2>1, FS_CardinalityType DEF Counted
    <3>1. CASE kind = "read"
      <4>1. IsFiniteSet(op_read_ \cup {fd}) /\ Cardinality(op_read_ \cup {fd}) = Cardinality(op_read_) + 1
        BY <2>2, <3>0, FS_AddElement
      <4>2. op_read_' = op_read_ \cup {fd} /\ op_write_' = op_write_
        BY <1>1, <3>1
      <4>3. num_fds_' = num_fds_ + 1
        BY <1>1
      <4> QED BY <3>0, <4>1, <4>2, <4>3 DEF Counted
    <3>2. CASE kind = "write"
      <4>1. IsFiniteSet(op_write_ \cup {fd}) /\ Cardinality(op_write_ \cup {fd}) = Cardinality(op_write_) + 1
        BY <2>2, <3>0, FS_AddElement
      <4>2. op_write_' = op_write_ \cup {fd} /\ op_read_' = op_read_
        BY <1>1, <3>2
      <4>3. num_fds_' = num_fds_ + 1
        BY <1>1
      <4> QED BY <3>0, <4>1, <4>2, <4>3 DEF Counted
    <3> QED BY <3>1, <3>2 DEF Kinds
  <2> QED BY <2>3, <2>4, <2>5, <2>6
<1> QED BY <1>3, <1>4 DEF Disciplined

\* Taking a descriptor out of the sets counts it down by one if it is in one of them.
LEMMA CountDown ==
  ASSUME Counted, NEW fd, fd \notin op_read_ \/ fd \notin op_write_
  PROVE  /\ IsFiniteSet(op_read_ \ {fd}) /\ IsFiniteSet(op_write_ \ {fd})
         /\ Cardinality(op_read_ \ {fd}) + Cardinality(op_write_ \ {fd})
              = IF fd \in op_read_ \cup op_write_ THEN num_fds_ - 1 ELSE num_fds_
<1> DEFINE r == Cardinality(op_read_)
           w == Cardinality(op_write_)
<1>1. /\ IsFiniteSet(op_read_) /\ IsFiniteSet(op_write_)
      /\ r \in Nat /\ w \in Nat /\ num_fds_ = r + w
  BY FS_CardinalityType DEF Counted
<1>2. /\ IsFiniteSet(op_read_ \ {fd})
      /\ Cardinality(op_read_ \ {fd}) = IF fd \in op_read_ THEN r - 1 ELSE r
  BY <1>1, FS_RemoveElement
<1>3. /\ IsFiniteSet(op_write_ \ {fd})
      /\ Cardinality(op_write_ \ {fd}) = IF fd \in op_write_ THEN w - 1 ELSE w
  BY <1>1, FS_RemoveElement
<1> HIDE DEF r, w
<1> QED BY <1>1, <1>2, <1>3

\* cancelFD() takes the descriptor out of the sets and its callback out of the map.
LEMMA ClearStep ==
  ASSUME TypeOK, Slots, Disciplined, NEW fd \in FDs, clearFD(fd),
         UNCHANGED <<fireVars, snapR, snapW, reg>>
  PROVE  Slots' /\ Disciplined'
<1>1. /\ callbacks_' = [callbacks_ EXCEPT ![fd] = None] /\ installed' = installed
      /\ revoked' = revoked \cup {c \in installed : reg[c][2] = fd}
      /\ num_fds_' = IF fd \in op_read_ \cup op_write_ THEN num_fds_ - 1 ELSE num_fds_
      /\ op_read_' = op_read_ \ {fd} /\ op_write_' = op_write_ \ {fd}
      /\ misused' = (misused \/ fd \in snapR \cup snapW)
      /\ fired' = fired /\ selected' = selected /\ early' = early /\ reg' = reg
  BY DEF clearFD, fireVars
<1>2. callbacks_'[fd] = None /\ \A f \in FDs : f # fd => callbacks_'[f] = callbacks_[f]
  BY <1>1, Types
<1>3. Slots'
  <2>1. ASSUME NEW f \in FDs, callbacks_'[f] # None
        PROVE  callbacks_'[f] \in installed' \ revoked' /\ reg'[callbacks_'[f]][2] = f
    <3>1. f # fd /\ callbacks_'[f] = callbacks_[f]
      BY <1>2, <2>1
    <3>2. callbacks_[f] \in installed \ revoked /\ reg[callbacks_[f]][2] = f
      BY <2>1, <3>1 DEF Slots
    <3> QED BY <1>1, <3>1, <3>2
  <2>2. /\ revoked' \subseteq installed' /\ \A d \in installed' : reg'[d] # None
        /\ \A d \in Callbacks : fired'[d] > 0 => d \in installed'
    BY <1>1 DEF Slots
  <2> QED BY <2>1, <2>2 DEF Slots
<1>4. ASSUME ~misused' PROVE OneEach' /\ Sets' /\ Served' /\ Counted'
  <2>1. OneEach /\ Sets /\ Served /\ Counted /\ fd \notin snapR \cup snapW
    BY <1>1, <1>4 DEF Disciplined
  <2>2. OneEach'
    <3>1. \A d \in Callbacks : Live(d)' => Live(d)
      BY <1>1 DEF Live
    <3> QED BY <1>1, <2>1, <3>1 DEF OneEach
  <2>3. Sets'
    <3>1. ASSUME NEW k \in Kinds, NEW f \in FDs, f # fd, Armed(k, f) PROVE Armed(k, f)'
      BY <1>1, <1>2, <3>1 DEF Armed
    <3> QED BY <1>1, <2>1, <3>1, Types DEF Sets, Kinds
  <2>4. Served'
    BY <1>1, <1>2, <2>1, Types DEF Served
  <2>5. fd \notin op_read_ \/ fd \notin op_write_
    BY <2>1 DEF Sets, Armed
  <2>6. Counted'
    BY <1>1, <2>1, <2>5, CountDown DEF Counted
  <2> QED BY <2>2, <2>3, <2>4, <2>6
<1> QED BY <1>3, <1>4 DEF Disciplined

\* A set of naturals that is not empty has a least element.
LEMMA Least ==
  ASSUME NEW S \in SUBSET Nat, S # {}
  PROVE  \E m \in S : \A k \in S : m <= k
<1>1. PICK m \in S : \A k \in S : ~(<<k, m>> \in OpToRel(<, Nat))
  BY NatLessThanWellFounded, WFMin
<1>2. \A k \in S : ~(k < m)
  BY <1>1 DEF OpToRel
<1> QED BY <1>2

\* poll() serves one descriptor, or has served them all.
LEMMA ServeStep ==
  ASSUME Inv, serveFD
  PROVE  /\ Pending' /\ Slots' /\ Disciplined'
         /\ op_read_' \in SUBSET FDs /\ op_write_' \in SUBSET FDs /\ num_fds_' \in Int
         /\ snapR' \in SUBSET FDs /\ snapW' \in SUBSET FDs
         /\ fired' \in [Callbacks -> Nat]
         /\ selected' \subseteq Callbacks /\ early' \subseteq Callbacks
         /\ \A c \in revoked : fired'[c] = fired[c]
<1> DEFINE snap == snapR \cup snapW
<1>1. /\ UNCHANGED <<callbacks_, installed, revoked, runq_, tasks, reg, misused>>
      /\ TypeOK /\ Pending /\ Slots /\ Disciplined /\ num_fds_ \in Int
  BY DEF serveFD, queueVars, loopOnly, history, Inv, TypeOK
<1>2. CASE snap = {}
  <2>1. UNCHANGED <<op_read_, op_write_, num_fds_, snapR, snapW, fireVars>>
    BY <1>2 DEF serveFD
  <2>2. UNCHANGED <<fdVars, fireVars, reg, misused, runq_>> /\ tasks' = tasks
    BY <1>1, <2>1 DEF fdVars
  <2>3. Pending' /\ Slots' /\ Disciplined'
    BY <2>1, <2>2, ControlStep
  <2> QED BY <1>1, <2>1, <2>3, Types DEF fireVars
<1>3. CASE snap # {}
  <2> DEFINE fd == CHOOSE f \in snap : \A g \in snap : f <= g
             c == callbacks_[fd]
  <2>1. fd \in snap /\ fd \in FDs /\ c \in Callbacks \cup {None}
    <3>1. snap \in SUBSET Nat
      BY <1>1, Types, EventLoopAssumption
    <3>2. fd \in snap
      BY <1>3, <3>1, Least
    <3> QED BY <1>1, <3>2, Types
  <2>2. /\ op_read_' = IF fd \in snapR THEN op_read_ \ {fd} ELSE op_read_
        /\ op_write_' = IF fd \in snapR THEN op_write_ ELSE op_write_ \ {fd}
        /\ num_fds_' = num_fds_ - 1
        /\ snapR' = snapR \ {fd} /\ snapW' = snapW \ {fd}
        /\ IF c = None
           THEN UNCHANGED <<fireVars, lpc, back>>
           ELSE /\ fired' = [fired EXCEPT ![c] = @ + 1]
                /\ early' = IF c \in selected THEN early ELSE early \cup {c}
                /\ selected' = selected \ {c}
                /\ lpc' = "user" /\ back' = "scan"
    BY <1>3 DEF serveFD
  <2> HIDE DEF fd
  <2>3. Pending'
    BY <1>1 DEF Pending, OnItsWay
  <2>4. CASE c = None
    <3>1. UNCHANGED <<fired, selected, early>>
      BY <2>2, <2>4 DEF fireVars
    <3>2. Slots'
      BY <1>1, <3>1 DEF Slots
    <3>3. misused
      BY <1>1, <2>1, <2>4 DEF Disciplined, Served, Sets, Armed
    <3>4. Disciplined'
      BY <1>1, <3>3, Types DEF Disciplined
    <3> QED BY <1>1, <2>2, <2>3, <3>1, <3>2, <3>4, Types
  <2>5. CASE c # None
    <3>1. /\ c \in Callbacks /\ c \in installed \ revoked /\ reg[c][2] = fd
          /\ fired \in [Callbacks -> Nat]
      BY <1>1, <2>1, <2>5, Types DEF Slots
    <3>2. /\ fired' = [fired EXCEPT ![c] = @ + 1] /\ selected' = selected \ {c}
          /\ early' = IF c \in selected THEN early ELSE early \cup {c}
      BY <2>2, <2>5
    <3>3. /\ fired' \in [Callbacks -> Nat] /\ fired'[c] = fired[c] + 1
          /\ \A d \in Callbacks : d # c => fired'[d] = fired[d]
      BY <3>1, <3>2
    <3>4. Slots'
      BY <1>1, <3>1, <3>3 DEF Slots
    <3>5. \A d \in revoked : fired'[d] = fired[d]
      BY <1>1, <3>1, <3>3, Types
    <3>6. ASSUME ~misused' PROVE OneEach' /\ Sets' /\ Served' /\ Counted'
      <4>1. OneEach /\ Sets /\ Served /\ Counted
        BY <1>1, <3>6 DEF Disciplined
      <4>2. /\ fd \in op_read_ \cup op_write_ /\ c \in selected
            /\ fd \notin op_read_ \/ fd \notin op_write_
        BY <2>1, <4>1 DEF Served, Sets, Armed
      <4>3. op_read_' = op_read_ \ {fd} /\ op_write_' = op_write_ \ {fd}
        BY <2>1, <2>2, <4>1, <4>2 DEF Served
      <4>4. OneEach'
        <5>1. \A d \in Callbacks : Live(d)' => Live(d)
          BY <1>1, <3>1, <3>3 DEF Live
        <5> QED BY <1>1, <4>1, <5>1 DEF OneEach
      <4>5. ASSUME NEW k \in Kinds, NEW f \in FDs, f # fd, Armed(k, f)
            PROVE  Armed(k, f)' /\ callbacks_[f] # c
        <5>1. callbacks_[f] \in Callbacks /\ reg[callbacks_[f]][2] = f
          BY <1>1, <4>5, Types DEF Armed, Slots
        <5>2. callbacks_[f] # c
          BY <3>1, <4>5, <5>1
        <5> QED BY <1>1, <3>3, <4>5, <5>1, <5>2 DEF Armed
      <4>6. Sets'
        BY <1>1, <4>1, <4>3, <4>5, Types DEF Sets, Kinds
      <4>7. Served'
        <5>1. \A f \in (snapR \cup snapW) \ {fd} : callbacks_[f] # c
          BY <1>1, <4>1, <4>5, Types DEF Served, Sets, Kinds
        <5> QED BY <1>1, <2>2, <3>2, <4>1, <4>2, <4>3, <5>1 DEF Served
      <4>8. Counted'
        BY <2>2, <4>1, <4>2, <4>3, CountDown DEF Counted
      <4> QED BY <4>4, <4>6, <4>7, <4>8
    <3>7. selected' \subseteq Callbacks /\ early' \subseteq Callbacks
      BY <1>1, <3>1, <3>2, Types
    <3>8. Disciplined'
      BY <3>6 DEF Disciplined
    <3> QED BY <1>1, <2>2, <2>3, <3>3, <3>4, <3>5, <3>7, <3>8, Types
  <2> QED BY <2>4, <2>5
<1> QED BY <1>2, <1>3

\* The first closure is taken from the local list, and installed if it is a registration.
LEMMA TailPending ==
  ASSUME TypeOK, Pending, tasks # <<>>, tasks' = Tail(tasks), UNCHANGED <<runq_, reg>>,
         \/ installed' = installed
         \/ Head(tasks).what \in Kinds /\ installed' = installed \cup {Head(tasks).cb}
  PROVE  Pending'
<1> DEFINE h == Head(tasks)
<1>1. /\ h = tasks[1] /\ 1 \in DOMAIN tasks
      /\ \A i \in DOMAIN tasks' :
           i + 1 \in DOMAIN tasks /\ tasks'[i] = tasks[i + 1] /\ i + 1 # 1 /\ i \in Nat
  BY Types, Lists
<1>2. \A i \in DOMAIN tasks' : OnItsWay(tasks'[i]) /\ ~Same(h, tasks'[i])
  BY <1>1 DEF Pending
<1>3. \A i \in DOMAIN runq_ : OnItsWay(runq_[i]) /\ ~Same(runq_[i], h)
  BY <1>1 DEF Pending
<1>4. \A i \in DOMAIN tasks' : OnItsWay(tasks[i])'
  BY <1>2 DEF OnItsWay, Same
<1>5. \A i \in DOMAIN runq_' : OnItsWay(runq_[i])'
  BY <1>3 DEF OnItsWay, Same
<1>6. \A i, j \in DOMAIN tasks' : Same(tasks'[i], tasks'[j]) => i = j
  <2> SUFFICES ASSUME NEW i \in DOMAIN tasks', NEW j \in DOMAIN tasks',
                      Same(tasks'[i], tasks'[j])
               PROVE  i = j
    OBVIOUS
  <2>1. i + 1 = j + 1
    BY <1>1 DEF Pending
  <2> QED BY <1>1, <2>1
<1>7. \A i \in DOMAIN runq_, j \in DOMAIN tasks' : ~Same(runq_[i], tasks'[j])
  BY <1>1 DEF Pending
<1>8. \A i, j \in DOMAIN runq_ : Same(runq_[i], runq_[j]) => i = j
  BY DEF Pending
<1> QED BY <1>4, <1>5, <1>6, <1>7, <1>8 DEF Pending

\* The loop's thread runs the next closure, or has run them all.
LEMMA RunTaskStep ==
  ASSUME Inv, runTask
  PROVE  /\ Pending' /\ Slots' /\ Disciplined'
         /\ op_read_' \in SUBSET FDs /\ op_write_' \in SUBSET FDs /\ num_fds_' \in Int
         /\ callbacks_' \in [FDs -> Callbacks \cup {None}]
         /\ installed' \subseteq Callbacks /\ revoked' \subseteq Callbacks
         /\ tasks' \in Seq(Closures) /\ done' \subseteq Others /\ misused' \in BOOLEAN
         /\ ran' \in Seq(Tasks)
<1>1. /\ UNCHANGED <<runq_, pipe, queued, snapR, snapW, fireVars, reg, mode, threw, pc, cancels, running_>>
      /\ TypeOK /\ Pending /\ Slots /\ Disciplined
      /\ done \subseteq Others /\ ran \in Seq(Tasks) /\ num_fds_ \in Int
  BY DEF runTask, queueVars, loopOnly, Inv, TypeOK
<1>2. CASE tasks = <<>>
  <2>1. UNCHANGED <<fdVars, tasks, back, done, ran, misused>>
    BY <1>2 DEF runTask
  <2>2. Pending' /\ Slots' /\ Disciplined'
    BY <1>1, <2>1, ControlStep
  <2> QED BY <1>1, <2>1, <2>2, Types DEF fdVars
<1>3. CASE tasks # <<>>
  <2> DEFINE j == Head(tasks)
  <2>1. tasks' = Tail(tasks)
    BY <1>3 DEF runTask
  <2>2. /\ j \in Closures /\ tasks' \in Seq(Closures) /\ OnItsWay(j)
    BY <1>1, <1>3, <2>1, Types, Lists DEF Pending
  <2>3. CASE /\ j.what = "task" /\ ran' = Append(ran, j.task)
             /\ UNCHANGED <<fdVars, done, misused>>
    <3>1. UNCHANGED <<fdVars, fireVars, reg, misused, runq_>>
      BY <1>1, <2>3
    <3>2. Pending'
      BY <1>1, <1>3, <2>1, <3>1, TailPending DEF fdVars
    <3>3. Slots'
      BY <1>1, <3>1 DEF Slots, fdVars, fireVars
    <3>4. OneEach' = OneEach /\ Sets' = Sets /\ Counted' = Counted /\ Served' = Served
      BY <1>1, <3>1 DEF OneEach, Live, Sets, Armed, Counted, Served, fdVars, fireVars
    <3>5. Disciplined'
      BY <1>1, <3>1, <3>4 DEF Disciplined
    <3>6. ran' \in Seq(Tasks)
      BY <1>1, <2>2, <2>3, ClosureType
    <3> QED BY <1>1, <2>2, <2>3, <3>1, <3>2, <3>3, <3>5, <3>6, Types DEF fdVars
  <2>4. CASE /\ j.what \in Kinds /\ setFD(j.what, j.fd, j.cb)
             /\ UNCHANGED <<done, ran, misused>>
    <3>1. /\ j.cb \in Callbacks /\ j.fd \in FDs /\ j.cb \notin installed
          /\ reg[j.cb] = <<j.what, j.fd>> /\ reg[j.cb] # None
      BY <1>1, <2>2, <2>4, OnItsWayRegistered
    <3>2. Pending'
      <4>1. installed' = installed \cup {j.cb}
        BY <2>4 DEF setFD
      <4> QED BY <1>1, <1>3, <2>1, <2>4, <4>1, TailPending
    <3>3. ~misused' => \A d \in Callbacks : d # j.cb /\ Live(d) => reg[d][2] # j.fd
      <4>1. Live(j.cb) /\ reg[j.cb][2] = j.fd
        BY <1>1, <3>1, Types DEF Live, Slots
      <4> QED BY <1>1, <2>4, <3>1, <4>1 DEF Disciplined, OneEach
    <3>4. Slots' /\ Disciplined'
      BY <1>1, <2>4, <3>1, <3>3, SetStep
    <3>5. /\ op_read_' \in SUBSET FDs /\ op_write_' \in SUBSET FDs /\ num_fds_' \in Int
          /\ callbacks_' \in [FDs -> Callbacks \cup {None}]
          /\ installed' \subseteq Callbacks /\ revoked' \subseteq Callbacks
      BY <1>1, <2>4, <3>1, Types DEF setFD
    <3> QED BY <1>1, <2>2, <2>4, <3>2, <3>4, <3>5, Types
  <2>5. CASE /\ j.what = "cancel" /\ clearFD(j.fd) /\ done' = done \cup {j.by}
             /\ UNCHANGED ran
    <3>1. j.fd \in FDs /\ j.by \in Others
      BY <2>2, <2>5, ClosureType
    <3>2. Pending'
      <4>1. installed' = installed
        BY <2>5 DEF clearFD
      <4> QED BY <1>1, <1>3, <2>1, <4>1, TailPending
    <3>3. Slots' /\ Disciplined'
      BY <1>1, <2>5, <3>1, ClearStep
    <3>4. /\ op_read_' \in SUBSET FDs /\ op_write_' \in SUBSET FDs /\ num_fds_' \in Int
          /\ callbacks_' \in [FDs -> Callbacks \cup {None}]
          /\ installed' \subseteq Callbacks /\ revoked' \subseteq Callbacks /\ misused' \in BOOLEAN
      BY <1>1, <2>5, <3>1, Types DEF clearFD
    <3> QED BY <1>1, <2>2, <2>5, <3>1, <3>2, <3>3, <3>4
  <2> QED BY <1>3, <2>3, <2>4, <2>5 DEF runTask
<1> QED BY <1>2, <1>3

\* User code on the loop's thread registers a callback.
LEMMA UserRegisterStep ==
  ASSUME Inv, NEW kind \in Kinds, NEW fd \in FDs, NEW c \in Callbacks, userRegister(kind, fd, c)
  PROVE  Pending' /\ Slots' /\ Disciplined' /\ TypeOK'
<1>1. /\ register(kind, fd, c) /\ setFD(kind, fd, c)
      /\ UNCHANGED <<pollVars, fireVars, mode, pc, done, ran, threw, queueVars, lpc, back, running_, cancels>>
      /\ TypeOK /\ Pending /\ Slots /\ Disciplined
  BY DEF userRegister, userOnly, Inv
<1>2. /\ c \notin installed /\ c \notin revoked /\ fired[c] = 0
      /\ reg' \in [Callbacks -> (Kinds \X FDs) \cup {None}]
      /\ reg'[c] = <<kind, fd>> /\ reg'[c] # None
      /\ \A d \in Callbacks : d # c => reg'[d] = reg[d]
      /\ \A d \in Callbacks : reg[d] # None => d # c
      /\ misused' \in BOOLEAN /\ (misused => misused')
      /\ ~misused' => \A d \in Callbacks : Live(d) => reg[d][2] # fd
  BY <1>1, RegisterKeeps
<1>3. Slots' /\ Disciplined'
  BY <1>1, <1>2, SetStep DEF pollVars
<1>4. Pending'
  <2>1. installed' = installed \cup {c} /\ runq_' = runq_ /\ tasks' = tasks
    BY <1>1 DEF setFD, queueVars, pollVars
  <2>2. ASSUME NEW k \in Closures, OnItsWay(k) PROVE OnItsWay(k)'
    <3>1. k.what \in Kinds => k.cb \in Callbacks /\ reg[k.cb] # None
      BY <1>1, <2>2, OnItsWayRegistered
    <3> QED BY <1>2, <2>1, <2>2, <3>1 DEF OnItsWay
  <2>3. /\ \A i \in DOMAIN runq_ : runq_[i] \in Closures /\ OnItsWay(runq_[i])
        /\ \A i \in DOMAIN tasks : tasks[i] \in Closures /\ OnItsWay(tasks[i])
    BY <1>1, Types, ElementOfSeq DEF Pending
  <2>4. \A i \in DOMAIN runq_' : OnItsWay(runq_[i])'
    BY <2>1, <2>2, <2>3 DEF OnItsWay
  <2>5. \A i \in DOMAIN tasks' : OnItsWay(tasks[i])'
    BY <2>1, <2>2, <2>3 DEF OnItsWay
  <2> QED BY <1>1, <2>1, <2>4, <2>5 DEF Pending
<1>5. TypeOK'
  <2>1. /\ op_read_' \in SUBSET FDs /\ op_write_' \in SUBSET FDs /\ num_fds_' \in Int
        /\ callbacks_' \in [FDs -> Callbacks \cup {None}]
        /\ installed' \subseteq Callbacks /\ revoked' \subseteq Callbacks
    BY <1>1 DEF setFD, TypeOK
  <2> QED BY <1>1, <1>2, <2>1 DEF TypeOK, pollVars, queueVars, fireVars
<1> QED BY <1>3, <1>4, <1>5

\* User code on the loop's thread cancels a descriptor.
LEMMA UserCancelStep ==
  ASSUME Inv, NEW fd \in FDs, userCancel(fd)
  PROVE  Pending' /\ Slots' /\ Disciplined' /\ TypeOK'
<1>1. /\ clearFD(fd) /\ cancels < MaxCancels /\ cancels' = cancels + 1
      /\ UNCHANGED <<pollVars, fireVars, mode, pc, done, ran, threw, queueVars, lpc, back, running_, reg>>
      /\ TypeOK /\ Pending /\ Slots /\ Disciplined
  BY DEF userCancel, userOnly, Inv
<1>2. Slots' /\ Disciplined'
  BY <1>1, ClearStep DEF pollVars
<1>3. Pending'
  BY <1>1 DEF Pending, OnItsWay, clearFD, queueVars, pollVars
<1>4. TypeOK'
  <2>1. /\ op_read_' \in SUBSET FDs /\ op_write_' \in SUBSET FDs /\ num_fds_' \in Int
        /\ callbacks_' \in [FDs -> Callbacks \cup {None}]
        /\ installed' \subseteq Callbacks /\ revoked' \subseteq Callbacks
    BY <1>1 DEF clearFD, TypeOK
  <2>2. misused' \in BOOLEAN
    BY <1>1, Types DEF clearFD
  <2>3. cancels' \in 0..MaxCancels
    BY <1>1, EventLoopAssumption DEF TypeOK
  <2> QED BY <1>1, <2>1, <2>2, <2>3 DEF TypeOK, pollVars, queueVars, fireVars
<1> QED BY <1>2, <1>3, <1>4

-----------------------------------------------------------------------------
\* The steps of other threads keep the invariant.
LEMMA OtherStep ==
  ASSUME Inv, NEW t \in Others, Other(t) \/ writePipe(t) \/ cancelReturns(t)
  PROVE  Inv'
<1>1. ASSUME NEW k \in Tasks, pushTask(t, k) PROVE Inv'
  <2> DEFINE j == [what |-> "task", task |-> k]
  <2>1. j \in Closures /\ j.what \notin Kinds
    BY DEF Closures, Kinds
  <2>2. /\ push(j) /\ queued' = Append(queued, k) /\ pc' = [pc EXCEPT ![t] = "wake"]
        /\ UNCHANGED <<fdVars, fireVars, pollVars, reg, misused>>
        /\ UNCHANGED <<lpc, back, mode, ran, threw, running_, done, cancels>>
    BY <1>1 DEF pushTask, othersOnly
  <2>3. Pending' /\ Slots' /\ Disciplined'
    BY <2>1, <2>2, PushStep
  <2>4. TypeOK'
    <3>1. runq_' \in Seq(Closures) /\ pipe' = pipe
      BY <2>1, <2>2 DEF Inv, TypeOK, push
    <3> QED BY <2>2, <3>1 DEF Inv, TypeOK, fdVars, fireVars, pollVars
  <2>5. NoLostRunQWakeup'
    BY <2>2 DEF Inv, TypeOK, NoLostRunQWakeup
  <2> QED BY <2>3, <2>4, <2>5 DEF Inv
<1>2. ASSUME NEW kind \in Kinds, NEW fd \in FDs, NEW c \in Callbacks,
             pushRegistration(t, kind, fd, c)
      PROVE  Inv'
  <2>1. Pending' /\ Slots' /\ Disciplined'
    BY <1>2, PushRegistrationStep
  <2>2. reg' \in [Callbacks -> (Kinds \X FDs) \cup {None}] /\ misused' \in BOOLEAN
    BY <1>2, RegisterKeeps DEF Inv, pushRegistration
  <2>3. /\ push([what |-> kind, fd |-> fd, cb |-> c]) /\ pc' = [pc EXCEPT ![t] = "wake"]
        /\ UNCHANGED <<fdVars, pollVars, fireVars, lpc, back, mode, ran, threw, running_, done,
                       cancels, queued>>
    BY <1>2 DEF pushRegistration
  <2>4. TypeOK'
    <3>1. [what |-> kind, fd |-> fd, cb |-> c] \in Closures
      BY DEF Closures
    <3>2. runq_' \in Seq(Closures) /\ pipe' = pipe
      BY <2>3, <3>1 DEF Inv, TypeOK, push
    <3> QED BY <2>2, <2>3, <3>2 DEF Inv, TypeOK, fdVars, fireVars, pollVars
  <2>5. NoLostRunQWakeup'
    BY <2>3 DEF Inv, TypeOK, NoLostRunQWakeup
  <2> QED BY <2>1, <2>4, <2>5 DEF Inv
<1>3. ASSUME NEW fd \in FDs, pushCancel(t, fd) PROVE Inv'
  <2> DEFINE j == [what |-> "cancel", fd |-> fd, by |-> t]
  <2>1. j \in Closures /\ j.what \notin Kinds
    BY DEF Closures, Kinds
  <2>2. /\ push(j) /\ cancels < MaxCancels /\ cancels' = cancels + 1
        /\ pc' = [pc EXCEPT ![t] = "cancelWake"]
        /\ UNCHANGED <<fdVars, fireVars, pollVars, reg, misused>>
        /\ UNCHANGED <<lpc, back, mode, ran, threw, running_, done, queued>>
    BY <1>3 DEF pushCancel, othersOnly
  <2>3. Pending' /\ Slots' /\ Disciplined'
    BY <2>1, <2>2, PushStep
  <2>4. TypeOK'
    <3>1. runq_' \in Seq(Closures) /\ pipe' = pipe
      BY <2>1, <2>2 DEF Inv, TypeOK, push
    <3>2. cancels' \in 0..MaxCancels
      BY <2>2, EventLoopAssumption DEF Inv, TypeOK
    <3> QED BY <2>2, <3>1, <3>2 DEF Inv, TypeOK, fdVars, fireVars, pollVars
  <2>5. NoLostRunQWakeup'
    BY <2>2 DEF Inv, TypeOK, NoLostRunQWakeup
  <2> QED BY <2>3, <2>4, <2>5 DEF Inv
<1>4. ASSUME shutdown(t) \/ writePipe(t) \/ cancelReturns(t) PROVE Inv'
  <2>1. /\ UNCHANGED <<fdVars, fireVars, reg, misused, runq_, pollVars>>
        /\ UNCHANGED <<lpc, back, mode, ran, threw, queued, cancels>>
    BY <1>4 DEF shutdown, writePipe, cancelReturns, othersOnly, queueVars
  <2>2. Pending' /\ Slots' /\ Disciplined'
    BY <2>1, ControlStep DEF pollVars
  <2>3. /\ pc' \in [Others -> {"idle", "wake", "cancelWake", "cancelWait"}]
        /\ pipe' \in 0..PipeCapacity /\ running_' \in BOOLEAN /\ done' \in SUBSET Others
    <3>1. CASE writePipe(t)
      BY <3>1, EventLoopAssumption DEF writePipe, Inv, TypeOK
    <3>2. CASE shutdown(t)
      BY <3>2 DEF shutdown, queueVars, Inv, TypeOK
    <3>3. CASE cancelReturns(t)
      BY <3>3 DEF cancelReturns, queueVars, Inv, TypeOK
    <3> QED BY <1>4, <3>1, <3>2, <3>3
  <2>4. TypeOK'
    BY <2>1, <2>3 DEF Inv, TypeOK, fdVars, fireVars, pollVars
  <2>5. NoLostRunQWakeup'
    <3>1. CASE writePipe(t)
      BY <2>1, <3>1 DEF writePipe, Inv, TypeOK, NoLostRunQWakeup
    <3>2. CASE shutdown(t)
      BY <2>1, <3>2 DEF shutdown, queueVars, Inv, TypeOK, NoLostRunQWakeup
    <3>3. CASE cancelReturns(t)
      BY <2>1, <3>3 DEF cancelReturns, queueVars, Inv, TypeOK, NoLostRunQWakeup
    <3> QED BY <1>4, <3>1, <3>2, <3>3
  <2> QED BY <2>2, <2>4, <2>5 DEF Inv
<1> QED BY <1>1, <1>2, <1>3, <1>4 DEF Other

\* The steps of user code that change neither registrations nor callbacks.
LEMMA UserStep ==
  ASSUME Inv, \/ userShutdown \/ userThrows \/ userWritePipe \/ userReturns
              \/ \E k \in Tasks : userRunAsync(k)
  PROVE  Inv'
<1>1. ASSUME NEW k \in Tasks, userRunAsync(k) PROVE Inv'
  <2> DEFINE j == [what |-> "task", task |-> k]
  <2>1. j \in Closures /\ j.what \notin Kinds
    BY DEF Closures, Kinds
  <2>2. /\ push(j) /\ queued' = Append(queued, k)
        /\ back' = IF lpc = "out" THEN "out" ELSE back
        /\ lpc' = "wake"
        /\ UNCHANGED <<fdVars, fireVars, pollVars, reg, misused>>
        /\ UNCHANGED <<mode, pc, ran, threw, running_, done, cancels>>
    BY <1>1 DEF userRunAsync, userRest, userOnly
  <2>3. Pending' /\ Slots' /\ Disciplined'
    BY <2>1, <2>2, PushStep
  <2>4. TypeOK'
    <3>1. runq_' \in Seq(Closures) /\ pipe' = pipe
      BY <2>1, <2>2 DEF Inv, TypeOK, push
    <3> QED BY <2>2, <3>1 DEF Inv, TypeOK, fdVars, fireVars, pollVars
  <2>5. NoLostRunQWakeup'
    BY <2>2 DEF NoLostRunQWakeup
  <2> QED BY <2>3, <2>4, <2>5 DEF Inv
<1>2. CASE userThrows
  <2>1. /\ lpc = "user" /\ lpc' = "out" /\ tasks' = <<>> /\ snapR' = {} /\ snapW' = {} /\ threw' = TRUE
        /\ UNCHANGED <<fdVars, fireVars, reg, misused, runq_, pipe, queued, back, mode, pc, done, ran,
                       running_, cancels>>
    BY <1>2 DEF userThrows, queueVars
  <2>2. Pending' /\ Slots' /\ Disciplined'
    BY <2>1, ControlStep
  <2>3. TypeOK'
    BY <2>1 DEF Inv, TypeOK, fdVars, fireVars
  <2>4. NoLostRunQWakeup'
    BY <2>1 DEF Inv, NoLostRunQWakeup
  <2> QED BY <2>2, <2>3, <2>4 DEF Inv
<1>3. ASSUME userShutdown \/ userWritePipe \/ userReturns PROVE Inv'
  <2>1. /\ UNCHANGED <<fdVars, fireVars, reg, misused, runq_, pollVars>>
        /\ UNCHANGED <<mode, pc, done, ran, threw, queued, cancels>>
    BY <1>3 DEF userShutdown, userWritePipe, userReturns, userRest, userOnly, queueVars
  <2>2. Pending' /\ Slots' /\ Disciplined'
    BY <2>1, ControlStep DEF pollVars
  <2>3. /\ lpc' \in {"out", "user", "wake", "tasks", "scan"} /\ back' \in {"out", "tasks", "scan"}
        /\ pipe' \in 0..PipeCapacity /\ running_' \in BOOLEAN
    <3>1. CASE userShutdown
      BY <3>1 DEF userShutdown, queueVars, Inv, TypeOK
    <3>2. CASE userWritePipe
      BY <3>2, EventLoopAssumption DEF userWritePipe, Inv, TypeOK
    <3>3. CASE userReturns
      BY <3>3 DEF userReturns, queueVars, Inv, TypeOK
    <3> QED BY <1>3, <3>1, <3>2, <3>3
  <2>4. TypeOK'
    BY <2>1, <2>3 DEF Inv, TypeOK, fdVars, fireVars, pollVars
  <2>5. NoLostRunQWakeup'
    <3>1. CASE userShutdown
      BY <3>1 DEF userShutdown, NoLostRunQWakeup
    <3>2. CASE userWritePipe
      BY <3>2 DEF userWritePipe, NoLostRunQWakeup, Inv, TypeOK
    <3>3. CASE userReturns
      BY <2>1, <3>3 DEF userReturns, queueVars, NoLostRunQWakeup, Inv
    <3> QED BY <1>3, <3>1, <3>2, <3>3
  <2> QED BY <2>2, <2>4, <2>5 DEF Inv
<1> QED BY <1>1, <1>2, <1>3

\* The steps of the loop itself.
LEMMA LoopStep ==
  ASSUME Inv, \/ \E m \in {"run", "runOnce"} : enterLoop(m)
              \/ testRunning \/ Poll \/ selectInterrupted
  PROVE  Inv'
<1>1. CASE (\E m \in {"run", "runOnce"} : enterLoop(m)) \/ testRunning \/ selectInterrupted
  <2>1. /\ UNCHANGED <<fdVars, fireVars, reg, misused, runq_, pollVars>>
        /\ UNCHANGED <<pipe, queued, pc, done, ran, threw, cancels, running_, back>>
        /\ lpc \in {"out", "test", "select"} /\ lpc' \in {"out", "test", "select"}
        /\ mode' \in {"run", "runOnce"}
    BY <1>1 DEF enterLoop, testRunning, selectInterrupted, queueVars, loopOnly, history, Inv, TypeOK
  <2>2. Pending' /\ Slots' /\ Disciplined'
    BY <2>1, ControlStep DEF pollVars
  <2>3. TypeOK'
    BY <2>1 DEF Inv, TypeOK, fdVars, fireVars, pollVars
  <2>4. NoLostRunQWakeup'
    BY <2>1 DEF NoLostRunQWakeup, Inv
  <2> QED BY <2>2, <2>3, <2>4 DEF Inv
<1>2. CASE select
  <2>1. /\ Pending' /\ Slots' /\ Disciplined'
        /\ snapR' \in SUBSET FDs /\ snapW' \in SUBSET FDs /\ selected' \subseteq Callbacks
    BY <1>2, SelectStep
  <2>2. /\ lpc = "select" /\ lpc' \in {"drain", "scan"}
        /\ UNCHANGED <<fdVars, queueVars, tasks, fired, early, loopOnly, back, mode, done, history>>
    BY <1>2 DEF select
  <2>3. TypeOK'
    BY <2>1, <2>2 DEF Inv, TypeOK, fdVars, queueVars, loopOnly, history
  <2>4. NoLostRunQWakeup'
    BY <2>2 DEF NoLostRunQWakeup, Inv, queueVars, loopOnly
  <2> QED BY <2>1, <2>3, <2>4 DEF Inv
<1>3. CASE drainPipe
  <2>1. /\ UNCHANGED <<fdVars, fireVars, reg, misused, runq_, pollVars>>
        /\ UNCHANGED <<queued, pc, done, ran, threw, cancels, running_, back, mode>>
        /\ pipe' = 0 /\ lpc' = "splice"
    BY <1>3 DEF drainPipe, loopOnly, history
  <2>2. Pending' /\ Slots' /\ Disciplined'
    BY <2>1, ControlStep DEF pollVars
  <2>3. TypeOK'
    <3>1. pipe' \in 0..PipeCapacity
      BY <2>1, EventLoopAssumption
    <3> QED BY <2>1, <3>1 DEF Inv, TypeOK, fdVars, fireVars, pollVars
  <2>4. NoLostRunQWakeup'
    BY <2>1 DEF NoLostRunQWakeup
  <2> QED BY <2>2, <2>3, <2>4 DEF Inv
<1>4. CASE spliceTasks
  <2>1. Pending' /\ Slots' /\ Disciplined'
    BY <1>4, SpliceStep
  <2>2. TypeOK'
    BY <1>4 DEF spliceTasks, Inv, TypeOK, fdVars, fireVars, loopOnly, history
  <2>3. NoLostRunQWakeup'
    BY <1>4 DEF spliceTasks, NoLostRunQWakeup
  <2> QED BY <2>1, <2>2, <2>3 DEF Inv
<1>5. CASE runTask
  <2>1. /\ Pending' /\ Slots' /\ Disciplined'
        /\ op_read_' \in SUBSET FDs /\ op_write_' \in SUBSET FDs /\ num_fds_' \in Int
        /\ callbacks_' \in [FDs -> Callbacks \cup {None}]
        /\ installed' \subseteq Callbacks /\ revoked' \subseteq Callbacks
        /\ tasks' \in Seq(Closures) /\ done' \subseteq Others /\ misused' \in BOOLEAN
        /\ ran' \in Seq(Tasks)
    BY <1>5, RunTaskStep
  <2>2. /\ lpc = "tasks" /\ lpc' \in {"scan", "user", "tasks"} /\ back' \in {back, "tasks"}
        /\ UNCHANGED <<queueVars, snapR, snapW, fireVars, loopOnly, mode, threw>>
    BY <1>5 DEF runTask
  <2>3. TypeOK'
    BY <2>1, <2>2 DEF Inv, TypeOK, queueVars, fireVars, loopOnly
  <2>4. NoLostRunQWakeup'
    BY <2>2 DEF NoLostRunQWakeup, Inv, queueVars, loopOnly
  <2> QED BY <2>1, <2>3, <2>4 DEF Inv
<1>6. CASE serveFD
  <2>1. /\ Pending' /\ Slots' /\ Disciplined'
        /\ op_read_' \in SUBSET FDs /\ op_write_' \in SUBSET FDs /\ num_fds_' \in Int
        /\ snapR' \in SUBSET FDs /\ snapW' \in SUBSET FDs
        /\ fired' \in [Callbacks -> Nat]
        /\ selected' \subseteq Callbacks /\ early' \subseteq Callbacks
    BY <1>6, ServeStep
  <2>2. /\ lpc = "scan" /\ lpc' \in {"test", "scan", "user"} /\ back' \in {back, "scan"}
        /\ UNCHANGED <<callbacks_, installed, revoked, queueVars, tasks, loopOnly, mode, done, history>>
    <3>1. CASE snapR \cup snapW = {}
      BY <1>6, <3>1 DEF serveFD
    <3>2. CASE snapR \cup snapW # {}
      BY <1>6, <3>2 DEF serveFD
    <3> QED BY <3>1, <3>2
  <2>3. TypeOK'
    BY <2>1, <2>2 DEF Inv, TypeOK, queueVars, loopOnly, history
  <2>4. NoLostRunQWakeup'
    BY <2>2 DEF NoLostRunQWakeup, Inv, queueVars, loopOnly
  <2> QED BY <2>1, <2>3, <2>4 DEF Inv
<1> QED BY <1>1, <1>2, <1>3, <1>4, <1>5, <1>6 DEF Poll

LEMMA InitInv == Init => Inv
<1> SUFFICES ASSUME Init PROVE Inv
  OBVIOUS
<1>1. TypeOK
  <2>1. pipe \in 0..PipeCapacity /\ cancels \in 0..MaxCancels /\ num_fds_ \in Int
    BY EventLoopAssumption DEF Init
  <2>2. /\ callbacks_ \in [FDs -> Callbacks \cup {None}]
        /\ reg \in [Callbacks -> (Kinds \X FDs) \cup {None}] /\ fired \in [Callbacks -> Nat]
        /\ pc \in [Others -> {"idle", "wake", "cancelWake", "cancelWait"}]
    BY DEF Init
  <2>3. {installed, revoked, selected, early} \subseteq SUBSET Callbacks
    BY DEF Init
  <2>4. {threw, misused} \subseteq BOOLEAN
    BY DEF Init
  <2>5. /\ runq_ \in Seq(Closures) /\ tasks \in Seq(Closures)
        /\ queued \in Seq(Tasks) /\ ran \in Seq(Tasks)
    BY DEF Init
  <2>6. /\ op_read_ \in SUBSET FDs /\ op_write_ \in SUBSET FDs
        /\ snapR \in SUBSET FDs /\ snapW \in SUBSET FDs /\ done \in SUBSET Others
        /\ running_ \in BOOLEAN
        /\ lpc = "out" /\ back = "out" /\ mode = "run"
    BY DEF Init
  <2> QED BY <2>1, <2>2, <2>3, <2>4, <2>5, <2>6 DEF TypeOK
<1>2. DOMAIN runq_ = {} /\ DOMAIN tasks = {} /\ NoLostRunQWakeup
  BY DEF Init, NoLostRunQWakeup
<1>3. Pending
  BY <1>2 DEF Pending
<1>4. Slots
  BY DEF Init, Slots
<1>5. OneEach /\ Sets /\ Served
  BY DEF Init, OneEach, Live, Sets, Served
<1>6. Counted
  BY FS_EmptySet DEF Init, Counted
<1> QED BY <1>1, <1>2, <1>3, <1>4, <1>5, <1>6 DEF Inv, Disciplined

LEMMA NextInv == Inv /\ [Next]_vars => Inv'
<1> SUFFICES ASSUME Inv, [Next]_vars PROVE Inv'
  OBVIOUS
<1>1. CASE UNCHANGED vars
  <2>1. /\ UNCHANGED <<fdVars, fireVars, reg, misused, runq_, pollVars>>
        /\ UNCHANGED <<queueVars, pc, done, ran, threw, cancels, running_, back, mode, lpc>>
    BY <1>1 DEF vars, queueVars
  <2>2. Pending' /\ Slots' /\ Disciplined'
    BY <2>1, ControlStep DEF pollVars
  <2>3. TypeOK' /\ NoLostRunQWakeup'
    BY <2>1 DEF Inv, TypeOK, NoLostRunQWakeup, fdVars, fireVars, pollVars, queueVars
  <2> QED BY <2>2, <2>3 DEF Inv
<1>2. ASSUME NEW kind \in Kinds, NEW fd \in FDs, NEW c \in Callbacks, userRegister(kind, fd, c)
      PROVE  Inv'
  <2>1. NoLostRunQWakeup'
    BY <1>2 DEF userRegister, userOnly, queueVars, NoLostRunQWakeup, Inv
  <2> QED BY <1>2, <2>1, UserRegisterStep DEF Inv
<1>3. ASSUME NEW fd \in FDs, userCancel(fd) PROVE Inv'
  <2>1. NoLostRunQWakeup'
    BY <1>3 DEF userCancel, userOnly, queueVars, NoLostRunQWakeup, Inv
  <2> QED BY <1>3, <2>1, UserCancelStep DEF Inv
<1> QED BY <1>1, <1>2, <1>3, UserStep, LoopStep, OtherStep DEF Next, User

-----------------------------------------------------------------------------
\* EventLoop's state always has its type: in particular no callback is registered or run
\* that was not passed to it.
THEOREM TypeCorrect == Spec => []TypeOK
<1>1. Inv => TypeOK
  BY DEF Inv
<1> QED BY <1>1, InitInv, NextInv, PTL DEF Spec

\* Only poll() runs callbacks of descriptors.
LEMMA FiredKept ==
  ASSUME Inv, [Next]_vars, ~serveFD
  PROVE  fired' = fired
<1>1. CASE UNCHANGED vars
  BY <1>1 DEF vars, fireVars
<1>2. ASSUME NEW t \in Others, Other(t) \/ writePipe(t) \/ cancelReturns(t) PROVE fired' = fired
  BY <1>2 DEF Other, pushTask, pushRegistration, pushCancel, shutdown, writePipe, cancelReturns,
              othersOnly, fireVars
<1>3. CASE User \/ userWritePipe \/ userReturns
  BY <1>3 DEF User, userShutdown, userThrows, userRunAsync, userRegister, userCancel, userWritePipe,
              userReturns, userRest, userOnly, fireVars
<1>4. CASE \/ \E m \in {"run", "runOnce"} : enterLoop(m)
           \/ testRunning \/ selectInterrupted \/ Poll
  BY <1>4 DEF enterLoop, testRunning, selectInterrupted, Poll, select, drainPipe, spliceTasks, runTask,
              fireVars
<1> QED BY <1>1, <1>2, <1>3, <1>4 DEF Next

\* A step of the loop runs no cancelled callback, and a runOnce() that returns by itself
\* leaves no descriptor registered.
LEMMA StepRight ==
  ASSUME Inv, [Next]_vars
  PROVE  /\ \A c \in revoked : fired'[c] = fired[c]
         /\ testRunning /\ running_ /\ lpc' = "out" /\ ~misused => op_read_ = {} /\ op_write_ = {}
<1>1. \A c \in revoked : fired'[c] = fired[c]
  BY FiredKept, ServeStep
<1>2. ASSUME testRunning, running_, lpc' = "out", ~misused PROVE op_read_ = {} /\ op_write_ = {}
  <2>1. num_fds_ = 0
    BY <1>2 DEF testRunning
  <2>2. /\ IsFiniteSet(op_read_) /\ IsFiniteSet(op_write_)
        /\ Cardinality(op_read_) + Cardinality(op_write_) = 0
    BY <1>2, <2>1 DEF Inv, Disciplined, Counted
  <2>3. Cardinality(op_read_) = 0 /\ Cardinality(op_write_) = 0
    BY <2>2, FS_CardinalityType
  <2> QED BY <2>2, <2>3, FS_EmptySet
<1> QED BY <1>1, <1>2

\* The loop does not overlook what was pushed to it, runs a callback only for its own event
\* and never after it was cancelled, and runOnce() stays while a descriptor is registered:
\* for any number of threads, descriptors, callbacks, tasks and cancellations.
THEOREM LoopSafeCorrect == Spec => LoopSafe
<1>1. Inv => NoLostRunQWakeup /\ FiresWhenReady
  BY DEF Inv, FiresWhenReady, Disciplined, Served
<1>2. Inv /\ [Next]_vars => [\A c \in revoked : fired'[c] = fired[c]]_vars
  BY StepRight
<1>3. Inv /\ [Next]_vars => [testRunning /\ running_ /\ lpc' = "out" /\ ~misused
                              => op_read_ = {} /\ op_write_ = {}]_vars
  BY StepRight
<1> QED BY <1>1, <1>2, <1>3, InitInv, NextInv, PTL DEF Spec, LoopSafe, CancelledSilent, RunOnceServes
=============================================================================
