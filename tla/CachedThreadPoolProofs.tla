----------------------- MODULE CachedThreadPoolProofs -----------------------
(***************************************************************************)
(* The thread pool's accounting, reservation and wakeup invariants hold    *)
(* for any number of clients, pool threads, cached threads and tasks.      *)
(***************************************************************************)
EXTENDS CachedThreadPool, FiniteSetTheorems, SequenceTheorems, TLAPS

\* The number of threads whose program counter f[t] is one of L.
Count(f, L) == Cardinality({t \in Threads : f[t] \in L})

\* The threads at a label are finitely many, so their count is a natural number.
LEMMA CountNat ==
  ASSUME NEW f \in [Threads -> PCs], NEW L
  PROVE  Count(f, L) \in Nat
<1>1. IsFiniteSet({t \in Threads : f[t] \in L})
  BY PoolAssumption, FS_Subset
<1> QED BY <1>1, FS_CardinalityType DEF Count

\* A thread that moves to l leaves the count of its old label and enters l's.
LEMMA CountMove ==
  ASSUME NEW f \in [Threads -> PCs], NEW t \in Threads, NEW l \in PCs, NEW L
  PROVE  Count([f EXCEPT ![t] = l], L)
              = Count(f, L) + (IF l \in L THEN 1 ELSE 0)
                            - (IF f[t] \in L THEN 1 ELSE 0)
<1> DEFINE S == {u \in Threads : f[u] \in L}
           g == [f EXCEPT ![t] = l]
           T == {u \in Threads : g[u] \in L}
<1>1. IsFiniteSet(S) /\ Cardinality(S) \in Nat
  BY PoolAssumption, FS_Subset, FS_CardinalityType
<1>c. Count(f, L) = Cardinality(S) /\ Count(g, L) = Cardinality(T)
  BY DEF Count
<1> HIDE DEF S, T
<1>2. CASE l \in L /\ f[t] \in L
  <2>1. T = S
    BY <1>2 DEF S, T
  <2> QED BY <1>1, <1>c, <1>2, <2>1
<1>3. CASE l \in L /\ f[t] \notin L
  <2>1. T = S \cup {t} /\ t \notin S
    BY <1>3 DEF S, T
  <2>2. Cardinality(T) = Cardinality(S) + 1
    BY <1>1, <2>1, FS_AddElement
  <2> QED BY <1>1, <1>c, <1>3, <2>2
<1>4. CASE l \notin L /\ f[t] \in L
  <2>1. T = S \ {t} /\ t \in S
    BY <1>4 DEF S, T
  <2>2. Cardinality(T) = Cardinality(S) - 1
    BY <1>1, <2>1, FS_RemoveElement
  <2> QED BY <1>1, <1>c, <1>4, <2>2
<1>5. CASE l \notin L /\ f[t] \notin L
  <2>1. T = S
    BY <1>5 DEF S, T
  <2> QED BY <1>1, <1>c, <1>5, <2>1
<1> QED BY <1>2, <1>3, <1>4, <1>5

FreeL == {"awake", "waiting"}
LiveL == PCs \ {"none"}

\* What the move of t to l does to the counts the invariants use.
CountsMove(t, l) ==
  \A L \in {FreeL, LiveL, {"top"}, {"awake"}} :
    /\ Count(pc, L) \in Nat
    /\ Count(pc', L) \in Nat
    /\ Count(pc', L) = Count(pc, L) + (IF l \in L THEN 1 ELSE 0)
                                    - (IF pc[t] \in L THEN 1 ELSE 0)

\* What one step of one thread does to the count of every label.
LEMMA MoveCounts ==
  ASSUME pc \in [Threads -> PCs], NEW t \in Threads, NEW l \in PCs,
         pc' = [pc EXCEPT ![t] = l]
  PROVE  CountsMove(t, l)
<1>1. pc' \in [Threads -> PCs]
  OBVIOUS
<1>2. \A L : Count(pc', L) \in Nat
  BY <1>1, CountNat
<1>3. \A L : Count([pc EXCEPT ![t] = l], L)
                  = Count(pc, L) + (IF l \in L THEN 1 ELSE 0)
                                 - (IF pc[t] \in L THEN 1 ELSE 0)
  BY CountMove, Zenon
<1>4. \A L : Count(pc, L) \in Nat
  BY CountNat
<1> QED BY <1>2, <1>3, <1>4, Zenon DEF CountsMove

\* The sets the invariants count, written as counts of program counters.
LEMMA Counts ==
  ASSUME pc \in [Threads -> PCs]
  PROVE  /\ Cardinality(Free) = Count(pc, FreeL)
         /\ Cardinality(Live) = Count(pc, LiveL)
         /\ Cardinality(At("top")) = Count(pc, {"top"})
         /\ Cardinality(At("awake")) = Count(pc, {"awake"})
<1>1. Free = {t \in Threads : pc[t] \in FreeL}
  BY DEF Free, FreeL
<1>2. Live = {t \in Threads : pc[t] \in LiveL}
  BY DEF Live, LiveL
<1>3. \A l : At(l) = {t \in Threads : pc[t] \in {l}}
  BY DEF At
<1> QED BY <1>1, <1>2, <1>3 DEF Count

\* The counts of the primed state, in terms of the primed program counters.
LEMMA CountsPrime ==
  ASSUME (pc \in [Threads -> PCs])'
  PROVE  /\ Cardinality(Free)' = Count(pc', FreeL)
         /\ Cardinality(Live)' = Count(pc', LiveL)
         /\ Cardinality(At("top"))' = Count(pc', {"top"})
         /\ Cardinality(At("awake"))' = Count(pc', {"awake"})
<1>1. Free' = {t \in Threads : pc'[t] \in FreeL}
  BY DEF Free, FreeL
<1>2. Live' = {t \in Threads : pc'[t] \in LiveL}
  BY DEF Live, LiveL
<1>3. \A l : At(l)' = {t \in Threads : pc'[t] \in {l}}
  BY DEF At
<1> QED BY <1>1, <1>2, <1>3 DEF Count

-----------------------------------------------------------------------------

\* The counters as counts of program counters, for the arithmetic of the steps.
LEMMA AccountingCounts ==
  ASSUME pc \in [Threads -> PCs]
  PROVE  Accounting <=> /\ free_threads_ = Count(pc, FreeL)
                        /\ num_threads_ = Count(pc, LiveL) + failedStarts
BY Counts DEF Accounting

\* The same of the state after a step.
LEMMA AccountingCountsPrime ==
  ASSUME (pc \in [Threads -> PCs])'
  PROVE  Accounting' <=> /\ free_threads_' = Count(pc', FreeL)
                         /\ num_threads_' = Count(pc', LiveL) + failedStarts'
BY CountsPrime DEF Accounting

\* Type correctness rests on the counters being exact: free_threads_ and
\* num_threads_ are decremented only by threads that are counted in them.
LEMMA TypeAccountingStep ==
  TypeOK /\ Accounting /\ [Next]_vars => TypeOK' /\ Accounting'
<1> SUFFICES ASSUME TypeOK, Accounting, [Next]_vars
             PROVE  TypeOK' /\ Accounting'
  OBVIOUS
<1> USE PoolAssumption
<1>0. /\ pc \in [Threads -> PCs]
      /\ free_threads_ = Count(pc, FreeL)
      /\ num_threads_ = Count(pc, LiveL) + failedStarts
  BY AccountingCounts DEF TypeOK
<1>1. ASSUME NEW c \in Clients \cup Threads, NEW k \in Kinds, run(c, k)
      PROVE  TypeOK' /\ Accounting'
  <2>1. CASE Len(runq_') > free_threads_ /\ startThreadOk
    <3>1. PICK t \in Threads :
            /\ pc[t] = "none"
            /\ pc' = [pc EXCEPT ![t] = "top"]
            /\ cache' = [cache EXCEPT ![t] = num_threads_ + 1 <= max_cached_threads]
      BY <2>1 DEF startThreadOk, At
    <3>2. num_threads_' = num_threads_ + 1
      BY <1>1, <2>1 DEF run, startThread
    <3>3. TypeOK'
      BY <1>1, <2>1, <3>1, <3>2 DEF TypeOK, run, startThreadOk, PCs, Callers, At
    <3>4. /\ Count(pc', FreeL) = Count(pc, FreeL)
          /\ Count(pc', LiveL) = Count(pc, LiveL) + 1
      <4>1. CountsMove(t, "top")
        BY <1>0, <3>1, MoveCounts DEF PCs
      <4> QED BY <3>1, <4>1 DEF CountsMove, PCs, FreeL, LiveL
    <3>5. Count(pc, LiveL) \in Nat
      BY <1>0, CountNat
    <3>6. failedStarts' = failedStarts /\ free_threads_' = free_threads_
      BY <1>1, <2>1 DEF run, startThreadOk
    <3>7. failedStarts \in Nat /\ pc' \in [Threads -> PCs]
      BY <3>3 DEF TypeOK
    <3>8. Accounting'
      BY <1>0, <3>2, <3>4, <3>5, <3>6, <3>7, AccountingCountsPrime
    <3> QED BY <3>3, <3>8
  <2>2. CASE Len(runq_') > free_threads_ /\ startThreadFails
    <3>1. TypeOK'
      BY <1>1, <2>2 DEF TypeOK, run, startThread, startThreadFails, onException,
                        Callers, At
    <3>2. Count(pc, LiveL) \in Nat
      BY <1>0, CountNat
    <3> QED
      BY <1>0, <1>1, <2>2, <3>1, <3>2, AccountingCountsPrime
         DEF run, startThread, startThreadFails, TypeOK
  <2>3. CASE ~(Len(runq_') > free_threads_)
    <3>1. TypeOK'
      BY <1>1, <2>3 DEF TypeOK, run, Callers, At
    <3> QED
      BY <1>0, <1>1, <2>3, <3>1, AccountingCountsPrime DEF run, TypeOK
  <2> QED BY <1>1, <2>1, <2>2, <2>3 DEF run, startThread
<1>2. ASSUME NEW t \in Threads, NEW l \in PCs,
             pc' = [pc EXCEPT ![t] = l],
             pc[t] \in FreeL <=> l \in FreeL,
             pc[t] \in LiveL <=> l \in LiveL,
             TypeOK', UNCHANGED <<free_threads_, num_threads_, failedStarts>>
      PROVE  TypeOK' /\ Accounting'
  <2>1. /\ Count(pc', FreeL) = Count(pc, FreeL)
        /\ Count(pc', LiveL) = Count(pc, LiveL)
    <3>1. CountsMove(t, l)
      BY <1>0, <1>2, MoveCounts
    <3> QED BY <1>2, <3>1 DEF CountsMove
  <2> QED BY <1>0, <1>2, <2>1, AccountingCountsPrime DEF TypeOK
<1>3. ASSUME NEW c \in Clients \cup Threads, notifyOne(c)
      PROVE  TypeOK' /\ Accounting'
  <2>1. CASE At("waiting") = {}
    <3>1. TypeOK'
      BY <1>3, <2>1 DEF TypeOK, notifyOne
    <3> QED BY <1>0, <1>3, <2>1, <3>1, AccountingCountsPrime DEF notifyOne, TypeOK
  <2>2. CASE At("waiting") # {}
    <3>1. PICK t \in Threads : pc[t] = "waiting" /\ pc' = [pc EXCEPT ![t] = "awake"]
      BY <1>3, <2>2 DEF notifyOne, At
    <3>2. TypeOK'
      BY <1>3, <3>1 DEF TypeOK, notifyOne, PCs
    <3> QED BY <1>2, <1>3, <3>1, <3>2 DEF notifyOne, FreeL, LiveL, PCs
  <2> QED BY <2>1, <2>2
<1>4. ASSUME NEW t \in Threads, spuriousWakeup(t)
      PROVE  TypeOK' /\ Accounting'
  <2>1. TypeOK'
    BY <1>4 DEF TypeOK, spuriousWakeup, PCs
  <2> QED BY <1>2, <1>4, <2>1 DEF spuriousWakeup, FreeL, LiveL, PCs
<1>5. ASSUME NEW t \in Threads, enterLoop(t), waitForTask(t),
             free_threads_' = free_threads_ + 1
      PROVE  TypeOK' /\ Accounting'
  <2>1. TypeOK'
    BY <1>5 DEF TypeOK, enterLoop, waitForTask, PCs
  <2>2. /\ Count(pc', FreeL) = Count(pc, FreeL) + 1
        /\ Count(pc', LiveL) = Count(pc, LiveL)
    <3>1. CountsMove(t, "waiting")
      BY <1>0, <1>5, MoveCounts DEF waitForTask, PCs
    <3> QED BY <1>5, <3>1 DEF CountsMove, enterLoop, PCs, FreeL, LiveL
  <2> QED BY <1>0, <1>5, <2>1, <2>2, AccountingCountsPrime
             DEF enterLoop, waitForTask, TypeOK
<1>6. ASSUME NEW t \in Threads, takeTask(t)
      PROVE  /\ runq_' \in Seq(Nat)
             /\ pc' \in [Threads -> PCs]
             /\ task' \in [Threads -> Nat]
             /\ \E l \in {"task", "blocked"} : pc' = [pc EXCEPT ![t] = l]
  <2>1. runq_' \in Seq(Nat) /\ Head(runq_) \in Nat
    BY <1>6, HeadTailProperties DEF takeTask, TypeOK
  <2> QED BY <1>6, <2>1 DEF takeTask, TypeOK, PCs
<1>7. ASSUME NEW t \in Threads, enterLoop(t), takeTask(t), UNCHANGED free_threads_
      PROVE  TypeOK' /\ Accounting'
  <2>1. TypeOK'
    BY <1>6, <1>7 DEF TypeOK, enterLoop
  <2>2. PICK l \in {"task", "blocked"} : pc' = [pc EXCEPT ![t] = l]
    BY <1>6, <1>7
  <2> QED BY <1>2, <1>7, <2>1, <2>2 DEF enterLoop, FreeL, LiveL, PCs
<1>8. ASSUME NEW t \in Threads, recheck(t), waitForTask(t), UNCHANGED free_threads_
      PROVE  TypeOK' /\ Accounting'
  <2>1. TypeOK'
    BY <1>8 DEF TypeOK, recheck, waitForTask, PCs
  <2> QED BY <1>2, <1>8, <2>1 DEF recheck, waitForTask, FreeL, LiveL, PCs
<1>9. ASSUME NEW t \in Threads, recheck(t), takeTask(t),
             free_threads_' = free_threads_ - 1
      PROVE  TypeOK' /\ Accounting'
  <2>1. PICK l \in {"task", "blocked"} : pc' = [pc EXCEPT ![t] = l]
    BY <1>6, <1>9
  <2>2. /\ Count(pc', FreeL) = Count(pc, FreeL) - 1
        /\ Count(pc', LiveL) = Count(pc, LiveL)
    <3>1. CountsMove(t, l)
      BY <1>0, <2>1, MoveCounts DEF PCs
    <3> QED BY <1>9, <3>1 DEF CountsMove, recheck, PCs, FreeL, LiveL
  <2>3. Count(pc', FreeL) \in Nat
    BY <1>6, <1>9, CountNat
  <2>4. free_threads_' \in Nat
    BY <1>0, <1>9, <2>2, <2>3
  <2>5. TypeOK'
    BY <1>6, <1>9, <2>4 DEF TypeOK, recheck
  <2> QED BY <1>0, <1>9, <2>2, <2>5, AccountingCountsPrime DEF recheck, TypeOK
<1>10. ASSUME NEW t \in Threads, unblock(t)
       PROVE  TypeOK' /\ Accounting'
  <2>1. TypeOK'
    BY <1>10 DEF TypeOK, unblock, PCs
  <2> QED BY <1>2, <1>10, <2>1 DEF unblock, FreeL, LiveL, PCs
<1>11. ASSUME NEW t \in Threads, selectRaises(t) \/ finishTask(t)
       PROVE  TypeOK' /\ Accounting'
  <2>1. PICK l \in {"top", "exit"} : pc' = [pc EXCEPT ![t] = l]
    BY <1>11 DEF selectRaises, finishTask, loopOrExit
  <2>2. TypeOK'
    BY <1>11, <2>1 DEF TypeOK, selectRaises, finishTask, onException, PCs
  <2> QED BY <1>2, <1>11, <2>1, <2>2
             DEF selectRaises, finishTask, FreeL, LiveL, PCs
<1>12. ASSUME NEW t \in Threads, exitThread(t)
       PROVE  TypeOK' /\ Accounting'
  <2>1. pc' \in [Threads -> PCs]
    BY <1>12 DEF TypeOK, exitThread, PCs
  <2>2. /\ Count(pc', FreeL) = Count(pc, FreeL)
        /\ Count(pc', LiveL) = Count(pc, LiveL) - 1
    <3>1. CountsMove(t, "none")
      BY <1>0, <1>12, MoveCounts DEF exitThread, PCs
    <3> QED BY <1>12, <3>1 DEF CountsMove, exitThread, PCs, FreeL, LiveL
  <2>3. Count(pc, LiveL) \in Nat /\ Count(pc', LiveL) \in Nat
    BY <1>0, <2>1, CountNat
  <2>4. num_threads_' \in Nat
    BY <1>0, <1>12, <2>2, <2>3 DEF exitThread, TypeOK
  <2>5. TypeOK'
    BY <1>12, <2>1, <2>4 DEF TypeOK, exitThread
  <2> QED BY <1>0, <1>12, <2>2, <2>3, <2>5, AccountingCountsPrime DEF exitThread, TypeOK
<1>13. CASE UNCHANGED vars
  <2>1. TypeOK'
    BY <1>13 DEF TypeOK, vars
  <2> QED BY <1>0, <1>13, <2>1, AccountingCountsPrime DEF vars, TypeOK
<1> QED
  BY <1>1, <1>3, <1>4, <1>5, <1>7, <1>8, <1>9, <1>10, <1>11, <1>12, <1>13
     DEF Next, enterLoop, recheck

-----------------------------------------------------------------------------

\* The callers of run() that are still to notify are finitely many.
LEMMA NotifyingFinite ==
  ASSUME TypeOK
  PROVE  IsFiniteSet(notifying) /\ Cardinality(notifying) \in Nat
<1>1. IsFiniteSet(Clients \cup Threads)
  BY PoolAssumption, FS_Union
<1> QED BY <1>1, FS_Subset, FS_CardinalityType DEF TypeOK

\* ThreadReserved and NoLostWakeup in terms of counts.
Reserved == Len(runq_) <= free_threads_ + Count(pc, {"top"}) + failedStarts
Woken == \/ At("waiting") = {}
         \/ Len(runq_) <= Count(pc, {"awake"}) + Count(pc, {"top"})
                            + Cardinality(notifying)

\* The reservation of threads and the wakeups, as counts of program counters.
LEMMA ReserveCounts ==
  ASSUME pc \in [Threads -> PCs]
  PROVE  (ThreadReserved <=> Reserved) /\ (NoLostWakeup <=> Woken)
BY Counts DEF ThreadReserved, NoLostWakeup, Reserved, Woken

\* The same of the state after a step.
LEMMA ReserveCountsPrime ==
  ASSUME (pc \in [Threads -> PCs])'
  PROVE  (ThreadReserved' <=> Reserved') /\ (NoLostWakeup' <=> Woken')
BY CountsPrime DEF ThreadReserved, NoLostWakeup, Reserved, Woken, Count

\* Every action keeps a thread for each queued task, and a wakeup for each
\* queued task while a thread sleeps.
LEMMA ReserveStep ==
  TypeOK /\ TypeOK' /\ Accounting /\ Reserved /\ Woken /\ [Next]_vars
    => Reserved' /\ Woken'
<1> SUFFICES ASSUME TypeOK, TypeOK', Accounting, Reserved, Woken, [Next]_vars
             PROVE  Reserved' /\ Woken'
  OBVIOUS
<1> DEFINE nTop == Count(pc, {"top"})
           nAwake == Count(pc, {"awake"})
           nNotify == Cardinality(notifying)
<1>0. /\ pc \in [Threads -> PCs] /\ pc' \in [Threads -> PCs]
      /\ nTop \in Nat /\ nAwake \in Nat /\ nNotify \in Nat
      /\ nTop' \in Nat /\ nAwake' \in Nat /\ nNotify' \in Nat
      /\ free_threads_ \in Nat /\ free_threads_' \in Nat
      /\ failedStarts \in Nat /\ failedStarts' \in Nat
      /\ Len(runq_) \in Nat /\ Len(runq_') \in Nat
  <2>1. /\ pc \in [Threads -> PCs] /\ pc' \in [Threads -> PCs]
        /\ free_threads_ \in Nat /\ free_threads_' \in Nat
        /\ failedStarts \in Nat /\ failedStarts' \in Nat
        /\ runq_ \in Seq(Nat) /\ runq_' \in Seq(Nat)
    BY DEF TypeOK
  <2>2. Len(runq_) \in Nat /\ Len(runq_') \in Nat
    BY <2>1, LenProperties
  <2>3. nTop \in Nat /\ nAwake \in Nat /\ nTop' \in Nat /\ nAwake' \in Nat
    BY <2>1, CountNat DEF Count
  <2>4. nNotify \in Nat
    BY NotifyingFinite
  <2>5. nNotify' \in Nat
    <3>1. IsFiniteSet(Clients \cup Threads) /\ notifying' \in SUBSET (Clients \cup Threads)
      BY PoolAssumption, FS_Union DEF TypeOK
    <3> QED BY <3>1, FS_Subset, FS_CardinalityType
  <2> QED BY <2>1, <2>2, <2>3, <2>4, <2>5
<1>a. /\ Reserved' <=> Len(runq_') <= free_threads_' + nTop' + failedStarts'
      /\ Woken' <=> \/ At("waiting")' = {}
                    \/ Len(runq_') <= nAwake' + nTop' + nNotify'
  BY DEF Reserved, Woken
<1>b. /\ Len(runq_) <= free_threads_ + nTop + failedStarts
      /\ \/ At("waiting") = {}
         \/ Len(runq_) <= nAwake + nTop + nNotify
  BY DEF Reserved, Woken
<1>m. ASSUME NEW t \in Threads, NEW l \in PCs, CountsMove(t, l)
      PROVE  /\ nTop' = nTop + (IF l = "top" THEN 1 ELSE 0)
                             - (IF pc[t] = "top" THEN 1 ELSE 0)
             /\ nAwake' = nAwake + (IF l = "awake" THEN 1 ELSE 0)
                                 - (IF pc[t] = "awake" THEN 1 ELSE 0)
  BY <1>m DEF CountsMove, Count
<1> HIDE DEF nTop, nAwake, nNotify
<1>1. ASSUME NEW c \in Clients \cup Threads, NEW k \in Kinds, run(c, k)
      PROVE  Reserved' /\ Woken'
  <2>1. Len(runq_') = Len(runq_) + 1
    BY <1>1, AppendProperties DEF run, TypeOK
  <2>2. nNotify' = nNotify + 1
    BY <1>1, NotifyingFinite, FS_AddElement DEF run, Callers, nNotify
  <2>3. free_threads_' = free_threads_
    BY <1>1 DEF run
  <2>4. CASE Len(runq_') > free_threads_ /\ startThreadOk
    <3>1. PICK t \in Threads : pc[t] = "none" /\ pc' = [pc EXCEPT ![t] = "top"]
      BY <2>4 DEF startThreadOk, At
    <3>2. CountsMove(t, "top")
      BY <1>0, <3>1, MoveCounts DEF PCs
    <3>3. nTop' = nTop + 1 /\ nAwake' = nAwake
      BY <1>0, <1>m, <3>1, <3>2 DEF PCs
    <3>4. At("waiting")' = At("waiting")
      BY <1>0, <3>1 DEF At
    <3>5. failedStarts' = failedStarts
      BY <2>4 DEF startThreadOk
    <3> QED BY <1>0, <1>a, <1>b, <2>1, <2>2, <2>3, <3>3, <3>4, <3>5
  <2>5. CASE Len(runq_') > free_threads_ /\ startThreadFails
    <3>1. pc' = pc /\ failedStarts' = failedStarts + 1
      BY <2>5 DEF startThreadFails
    <3>2. nTop' = nTop /\ nAwake' = nAwake /\ At("waiting")' = At("waiting")
      BY <3>1 DEF nTop, nAwake, At, Count
    <3> QED BY <1>0, <1>a, <1>b, <2>1, <2>2, <2>3, <3>1, <3>2
  <2>6. CASE ~(Len(runq_') > free_threads_)
    <3>1. pc' = pc /\ failedStarts' = failedStarts
      BY <1>1, <2>6 DEF run
    <3>2. nTop' = nTop /\ nAwake' = nAwake /\ At("waiting")' = At("waiting")
      BY <3>1 DEF nTop, nAwake, At, Count
    <3> QED BY <1>0, <1>a, <1>b, <2>1, <2>2, <2>3, <2>6, <3>1, <3>2
  <2> QED BY <1>1, <2>4, <2>5, <2>6 DEF run, startThread
<1>2. ASSUME NEW t \in Threads, NEW l \in PCs \ {"waiting"},
             pc' = [pc EXCEPT ![t] = l], pc[t] \notin {"top", "awake"},
             UNCHANGED <<runq_, free_threads_, notifying, failedStarts>>
      PROVE  Reserved' /\ Woken'
  <2>1. CountsMove(t, l)
    BY <1>0, <1>2, MoveCounts
  <2>2. nTop' >= nTop /\ nAwake' >= nAwake
    BY <1>0, <1>2, <1>m, <2>1
  <2>3. At("waiting")' \subseteq At("waiting")
    BY <1>0, <1>2 DEF At
  <2>4. nNotify' = nNotify
    BY <1>2 DEF nNotify
  <2> QED BY <1>0, <1>2, <1>a, <1>b, <2>2, <2>3, <2>4
<1>3. ASSUME NEW c \in Clients \cup Threads, notifyOne(c)
      PROVE  Reserved' /\ Woken'
  <2>1. /\ Len(runq_') = Len(runq_)
        /\ free_threads_' = free_threads_ /\ failedStarts' = failedStarts
    BY <1>3 DEF notifyOne
  <2>2. nNotify' = nNotify - 1
    BY <1>3, NotifyingFinite, FS_RemoveElement DEF notifyOne, nNotify
  <2>3. CASE At("waiting") = {}
    <3>1. pc' = pc
      BY <1>3, <2>3 DEF notifyOne
    <3>2. nTop' = nTop /\ At("waiting")' = At("waiting")
      BY <3>1 DEF nTop, At, Count
    <3> QED BY <1>0, <1>a, <1>b, <2>1, <2>3, <3>2
  <2>4. CASE At("waiting") # {}
    <3>1. PICK t \in Threads : pc[t] = "waiting" /\ pc' = [pc EXCEPT ![t] = "awake"]
      BY <1>3, <2>4 DEF notifyOne, At
    <3>2. CountsMove(t, "awake")
      BY <1>0, <3>1, MoveCounts DEF PCs
    <3>3. nTop' = nTop /\ nAwake' = nAwake + 1
      BY <1>0, <1>m, <3>1, <3>2 DEF PCs
    <3> QED BY <1>0, <1>a, <1>b, <2>1, <2>2, <2>4, <3>3
  <2> QED BY <2>3, <2>4
<1>4. ASSUME NEW t \in Threads, spuriousWakeup(t)
      PROVE  Reserved' /\ Woken'
  BY <1>2, <1>4 DEF spuriousWakeup, PCs
<1>5. ASSUME runq_' = <<>>
      PROVE  Reserved' /\ Woken'
  <2>1. Len(runq_') = 0
    BY <1>5, EmptySeq
  <2>2. /\ 0 <= free_threads_' + nTop' + failedStarts'
        /\ 0 <= nAwake' + nTop' + nNotify'
    <3>1. \A x, y, z \in Nat : 0 <= x + y + z
      OBVIOUS
    <3> QED BY <1>0, <3>1
  <2> QED BY <1>a, <2>1, <2>2
<1>6. ASSUME NEW t \in Threads, takeTask(t), pc[t] \in {"top", "awake"},
             UNCHANGED <<notifying, failedStarts>>,
             free_threads_' = IF pc[t] = "awake" THEN free_threads_ - 1
                                                 ELSE free_threads_
      PROVE  Reserved' /\ Woken'
  <2>1. Len(runq_') = Len(runq_) - 1
    BY <1>6, HeadTailProperties DEF takeTask, TypeOK
  <2>2. PICK l \in {"task", "blocked"} : pc' = [pc EXCEPT ![t] = l]
    BY <1>6 DEF takeTask
  <2>3. CountsMove(t, l)
    BY <1>0, <2>2, MoveCounts DEF PCs
  <2>4. /\ nTop' = nTop - (IF pc[t] = "top" THEN 1 ELSE 0)
        /\ nAwake' = nAwake - (IF pc[t] = "awake" THEN 1 ELSE 0)
    BY <1>0, <1>m, <2>3 DEF PCs
  <2>5. At("waiting")' = At("waiting")
    BY <1>0, <1>6, <2>2 DEF At
  <2>6. nNotify' = nNotify
    BY <1>6 DEF nNotify
  <2>7. CASE pc[t] = "top"
    <3>1. nTop' = nTop - 1 /\ nAwake' = nAwake /\ free_threads_' = free_threads_
      BY <1>0, <1>6, <2>4, <2>7
    <3> QED BY <1>0, <1>6, <1>a, <1>b, <2>1, <2>5, <2>6, <3>1
  <2>8. CASE pc[t] = "awake"
    <3>1. nTop' = nTop /\ nAwake' = nAwake - 1 /\ free_threads_' = free_threads_ - 1
      BY <1>0, <1>6, <2>4, <2>8
    <3> QED BY <1>0, <1>6, <1>a, <1>b, <2>1, <2>5, <2>6, <3>1
  <2> QED BY <1>6, <2>7, <2>8
<1>7. ASSUME NEW t \in Threads, enterLoop(t) \/ recheck(t)
      PROVE  Reserved' /\ Woken'
  <2>1. CASE waitForTask(t)
    BY <1>5, <2>1 DEF waitForTask
  <2>2. CASE takeTask(t)
    BY <1>6, <1>7, <2>2 DEF enterLoop, recheck, takeTask, waitForTask
  <2> QED BY <1>7, <2>1, <2>2 DEF enterLoop, recheck
<1>8. ASSUME NEW t \in Threads,
             unblock(t) \/ selectRaises(t) \/ finishTask(t) \/ exitThread(t)
      PROVE  Reserved' /\ Woken'
  BY <1>2, <1>8 DEF unblock, selectRaises, finishTask, exitThread, loopOrExit, PCs
<1>9. CASE UNCHANGED vars
  <2>1. /\ nTop' = nTop /\ nAwake' = nAwake /\ nNotify' = nNotify
        /\ At("waiting")' = At("waiting")
        /\ UNCHANGED <<runq_, free_threads_, failedStarts>>
    BY <1>9 DEF vars, nTop, nAwake, nNotify, At, Count
  <2> QED BY <1>a, <1>b, <2>1
<1> QED BY <1>1, <1>3, <1>4, <1>7, <1>8, <1>9 DEF Next

-----------------------------------------------------------------------------

\* A new thread is cached only while fewer than max_cached_threads_ are live.
LEMMA CachedStep ==
  TypeOK /\ TypeOK' /\ Accounting /\ CachedBound /\ [Next]_vars => CachedBound'
<1> SUFFICES ASSUME TypeOK, TypeOK', Accounting, CachedBound, [Next]_vars
             PROVE  CachedBound'
  OBVIOUS
<1>0. /\ IsFiniteSet(Live) /\ IsFiniteSet(Cached) /\ Cached \subseteq Live
      /\ Cardinality(Cached) \in Nat /\ Cardinality(Live) \in Nat
      /\ Cardinality(Cached) <= Cardinality(Live)
  <2>1. IsFiniteSet(Live)
    BY PoolAssumption, FS_Subset DEF Live
  <2>2. Cached \in SUBSET Live
    BY DEF Cached
  <2> QED BY <2>1, <2>2, FS_Subset, FS_CardinalityType
<1>1. ASSUME Cached' \subseteq Cached
      PROVE  CachedBound'
  <2>1. Cardinality(Cached') \in Nat /\ Cardinality(Cached') <= Cardinality(Cached)
    BY <1>0, <1>1, FS_Subset, FS_CardinalityType
  <2> QED BY <1>0, <2>1, PoolAssumption DEF CachedBound
<1>2. ASSUME NEW t \in Threads, pc[t] = "none", pc' = [pc EXCEPT ![t] = "top"],
             cache' = [cache EXCEPT ![t] = num_threads_ + 1 <= max_cached_threads]
      PROVE  CachedBound'
  <2>1. CASE num_threads_ + 1 <= max_cached_threads
    <3>1. Cached' = Cached \cup {t}
      BY <1>2, <2>1 DEF Cached, Live, TypeOK
    <3>2. Cardinality(Cached') = Cardinality(Cached) + 1
      <4>1. t \notin Cached
        BY <1>2 DEF Cached, Live
      <4> QED BY <1>0, <3>1, <4>1, FS_AddElement
    <3>3. Cardinality(Cached') \in Nat
      BY <1>0, <3>1, FS_AddElement, FS_CardinalityType
    <3>4. Cardinality(Live) <= num_threads_
      BY <1>0 DEF Accounting, TypeOK
    <3> QED BY <1>0, <2>1, <3>2, <3>3, <3>4, PoolAssumption DEF CachedBound, TypeOK
  <2>2. CASE ~(num_threads_ + 1 <= max_cached_threads)
    <3>1. Cached' \subseteq Cached
      BY <1>2, <2>2 DEF Cached, Live, TypeOK
    <3> QED BY <1>1, <3>1
  <2> QED BY <2>1, <2>2
<1>3. ASSUME NEW c \in Clients \cup Threads, NEW k \in Kinds, run(c, k)
      PROVE  CachedBound'
  <2>1. CASE startThreadOk
    BY <1>2, <2>1 DEF startThreadOk, At
  <2>2. CASE UNCHANGED <<pc, cache>>
    BY <1>1, <2>2 DEF Cached, Live
  <2> QED BY <1>3, <2>1, <2>2 DEF run, startThread, startThreadFails
<1>4. ASSUME NEW t \in Threads, NEW l \in PCs, pc[t] # "none",
             pc' = [pc EXCEPT ![t] = l], cache' = cache
      PROVE  CachedBound'
  <2>1. Cached' \subseteq Cached
    BY <1>4 DEF Cached, Live, TypeOK
  <2> QED BY <1>1, <2>1
<1>5. ASSUME NEW c \in Clients \cup Threads, notifyOne(c)
      PROVE  CachedBound'
  <2>1. CASE At("waiting") = {}
    BY <1>1, <1>5, <2>1 DEF notifyOne, Cached, Live
  <2>2. CASE At("waiting") # {}
    BY <1>4, <1>5, <2>2 DEF notifyOne, At, PCs
  <2> QED BY <2>1, <2>2
<1>6. ASSUME NEW t \in Threads, enterLoop(t) \/ recheck(t)
      PROVE  CachedBound'
  <2>1. \E l \in PCs : pc' = [pc EXCEPT ![t] = l]
    BY <1>6 DEF enterLoop, recheck, takeTask, waitForTask, PCs
  <2> QED BY <1>4, <1>6, <2>1 DEF enterLoop, recheck
<1>7. ASSUME NEW t \in Threads,
             \/ spuriousWakeup(t) \/ unblock(t) \/ selectRaises(t)
             \/ finishTask(t) \/ exitThread(t)
      PROVE  CachedBound'
  BY <1>4, <1>7 DEF spuriousWakeup, unblock, selectRaises, finishTask,
                    exitThread, loopOrExit, PCs
<1>8. CASE UNCHANGED vars
  BY <1>1, <1>8 DEF vars, Cached, Live
<1> QED BY <1>3, <1>5, <1>6, <1>7, <1>8 DEF Next

\* The queue holds the last tasks submitted, in order, each task once.
LEMMA OrderStep ==
  TypeOK /\ TypeOK' /\ StartedInOrder /\ [Next]_vars => StartedInOrder'
<1> SUFFICES ASSUME TypeOK, TypeOK', StartedInOrder, [Next]_vars
             PROVE  StartedInOrder'
  OBVIOUS
<1>0. /\ runq_ \in Seq(Nat) /\ Len(runq_) \in Nat
      /\ submitted \in Nat /\ task \in [Threads -> Nat]
  BY LenProperties DEF TypeOK
<1>1. ASSUME NEW c \in Clients \cup Threads, NEW k \in Kinds, run(c, k)
      PROVE  StartedInOrder'
  <2>1. /\ Len(runq_') = Len(runq_) + 1
        /\ \A i \in 1..Len(runq_) : runq_'[i] = runq_[i]
        /\ runq_'[Len(runq_) + 1] = submitted + 1
    BY <1>0, <1>1, AppendProperties DEF run
  <2>2. submitted' = submitted + 1 /\ task' = task
    BY <1>1 DEF run
  <2>3. ASSUME NEW i \in 1..Len(runq_')
        PROVE  runq_'[i] + Len(runq_') = submitted' + i
    <3>1. CASE i \in 1..Len(runq_)
      <4>1. runq_[i] + Len(runq_) = submitted + i /\ runq_[i] \in Nat
        BY <1>0, <3>1, ElementOfSeq DEF StartedInOrder
      <4>2. runq_'[i] = runq_[i] /\ i \in Nat
        BY <1>0, <2>1, <3>1
      <4>3. \A x, n, m, j \in Nat : x + n = m + j => x + (n + 1) = (m + 1) + j
        OBVIOUS
      <4>4. runq_[i] + (Len(runq_) + 1) = (submitted + 1) + i
        BY <1>0, <4>1, <4>2, <4>3
      <4> QED BY <2>1, <2>2, <4>2, <4>4
    <3>2. CASE i = Len(runq_) + 1
      BY <1>0, <2>1, <2>2, <3>2
    <3> QED BY <1>0, <2>1, <3>1, <3>2
  <2>4. \A t \in Threads : task'[t] + Len(runq_') <= submitted'
    BY <1>0, <2>1, <2>2 DEF StartedInOrder
  <2> QED BY <2>2, <2>3, <2>4 DEF StartedInOrder
<1>2. ASSUME UNCHANGED <<runq_, submitted, task>>
      PROVE  StartedInOrder'
  BY <1>2 DEF StartedInOrder
<1>3. ASSUME NEW t \in Threads, takeTask(t), submitted' = submitted
      PROVE  StartedInOrder'
  <2>1. /\ Len(runq_') = Len(runq_) - 1 /\ Len(runq_) > 0
        /\ \A i \in 1..Len(runq_') : runq_'[i] = runq_[i + 1]
        /\ task' = [task EXCEPT ![t] = Head(runq_)]
    <3>1. Len(Tail(runq_)) \in Nat
      BY <1>0, <1>3, HeadTailProperties, LenProperties DEF takeTask
    <3> QED BY <1>0, <1>3, <3>1, HeadTailProperties DEF takeTask
  <2>2. Head(runq_) + Len(runq_) = submitted + 1 /\ Head(runq_) \in Nat
    <3>1. Head(runq_) = runq_[1] /\ 1 \in 1..Len(runq_)
      BY <1>0, <2>1
    <3> QED BY <1>0, <3>1, ElementOfSeq DEF StartedInOrder
  <2>3. ASSUME NEW i \in 1..Len(runq_')
        PROVE  runq_'[i] + Len(runq_') = submitted' + i
    <3>1. i + 1 \in 1..Len(runq_)
      BY <1>0, <2>1
    <3>2. runq_[i + 1] + Len(runq_) = submitted + (i + 1) /\ runq_[i + 1] \in Nat
      BY <1>0, <3>1, ElementOfSeq DEF StartedInOrder
    <3>3. runq_'[i] = runq_[i + 1] /\ i \in Nat
      BY <1>0, <2>1
    <3>4. \A x, n, m, j \in Nat : x + n = m + (j + 1) => x + (n - 1) = m + j
      OBVIOUS
    <3>5. runq_[i + 1] + (Len(runq_) - 1) = submitted + i
      <4>1. PICK x \in Nat : x = runq_[i + 1]
        BY <3>2
      <4>2. x + Len(runq_) = submitted + (i + 1)
        BY <3>2, <4>1
      <4>3. x + (Len(runq_) - 1) = submitted + i
        BY <1>0, <3>3, <3>4, <4>2
      <4> QED BY <4>1, <4>3
    <3> QED BY <1>3, <2>1, <3>3, <3>5
  <2>4. ASSUME NEW u \in Threads
        PROVE  task'[u] + Len(runq_') <= submitted'
    BY <1>0, <1>3, <2>1, <2>2 DEF StartedInOrder
  <2>5. \A u \in Threads : task[u] < Head(runq_)
    BY <1>0, <2>1, <2>2 DEF StartedInOrder
  <2>6. ASSUME NEW u \in Threads, NEW v \in Threads, u # v, task'[u] # 0
        PROVE  task'[u] # task'[v]
    BY <1>0, <2>1, <2>2, <2>5, <2>6 DEF StartedInOrder
  <2> QED BY <2>3, <2>4, <2>6 DEF StartedInOrder
<1>4. ASSUME NEW t \in Threads, enterLoop(t) \/ recheck(t)
      PROVE  StartedInOrder'
  <2>1. CASE waitForTask(t)
    BY <1>2, <1>4, <2>1 DEF enterLoop, recheck, waitForTask
  <2>2. CASE takeTask(t)
    BY <1>3, <1>4, <2>2 DEF enterLoop, recheck
  <2> QED BY <1>4, <2>1, <2>2 DEF enterLoop, recheck
<1> QED
  BY <1>1, <1>2, <1>4
     DEF Next, notifyOne, spuriousWakeup, unblock, selectRaises, finishTask,
         exitThread, vars

-----------------------------------------------------------------------------

\* The inductive invariant: none of its parts but the order of the tasks is
\* inductive alone, since a decrement is safe only if the counters are exact and
\* a reservation counts idle threads with free_threads_.
Inv ==
  /\ TypeOK /\ Accounting /\ StartedInOrder
  /\ ThreadReserved /\ NoLostWakeup /\ CachedBound

\* A pool without threads and tasks satisfies the invariant.
LEMMA InitInv == Init => Inv
<1> SUFFICES ASSUME Init PROVE Inv
  OBVIOUS
<1>1. /\ Free = {} /\ Live = {} /\ Cached = {}
      /\ \A l \in PCs \ {"none"} : At(l) = {}
  BY DEF Init, Free, Live, Cached, At
<1>2. Len(<<>>) = 0 /\ <<>> \in Seq(Nat) /\ Cardinality({}) = 0
  BY EmptySeq, FS_EmptySet
<1>3. TypeOK
  BY <1>2, PoolAssumption DEF Init, TypeOK, PCs, Kinds
<1>4. Accounting
  BY <1>1, <1>2 DEF Init, Accounting
<1>5. CachedBound
  BY <1>1, <1>2, PoolAssumption DEF CachedBound
<1>6. At("top") = {} /\ At("waiting") = {}
  BY <1>1 DEF PCs
<1>7. ThreadReserved /\ NoLostWakeup
  <2>1. /\ Len(runq_) = 0 /\ free_threads_ = 0 /\ failedStarts = 0
        /\ Cardinality(At("top")) = 0
    BY <1>2, <1>6 DEF Init
  <2> QED BY <1>6, <2>1 DEF ThreadReserved, NoLostWakeup
<1>8. StartedInOrder
  BY <1>2 DEF Init, StartedInOrder
<1> QED BY <1>3, <1>4, <1>5, <1>7, <1>8 DEF Inv

\* Every step of the pool preserves the invariant.
LEMMA NextInv == Inv /\ [Next]_vars => Inv'
<1> SUFFICES ASSUME Inv, [Next]_vars PROVE Inv'
  OBVIOUS
<1>1. TypeOK' /\ Accounting'
  BY TypeAccountingStep DEF Inv
<1>2. pc \in [Threads -> PCs] /\ (pc \in [Threads -> PCs])'
  BY <1>1 DEF Inv, TypeOK
<1>3. ThreadReserved' /\ NoLostWakeup'
  BY <1>1, <1>2, ReserveCounts, ReserveCountsPrime, ReserveStep DEF Inv
<1> QED BY <1>1, <1>3, CachedStep, OrderStep DEF Inv

\* The inductive invariant holds in every reachable state of the pool.
THEOREM InvAlways == Spec => []Inv
BY InitInv, NextInv, PTL DEF Spec

\* Every variable of the pool keeps its type: in particular free_threads_ and
\* num_threads_ never go below zero.
THEOREM TypeCorrect == Spec => []TypeOK
BY InvAlways, PTL DEF Inv

\* free_threads_ and num_threads_ always count what the code means them to count.
THEOREM AccountingCorrect == Spec => []Accounting
BY InvAlways, PTL DEF Inv

\* Tasks are started in the order of the run() calls, each by one thread.
THEOREM OrderCorrect == Spec => []StartedInOrder
BY InvAlways, PTL DEF Inv

\* There is always a thread, idle or starting, for every queued task, or one whose
\* creation failed.
THEOREM ReservedCorrect == Spec => []ThreadReserved
BY InvAlways, PTL DEF Inv

\* No notify_one is lost although it follows the unlock.
THEOREM WakeupCorrect == Spec => []NoLostWakeup
BY InvAlways, PTL DEF Inv

\* At most max_cached_threads_ threads live for ever.
THEOREM CachedBoundCorrect == Spec => []CachedBound
BY InvAlways, PTL DEF Inv

\* A queued task nobody is about to look at is one whose thread was not created.
THEOREM NoStrandedTaskCorrect == Spec => []NoStrandedTask
<1>1. Inv => NoStrandedTask
  <2> SUFFICES ASSUME Inv, runq_ # <<>>, At("awake") = {}, At("top") = {},
                      notifying = {}
               PROVE  At("waiting") = {} /\ Len(runq_) <= failedStarts
    BY DEF NoStrandedTask
  <2>1. Len(runq_) \in Nat \ {0} /\ Cardinality({}) = 0
    BY EmptySeq, FS_EmptySet DEF Inv, TypeOK
  <2>2. At("waiting") = {}
    <3>1. /\ Cardinality(At("awake")) = 0 /\ Cardinality(At("top")) = 0
          /\ Cardinality(notifying) = 0
      BY <2>1
    <3> QED BY <2>1, <3>1 DEF Inv, NoLostWakeup
  <2>3. Free = {}
    BY <2>2 DEF Free, At
  <2>4. free_threads_ = 0
    BY <2>1, <2>3 DEF Inv, Accounting
  <2>5. Len(runq_) <= failedStarts
    <3>1. Cardinality(At("top")) = 0 /\ failedStarts \in Nat
      BY <2>1 DEF Inv, TypeOK
    <3> QED BY <2>1, <2>4, <3>1 DEF Inv, ThreadReserved
  <2> QED BY <2>2, <2>5
<1> QED BY <1>1, InvAlways, PTL

\* What the run checks on its instance, for any number of clients, threads and tasks: the
\* counters are exact and no task waits while a thread that would take it sleeps.
THEOREM WorkersSafeCorrect == Spec => []WorkersSafe
<1>1. Accounting /\ NoLostWakeup /\ NoStrandedTask => WorkersSafe
  BY DEF WorkersSafe
<1> QED BY <1>1, AccountingCorrect, WakeupCorrect, NoStrandedTaskCorrect, PTL
=============================================================================
