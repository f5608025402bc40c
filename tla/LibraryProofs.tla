---------------------------- MODULE LibraryProofs ----------------------------
(***************************************************************************)
(* Four parts that the library's run checks, for every value of their      *)
(* constants:                                                              *)
(*  - Wakeup: a callback is never lost, doubled or early, and no thread    *)
(*    sleeps through a wakeup;                                             *)
(*  - RefCount: a counter is the number of the references, so that no      *)
(*    thread uses a deleted object and none is left over;                  *)
(*  - HTTPClient: a request is answered at most once, its connection and   *)
(*    the gauges are settled with it, and no short body passes for whole;  *)
(*  - Net: a socket has one holder and nobody uses another's descriptor;   *)
(*    what DNSCache has answered stays.                                    *)
(***************************************************************************)
EXTENDS Wakeup, RefCount, HTTPClient, Net, FiniteSetTheorems, WellFoundedInduction, TLAPS

-----------------------------------------------------------------------------
(* Wakeup.                                                                 *)

\* c is in a list.
Has(l, c) == \E i \in DOMAIN l : l[i] = c

\* No callback is twice in the lists.
ListsApart ==
  /\ \A i, j \in DOMAIN callbacks_ : callbacks_[i] = callbacks_[j] => i = j
  /\ \A t \in Threads : \A i, j \in DOMAIN spliced[t] : spliced[t][i] = spliced[t][j] => i = j
  /\ \A c \in Callbacks, t \in Threads :
       Has(spliced[t], c) => /\ ~Has(callbacks_, c)
                             /\ \A u \in Threads : Has(spliced[u], c) => t = u

\* What is in a list was registered and has not run.
ListsPending ==
  \A c \in Callbacks :
    /\ Has(callbacks_, c) => requested[c] # <<>> /\ firedAt[c] = <<>>
    /\ \A t \in Threads : Has(spliced[t], c) => requested[c] # <<>> /\ firedAt[c] = <<>>

\* What ran was registered and ran once; what was registered has run or is in a list.
Accounted ==
  \A c \in Callbacks :
    /\ firedAt[c] # <<>> => Len(firedAt[c]) = 1 /\ requested[c] # <<>>
    /\ requested[c] # <<>> =>
         Has(callbacks_, c) \/ firedAt[c] # <<>> \/ \E t \in Threads : Has(spliced[t], c)

\* A thread is asleep only inside waitForWakeup().
Sleepers == \A t \in waiting : pc[t] = "wait"

\* Only a thread inside wakeup() or onWakeup() has a local list.
ListOwners == \A t \in Threads : spliced[t] # <<>> => pc[t] \in {"notify", "call", "callNow"}

Lists == ListsApart /\ ListsPending /\ Accounted

\* The inductive invariant behind CallbackOnce and NoLostWakeup.
Inv == TypeOK /\ Lists /\ Sleepers /\ ListOwners /\ NoLostWakeup

\* A callback that is kept was given a generation that has come, one that is about to run a
\* generation that is over, and one that ran, ran after its generation.
GenInv ==
  \A c \in Callbacks :
    /\ Has(callbacks_, c) => requested[c][1] <= gen_
    /\ \A t \in Threads : Has(spliced[t], c) => requested[c][1] < gen_
    /\ \A i \in DOMAIN firedAt[c] : firedAt[c][i] > requested[c][1]

\* The positions of a list after one callback was added or the first one taken.
LEMMA AppendHas ==
  ASSUME NEW l \in Seq(Callbacks), NEW c \in Callbacks
  PROVE  /\ Append(l, c) \in Seq(Callbacks)
         /\ \A d : Has(Append(l, c), d) <=> Has(l, d) \/ d = c
         /\ ~Has(l, c) /\ (\A i, j \in DOMAIN l : l[i] = l[j] => i = j) =>
              \A i, j \in DOMAIN Append(l, c) : Append(l, c)[i] = Append(l, c)[j] => i = j
<1> DEFINE m == Append(l, c)
<1>1. /\ m \in Seq(Callbacks) /\ Len(m) = Len(l) + 1 /\ Len(l) \in Nat
      /\ DOMAIN m = 1..(Len(l) + 1) /\ DOMAIN l = 1..Len(l)
      /\ m[Len(l) + 1] = c /\ \A i \in 1..Len(l) : m[i] = l[i]
  OBVIOUS
<1>2. \A i \in DOMAIN m : i \in DOMAIN l \/ i = Len(l) + 1
  BY <1>1
<1>3. \A i \in DOMAIN l : i \in DOMAIN m /\ m[i] = l[i]
  BY <1>1
<1>4. Len(l) + 1 \in DOMAIN m
  BY <1>1
<1> HIDE DEF m
<1>5. \A d : Has(m, d) <=> Has(l, d) \/ d = c
  BY <1>1, <1>2, <1>3, <1>4 DEF Has
<1>6. ASSUME ~Has(l, c), \A i, j \in DOMAIN l : l[i] = l[j] => i = j
      PROVE  \A i, j \in DOMAIN m : m[i] = m[j] => i = j
  BY <1>1, <1>2, <1>3, <1>6 DEF Has
<1> QED BY <1>1, <1>5, <1>6 DEF m

LEMMA TailHas ==
  ASSUME NEW l \in Seq(Callbacks), l # <<>>,
         \A i, j \in DOMAIN l : l[i] = l[j] => i = j
  PROVE  /\ Tail(l) \in Seq(Callbacks) /\ Head(l) \in Callbacks /\ Has(l, Head(l))
         /\ \A d : Has(Tail(l), d) <=> Has(l, d) /\ d # Head(l)
         /\ \A i, j \in DOMAIN Tail(l) : Tail(l)[i] = Tail(l)[j] => i = j
<1> DEFINE m == Tail(l)
<1>1. /\ m \in Seq(Callbacks) /\ Len(l) \in Nat /\ Len(l) >= 1 /\ Len(m) = Len(l) - 1
      /\ DOMAIN m = 1..(Len(l) - 1) /\ DOMAIN l = 1..Len(l)
      /\ \A i \in 1..(Len(l) - 1) : m[i] = l[i + 1]
      /\ Head(l) = l[1] /\ l[1] \in Callbacks
  OBVIOUS
<1> HIDE DEF m
<1>2. \A i \in DOMAIN m : i + 1 \in DOMAIN l /\ i + 1 # 1 /\ m[i] = l[i + 1]
  BY <1>1
<1>3. \A i \in DOMAIN l : i = 1 \/ (i - 1 \in DOMAIN m /\ m[i - 1] = l[i])
  <2> SUFFICES ASSUME NEW i \in 1..Len(l), i # 1
               PROVE  i - 1 \in DOMAIN m /\ m[i - 1] = l[i]
    BY <1>1
  <2>1. i - 1 \in 1..(Len(l) - 1) /\ (i - 1) + 1 = i
    BY <1>1
  <2> QED BY <1>1, <2>1
<1>4. 1 \in DOMAIN l
  BY <1>1
<1>5. ASSUME NEW d PROVE Has(m, d) <=> Has(l, d) /\ d # Head(l)
  <2>1. ASSUME Has(m, d) PROVE Has(l, d) /\ d # Head(l)
    BY <1>1, <1>2, <1>4, <2>1 DEF Has
  <2>2. ASSUME Has(l, d), d # Head(l) PROVE Has(m, d)
    BY <1>1, <1>3, <2>2 DEF Has
  <2> QED BY <2>1, <2>2
<1>6. ASSUME NEW i \in DOMAIN m, NEW j \in DOMAIN m, m[i] = m[j] PROVE i = j
  <2>1. i + 1 = j + 1
    BY <1>2, <1>6
  <2> QED BY <1>1, <2>1
<1> QED BY <1>1, <1>4, <1>5, <1>6 DEF m, Has

\* What leaves the lists and the histories alone keeps what is said of them.
LEMMA ListsKept ==
  ASSUME UNCHANGED <<callbacks_, spliced, requested, firedAt, gen_>>
  PROVE  (Lists => Lists') /\ (GenInv => GenInv')
<1>1. ListsApart => ListsApart'
  BY DEF ListsApart, Has
<1>2. ListsPending => ListsPending'
  BY DEF ListsPending, Has
<1>3. Accounted => Accounted'
  BY DEF Accounted, Has
<1>4. GenInv => GenInv'
  BY DEF GenInv, Has
<1> QED BY <1>1, <1>2, <1>3, <1>4 DEF Lists

\* A thread enters waitForWakeup(), sleeps in it or returns from it.
LEMMA WaitStep ==
  ASSUME MaxGen \in Nat, Inv, NEW t \in Threads,
         (\E g \in 0..gen_ : callWait(t, g)) \/ waitForWakeup(t) \/ spuriousWakeup(t)
  PROVE  Inv' /\ (GenInv => GenInv')
<1>1. CASE \E g \in 0..gen_ : callWait(t, g)
  <2> PICK g \in 0..gen_ : callWait(t, g)
    BY <1>1
  <2>1. TypeOK'
    BY DEF Inv, TypeOK, PCs, callWait
  <2>2. Sleepers' /\ ListOwners' /\ NoLostWakeup'
    BY DEF Inv, TypeOK, PCs, Sleepers, ListOwners, NoLostWakeup, callWait
  <2> QED BY <2>1, <2>2, ListsKept DEF Inv, callWait
<1>2. CASE waitForWakeup(t)
  <2>1. TypeOK'
    BY <1>2 DEF Inv, TypeOK, PCs, waitForWakeup
  <2>2. Sleepers' /\ ListOwners' /\ NoLostWakeup'
    <3>1. Sleepers'
      BY <1>2 DEF Inv, TypeOK, Sleepers, waitForWakeup
    <3>2. ListOwners'
      BY <1>2 DEF Inv, TypeOK, ListOwners, waitForWakeup
    <3>3. \A u \in Threads : pc[u] = "notify" => pc'[u] = "notify"
      BY <1>2 DEF Inv, TypeOK, waitForWakeup
    <3>4. \A u \in waiting' : u \in waiting \/ ~(gen_ > oldgen[u])
      BY <1>2 DEF Inv, TypeOK, waitForWakeup
    <3>5. NoLostWakeup'
      BY <1>2, <3>3, <3>4 DEF Inv, TypeOK, NoLostWakeup, waitForWakeup
    <3> QED BY <3>1, <3>2, <3>5
  <2> QED BY <1>2, <2>1, <2>2, ListsKept DEF Inv, waitForWakeup
<1>3. CASE spuriousWakeup(t)
  <2>1. TypeOK' /\ Sleepers' /\ ListOwners' /\ NoLostWakeup'
    BY <1>3 DEF Inv, TypeOK, Sleepers, ListOwners, NoLostWakeup, spuriousWakeup
  <2> QED BY <1>3, <2>1, ListsKept DEF Inv, spuriousWakeup
<1> QED BY <1>1, <1>2, <1>3

\* wakeup() has notified: nobody is asleep.
LEMMA NotifyStep ==
  ASSUME Inv, NEW t \in Threads, notifyAll(t)
  PROVE  Inv' /\ (GenInv => GenInv')
<1>1. TypeOK' /\ Sleepers' /\ ListOwners' /\ NoLostWakeup'
  BY DEF Inv, TypeOK, PCs, Sleepers, ListOwners, NoLostWakeup, notifyAll
<1> QED BY <1>1, ListsKept DEF Inv, notifyAll

\* onWakeup() puts a callback nobody has seen into one list.
LEMMA OnWakeupStep ==
  ASSUME MaxGen \in Nat, Inv, NEW t \in Threads, NEW c \in Callbacks, NEW g \in 0..MaxGen,
         onWakeup(t, g, c)
  PROVE  Inv' /\ (g <= gen_ /\ GenInv => GenInv')
<1>1. /\ ~Has(callbacks_, c) /\ firedAt[c] = <<>> /\ requested[c] = <<>>
      /\ \A u \in Threads : ~Has(spliced[u], c)
  BY DEF Inv, TypeOK, Lists, ListsPending, Accounted, onWakeup
<1>2. /\ spliced[t] = <<>> /\ requested'[c] = <<g>> /\ requested'[c] # <<>> /\ requested'[c][1] = g
      /\ \A d \in Callbacks : d # c => requested'[d] = requested[d]
      /\ \A d : ~Has(spliced[t], d)
  <2>1. spliced[t] = <<>>
    BY DEF Inv, ListOwners, onWakeup
  <2>2. \A d : ~Has(spliced[t], d)
    BY <2>1 DEF Has
  <2> QED BY <2>1, <2>2 DEF Inv, TypeOK, onWakeup
<1>3. /\ TypeOK /\ ListsApart /\ ListsPending /\ Accounted /\ Sleepers /\ ListOwners /\ NoLostWakeup
      /\ gen_' = gen_ /\ oldgen' = oldgen /\ waiting' = waiting /\ firedAt' = firedAt
      /\ pc[t] = "idle"
  BY DEF Inv, Lists, onWakeup
<1>4. requested' \in [Callbacks -> Seq(0..MaxGen)]
  BY <1>3 DEF TypeOK, onWakeup
<1>5. CASE gen_ > g
  <2>1. /\ pc' = [pc EXCEPT ![t] = "callNow"] /\ callbacks_' = callbacks_
        /\ spliced' = [spliced EXCEPT ![t] = <<c>>]
    BY <1>5 DEF onWakeup
  <2>2. /\ spliced'[t] = <<c>> /\ \A u \in Threads : u # t => spliced'[u] = spliced[u]
        /\ \A d : Has(spliced'[t], d) <=> d = c
        /\ \A i, j \in DOMAIN spliced'[t] : i = j
    BY <1>3, <2>1 DEF TypeOK, Has
  <2>3. TypeOK'
    BY <1>3, <1>4, <2>1 DEF TypeOK, PCs
  <2>4. Sleepers' /\ ListOwners' /\ NoLostWakeup'
    <3>1. Sleepers'
      BY <1>3, <2>1 DEF TypeOK, Sleepers
    <3>2. ListOwners'
      BY <1>3, <2>1, <2>2 DEF TypeOK, ListOwners
    <3>3. NoLostWakeup'
      BY <1>3, <2>1 DEF TypeOK, NoLostWakeup
    <3> QED BY <3>1, <3>2, <3>3
  <2>5. ListsApart'
    BY <1>1, <1>3, <2>1, <2>2 DEF ListsApart
  <2>6. ListsPending'
    BY <1>1, <1>2, <1>3, <2>1, <2>2 DEF ListsPending
  <2>7. Accounted'
    BY <1>1, <1>2, <1>3, <2>1, <2>2 DEF Accounted
  <2>8. GenInv => GenInv'
    <3> SUFFICES ASSUME GenInv, NEW d \in Callbacks
                 PROVE  /\ Has(callbacks_, d) => requested'[d][1] <= gen_
                        /\ \A u \in Threads : Has(spliced'[u], d) => requested'[d][1] < gen_
                        /\ \A i \in DOMAIN firedAt[d] : firedAt[d][i] > requested'[d][1]
      BY <1>3, <2>1 DEF GenInv
    <3>1. CASE d = c
      <4>1. requested'[d][1] < gen_
        BY <1>2, <1>3, <1>5, <3>1 DEF TypeOK
      <4> QED BY <1>1, <3>1, <4>1
    <3>2. CASE d # c
      BY <1>2, <2>2, <3>2 DEF GenInv
    <3> QED BY <3>1, <3>2
  <2> QED BY <2>3, <2>4, <2>5, <2>6, <2>7, <2>8 DEF Inv, Lists
<1>6. CASE ~(gen_ > g)
  <2>1. pc' = pc /\ callbacks_' = Append(callbacks_, c) /\ spliced' = spliced
    BY <1>6 DEF onWakeup
  <2>2. /\ callbacks_' \in Seq(Callbacks)
        /\ \A d : Has(callbacks_', d) <=> Has(callbacks_, d) \/ d = c
        /\ \A i, j \in DOMAIN callbacks_' : callbacks_'[i] = callbacks_'[j] => i = j
    BY <1>1, <1>3, <2>1, AppendHas DEF TypeOK, ListsApart
  <2>3. TypeOK'
    BY <1>3, <1>4, <2>1, <2>2 DEF TypeOK
  <2>4. Sleepers' /\ ListOwners' /\ NoLostWakeup'
    BY <1>3, <2>1 DEF TypeOK, Sleepers, ListOwners, NoLostWakeup
  <2>5. ListsApart'
    BY <1>1, <1>3, <2>1, <2>2 DEF ListsApart
  <2>6. ListsPending'
    BY <1>1, <1>2, <1>3, <2>1, <2>2 DEF ListsPending
  <2>7. Accounted'
    BY <1>1, <1>2, <1>3, <2>1, <2>2 DEF Accounted
  <2>8. g <= gen_ /\ GenInv => GenInv'
    <3> SUFFICES ASSUME g <= gen_, GenInv, NEW d \in Callbacks
                 PROVE  /\ Has(callbacks_', d) => requested'[d][1] <= gen_
                        /\ \A u \in Threads : Has(spliced[u], d) => requested'[d][1] < gen_
                        /\ \A i \in DOMAIN firedAt[d] : firedAt[d][i] > requested'[d][1]
      BY <1>3, <2>1 DEF GenInv
    <3>1. CASE d = c
      BY <1>1, <1>2, <3>1
    <3>2. CASE d # c
      BY <1>2, <2>2, <3>2 DEF GenInv
    <3> QED BY <3>1, <3>2
  <2> QED BY <2>3, <2>4, <2>5, <2>6, <2>7, <2>8 DEF Inv, Lists
<1> QED BY <1>5, <1>6

\* wakeup() takes every kept callback into its own list, and their generation is over.
LEMMA WakeupStep ==
  ASSUME MaxGen \in Nat, Inv, NEW t \in Threads, wakeup(t)
  PROVE  Inv' /\ (GenInv => GenInv')
<1>1. /\ TypeOK /\ ListsApart /\ ListsPending /\ Accounted /\ Sleepers /\ ListOwners /\ NoLostWakeup
      /\ gen_' = gen_ + 1 /\ gen_ < MaxGen /\ oldgen' = oldgen /\ waiting' = waiting
      /\ firedAt' = firedAt /\ requested' = requested /\ pc[t] = "idle"
      /\ pc' = [pc EXCEPT ![t] = "notify"]
      /\ callbacks_' = <<>> /\ spliced' = [spliced EXCEPT ![t] = callbacks_]
  BY DEF Inv, Lists, wakeup
<1>2. /\ spliced[t] = <<>> /\ ~\E d : Has(spliced[t], d)
      /\ ~\E d : Has(callbacks_', d)
  BY <1>1 DEF ListOwners, Has
<1>3. /\ spliced'[t] = callbacks_ /\ \A u \in Threads : u # t => spliced'[u] = spliced[u]
  BY <1>1 DEF TypeOK
<1>4. TypeOK'
  BY <1>1 DEF TypeOK, PCs
<1>5. Sleepers' /\ ListOwners' /\ NoLostWakeup'
  <2>1. Sleepers'
    BY <1>1 DEF TypeOK, Sleepers
  <2>2. ListOwners'
    BY <1>1, <1>3 DEF TypeOK, ListOwners
  <2>3. NoLostWakeup'
    BY <1>1 DEF TypeOK, NoLostWakeup
  <2> QED BY <2>1, <2>2, <2>3
<1>6. ListsApart'
  BY <1>1, <1>2, <1>3 DEF ListsApart
<1>7. ListsPending'
  BY <1>1, <1>2, <1>3 DEF ListsPending
<1>8. Accounted'
  BY <1>1, <1>2, <1>3 DEF Accounted
<1>9. GenInv => GenInv'
  <2> SUFFICES ASSUME GenInv, NEW c \in Callbacks
               PROVE  /\ \A u \in Threads : Has(spliced'[u], c) => requested[c][1] < gen_ + 1
                      /\ \A i \in DOMAIN firedAt[c] : firedAt[c][i] > requested[c][1]
    BY <1>1, <1>2 DEF GenInv
  <2>1. gen_ \in Nat
    BY <1>1 DEF TypeOK
  <2>2. Has(callbacks_, c) \/ (\E u \in Threads : Has(spliced[u], c)) => requested[c][1] \in 0..MaxGen
    BY <1>1 DEF TypeOK, ListsPending
  <2> QED BY <1>3, <2>1, <2>2 DEF GenInv
<1> QED BY <1>4, <1>5, <1>6, <1>7, <1>8, <1>9 DEF Inv, Lists

\* A callback leaves its list as it runs.
LEMMA CallbackStep ==
  ASSUME MaxGen \in Nat, Inv, NEW t \in Threads, callCallback(t)
  PROVE  Inv' /\ (GenInv => GenInv')
<1>1. /\ TypeOK /\ ListsApart /\ ListsPending /\ Accounted /\ Sleepers /\ ListOwners /\ NoLostWakeup
      /\ gen_' = gen_ /\ callbacks_' = callbacks_ /\ oldgen' = oldgen /\ waiting' = waiting
      /\ requested' = requested /\ pc[t] \in {"call", "callNow"}
  BY DEF Inv, Lists, callCallback
<1>2. CASE spliced[t] = <<>>
  <2>1. pc' = [pc EXCEPT ![t] = "idle"] /\ spliced' = spliced /\ firedAt' = firedAt
    BY <1>2 DEF callCallback
  <2>2. TypeOK'
    BY <1>1, <2>1 DEF TypeOK, PCs
  <2>3. Sleepers' /\ ListOwners' /\ NoLostWakeup'
    <3>1. Sleepers'
      BY <1>1, <2>1 DEF TypeOK, Sleepers
    <3>2. ListOwners'
      BY <1>1, <1>2, <2>1 DEF TypeOK, ListOwners
    <3>3. NoLostWakeup'
      BY <1>1, <2>1 DEF TypeOK, NoLostWakeup
    <3> QED BY <3>1, <3>2, <3>3
  <2> QED BY <1>1, <2>1, <2>2, <2>3, ListsKept DEF Inv, Lists
<1>3. CASE spliced[t] # <<>>
  <2> DEFINE h == Head(spliced[t])
  <2>1. /\ pc' = pc /\ firedAt' = [firedAt EXCEPT ![h] = Append(@, gen_)]
        /\ spliced' = [spliced EXCEPT ![t] = Tail(@)]
    BY <1>3 DEF callCallback
  <2>2. /\ Tail(spliced[t]) \in Seq(Callbacks) /\ h \in Callbacks /\ Has(spliced[t], h)
        /\ \A d : Has(Tail(spliced[t]), d) <=> Has(spliced[t], d) /\ d # h
        /\ \A i, j \in DOMAIN Tail(spliced[t]) : Tail(spliced[t])[i] = Tail(spliced[t])[j] => i = j
    <3>1. spliced[t] \in Seq(Callbacks) /\ spliced[t] # <<>>
          /\ \A i, j \in DOMAIN spliced[t] : spliced[t][i] = spliced[t][j] => i = j
      BY <1>1, <1>3 DEF TypeOK, ListsApart
    <3> QED BY <3>1, TailHas
  <2> HIDE DEF h
  <2>3. /\ spliced'[t] = Tail(spliced[t])
        /\ \A u \in Threads : u # t => spliced'[u] = spliced[u]
        /\ spliced' \in [Threads -> Seq(Callbacks)]
    BY <1>1, <2>1, <2>2 DEF TypeOK
  <2>4. /\ requested[h] # <<>> /\ firedAt[h] = <<>> /\ gen_ \in 0..MaxGen
    BY <1>1, <2>2 DEF ListsPending, TypeOK
  <2>5. /\ firedAt'[h] = <<gen_>> /\ \A d \in Callbacks : d # h => firedAt'[d] = firedAt[d]
        /\ firedAt' \in [Callbacks -> Seq(0..MaxGen)]
    <3>1. Append(firedAt[h], gen_) = <<gen_>>
      BY <2>4
    <3> QED BY <1>1, <2>1, <2>2, <2>4, <3>1 DEF TypeOK
  <2>6. /\ ~Has(callbacks_, h) /\ \A u \in Threads : ~Has(spliced'[u], h)
        /\ \A u \in Threads, d \in Callbacks : d # h => (Has(spliced'[u], d) <=> Has(spliced[u], d))
        /\ \A u \in Threads, d \in Callbacks : Has(spliced'[u], d) => Has(spliced[u], d)
    <3>1. ~Has(callbacks_, h) /\ \A u \in Threads : u # t => ~Has(spliced[u], h)
      BY <1>1, <2>2 DEF ListsApart
    <3>2. \A u \in Threads, d \in Callbacks : u # t => (Has(spliced'[u], d) <=> Has(spliced[u], d))
      BY <2>3
    <3>3. \A d : Has(spliced'[t], d) <=> Has(spliced[t], d) /\ d # h
      BY <2>2, <2>3
    <3> QED BY <2>2, <3>1, <3>2, <3>3
  <2>7. TypeOK'
    BY <1>1, <2>1, <2>3, <2>5 DEF TypeOK
  <2>8. Sleepers' /\ ListOwners' /\ NoLostWakeup'
    BY <1>1, <1>3, <2>1, <2>3 DEF TypeOK, Sleepers, ListOwners, NoLostWakeup
  <2>9. ListsApart'
    BY <1>1, <2>2, <2>3, <2>6 DEF ListsApart
  <2>10. ListsPending'
    BY <1>1, <2>5, <2>6 DEF ListsPending
  <2>11. Accounted'
    <3> SUFFICES ASSUME NEW d \in Callbacks
                 PROVE  /\ firedAt'[d] # <<>> => Len(firedAt'[d]) = 1 /\ requested[d] # <<>>
                        /\ requested[d] # <<>> =>
                             \/ Has(callbacks_, d) \/ firedAt'[d] # <<>>
                             \/ \E u \in Threads : Has(spliced'[u], d)
      BY <1>1 DEF Accounted
    <3>1. CASE d = h
      <4>1. Len(<<gen_>>) = 1 /\ <<gen_>> # <<>>
        OBVIOUS
      <4> QED BY <2>4, <2>5, <3>1, <4>1
    <3>2. CASE d # h
      BY <1>1, <2>5, <2>6, <3>2 DEF Accounted
    <3> QED BY <3>1, <3>2
  <2>12. GenInv => GenInv'
    <3> SUFFICES ASSUME GenInv, NEW d \in Callbacks
                 PROVE  /\ Has(callbacks_, d) => requested[d][1] <= gen_
                        /\ \A u \in Threads : Has(spliced'[u], d) => requested[d][1] < gen_
                        /\ \A i \in DOMAIN firedAt'[d] : firedAt'[d][i] > requested[d][1]
      BY <1>1 DEF GenInv
    <3>1. \A i \in DOMAIN firedAt'[d] : firedAt'[d][i] > requested[d][1]
      <4>1. CASE d = h
        <5>1. requested[h][1] < gen_ /\ requested[h][1] \in 0..MaxGen
          <6>1. requested[h] \in Seq(0..MaxGen)
            BY <1>1, <2>2 DEF TypeOK
          <6>2. requested[h][1] \in 0..MaxGen
            BY <2>4, <6>1
          <6> QED BY <2>2, <6>2 DEF GenInv
        <5> QED BY <2>4, <2>5, <4>1, <5>1
      <4>2. CASE d # h
        BY <2>5, <4>2 DEF GenInv
      <4> QED BY <4>1, <4>2
    <3> QED BY <2>6, <3>1 DEF GenInv
  <2> QED BY <2>7, <2>8, <2>9, <2>10, <2>11, <2>12 DEF Inv, Lists
<1> QED BY <1>2, <1>3

LEMMA InitInv ==
  ASSUME MaxGen \in Nat, Init
  PROVE  Inv /\ GenInv
<1>1. TypeOK
  BY DEF Init, TypeOK, PCs
<1>2. /\ \A c : ~Has(callbacks_, c)
      /\ \A t \in Threads, c \in Callbacks : ~Has(spliced[t], c)
      /\ \A c \in Callbacks : requested[c] = <<>> /\ firedAt[c] = <<>>
  BY DEF Init, Has
<1>3. ListsApart /\ ListsPending /\ Accounted /\ GenInv
  BY <1>2 DEF Init, ListsApart, ListsPending, Accounted, GenInv
<1> QED BY <1>1, <1>3 DEF Init, Inv, Lists, Sleepers, ListOwners, NoLostWakeup

\* Every step keeps the invariant; the one about generations too, if onWakeup() is only
\* given generations that have come.
LEMMA NextInv ==
  ASSUME MaxGen \in Nat, Inv, [Next]_vars
  PROVE  Inv' /\ (~FutureGenerations /\ GenInv => GenInv')
<1>1. CASE UNCHANGED vars
  <2>1. TypeOK' /\ Sleepers' /\ ListOwners' /\ NoLostWakeup'
    BY <1>1 DEF vars, Inv, TypeOK, Sleepers, ListOwners, NoLostWakeup
  <2> QED BY <1>1, <2>1, ListsKept DEF vars, Inv
<1>2. ASSUME NEW t \in Threads, NEW c \in Callbacks,
             NEW g \in 0..(IF FutureGenerations THEN MaxGen ELSE gen_), onWakeup(t, g, c)
      PROVE  Inv' /\ (~FutureGenerations /\ GenInv => GenInv')
  <2>1. g \in 0..MaxGen /\ (~FutureGenerations => g <= gen_)
    BY DEF Inv, TypeOK
  <2> QED BY <1>2, <2>1, OnWakeupStep
<1> QED BY <1>1, <1>2, WaitStep, NotifyStep, WakeupStep, CallbackStep DEF Next

\* The invariant holds in every execution.
THEOREM InvAlways == ASSUME MaxGen \in Nat PROVE Spec => []Inv
<1>1. Init => Inv
  BY InitInv
<1>2. Inv /\ [Next]_vars => Inv'
  BY NextInv
<1> QED BY <1>1, <1>2, PTL DEF Spec

\* Type correctness of Wakeup.
THEOREM TypeCorrect == ASSUME MaxGen \in Nat PROVE Spec => []TypeOK
<1>1. Inv => TypeOK
  BY DEF Inv
<1> QED BY <1>1, InvAlways, PTL

\* A callback in a list has one position in it, and none in a list it is not in.
LEMMA PositionsOf ==
  ASSUME NEW l, \A i, j \in DOMAIN l : l[i] = l[j] => i = j, NEW c
  PROVE  /\ ~Has(l, c) => Positions(l, c) = {}
         /\ Has(l, c) => \E i \in DOMAIN l : Positions(l, c) = {i}
<1>1. ~Has(l, c) => Positions(l, c) = {}
  BY DEF Has, Positions
<1>2. ASSUME Has(l, c) PROVE \E i \in DOMAIN l : Positions(l, c) = {i}
  <2>1. PICK i \in DOMAIN l : l[i] = c
    BY <1>2 DEF Has
  <2>2. Positions(l, c) = {i}
    BY <2>1 DEF Positions
  <2> QED BY <2>2
<1> QED BY <1>1, <1>2

\* The invariant says that a registered callback is in exactly one place.
LEMMA OncePlace == Inv => CallbackOnce
<1> SUFFICES ASSUME Inv, NEW c \in Callbacks
             PROVE  IF requested[c] = <<>> THEN Places(c) = {}
                                           ELSE \E p \in Places(c) : Places(c) = {p}
  BY DEF CallbackOnce
<1>1. Places(c) = Kept(c) \cup InLists(c) \cup Ran(c)
  BY DEF Places
<1>2. TypeOK /\ ListsApart /\ ListsPending /\ Accounted
  BY DEF Inv, Lists
<1>3. /\ ~Has(callbacks_, c) => Positions(callbacks_, c) = {}
      /\ Has(callbacks_, c) => \E i : Positions(callbacks_, c) = {i}
  BY <1>2, PositionsOf DEF ListsApart
<1>4. \A t \in Threads : /\ ~Has(spliced[t], c) => Positions(spliced[t], c) = {}
                         /\ Has(spliced[t], c) => \E i : Positions(spliced[t], c) = {i}
  BY <1>2, PositionsOf DEF ListsApart
<1>5. /\ ~Has(callbacks_, c) => Kept(c) = {}
      /\ Has(callbacks_, c) => \E p : Kept(c) = {p}
  <2>1. Positions(callbacks_, c) = {} => Kept(c) = {}
    BY DEF Kept
  <2>2. \A i : Positions(callbacks_, c) = {i} => Kept(c) = {<<"kept", i>>}
    BY DEF Kept
  <2> QED BY <1>3, <2>1, <2>2
<1>6. \A t \in Threads : /\ ~Has(spliced[t], c) => InList(t, c) = {}
                         /\ Has(spliced[t], c) => \E p : InList(t, c) = {p}
  <2> SUFFICES ASSUME NEW t \in Threads
               PROVE  /\ ~Has(spliced[t], c) => InList(t, c) = {}
                      /\ Has(spliced[t], c) => \E p : InList(t, c) = {p}
    OBVIOUS
  <2>1. Positions(spliced[t], c) = {} => InList(t, c) = {}
    BY DEF InList
  <2>2. \A i : Positions(spliced[t], c) = {i} => InList(t, c) = {<<"list", <<t, i>>>>}
    BY DEF InList
  <2> QED BY <1>4, <2>1, <2>2
<1>7. /\ firedAt[c] = <<>> => Ran(c) = {}
      /\ firedAt[c] # <<>> => \E p : Ran(c) = {p}
  <2>1. firedAt[c] = <<>> => DOMAIN firedAt[c] = {}
    OBVIOUS
  <2>2. firedAt[c] # <<>> => DOMAIN firedAt[c] = {1}
    <3>1. firedAt[c] \in Seq(0..MaxGen) /\ (firedAt[c] # <<>> => Len(firedAt[c]) = 1)
      BY <1>2 DEF TypeOK, Accounted
    <3> QED BY <3>1
  <2>3. DOMAIN firedAt[c] = {} => Ran(c) = {}
    BY DEF Ran
  <2>4. DOMAIN firedAt[c] = {1} => Ran(c) = {<<"ran", 1>>}
    BY DEF Ran
  <2> QED BY <2>1, <2>2, <2>3, <2>4
<1>8. (\A t \in Threads : InList(t, c) = {}) => InLists(c) = {}
  BY DEF InLists
<1>9. CASE requested[c] = <<>>
  <2>1. Kept(c) = {} /\ Ran(c) = {} /\ \A t \in Threads : InList(t, c) = {}
    BY <1>2, <1>5, <1>6, <1>7, <1>9 DEF ListsPending, Accounted
  <2> QED BY <1>1, <1>8, <1>9, <2>1
<1>10. CASE requested[c] # <<>>
  <2>1. CASE Has(callbacks_, c)
    <3>1. Ran(c) = {} /\ \A t \in Threads : InList(t, c) = {}
      BY <1>2, <1>6, <1>7, <2>1 DEF ListsPending, ListsApart
    <3>2. PICK p : Kept(c) = {p}
      BY <1>5, <2>1
    <3>3. Places(c) = {p}
      BY <1>1, <1>8, <3>1, <3>2
    <3> QED BY <1>10, <3>3
  <2>2. CASE \E t \in Threads : Has(spliced[t], c)
    <3>1. PICK t \in Threads : Has(spliced[t], c)
      BY <2>2
    <3>2. Ran(c) = {} /\ Kept(c) = {} /\ \A u \in Threads : u # t => InList(u, c) = {}
      BY <1>2, <1>5, <1>6, <1>7, <3>1 DEF ListsPending, ListsApart
    <3>3. PICK p : InList(t, c) = {p}
      BY <1>6, <3>1
    <3>4. InLists(c) = {p}
      <4>1. \A x : x \in InLists(c) <=> \E u \in Threads : x \in InList(u, c)
        BY DEF InLists
      <4>2. \A x : x \in InLists(c) <=> x \in InList(t, c)
        BY <3>1, <3>2, <4>1
      <4> QED BY <3>3, <4>2
    <3>5. Places(c) = {p}
      BY <1>1, <3>2, <3>4
    <3> QED BY <1>10, <3>5
  <2>3. CASE firedAt[c] # <<>>
    <3>1. Kept(c) = {} /\ \A t \in Threads : InList(t, c) = {}
      BY <1>2, <1>5, <1>6, <2>3 DEF ListsPending
    <3>2. PICK p : Ran(c) = {p}
      BY <1>7, <2>3
    <3>3. Places(c) = {p}
      BY <1>1, <1>8, <3>1, <3>2
    <3> QED BY <1>10, <3>3
  <2> QED BY <1>2, <1>10, <2>1, <2>2, <2>3 DEF Accounted
<1> QED BY <1>9, <1>10

\* Whatever generations are asked for, onWakeup() and wakeup() together lose and double no
\* callback, and waitForWakeup() sleeps through no wakeup.
THEOREM OnceCorrect == ASSUME MaxGen \in Nat PROVE Spec => [](CallbackOnce /\ NoLostWakeup)
<1>1. Inv => CallbackOnce /\ NoLostWakeup
  BY OncePlace DEF Inv
<1> QED BY <1>1, InvAlways, PTL

\* If onWakeup() is given generations that have come, no callback is early either.
THEOREM EventCorrect ==
  ASSUME MaxGen \in Nat, ~FutureGenerations
  PROVE  Spec => []EventSafe
<1>1. Init => Inv /\ GenInv
  BY InitInv
<1>2. Inv /\ GenInv /\ [Next]_vars => (Inv /\ GenInv)'
  BY NextInv
<1>3. Inv /\ GenInv => EventSafe
  BY OncePlace DEF Inv, GenInv, EventSafe, AfterGeneration
<1> QED BY <1>1, <1>2, <1>3, PTL DEF Spec

-----------------------------------------------------------------------------
(* Ref and RefCounted.                                                     *)

\* The number of cells that refer to o.
Referring(f, o) == Cardinality({c \in Cells : f[c].ref = o})

\* The cells with another reference in one of them.
Put(f, c, v) == [f EXCEPT ![c].ref = v]

CellType == [Cells -> [by : Users, ref : Objects \cup {NoRef, Null}]]

\* Counters are exact, and an object lives as long as it is counted.
Counts ==
  \A o \in Objects :
    /\ count[o] = raw[o] + Referring(cell, o)
    /\ (alive[o] = "alive") <=> (count[o] > 0)

\* Between the two halves of an assignment, the cell assigned to has dropped its reference
\* and both cells still belong to the thread.
HalfAssigned ==
  \A t \in Users : rest[t] # NoRest =>
    LET c == rest[t].to
        d == rest[t].from
    IN /\ c # d /\ cell[c].by = t /\ cell[d].by = t
       /\ cell[c].ref = IF rest[t].at = "copy" THEN Null ELSE NoRef
       /\ cell[d].ref # NoRef

RefInv == RefTypeOK /\ Counts /\ HalfAssigned /\ ~dangling

\* How a count of cells changes with one cell.
LEMMA PutCounts ==
  ASSUME NEW f \in CellType, NEW c \in Cells, NEW v \in Objects \cup {NoRef, Null}
  PROVE  /\ Put(f, c, v) \in CellType
         /\ \A o \in Objects :
              /\ Referring(f, o) \in Nat
              /\ f[c].ref = o => Referring(f, o) > 0
              /\ Referring(Put(f, c, v), o) =
                   IF v = f[c].ref THEN Referring(f, o)
                   ELSE IF v = o THEN Referring(f, o) + 1
                   ELSE IF f[c].ref = o THEN Referring(f, o) - 1
                   ELSE Referring(f, o)
  <1> DEFINE g == Put(f, c, v)
  <1>1. g \in CellType
    BY DEF Put, CellType
  <1>2. /\ g[c].ref = v
        /\ \A e \in Cells : e # c => g[e].ref = f[e].ref
    BY DEF Put, CellType
  <1>3. SUFFICES ASSUME NEW o \in Objects
                 PROVE  /\ Referring(f, o) \in Nat
                        /\ f[c].ref = o => Referring(f, o) > 0
                        /\ Referring(g, o) =
                             IF v = f[c].ref THEN Referring(f, o)
                             ELSE IF v = o THEN Referring(f, o) + 1
                             ELSE IF f[c].ref = o THEN Referring(f, o) - 1
                             ELSE Referring(f, o)
    BY <1>1
  <1> DEFINE A == {e \in Cells : f[e].ref = o}
             B == {e \in Cells : g[e].ref = o}
  <1>4. IsFiniteSet(A)
    BY RefCountAssumption, FS_Subset
  <1>5. Cardinality(A) \in Nat /\ (c \in A => Cardinality(A) > 0)
    <2>1. Cardinality(A) \in Nat
      BY <1>4, FS_CardinalityType
    <2>2. Cardinality(A) = 0 <=> A = {}
      BY <1>4, FS_EmptySet
    <2> QED BY <2>1, <2>2
  <1>6. CASE v = f[c].ref
    <2>1. A = B
      BY <1>2, <1>6
    <2> QED BY <2>1, <1>5, <1>6 DEF Referring
  <1>7. CASE v # f[c].ref /\ v = o
    <2>1. B = A \cup {c} /\ c \notin A
      BY <1>2, <1>7
    <2>2. Cardinality(B) = Cardinality(A) + 1
      BY <2>1, <1>4, FS_AddElement
    <2> QED BY <2>1, <2>2, <1>5, <1>7 DEF Referring
  <1>8. CASE v # f[c].ref /\ v # o /\ f[c].ref = o
    <2>1. B = A \ {c} /\ c \in A
      BY <1>2, <1>8
    <2>2. Cardinality(B) = Cardinality(A) - 1
      BY <2>1, <1>4, FS_RemoveElement
    <2> QED BY <2>1, <2>2, <1>5, <1>8 DEF Referring
  <1>9. CASE v # f[c].ref /\ v # o /\ f[c].ref # o
    <2>1. A = B
      BY <1>2, <1>9
    <2> QED BY <2>1, <1>5, <1>9 DEF Referring
  <1> QED BY <1>6, <1>7, <1>8, <1>9

\* What every step has to leave of the counters.
CountsKept ==
  /\ cell' \in CellType /\ count' \in [Objects -> Nat] /\ raw' \in [Objects -> Nat]
  /\ alive' \in [Objects -> {"unborn", "alive", "deleted"}]
  /\ dangling' = FALSE /\ Counts'

\* A cell that refers to an object keeps it alive.
LEMMA HeldAlive ==
  ASSUME RefInv, NEW c \in Cells, Holds(c)
  PROVE  /\ cell[c].ref \in Objects
         /\ alive[cell[c].ref] = "alive" /\ count[cell[c].ref] > 0
  <1>1. cell[c].ref \in Objects /\ cell \in CellType
    BY DEF Holds, RefInv, RefTypeOK, CellType
  <1>2. Referring(cell, cell[c].ref) > 0 /\ Referring(cell, cell[c].ref) \in Nat
    BY <1>1, PutCounts
  <1> QED BY <1>1, <1>2 DEF RefInv, Counts, RefTypeOK

\* ~AutoRef() of one cell, which then refers to nothing.
LEMMA Dropped ==
  ASSUME RefInv, NEW c \in Cells, NEW v \in {NoRef, Null},
         drop(c), cell' = Put(cell, c, v), raw' = raw
  PROVE  CountsKept
  <1>1. cell \in CellType /\ v \in Objects \cup {NoRef, Null} /\ v \notin Objects
    BY RefCountAssumption DEF RefInv, RefTypeOK, CellType
  <1>2. /\ cell' \in CellType
        /\ \A o \in Objects :
             /\ Referring(cell, o) \in Nat
             /\ cell[c].ref = o => Referring(cell, o) > 0
             /\ Referring(cell', o) =
                  IF cell[c].ref = o THEN Referring(cell, o) - 1 ELSE Referring(cell, o)
    BY <1>1, PutCounts
  <1>3. CASE Holds(c)
    <2> DEFINE r == cell[c].ref
    <2>1. r \in Objects /\ alive[r] = "alive" /\ count[r] > 0
      BY <1>3, HeldAlive
    <2>2. /\ count' = [count EXCEPT ![r] = @ - 1]
          /\ alive' = IF count[r] = 1 THEN [alive EXCEPT ![r] = "deleted"] ELSE alive
          /\ dangling' = (dangling \/ \E o \in {r} : alive[o] = "deleted")
      BY <1>3 DEF drop, decRef, Uses
    <2>3. dangling' = FALSE
      BY <2>1, <2>2 DEF RefInv
    <2>4. count' \in [Objects -> Nat] /\ alive' \in [Objects -> {"unborn", "alive", "deleted"}]
      BY <2>1, <2>2 DEF RefInv, RefTypeOK
    <2>5. ASSUME NEW o \in Objects
          PROVE  count'[o] = raw'[o] + Referring(cell', o) /\ (alive'[o] = "alive" <=> count'[o] > 0)
      <3>1. count[o] = raw[o] + Referring(cell, o) /\ (alive[o] = "alive" <=> count[o] > 0)
            /\ count[o] \in Nat /\ raw[o] \in Nat
        BY DEF RefInv, Counts, RefTypeOK
      <3>2. CASE o = r
        <4>1. count'[o] = count[o] - 1 /\ alive'[o] = IF count[o] = 1 THEN "deleted" ELSE alive[o]
          BY <2>1, <2>2, <3>2 DEF RefInv, RefTypeOK
        <4> QED BY <4>1, <3>1, <3>2, <2>1, <1>2
      <3>3. CASE o # r
        <4>1. count'[o] = count[o] /\ alive'[o] = alive[o]
          BY <2>1, <2>2, <3>3 DEF RefInv, RefTypeOK
        <4> QED BY <4>1, <3>1, <3>3, <1>2
      <3> QED BY <3>2, <3>3
    <2> QED BY <1>2, <2>3, <2>4, <2>5 DEF CountsKept, Counts, Referring, RefInv, RefTypeOK
  <1>4. CASE ~Holds(c)
    <2>1. UNCHANGED <<count, alive, dangling>>
      BY <1>4 DEF drop
    <2>2. \A o \in Objects : Referring(cell', o) = Referring(cell, o)
      BY <1>2, <1>4 DEF Holds
    <2> QED BY <1>2, <2>1, <2>2 DEF CountsKept, Counts, Referring, RefInv, RefTypeOK
  <1> QED BY <1>3, <1>4

\* The copy constructor into a cell that refers to nothing.
LEMMA Copied ==
  ASSUME RefInv, NEW c \in Cells, NEW d \in Cells, cell[c].ref \notin Objects,
         cell' = Put(cell, c, cell[d].ref), alive' = alive, raw' = raw,
         IF Holds(d) THEN incRef(cell[d].ref) /\ Uses({cell[d].ref}) ELSE UNCHANGED <<count, dangling>>
  PROVE  CountsKept
  <1> DEFINE r == cell[d].ref
  <1>1. cell \in CellType /\ r \in Objects \cup {NoRef, Null}
    BY DEF RefInv, RefTypeOK, CellType
  <1>2. /\ cell' \in CellType
        /\ \A o \in Objects :
             /\ Referring(cell, o) \in Nat
             /\ Referring(cell', o) =
                  IF r = o THEN Referring(cell, o) + 1 ELSE Referring(cell, o)
    BY <1>1, PutCounts
  <1>3. CASE Holds(d)
    <2>1. r \in Objects /\ alive[r] = "alive" /\ count[r] > 0
      BY <1>3, HeldAlive
    <2>2. /\ count' = [count EXCEPT ![r] = @ + 1]
          /\ dangling' = (dangling \/ \E o \in {r} : alive[o] = "deleted")
      BY <1>3 DEF incRef, Uses
    <2>3. dangling' = FALSE
      BY <2>1, <2>2 DEF RefInv
    <2>4. count' \in [Objects -> Nat]
      BY <2>1, <2>2 DEF RefInv, RefTypeOK
    <2>5. ASSUME NEW o \in Objects
          PROVE  count'[o] = raw'[o] + Referring(cell', o) /\ (alive'[o] = "alive" <=> count'[o] > 0)
      <3>1. count[o] = raw[o] + Referring(cell, o) /\ (alive[o] = "alive" <=> count[o] > 0)
            /\ count[o] \in Nat /\ raw[o] \in Nat
        BY DEF RefInv, Counts, RefTypeOK
      <3>2. CASE o = r
        <4>1. count'[o] = count[o] + 1
          BY <2>1, <2>2, <3>2 DEF RefInv, RefTypeOK
        <4> QED BY <4>1, <3>1, <3>2, <2>1, <1>2
      <3>3. CASE o # r
        <4>1. count'[o] = count[o]
          BY <2>1, <2>2, <3>3 DEF RefInv, RefTypeOK
        <4> QED BY <4>1, <3>1, <3>3, <1>2
      <3> QED BY <3>2, <3>3
    <2> QED BY <1>2, <2>3, <2>4, <2>5 DEF CountsKept, Counts, Referring, RefInv, RefTypeOK
  <1>4. CASE ~Holds(d)
    <2>1. UNCHANGED <<count, dangling>>
      BY <1>4
    <2>2. \A o \in Objects : Referring(cell', o) = Referring(cell, o)
      BY <1>2, <1>4 DEF Holds
    <2> QED BY <1>2, <2>1, <2>2 DEF CountsKept, Counts, Referring, RefInv, RefTypeOK
  <1> QED BY <1>3, <1>4

\* The move constructor, and what is left of the other cell.
LEMMA Moved ==
  ASSUME RefInv, NEW c \in Cells, NEW d \in Cells, c # d, cell[c].ref \notin Objects,
         NEW v \in {NoRef, Null}, cell' = Put(Put(cell, c, cell[d].ref), d, v),
         UNCHANGED <<count, alive, raw, dangling>>
  PROVE  CountsKept
  <1> DEFINE r == cell[d].ref
             f == Put(cell, c, r)
  <1>1. cell \in CellType /\ r \in Objects \cup {NoRef, Null}
        /\ v \in Objects \cup {NoRef, Null} /\ v \notin Objects
    BY RefCountAssumption DEF RefInv, RefTypeOK, CellType
  <1>2. /\ f \in CellType
        /\ \A o \in Objects :
             /\ Referring(cell, o) \in Nat
             /\ Referring(f, o) = IF r = o THEN Referring(cell, o) + 1 ELSE Referring(cell, o)
    BY <1>1, PutCounts
  <1>3. f[d].ref = r
    BY <1>1 DEF Put, CellType
  <1>4. /\ cell' \in CellType
        /\ \A o \in Objects :
             Referring(cell', o) = IF r = o THEN Referring(f, o) - 1 ELSE Referring(f, o)
    <2> HIDE DEF f
    <2> QED BY <1>1, <1>2, <1>3, PutCounts DEF f
  <1>5. \A o \in Objects : Referring(cell', o) = Referring(cell, o)
    BY <1>2, <1>4
  <1> QED BY <1>4, <1>5 DEF CountsKept, Counts, Referring, RefInv, RefTypeOK

\* new T: the object is not counted yet.
LEMMA Made ==
  ASSUME RefInv, NEW t \in Users, NEW c \in Cells, NEW o \in Objects, mkRef(t, c, o)
  PROVE  CountsKept
  <1>1. cell \in CellType /\ cell[c].ref \notin Objects /\ cell' = Put(cell, c, o)
    BY RefCountAssumption DEF RefInv, RefTypeOK, CellType, mkRef, Put
  <1>2. /\ cell' \in CellType
        /\ \A p \in Objects :
             /\ Referring(cell, p) \in Nat
             /\ Referring(cell', p) = IF o = p THEN Referring(cell, p) + 1 ELSE Referring(cell, p)
    BY <1>1, PutCounts
  <1>3. /\ count' = [count EXCEPT ![o] = @ + 1] /\ alive' = [alive EXCEPT ![o] = "alive"]
        /\ raw' = raw /\ alive[o] = "unborn"
        /\ dangling' = (dangling \/ \E p \in {o} : alive[p] = "deleted")
    BY DEF mkRef, incRef, Uses
  <1>4. /\ dangling' = FALSE /\ count' \in [Objects -> Nat]
        /\ alive' \in [Objects -> {"unborn", "alive", "deleted"}]
    BY <1>3 DEF RefInv, RefTypeOK
  <1>5. ASSUME NEW p \in Objects
        PROVE  count'[p] = raw'[p] + Referring(cell', p) /\ (alive'[p] = "alive" <=> count'[p] > 0)
    <2>1. count[p] = raw[p] + Referring(cell, p) /\ (alive[p] = "alive" <=> count[p] > 0)
          /\ count[p] \in Nat /\ raw[p] \in Nat
      BY DEF RefInv, Counts, RefTypeOK
    <2>2. CASE p = o
      <3>1. count'[p] = count[p] + 1 /\ alive'[p] = "alive"
        BY <1>3, <2>2 DEF RefInv, RefTypeOK
      <3> QED BY <3>1, <2>1, <2>2, <1>2, <1>3
    <2>3. CASE p # o
      <3>1. count'[p] = count[p] /\ alive'[p] = alive[p]
        BY <1>3, <2>3 DEF RefInv, RefTypeOK
      <3> QED BY <3>1, <2>1, <2>3, <1>2, <1>3
    <2> QED BY <2>2, <2>3
  <1> QED BY <1>2, <1>3, <1>4, <1>5 DEF CountsKept, Counts, Referring, RefInv, RefTypeOK

\* release(): the count goes from the cell to the pointer.
LEMMA Released ==
  ASSUME RefInv, NEW t \in Users, NEW c \in Cells, release(t, c)
  PROVE  CountsKept
  <1> DEFINE r == cell[c].ref
  <1>1. cell \in CellType /\ r \in Objects /\ cell' = Put(cell, c, Null)
        /\ Null \in Objects \cup {NoRef, Null} /\ Null \notin Objects
    BY RefCountAssumption DEF RefInv, RefTypeOK, CellType, release, Put, Holds
  <1>2. /\ cell' \in CellType
        /\ \A p \in Objects :
             /\ Referring(cell, p) \in Nat
             /\ Referring(cell', p) = IF r = p THEN Referring(cell, p) - 1 ELSE Referring(cell, p)
    BY <1>1, PutCounts
  <1>3. raw' = [raw EXCEPT ![r] = @ + 1] /\ UNCHANGED <<count, alive, dangling>>
    BY DEF release
  <1>4. raw' \in [Objects -> Nat]
    BY <1>1, <1>3 DEF RefInv, RefTypeOK
  <1>5. ASSUME NEW p \in Objects
        PROVE  count'[p] = raw'[p] + Referring(cell', p)
    <2>1. count[p] = raw[p] + Referring(cell, p) /\ count[p] \in Nat /\ raw[p] \in Nat
      BY DEF RefInv, Counts, RefTypeOK
    <2>2. raw'[p] = IF p = r THEN raw[p] + 1 ELSE raw[p]
      BY <1>1, <1>3 DEF RefInv, RefTypeOK
    <2> QED BY <2>1, <2>2, <1>2, <1>3
  <1> QED BY <1>2, <1>3, <1>4, <1>5 DEF CountsKept, Counts, Referring, RefInv, RefTypeOK

\* The owner of a released pointer counts it down.
LEMMA CountedDown ==
  ASSUME RefInv, NEW o \in Objects, decReleased(o)
  PROVE  CountsKept
  <1>1. cell \in CellType /\ cell' = cell
    BY DEF RefInv, RefTypeOK, CellType, decReleased
  <1>2. /\ raw[o] > 0 /\ raw' = [raw EXCEPT ![o] = @ - 1]
        /\ count' = [count EXCEPT ![o] = @ - 1]
        /\ alive' = IF count[o] = 1 THEN [alive EXCEPT ![o] = "deleted"] ELSE alive
        /\ dangling' = (dangling \/ \E p \in {o} : alive[p] = "deleted")
    BY DEF decReleased, decRef, Uses
  <1>3. \A p \in Objects : Referring(cell, p) \in Nat
    <2> SUFFICES ASSUME NEW p \in Objects PROVE Referring(cell, p) \in Nat
      OBVIOUS
    <2>1. IsFiniteSet({c \in Cells : cell[c].ref = p})
      BY RefCountAssumption, FS_Subset
    <2> QED BY <2>1, FS_CardinalityType DEF Referring
  <1>4. \A p \in Objects :
          count[p] = raw[p] + Referring(cell, p) /\ (alive[p] = "alive" <=> count[p] > 0)
          /\ count[p] \in Nat /\ raw[p] \in Nat
    BY DEF RefInv, Counts, RefTypeOK
  <1>5. count[o] > 0 /\ alive[o] = "alive"
    BY <1>2, <1>3, <1>4
  <1>6. /\ dangling' = FALSE /\ count' \in [Objects -> Nat] /\ raw' \in [Objects -> Nat]
        /\ alive' \in [Objects -> {"unborn", "alive", "deleted"}]
    <2>1. dangling' = FALSE
      BY <1>2, <1>5 DEF RefInv
    <2>2. count' \in [Objects -> Nat] /\ raw' \in [Objects -> Nat]
      BY <1>2, <1>4, <1>5 DEF RefInv, RefTypeOK
    <2> QED BY <2>1, <2>2, <1>2 DEF RefInv, RefTypeOK
  <1>7. ASSUME NEW p \in Objects
        PROVE  count'[p] = raw'[p] + Referring(cell, p) /\ (alive'[p] = "alive" <=> count'[p] > 0)
    <2>1. CASE p = o
      <3>1. /\ count'[p] = count[p] - 1 /\ raw'[p] = raw[p] - 1
            /\ alive'[p] = IF count[p] = 1 THEN "deleted" ELSE alive[p]
        BY <1>2, <2>1 DEF RefInv, RefTypeOK
      <3> QED BY <3>1, <2>1, <1>3, <1>4, <1>5
    <2>2. CASE p # o
      <3>1. count'[p] = count[p] /\ raw'[p] = raw[p] /\ alive'[p] = alive[p]
        BY <1>2, <2>2 DEF RefInv, RefTypeOK
      <3> QED BY <3>1, <1>4
    <2> QED BY <2>1, <2>2
  <1> QED BY <1>1, <1>6, <1>7 DEF CountsKept, Counts, Referring

\* A step of one thread on its own cells leaves the halves of the others' assignments.
LEMMA OthersHalves ==
  ASSUME RefInv, cell' \in CellType, rest' = rest,
         NEW t \in Users, rest[t] = NoRest,
         \A e \in Cells : cell[e].by # t => cell'[e] = cell[e]
  PROVE  HalfAssigned'
  <1> SUFFICES ASSUME NEW u \in Users, rest[u] # NoRest
               PROVE  LET c == rest[u].to
                          d == rest[u].from
                      IN /\ c # d /\ cell'[c].by = u /\ cell'[d].by = u
                         /\ cell'[c].ref = IF rest[u].at = "copy" THEN Null ELSE NoRef
                         /\ cell'[d].ref # NoRef
    BY DEF HalfAssigned
  <1>1. u # t /\ rest[u].to \in Cells /\ rest[u].from \in Cells
    BY DEF RefInv, RefTypeOK
  <1> QED BY <1>1 DEF RefInv, HalfAssigned

\* The first half of an assignment.
LEMMA HalfBegins ==
  ASSUME RefInv, cell' \in CellType, NEW t \in Users, rest[t] = NoRest,
         NEW c \in Cells, NEW d \in Cells, c # d, cell[c].by = t, cell[d].by = t,
         cell[d].ref # NoRef, NEW a \in {"copy", "move"},
         cell' = Put(cell, c, IF a = "copy" THEN Null ELSE NoRef),
         rest' = [rest EXCEPT ![t] = [at |-> a, to |-> c, from |-> d]]
  PROVE  HalfAssigned' /\ rest' \in [Users -> {NoRest} \cup [at : {"copy", "move"}, to : Cells, from : Cells]]
  <1>1. rest' \in [Users -> {NoRest} \cup [at : {"copy", "move"}, to : Cells, from : Cells]]
    BY DEF RefInv, RefTypeOK
  <1>2. ASSUME NEW u \in Users, rest'[u] # NoRest
        PROVE  LET e == rest'[u].to
                   f == rest'[u].from
               IN /\ e # f /\ cell'[e].by = u /\ cell'[f].by = u
                  /\ cell'[e].ref = IF rest'[u].at = "copy" THEN Null ELSE NoRef
                  /\ cell'[f].ref # NoRef
    <2>1. /\ cell'[c].by = t /\ cell'[c].ref = IF a = "copy" THEN Null ELSE NoRef
          /\ \A e \in Cells : e # c => cell'[e] = cell[e]
      BY DEF Put, RefInv, RefTypeOK
    <2>2. CASE u = t
      <3>1. rest'[u] = [at |-> a, to |-> c, from |-> d]
        BY <2>2 DEF RefInv, RefTypeOK
      <3> QED BY <3>1, <2>1, <2>2
    <2>3. CASE u # t
      <3>1. rest'[u] = rest[u]
        BY <2>3 DEF RefInv, RefTypeOK
      <3>2. rest[u].to \in Cells /\ rest[u].from \in Cells
        BY <1>2, <3>1 DEF RefInv, RefTypeOK
      <3>3. cell[rest[u].to].by = u /\ cell[rest[u].from].by = u
        BY <1>2, <3>1 DEF RefInv, HalfAssigned
      <3>4. rest[u].to # c /\ rest[u].from # c
        BY <3>3, <2>3
      <3> QED BY <1>2, <3>1, <3>2, <3>4, <2>1 DEF RefInv, HalfAssigned
    <2> QED BY <2>2, <2>3
  <1> QED BY <1>1, <1>2 DEF HalfAssigned

\* The second half ends it, and changes no cell of another thread.
LEMMA HalfEnds ==
  ASSUME RefInv, cell' \in CellType, NEW t \in Users,
         rest' = [rest EXCEPT ![t] = NoRest],
         \A e \in Cells : cell[e].by # t => cell'[e] = cell[e]
  PROVE  HalfAssigned' /\ rest' \in [Users -> {NoRest} \cup [at : {"copy", "move"}, to : Cells, from : Cells]]
  <1>1. rest' \in [Users -> {NoRest} \cup [at : {"copy", "move"}, to : Cells, from : Cells]]
    BY DEF RefInv, RefTypeOK
  <1>2. ASSUME NEW u \in Users, rest'[u] # NoRest
        PROVE  LET e == rest'[u].to
                   f == rest'[u].from
               IN /\ e # f /\ cell'[e].by = u /\ cell'[f].by = u
                  /\ cell'[e].ref = IF rest'[u].at = "copy" THEN Null ELSE NoRef
                  /\ cell'[f].ref # NoRef
    <2>1. u # t /\ rest'[u] = rest[u]
      BY <1>2 DEF RefInv, RefTypeOK
    <2>2. rest[u].to \in Cells /\ rest[u].from \in Cells
      BY <1>2, <2>1 DEF RefInv, RefTypeOK
    <2> QED BY <1>2, <2>1, <2>2 DEF RefInv, HalfAssigned
  <1> QED BY <1>1, <1>2 DEF HalfAssigned

\* From the parts to the invariant.
LEMMA RefParts ==
  ASSUME CountsKept, HalfAssigned',
         rest' \in [Users -> {NoRest} \cup [at : {"copy", "move"}, to : Cells, from : Cells]]
  PROVE  RefInv'
  BY DEF CountsKept, RefInv, RefTypeOK, CellType

\* What a thread does with one of its cells, in one step.
LEMMA OneStep ==
  ASSUME RefInv, NEW t \in Users, rest[t] = NoRest, rest' = rest, CountsKept,
         \A e \in Cells : cell[e].by # t => cell'[e] = cell[e]
  PROVE  RefInv'
  <1>1. cell' \in CellType
    BY DEF CountsKept
  <1>2. HalfAssigned'
    BY <1>1, OthersHalves
  <1>3. rest' \in [Users -> {NoRest} \cup [at : {"copy", "move"}, to : Cells, from : Cells]]
    BY DEF RefInv, RefTypeOK
  <1> QED BY <1>2, <1>3, RefParts

\* Changing a cell of t leaves those of the others.
LEMMA PutOwn ==
  ASSUME NEW f \in CellType, NEW c \in Cells, NEW v, NEW t, f[c].by = t
  PROVE  /\ \A e \in Cells : f[e].by # t => Put(f, c, v)[e] = f[e]
         /\ \A e \in Cells : Put(f, c, v)[e].by = f[e].by
  BY DEF CellType, Put

LEMMA RefNextInv == RefInv /\ [RefNext]_refVars => RefInv'
  <1> SUFFICES ASSUME RefInv, [RefNext]_refVars PROVE RefInv'
    OBVIOUS
  <1>0. cell \in CellType /\ NoRef \notin Objects /\ Null \notin Objects /\ NoRef # Null
    BY RefCountAssumption DEF RefInv, RefTypeOK, CellType
  <1>1. ASSUME NEW t \in Users, NEW c \in Cells, NEW v \in {NoRef, Null},
               Mine(t, c), cell[c].ref \notin Objects, cell' = Put(cell, c, v),
               UNCHANGED <<count, alive, raw, rest, dangling>>
        PROVE  RefInv'
    <2>1. drop(c) /\ raw' = raw
      BY <1>1 DEF drop, Holds
    <2>2. CountsKept
      BY <1>1, <2>1, Dropped
    <2> QED BY <1>0, <1>1, <2>2, PutOwn, OneStep DEF Mine
  <1>2. ASSUME NEW t \in Users, NEW c \in Cells, mkNull(t, c) PROVE RefInv'
    <2>1. cell' = Put(cell, c, Null) /\ cell[c].ref \notin Objects /\ Mine(t, c)
          /\ UNCHANGED <<count, alive, raw, rest, dangling>>
      BY <1>0, <1>2 DEF mkNull, Put
    <2> QED BY <2>1, <1>1
  <1>3. ASSUME NEW t \in Users, NEW c \in Cells, release(t, c) PROVE RefInv'
    <2>1. CountsKept
      BY <1>3, Released
    <2>2. rest[t] = NoRest /\ rest' = rest /\ cell[c].by = t /\ cell' = Put(cell, c, Null)
      BY <1>3 DEF release, Mine, Put
    <2> QED BY <1>0, <2>1, <2>2, PutOwn, OneStep
  <1>4. ASSUME NEW t \in Users, NEW c \in Cells, clear(t, c) PROVE RefInv'
    <2>1. rest[t] = NoRest /\ rest' = rest /\ cell[c].by = t /\ cell' = Put(cell, c, NoRef)
          /\ drop(c) /\ raw' = raw
      BY <1>4 DEF clear, Mine, Put
    <2>2. CountsKept
      BY <2>1, Dropped
    <2> QED BY <1>0, <2>1, <2>2, PutOwn, OneStep
  <1>5. ASSUME NEW t \in Users, NEW c \in Cells, use(t, c) PROVE RefInv'
    <2>1. Holds(c) /\ dangling' = (dangling \/ \E o \in {cell[c].ref} : alive[o] = "deleted")
          /\ UNCHANGED <<cell, count, alive, raw, rest>>
      BY <1>5 DEF use, Uses
    <2>2. dangling' = FALSE
      BY <2>1, HeldAlive DEF RefInv
    <2> QED BY <2>1, <2>2 DEF RefInv, RefTypeOK, Counts, HalfAssigned, Referring
  <1>6. ASSUME NEW t \in Users, NEW c \in Cells, NEW o \in Objects, mkRef(t, c, o) PROVE RefInv'
    <2>1. CountsKept
      BY <1>6, Made
    <2>2. rest[t] = NoRest /\ rest' = rest /\ cell[c].by = t /\ cell' = Put(cell, c, o)
      BY <1>6 DEF mkRef, Mine, Put
    <2> QED BY <1>0, <2>1, <2>2, PutOwn, OneStep
  <1>7. ASSUME NEW t \in Users, NEW c \in Cells, NEW u \in Users, give(t, u, c) PROVE RefInv'
    <2>1. rest[t] = NoRest /\ rest' = rest /\ cell[c].by = t /\ cell' = [cell EXCEPT ![c].by = u]
          /\ UNCHANGED <<count, alive, raw, rest, dangling>>
      BY <1>7 DEF give, Mine
    <2>2. cell' \in CellType /\ (\A e \in Cells : cell'[e].ref = cell[e].ref)
          /\ (\A e \in Cells : cell[e].by # t => cell'[e] = cell[e])
      BY <1>0, <2>1 DEF CellType
    <2>3. \A o \in Objects : Referring(cell', o) = Referring(cell, o)
      BY <2>2 DEF Referring
    <2>4. CountsKept
      BY <2>1, <2>2, <2>3 DEF CountsKept, Counts, Referring, RefInv, RefTypeOK
    <2> QED BY <2>1, <2>2, <2>4, OneStep
  <1>8. ASSUME NEW t \in Users, NEW c \in Cells, NEW d \in Cells, copy(t, c, d) PROVE RefInv'
    <2>1. rest[t] = NoRest /\ rest' = rest /\ cell[c].by = t /\ cell' = Put(cell, c, cell[d].ref)
          /\ cell[c].ref \notin Objects /\ alive' = alive /\ raw' = raw
      BY <1>0, <1>8 DEF copy, Mine, Put
    <2>2. IF Holds(d) THEN incRef(cell[d].ref) /\ Uses({cell[d].ref}) ELSE UNCHANGED <<count, dangling>>
      BY <1>8 DEF copy
    <2>3. CountsKept
      BY <2>1, <2>2, Copied
    <2> QED BY <1>0, <2>1, <2>3, PutOwn, OneStep
  <1>9. ASSUME NEW t \in Users, NEW c \in Cells, NEW d \in Cells, c # d, NEW v \in {NoRef, Null},
               cell[c].by = t, cell[d].by = t
        PROVE  \A e \in Cells : cell[e].by # t => Put(Put(cell, c, cell[d].ref), d, v)[e] = cell[e]
    BY <1>0, <1>9 DEF Put, CellType
  <1>10. ASSUME NEW t \in Users, NEW c \in Cells, NEW d \in Cells, move(t, c, d) PROVE RefInv'
    <2>1. rest[t] = NoRest /\ rest' = rest /\ cell[c].by = t /\ cell[d].by = t
          /\ c # d /\ cell[c].ref \notin Objects /\ UNCHANGED <<count, alive, raw, dangling>>
      BY <1>0, <1>10 DEF move, Mine
    <2>2. cell' = Put(Put(cell, c, cell[d].ref), d, Null)
      BY <1>0, <1>10 DEF move, moveRef, Put, CellType
    <2>3. CountsKept
      BY <2>1, <2>2, Moved
    <2> QED BY <1>9, <2>1, <2>2, <2>3, OneStep
  <1>11. ASSUME NEW t \in Users, NEW c \in Cells, NEW d \in Cells, moveOption(t, c, d) PROVE RefInv'
    <2>1. rest[t] = NoRest /\ rest' = rest /\ cell[c].by = t /\ cell[d].by = t
          /\ c # d /\ cell[c].ref \notin Objects /\ UNCHANGED <<count, alive, raw, dangling>>
      BY <1>0, <1>11 DEF moveOption, Mine
    <2>2. cell' = Put(Put(cell, c, cell[d].ref), d, NoRef)
      BY <1>0, <1>11 DEF moveOption, moveRef, Put, CellType
    <2>3. CountsKept
      BY <2>1, <2>2, Moved
    <2> QED BY <1>9, <2>1, <2>2, <2>3, OneStep
  <1>12. ASSUME NEW t \in Users, NEW c \in Cells, NEW d \in Cells, assign(t, c, d) PROVE RefInv'
    <2>1. rest[t] = NoRest /\ cell[c].by = t /\ cell[d].by = t /\ c # d /\ cell[d].ref # NoRef
          /\ drop(c) /\ raw' = raw /\ cell' = Put(cell, c, IF "copy" = "copy" THEN Null ELSE NoRef)
          /\ rest' = [rest EXCEPT ![t] = [at |-> "copy", to |-> c, from |-> d]]
      BY <1>12 DEF assign, Mine, Put
    <2>2. CountsKept
      BY <2>1, Dropped
    <2>3. cell' \in CellType
      BY <2>2 DEF CountsKept
    <2> QED BY <2>1, <2>2, <2>3, HalfBegins, RefParts
  <1>13. ASSUME NEW t \in Users, NEW c \in Cells, NEW d \in Cells, moveAssign(t, c, d) PROVE RefInv'
    <2>1. rest[t] = NoRest /\ cell[c].by = t /\ cell[d].by = t /\ c # d /\ cell[d].ref # NoRef
          /\ drop(c) /\ raw' = raw /\ cell' = Put(cell, c, IF "move" = "copy" THEN Null ELSE NoRef)
          /\ rest' = [rest EXCEPT ![t] = [at |-> "move", to |-> c, from |-> d]]
      BY <1>13 DEF moveAssign, Mine, Put
    <2>2. CountsKept
      BY <2>1, Dropped
    <2>3. cell' \in CellType
      BY <2>2 DEF CountsKept
    <2> QED BY <2>1, <2>2, <2>3, HalfBegins, RefParts
  <1>14. ASSUME NEW t \in Users, rest[t].at \in {"copy", "move"}
         PROVE  LET c == rest[t].to
                    d == rest[t].from
                IN /\ c \in Cells /\ d \in Cells /\ c # d /\ cell[c].by = t /\ cell[d].by = t
                   /\ cell[c].ref \notin Objects
    <2>1. rest[t] # NoRest
      BY <1>14 DEF NoRest
    <2>2. rest[t].to \in Cells /\ rest[t].from \in Cells
      BY <2>1 DEF RefInv, RefTypeOK
    <2> QED BY <1>0, <2>1, <2>2 DEF RefInv, HalfAssigned
  <1>15. ASSUME NEW t \in Users, assignCopies(t) PROVE RefInv'
    <2> DEFINE c == rest[t].to
               d == rest[t].from
    <2>1. c \in Cells /\ d \in Cells /\ c # d /\ cell[c].by = t /\ cell[d].by = t
          /\ cell[c].ref \notin Objects
      BY <1>14, <1>15 DEF assignCopies
    <2>2. cell' = Put(cell, c, cell[d].ref) /\ alive' = alive /\ raw' = raw
          /\ rest' = [rest EXCEPT ![t] = NoRest]
      BY <1>15 DEF assignCopies, Put
    <2>3. IF Holds(d) THEN incRef(cell[d].ref) /\ Uses({cell[d].ref}) ELSE UNCHANGED <<count, dangling>>
      BY <1>15 DEF assignCopies, Holds
    <2> HIDE DEF c, d
    <2>4. CountsKept
      BY <2>1, <2>2, <2>3, Copied
    <2>5. cell' \in CellType
      BY <2>4 DEF CountsKept
    <2>6. \A e \in Cells : cell[e].by # t => cell'[e] = cell[e]
      BY <1>0, <2>1, <2>2, PutOwn
    <2> QED BY <2>2, <2>4, <2>5, <2>6, HalfEnds, RefParts
  <1>16. ASSUME NEW t \in Users, moveAssignMoves(t) PROVE RefInv'
    <2> DEFINE c == rest[t].to
               d == rest[t].from
    <2>1. c \in Cells /\ d \in Cells /\ c # d /\ cell[c].by = t /\ cell[d].by = t
          /\ cell[c].ref \notin Objects
      BY <1>14, <1>16 DEF moveAssignMoves
    <2>2. cell' = Put(Put(cell, c, cell[d].ref), d, NoRef)
      BY <1>0, <1>16, <2>1 DEF moveAssignMoves, moveRef, Put, CellType
    <2>3. UNCHANGED <<count, alive, raw, dangling>> /\ rest' = [rest EXCEPT ![t] = NoRest]
      BY <1>16 DEF moveAssignMoves
    <2> HIDE DEF c, d
    <2>4. CountsKept
      BY <2>1, <2>2, <2>3, Moved
    <2>5. cell' \in CellType
      BY <2>4 DEF CountsKept
    <2>6. \A e \in Cells : cell[e].by # t => cell'[e] = cell[e]
      BY <1>9, <2>1, <2>2
    <2> QED BY <2>3, <2>4, <2>5, <2>6, HalfEnds, RefParts
  <1>17. ASSUME NEW o \in Objects, decReleased(o) PROVE RefInv'
    <2>1. CountsKept
      BY <1>17, CountedDown
    <2>2. UNCHANGED <<cell, rest>>
      BY <1>17 DEF decReleased
    <2>3. HalfAssigned'
      BY <2>2 DEF RefInv, HalfAssigned
    <2> QED BY <2>1, <2>2, <2>3, RefParts DEF RefInv, RefTypeOK
  <1>18. CASE UNCHANGED refVars
    BY <1>18 DEF refVars, RefInv, RefTypeOK, Counts, HalfAssigned, Referring
  <1> QED BY <1>2, <1>3, <1>4, <1>5, <1>6, <1>7, <1>8, <1>10, <1>11, <1>12, <1>13, <1>15, <1>16,
             <1>17, <1>18 DEF RefNext

LEMMA RefInitInv == RefInit => RefInv
  <1> SUFFICES ASSUME RefInit PROVE RefInv
    OBVIOUS
  <1>1. RefTypeOK /\ ~dangling
    BY DEF RefInit, RefTypeOK
  <1>2. HalfAssigned
    BY DEF RefInit, HalfAssigned
  <1>3. Counts
    <2> SUFFICES ASSUME NEW o \in Objects
                 PROVE  /\ count[o] = raw[o] + Referring(cell, o)
                        /\ (alive[o] = "alive") <=> (count[o] > 0)
      BY DEF Counts
    <2>1. {c \in Cells : cell[c].ref = o} = {}
      BY RefCountAssumption DEF RefInit
    <2>2. Referring(cell, o) = 0
      BY <2>1, FS_EmptySet DEF Referring
    <2> QED BY <2>2 DEF RefInit
  <1> QED BY <1>1, <1>2, <1>3 DEF RefInv

\* The counters' state keeps its type; in particular no counter falls below zero.
THEOREM RefTypeCorrect == RefSpec => []RefTypeOK
  <1>1. RefInv => RefTypeOK
    BY DEF RefInv
  <1> QED BY <1>1, RefInitInv, RefNextInv, PTL DEF RefSpec

\* For any threads, cells and objects: a RefCounted object is counted exactly, deleted
\* with its last reference and not used afterwards, in AutoRefs and Options that are
\* copied, moved, assigned in two steps, released and handed over.
THEOREM RefsCorrect == RefSpec => []RefsCounted
  <1>1. RefInv => RefsCounted
    BY DEF RefInv, Counts, Referring, RefsCounted
  <1> QED BY <1>1, RefInitInv, RefNextInv, PTL DEF RefSpec

-----------------------------------------------------------------------------
(* HTTPConnectionPool, HTTPClient and HTTPClientConnection.                *)

\* The values of a request.
RequestType ==
  [how : {"loop", "threads", "sync"}, op : {"new", "connect", "write", "read", "none"},
   pc : {"none", "finish", "error", "wake", "notify", "callbacks", "onError", "crashed"},
   conn : {"none", "idle", "busy", "closed", "deleted"}, left : Nat,
   parser : {"HEADER", "BODY", "DONE"}, expected : Int, got : Nat,
   park : {"no", "waiting", "due"}, complete : {"no", "waiting", "due"},
   handler : {"none", "live", "deleted"}, settled : Nat, answer : {"none", "ok", "error"},
   path : {"response", "error"}, leaked : {"nothing", "request", "connection", "both"},
   used : {"valid", "deleted"}]

\* Every announced byte is there.
AllBytes(c) == c.expected = UntilClose \/ c.got >= c.expected

\* What the thread that has left the mutex knows of the request.
InHand(c) ==
  /\ c.pc # "none" => c.op = "none"
  /\ c.pc \in {"finish", "error", "wake"} =>
       c.conn = "closed" /\ c.handler = "live" /\ (c.how # "sync" => c.park = "waiting")
  /\ c.pc \in {"finish", "error"} => c.complete = "no"
  /\ c.pc = "finish" => c.path = "response" /\ AllBytes(c)
  /\ c.pc \in {"error", "onError", "crashed"} => c.path = "error"
  /\ c.pc = "wake" => c.path = "error" \/ c.complete = "waiting"
  /\ c.path = "error" => c.complete = "no"
  /\ c.path = "error" /\ c.pc \in {"notify", "callbacks", "onError"} => c.handler = "live"
  /\ c.pc = "notify" /\ c.how # "threads" =>
       c.conn = "closed" /\ c.handler = "live" /\ (c.path = "error" \/ c.complete = "due")

\* Who will delete the connection, and who will settle the promise.
Owned(c) ==
  /\ c.how = "sync" => c.park = "no" /\ (c.conn \in {"busy", "closed"} <=> c.handler = "live")
  /\ c.how # "sync" /\ c.conn = "closed" => c.park \in {"waiting", "due"}
  /\ c.park = "due" => c.conn = "closed"
  /\ c.park = "waiting" => LeakedConnection(c) \/ c.op \in {"write", "read"}
                           \/ c.pc \in {"finish", "error", "wake"}
  /\ c.complete = "due" => c.handler = "live" /\ c.op = "none"
  /\ c.complete = "waiting" => c.pc = "wake"
  /\ c.complete # "no" \/ c.answer = "ok" => AllBytes(c)
  /\ c.handler = "live" =>
       \/ LeakedConnection(c) \/ c.op \in {"write", "read"} \/ c.complete = "due"
       \/ c.pc \in {"finish", "error", "wake"}
       \/ c.path = "error" /\ c.pc \in {"notify", "callbacks", "onError", "crashed"}

\* What holds of every request.
Sane(c) ==
  /\ InHand(c) /\ Owned(c)
  /\ c.op \in {"new", "connect"} =>
       /\ c.conn = "none" /\ c.handler = "none" /\ c.settled = 0 /\ c.answer = "none"
       /\ c.park = "no" /\ c.complete = "no" /\ c.leaked = "nothing" /\ c.used = "valid"
       /\ c.path = "response"
  /\ c.op = "connect" => c.how # "sync"
  /\ c.op \in {"write", "read"} =>
       /\ c.conn = "busy" /\ c.handler = "live" /\ c.complete = "no" /\ c.leaked = "nothing"
       /\ c.path = "response" /\ (c.how # "sync" => c.park = "waiting")
  /\ c.conn = "busy" => c.op \in {"write", "read"} \/ c.leaked = "both"
  /\ c.conn = "idle" => c.leaked = "connection"
  /\ c.leaked # "nothing" => c.pc = "none" /\ c.op = "none" /\ c.park # "due" /\ c.complete = "no"
  /\ c.handler = "live" => c.settled = 0 /\ c.answer = "none"
  /\ c.handler = "deleted" => c.settled = 1
  /\ c.settled <= 1
  /\ c.used = "deleted" => c.how = "threads" \/ (c.how = "loop" /\ c.path = "error")


\* A step of one request from q to c that changes the gauges by a and b.
Counted(c) == Waiting(c) \/ LeakedRequest(c)
Good(q, c, a, b) ==
  /\ c \in RequestType /\ Sane(c)
  /\ a = (IF Counted(c) THEN 1 ELSE 0) - (IF Counted(q) THEN 1 ELSE 0)
  /\ b = (IF Exists(c) THEN 1 ELSE 0) - (IF Exists(q) THEN 1 ELSE 0)

ClientInv ==
  /\ rq \in [Requests -> RequestType] /\ \A r \in Requests : Sane(rq[r])
  /\ current_requests = Cardinality({r \in Requests : Counted(rq[r])})
  /\ current_connections = Cardinality({r \in Requests : Exists(rq[r])})

\* A set that changes by one element.
LEMMA ByOne ==
  ASSUME NEW A \in SUBSET Requests, NEW B \in SUBSET Requests, NEW r \in Requests,
         \A s \in Requests \ {r} : s \in A <=> s \in B
  PROVE  Cardinality(B) = Cardinality(A) + ((IF r \in B THEN 1 ELSE 0) - (IF r \in A THEN 1 ELSE 0))
  <1>1. IsFiniteSet(A) /\ Cardinality(A) \in Nat
    <2>1. IsFiniteSet(A)
      BY ClientAssumption, FS_Subset
    <2> QED BY <2>1, FS_CardinalityType
  <1>2. CASE r \in A /\ r \notin B
    <2>1. B = A \ {r}
      BY <1>2
    <2> QED BY <1>1, <1>2, <2>1, FS_RemoveElement
  <1>3. CASE r \notin A /\ r \in B
    <2>1. B = A \cup {r}
      BY <1>3
    <2> QED BY <1>1, <1>3, <2>1, FS_AddElement
  <1>4. CASE r \in A <=> r \in B
    <2>1. B = A
      BY <1>4
    <2> QED BY <1>1, <1>4, <2>1
  <1> QED BY <1>2, <1>3, <1>4

\* A step replaces one request and counts what that opens or closes.
LEMMA OneRequest ==
  ASSUME ClientInv, NEW r \in Requests, NEW c, NEW a, NEW b, Good(rq[r], c, a, b),
         Becomes(r, c, a, b)
  PROVE  ClientInv'
  <1>1. /\ rq' \in [Requests -> RequestType] /\ rq'[r] = c
        /\ \A s \in Requests \ {r} : rq'[s] = rq[s]
    <2>1. rq \in [Requests -> RequestType] /\ c \in RequestType /\ rq' = [rq EXCEPT ![r] = c]
      BY DEF ClientInv, Good, Becomes
    <2> QED BY <2>1
  <1>2. \A s \in Requests : Sane(rq'[s])
    BY <1>1 DEF ClientInv, Good
  <1> DEFINE A == {s \in Requests : Counted(rq[s])}
             B == {s \in Requests : Counted(rq'[s])}
             C == {s \in Requests : Exists(rq[s])}
             D == {s \in Requests : Exists(rq'[s])}
  <1>3. current_requests' = Cardinality(B)
    <2>1. \A s \in Requests \ {r} : s \in A <=> s \in B
      BY <1>1
    <2>2. (r \in A <=> Counted(rq[r])) /\ (r \in B <=> Counted(c))
      BY <1>1
    <2>3. current_requests' = Cardinality(A) + a
      BY DEF ClientInv, Becomes
    <2>4. a = (IF r \in B THEN 1 ELSE 0) - (IF r \in A THEN 1 ELSE 0)
      BY <2>2 DEF Good
    <2> HIDE DEF A, B
    <2>5. A \in SUBSET Requests /\ B \in SUBSET Requests
      BY DEF A, B
    <2> QED BY <2>1, <2>3, <2>4, <2>5, ByOne
  <1>4. current_connections' = Cardinality(D)
    <2>1. \A s \in Requests \ {r} : s \in C <=> s \in D
      BY <1>1
    <2>2. (r \in C <=> Exists(rq[r])) /\ (r \in D <=> Exists(c))
      BY <1>1
    <2>3. current_connections' = Cardinality(C) + b
      BY DEF ClientInv, Becomes
    <2>4. b = (IF r \in D THEN 1 ELSE 0) - (IF r \in C THEN 1 ELSE 0)
      BY <2>2 DEF Good
    <2> HIDE DEF C, D
    <2>5. C \in SUBSET Requests /\ D \in SUBSET Requests
      BY DEF C, D
    <2> QED BY <2>1, <2>3, <2>4, <2>5, ByOne
  <1> QED BY <1>1, <1>2, <1>3, <1>4 DEF ClientInv


\* A field of a request is replaced by another value of its type.
LEMMA Updates ==
  ASSUME NEW q \in RequestType
  PROVE  /\ \A v \in {"new", "connect", "write", "read", "none"} :
              [q EXCEPT !.op = v] \in RequestType
         /\ \A v \in {"none", "finish", "error", "wake", "notify", "callbacks", "onError", "crashed"} :
              [q EXCEPT !.pc = v] \in RequestType
         /\ \A v \in {"none", "idle", "busy", "closed", "deleted"} :
              [q EXCEPT !.conn = v] \in RequestType
         /\ \A v \in Nat : [q EXCEPT !.left = v] \in RequestType
         /\ \A v \in {"HEADER", "BODY", "DONE"} : [q EXCEPT !.parser = v] \in RequestType
         /\ \A v \in Int : [q EXCEPT !.expected = v] \in RequestType
         /\ \A v \in Nat : [q EXCEPT !.got = v] \in RequestType
         /\ \A v \in {"no", "waiting", "due"} : [q EXCEPT !.park = v] \in RequestType
         /\ \A v \in {"no", "waiting", "due"} : [q EXCEPT !.complete = v] \in RequestType
         /\ \A v \in {"none", "live", "deleted"} : [q EXCEPT !.handler = v] \in RequestType
         /\ \A v \in Nat : [q EXCEPT !.settled = v] \in RequestType
         /\ \A v \in {"none", "ok", "error"} : [q EXCEPT !.answer = v] \in RequestType
         /\ \A v \in {"response", "error"} : [q EXCEPT !.path = v] \in RequestType
         /\ \A v \in {"nothing", "request", "connection", "both"} :
              [q EXCEPT !.leaked = v] \in RequestType
         /\ \A v \in {"valid", "deleted"} : [q EXCEPT !.used = v] \in RequestType
  <1>1. ASSUME NEW v \in {"new", "connect", "write", "read", "none"}
        PROVE  [q EXCEPT !.op = v] \in RequestType
    BY DEF RequestType
  <1>2. ASSUME NEW v \in {"none", "finish", "error", "wake", "notify", "callbacks", "onError", "crashed"}
        PROVE  [q EXCEPT !.pc = v] \in RequestType
    BY DEF RequestType
  <1>3. ASSUME NEW v \in {"none", "idle", "busy", "closed", "deleted"}
        PROVE  [q EXCEPT !.conn = v] \in RequestType
    BY DEF RequestType
  <1>4. ASSUME NEW v \in Nat
        PROVE  [q EXCEPT !.left = v] \in RequestType
    BY DEF RequestType
  <1>5. ASSUME NEW v \in {"HEADER", "BODY", "DONE"}
        PROVE  [q EXCEPT !.parser = v] \in RequestType
    BY DEF RequestType
  <1>6. ASSUME NEW v \in Int
        PROVE  [q EXCEPT !.expected = v] \in RequestType
    BY DEF RequestType
  <1>7. ASSUME NEW v \in Nat
        PROVE  [q EXCEPT !.got = v] \in RequestType
    BY DEF RequestType
  <1>8. ASSUME NEW v \in {"no", "waiting", "due"}
        PROVE  [q EXCEPT !.park = v] \in RequestType
    BY DEF RequestType
  <1>9. ASSUME NEW v \in {"no", "waiting", "due"}
        PROVE  [q EXCEPT !.complete = v] \in RequestType
    BY DEF RequestType
  <1>10. ASSUME NEW v \in {"none", "live", "deleted"}
        PROVE  [q EXCEPT !.handler = v] \in RequestType
    BY DEF RequestType
  <1>11. ASSUME NEW v \in Nat
        PROVE  [q EXCEPT !.settled = v] \in RequestType
    BY DEF RequestType
  <1>12. ASSUME NEW v \in {"none", "ok", "error"}
        PROVE  [q EXCEPT !.answer = v] \in RequestType
    BY DEF RequestType
  <1>13. ASSUME NEW v \in {"response", "error"}
        PROVE  [q EXCEPT !.path = v] \in RequestType
    BY DEF RequestType
  <1>14. ASSUME NEW v \in {"nothing", "request", "connection", "both"}
        PROVE  [q EXCEPT !.leaked = v] \in RequestType
    BY DEF RequestType
  <1>15. ASSUME NEW v \in {"valid", "deleted"}
        PROVE  [q EXCEPT !.used = v] \in RequestType
    BY DEF RequestType
  <1> QED BY <1>1, <1>2, <1>3, <1>4, <1>5, <1>6, <1>7, <1>8, <1>9, <1>10, <1>11, <1>12, <1>13,
             <1>14, <1>15

\* The types of what the steps put into a request.
LEMMA UpdateTypes ==
  ASSUME NEW q \in RequestType
  PROVE  /\ q.settled + 1 \in Nat /\ Touched(q) \in {"valid", "deleted"}
         /\ Woken(q.park) \in {"no", "waiting", "due"} /\ Woken(q.complete) \in {"no", "waiting", "due"}
         /\ AfterWakeup(q) \in {"none", "onError"}
  BY DEF RequestType, Woken, Touched, AfterWakeup

\* executeRequest() ends in an exception for its caller.
LEMMA Refused ==
  ASSUME NEW q \in RequestType, Sane(q), q.op = "new"
  PROVE  Good(q, [q EXCEPT !.op = "none"], 0, 0)
  <1> DEFINE c == [q EXCEPT !.op = "none"]
  <1>1. c \in RequestType
    BY Updates
  <1>2. /\ c.how = q.how /\ c.op = "none" /\ c.pc = q.pc /\ c.conn = q.conn
        /\ c.expected = q.expected /\ c.got = q.got /\ c.park = q.park
        /\ c.complete = q.complete /\ c.handler = q.handler /\ c.settled = q.settled
        /\ c.answer = q.answer /\ c.path = q.path /\ c.leaked = q.leaked /\ c.used = q.used
        /\ q.how \in {"loop", "threads", "sync"} /\ q.settled \in Nat /\ q.got \in Nat /\ q.expected \in Int
    BY DEF RequestType
  <1> HIDE DEF c
  <1>3. Good(q, c, 0, 0)
    BY <1>1, <1>2 DEF Good, Sane, InHand, Owned, AllBytes, UntilClose, LeakedConnection, LeakedRequest,
                      Counted, Waiting, Exists
  <1> QED BY <1>3 DEF c

\* connectAsync() raises.
LEMMA Unconnected ==
  ASSUME NEW q \in RequestType, Sane(q), q.op = "new", q.how # "sync"
  PROVE  Good(q, [q EXCEPT !.op = "none", !.settled = q.settled + 1, !.answer = "error"], 0, 0)
  <1> DEFINE c == [q EXCEPT !.op = "none", !.settled = q.settled + 1, !.answer = "error"]
  <1>1. c \in RequestType
    BY Updates, UpdateTypes
  <1>2. /\ c.how = q.how /\ c.op = "none" /\ c.pc = q.pc /\ c.conn = q.conn
        /\ c.expected = q.expected /\ c.got = q.got /\ c.park = q.park
        /\ c.complete = q.complete /\ c.handler = q.handler /\ c.settled = q.settled + 1
        /\ c.answer = "error" /\ c.path = q.path /\ c.leaked = q.leaked /\ c.used = q.used
        /\ q.how \in {"loop", "threads", "sync"} /\ q.settled \in Nat /\ q.got \in Nat /\ q.expected \in Int
    BY DEF RequestType
  <1> HIDE DEF c
  <1>3. Good(q, c, 0, 0)
    BY <1>1, <1>2 DEF Good, Sane, InHand, Owned, AllBytes, UntilClose, LeakedConnection, LeakedRequest,
                      Counted, Waiting, Exists
  <1> QED BY <1>3 DEF c

\* connectAsync() has begun.
LEMMA Connecting ==
  ASSUME NEW q \in RequestType, Sane(q), q.op = "new", q.how # "sync"
  PROVE  Good(q, [q EXCEPT !.op = "connect"], 0, 0)
  <1> DEFINE c == [q EXCEPT !.op = "connect"]
  <1>1. c \in RequestType
    BY Updates
  <1>2. /\ c.how = q.how /\ c.op = "connect" /\ c.pc = q.pc /\ c.conn = q.conn
        /\ c.expected = q.expected /\ c.got = q.got /\ c.park = q.park
        /\ c.complete = q.complete /\ c.handler = q.handler /\ c.settled = q.settled
        /\ c.answer = q.answer /\ c.path = q.path /\ c.leaked = q.leaked /\ c.used = q.used
        /\ q.how \in {"loop", "threads", "sync"} /\ q.settled \in Nat /\ q.got \in Nat /\ q.expected \in Int
    BY DEF RequestType
  <1> HIDE DEF c
  <1>3. Good(q, c, 0, 0)
    BY <1>1, <1>2 DEF Good, Sane, InHand, Owned, AllBytes, UntilClose, LeakedConnection, LeakedRequest,
                      Counted, Waiting, Exists
  <1> QED BY <1>3 DEF c

\* A connection is leased to a request.
LEMMA Leased ==
  ASSUME NEW q \in RequestType, Sane(q), q.op = "connect"
  PROVE  Good(q, [q EXCEPT !.conn = "busy", !.op = "write", !.left = RequestSize,
                          !.handler = "live", !.park = "waiting"], 1, 1)
  <1> DEFINE c == [q EXCEPT !.conn = "busy", !.op = "write", !.left = RequestSize,
                            !.handler = "live", !.park = "waiting"]
  <1>1. c \in RequestType
    BY Updates, ClientAssumption
  <1>2. /\ c.how = q.how /\ c.op = "write" /\ c.pc = q.pc /\ c.conn = "busy"
        /\ c.expected = q.expected /\ c.got = q.got /\ c.park = "waiting"
        /\ c.complete = q.complete /\ c.handler = "live" /\ c.settled = q.settled
        /\ c.answer = q.answer /\ c.path = q.path /\ c.leaked = q.leaked /\ c.used = q.used
        /\ q.how \in {"loop", "threads", "sync"} /\ q.settled \in Nat /\ q.got \in Nat /\ q.expected \in Int
    BY DEF RequestType
  <1> HIDE DEF c
  <1>3. Good(q, c, 1, 1)
    BY <1>1, <1>2 DEF Good, Sane, InHand, Owned, AllBytes, UntilClose, LeakedConnection, LeakedRequest,
                      Counted, Waiting, Exists
  <1> QED BY <1>3 DEF c

\* runOnNextWakeup() raises.
LEMMA Unparked ==
  ASSUME NEW q \in RequestType, Sane(q), q.op = "connect"
  PROVE  Good(q, [q EXCEPT !.op = "none", !.settled = q.settled + 1, !.answer = "error",
                          !.conn = "deleted"], 0, 0)
  <1> DEFINE c == [q EXCEPT !.op = "none", !.settled = q.settled + 1, !.answer = "error",
                            !.conn = "deleted"]
  <1>1. c \in RequestType
    BY Updates, UpdateTypes
  <1>2. /\ c.how = q.how /\ c.op = "none" /\ c.pc = q.pc /\ c.conn = "deleted"
        /\ c.expected = q.expected /\ c.got = q.got /\ c.park = q.park
        /\ c.complete = q.complete /\ c.handler = q.handler /\ c.settled = q.settled + 1
        /\ c.answer = "error" /\ c.path = q.path /\ c.leaked = q.leaked /\ c.used = q.used
        /\ q.how \in {"loop", "threads", "sync"} /\ q.settled \in Nat /\ q.got \in Nat /\ q.expected \in Int
    BY DEF RequestType
  <1> HIDE DEF c
  <1>3. Good(q, c, 0, 0)
    BY <1>1, <1>2 DEF Good, Sane, InHand, Owned, AllBytes, UntilClose, LeakedConnection, LeakedRequest,
                      Counted, Waiting, Exists
  <1> QED BY <1>3 DEF c

\* executeRequest() raises in the lease before it counts the request.
LEMMA LeasedIdle ==
  ASSUME NEW q \in RequestType, Sane(q), q.op = "connect"
  PROVE  Good(q, [q EXCEPT !.settled = q.settled + 1, !.answer = "error", !.handler = "deleted",
                          !.op = "none", !.park = "waiting", !.conn = "idle",
                          !.leaked = "connection"], 0, 1)
  <1> DEFINE c == [q EXCEPT !.settled = q.settled + 1, !.answer = "error",
                            !.handler = "deleted", !.op = "none", !.park = "waiting",
                            !.conn = "idle", !.leaked = "connection"]
  <1>1. c \in RequestType
    BY Updates, UpdateTypes
  <1>2. /\ c.how = q.how /\ c.op = "none" /\ c.pc = q.pc /\ c.conn = "idle"
        /\ c.expected = q.expected /\ c.got = q.got /\ c.park = "waiting"
        /\ c.complete = q.complete /\ c.handler = "deleted" /\ c.settled = q.settled + 1
        /\ c.answer = "error" /\ c.path = q.path /\ c.leaked = "connection"
        /\ c.used = q.used
        /\ q.how \in {"loop", "threads", "sync"} /\ q.settled \in Nat /\ q.got \in Nat /\ q.expected \in Int
    BY DEF RequestType
  <1> HIDE DEF c
  <1>3. Good(q, c, 0, 1)
    BY <1>1, <1>2 DEF Good, Sane, InHand, Owned, AllBytes, UntilClose, LeakedConnection, LeakedRequest,
                      Counted, Waiting, Exists
  <1> QED BY <1>3 DEF c

\* executeRequest() raises in the lease at its end.
LEMMA LeasedBusy ==
  ASSUME NEW q \in RequestType, Sane(q), q.op = "connect"
  PROVE  Good(q, [q EXCEPT !.settled = q.settled + 1, !.answer = "error", !.handler = "deleted",
                          !.op = "none", !.park = "waiting", !.conn = "busy",
                          !.leaked = "both"], 1, 1)
  <1> DEFINE c == [q EXCEPT !.settled = q.settled + 1, !.answer = "error",
                            !.handler = "deleted", !.op = "none", !.park = "waiting",
                            !.conn = "busy", !.leaked = "both"]
  <1>1. c \in RequestType
    BY Updates, UpdateTypes
  <1>2. /\ c.how = q.how /\ c.op = "none" /\ c.pc = q.pc /\ c.conn = "busy"
        /\ c.expected = q.expected /\ c.got = q.got /\ c.park = "waiting"
        /\ c.complete = q.complete /\ c.handler = "deleted" /\ c.settled = q.settled + 1
        /\ c.answer = "error" /\ c.path = q.path /\ c.leaked = "both" /\ c.used = q.used
        /\ q.how \in {"loop", "threads", "sync"} /\ q.settled \in Nat /\ q.got \in Nat /\ q.expected \in Int
    BY DEF RequestType
  <1> HIDE DEF c
  <1>3. Good(q, c, 1, 1)
    BY <1>1, <1>2 DEF Good, Sane, InHand, Owned, AllBytes, UntilClose, LeakedConnection, LeakedRequest,
                      Counted, Waiting, Exists
  <1> QED BY <1>3 DEF c

\* The blocking client gets no connection.
LEMMA Unanswered ==
  ASSUME NEW q \in RequestType, Sane(q), q.op = "new", q.how = "sync"
  PROVE  Good(q, [q EXCEPT !.settled = q.settled + 1, !.answer = "error", !.handler = "deleted",
                          !.op = "none"], 0, 0)
  <1> DEFINE c == [q EXCEPT !.settled = q.settled + 1, !.answer = "error",
                            !.handler = "deleted", !.op = "none"]
  <1>1. c \in RequestType
    BY Updates, UpdateTypes
  <1>2. /\ c.how = q.how /\ c.op = "none" /\ c.pc = q.pc /\ c.conn = q.conn
        /\ c.expected = q.expected /\ c.got = q.got /\ c.park = q.park
        /\ c.complete = q.complete /\ c.handler = "deleted" /\ c.settled = q.settled + 1
        /\ c.answer = "error" /\ c.path = q.path /\ c.leaked = q.leaked /\ c.used = q.used
        /\ q.how \in {"loop", "threads", "sync"} /\ q.settled \in Nat /\ q.got \in Nat /\ q.expected \in Int
    BY DEF RequestType
  <1> HIDE DEF c
  <1>3. Good(q, c, 0, 0)
    BY <1>1, <1>2 DEF Good, Sane, InHand, Owned, AllBytes, UntilClose, LeakedConnection, LeakedRequest,
                      Counted, Waiting, Exists
  <1> QED BY <1>3 DEF c

\* The blocking client sends.
LEMMA Sending ==
  ASSUME NEW q \in RequestType, Sane(q), q.op = "new", q.how = "sync"
  PROVE  Good(q, [q EXCEPT !.conn = "busy", !.op = "write", !.left = RequestSize,
                          !.handler = "live"], 1, 1)
  <1> DEFINE c == [q EXCEPT !.conn = "busy", !.op = "write", !.left = RequestSize,
                            !.handler = "live"]
  <1>1. c \in RequestType
    BY Updates, ClientAssumption
  <1>2. /\ c.how = q.how /\ c.op = "write" /\ c.pc = q.pc /\ c.conn = "busy"
        /\ c.expected = q.expected /\ c.got = q.got /\ c.park = q.park
        /\ c.complete = q.complete /\ c.handler = "live" /\ c.settled = q.settled
        /\ c.answer = q.answer /\ c.path = q.path /\ c.leaked = q.leaked /\ c.used = q.used
        /\ q.how \in {"loop", "threads", "sync"} /\ q.settled \in Nat /\ q.got \in Nat /\ q.expected \in Int
    BY DEF RequestType
  <1> HIDE DEF c
  <1>3. Good(q, c, 1, 1)
    BY <1>1, <1>2 DEF Good, Sane, InHand, Owned, AllBytes, UntilClose, LeakedConnection, LeakedRequest,
                      Counted, Waiting, Exists
  <1> QED BY <1>3 DEF c

\* The loop of the blocking client refuses the descriptor.
LEMMA Unwatched ==
  ASSUME NEW q \in RequestType, Sane(q), q.op = "new", q.how = "sync"
  PROVE  Good(q, [q EXCEPT !.settled = q.settled + 1, !.answer = "error", !.handler = "deleted",
                          !.op = "none", !.conn = "deleted", !.leaked = "request"], 1, 0)
  <1> DEFINE c == [q EXCEPT !.settled = q.settled + 1, !.answer = "error",
                            !.handler = "deleted", !.op = "none", !.conn = "deleted",
                            !.leaked = "request"]
  <1>1. c \in RequestType
    BY Updates, UpdateTypes
  <1>2. /\ c.how = q.how /\ c.op = "none" /\ c.pc = q.pc /\ c.conn = "deleted"
        /\ c.expected = q.expected /\ c.got = q.got /\ c.park = q.park
        /\ c.complete = q.complete /\ c.handler = "deleted" /\ c.settled = q.settled + 1
        /\ c.answer = "error" /\ c.path = q.path /\ c.leaked = "request" /\ c.used = q.used
        /\ q.how \in {"loop", "threads", "sync"} /\ q.settled \in Nat /\ q.got \in Nat /\ q.expected \in Int
    BY DEF RequestType
  <1> HIDE DEF c
  <1>3. Good(q, c, 1, 0)
    BY <1>1, <1>2 DEF Good, Sane, InHand, Owned, AllBytes, UntilClose, LeakedConnection, LeakedRequest,
                      Counted, Waiting, Exists
  <1> QED BY <1>3 DEF c

\* It does so in runOnce().
LEMMA Escaped ==
  ASSUME NEW q \in RequestType, Sane(q), q.op = "new", q.how = "sync"
  PROVE  Good(q, [q EXCEPT !.conn = "busy", !.op = "write", !.left = RequestSize,
                          !.handler = "live", !.op = "none", !.leaked = "both"], 1, 1)
  <1> DEFINE c == [q EXCEPT !.conn = "busy", !.op = "write", !.left = RequestSize,
                            !.handler = "live", !.op = "none", !.leaked = "both"]
  <1>1. c \in RequestType
    BY Updates, ClientAssumption
  <1>2. /\ c.how = q.how /\ c.op = "none" /\ c.pc = q.pc /\ c.conn = "busy"
        /\ c.expected = q.expected /\ c.got = q.got /\ c.park = q.park
        /\ c.complete = q.complete /\ c.handler = "live" /\ c.settled = q.settled
        /\ c.answer = q.answer /\ c.path = q.path /\ c.leaked = "both" /\ c.used = q.used
        /\ q.how \in {"loop", "threads", "sync"} /\ q.settled \in Nat /\ q.got \in Nat /\ q.expected \in Int
    BY DEF RequestType
  <1> HIDE DEF c
  <1>3. Good(q, c, 1, 1)
    BY <1>1, <1>2 DEF Good, Sane, InHand, Owned, AllBytes, UntilClose, LeakedConnection, LeakedRequest,
                      Counted, Waiting, Exists
  <1> QED BY <1>3 DEF c

\* write() has sent some bytes.
LEMMA Written ==
  ASSUME NEW q \in RequestType, Sane(q), q.op = "write", NEW n \in Nat,
         NEW o \in {"write", "read"}
  PROVE  Good(q, [q EXCEPT !.left = n, !.op = o], 0, 0)
  <1> DEFINE c == [q EXCEPT !.left = n, !.op = o]
  <1>1. c \in RequestType
    BY Updates
  <1>2. /\ c.how = q.how /\ c.op = o /\ c.pc = q.pc /\ c.conn = q.conn
        /\ c.expected = q.expected /\ c.got = q.got /\ c.park = q.park
        /\ c.complete = q.complete /\ c.handler = q.handler /\ c.settled = q.settled
        /\ c.answer = q.answer /\ c.path = q.path /\ c.leaked = q.leaked /\ c.used = q.used
        /\ q.how \in {"loop", "threads", "sync"} /\ q.settled \in Nat /\ q.got \in Nat /\ q.expected \in Int
    BY DEF RequestType
  <1> HIDE DEF c
  <1>3. Good(q, c, 0, 0)
    BY <1>1, <1>2 DEF Good, Sane, InHand, Owned, AllBytes, UntilClose, LeakedConnection, LeakedRequest,
                      Counted, Waiting, Exists
  <1> QED BY <1>3 DEF c

\* read() or write() fails and closes the connection.
LEMMA Failing ==
  ASSUME NEW q \in RequestType, Sane(q), q.op \in {"write", "read"}
  PROVE  Good(q, [q EXCEPT !.conn = "closed", !.op = "none", !.pc = "error",
                          !.path = "error"], 0, 0)
  <1> DEFINE c == [q EXCEPT !.conn = "closed", !.op = "none", !.pc = "error", !.path = "error"]
  <1>1. c \in RequestType
    BY Updates
  <1>2. /\ c.how = q.how /\ c.op = "none" /\ c.pc = "error" /\ c.conn = "closed"
        /\ c.expected = q.expected /\ c.got = q.got /\ c.park = q.park
        /\ c.complete = q.complete /\ c.handler = q.handler /\ c.settled = q.settled
        /\ c.answer = q.answer /\ c.path = "error" /\ c.leaked = q.leaked /\ c.used = q.used
        /\ q.how \in {"loop", "threads", "sync"} /\ q.settled \in Nat /\ q.got \in Nat /\ q.expected \in Int
    BY DEF RequestType
  <1> HIDE DEF c
  <1>3. Good(q, c, 0, 0)
    BY <1>1, <1>2 DEF Good, Sane, InHand, Owned, AllBytes, UntilClose, LeakedConnection, LeakedRequest,
                      Counted, Waiting, Exists
  <1> QED BY <1>3 DEF c

\* read() parses the headers.
LEMMA Headers ==
  ASSUME NEW q \in RequestType, Sane(q), q.op = "read", NEW e \in Int,
         NEW p \in {"HEADER", "BODY", "DONE"}
  PROVE  Good(q, [q EXCEPT !.expected = e, !.parser = p], 0, 0)
  <1> DEFINE c == [q EXCEPT !.expected = e, !.parser = p]
  <1>1. c \in RequestType
    BY Updates
  <1>2. /\ c.how = q.how /\ c.op = q.op /\ c.pc = q.pc /\ c.conn = q.conn /\ c.expected = e
        /\ c.got = q.got /\ c.park = q.park /\ c.complete = q.complete
        /\ c.handler = q.handler /\ c.settled = q.settled /\ c.answer = q.answer
        /\ c.path = q.path /\ c.leaked = q.leaked /\ c.used = q.used
        /\ q.how \in {"loop", "threads", "sync"} /\ q.settled \in Nat /\ q.got \in Nat /\ q.expected \in Int
    BY DEF RequestType
  <1> HIDE DEF c
  <1>3. Good(q, c, 0, 0)
    BY <1>1, <1>2 DEF Good, Sane, InHand, Owned, AllBytes, UntilClose, LeakedConnection, LeakedRequest,
                      Counted, Waiting, Exists
  <1> QED BY <1>3 DEF c

\* read() parses a part of the body.
LEMMA Body ==
  ASSUME NEW q \in RequestType, Sane(q), q.op = "read", NEW g \in Nat,
         NEW p \in {"HEADER", "BODY", "DONE"}
  PROVE  Good(q, [q EXCEPT !.got = g, !.parser = p], 0, 0)
  <1> DEFINE c == [q EXCEPT !.got = g, !.parser = p]
  <1>1. c \in RequestType
    BY Updates
  <1>2. /\ c.how = q.how /\ c.op = q.op /\ c.pc = q.pc /\ c.conn = q.conn
        /\ c.expected = q.expected /\ c.got = g /\ c.park = q.park
        /\ c.complete = q.complete /\ c.handler = q.handler /\ c.settled = q.settled
        /\ c.answer = q.answer /\ c.path = q.path /\ c.leaked = q.leaked /\ c.used = q.used
        /\ q.how \in {"loop", "threads", "sync"} /\ q.settled \in Nat /\ q.got \in Nat /\ q.expected \in Int
    BY DEF RequestType
  <1> HIDE DEF c
  <1>3. Good(q, c, 0, 0)
    BY <1>1, <1>2 DEF Good, Sane, InHand, Owned, AllBytes, UntilClose, LeakedConnection, LeakedRequest,
                      Counted, Waiting, Exists
  <1> QED BY <1>3 DEF c

\* read() finds the end of the stream.
LEMMA Ended ==
  ASSUME NEW q \in RequestType, Sane(q), q.op = "read", NEW p \in {"HEADER", "BODY", "DONE"}
  PROVE  Good(q, [q EXCEPT !.parser = p], 0, 0)
  <1> DEFINE c == [q EXCEPT !.parser = p]
  <1>1. c \in RequestType
    BY Updates
  <1>2. /\ c.how = q.how /\ c.op = q.op /\ c.pc = q.pc /\ c.conn = q.conn
        /\ c.expected = q.expected /\ c.got = q.got /\ c.park = q.park
        /\ c.complete = q.complete /\ c.handler = q.handler /\ c.settled = q.settled
        /\ c.answer = q.answer /\ c.path = q.path /\ c.leaked = q.leaked /\ c.used = q.used
        /\ q.how \in {"loop", "threads", "sync"} /\ q.settled \in Nat /\ q.got \in Nat /\ q.expected \in Int
    BY DEF RequestType
  <1> HIDE DEF c
  <1>3. Good(q, c, 0, 0)
    BY <1>1, <1>2 DEF Good, Sane, InHand, Owned, AllBytes, UntilClose, LeakedConnection, LeakedRequest,
                      Counted, Waiting, Exists
  <1> QED BY <1>3 DEF c

\* read() closes the connection of a response that is whole.
LEMMA Finishing ==
  ASSUME NEW q \in RequestType, Sane(q), q.op = "read", AllBytes(q)
  PROVE  Good(q, [q EXCEPT !.conn = "closed", !.op = "none", !.pc = "finish",
                          !.path = "response"], -1, 0)
  <1> DEFINE c == [q EXCEPT !.conn = "closed", !.op = "none", !.pc = "finish",
                            !.path = "response"]
  <1>1. c \in RequestType
    BY Updates
  <1>2. /\ c.how = q.how /\ c.op = "none" /\ c.pc = "finish" /\ c.conn = "closed"
        /\ c.expected = q.expected /\ c.got = q.got /\ c.park = q.park
        /\ c.complete = q.complete /\ c.handler = q.handler /\ c.settled = q.settled
        /\ c.answer = q.answer /\ c.path = "response" /\ c.leaked = q.leaked
        /\ c.used = q.used
        /\ q.how \in {"loop", "threads", "sync"} /\ q.settled \in Nat /\ q.got \in Nat /\ q.expected \in Int
    BY DEF RequestType
  <1> HIDE DEF c
  <1>3. Good(q, c, -1, 0)
    BY <1>1, <1>2 DEF Good, Sane, InHand, Owned, AllBytes, UntilClose, LeakedConnection, LeakedRequest,
                      Counted, Waiting, Exists
  <1> QED BY <1>3 DEF c

\* onResponseComplete() is scheduled.
LEMMA Scheduling ==
  ASSUME NEW q \in RequestType, Sane(q), q.pc = "finish"
  PROVE  Good(q, [q EXCEPT !.complete = "waiting", !.pc = "wake"], 0, 0)
  <1> DEFINE c == [q EXCEPT !.complete = "waiting", !.pc = "wake"]
  <1>1. c \in RequestType
    BY Updates
  <1>2. /\ c.how = q.how /\ c.op = q.op /\ c.pc = "wake" /\ c.conn = q.conn
        /\ c.expected = q.expected /\ c.got = q.got /\ c.park = q.park
        /\ c.complete = "waiting" /\ c.handler = q.handler /\ c.settled = q.settled
        /\ c.answer = q.answer /\ c.path = q.path /\ c.leaked = q.leaked /\ c.used = q.used
        /\ q.how \in {"loop", "threads", "sync"} /\ q.settled \in Nat /\ q.got \in Nat /\ q.expected \in Int
    BY DEF RequestType
  <1> HIDE DEF c
  <1>3. Good(q, c, 0, 0)
    BY <1>1, <1>2 DEF Good, Sane, InHand, Owned, AllBytes, UntilClose, LeakedConnection, LeakedRequest,
                      Counted, Waiting, Exists
  <1> QED BY <1>3 DEF c

\* error() counts the request down.
LEMMA Erring ==
  ASSUME NEW q \in RequestType, Sane(q), q.pc = "error"
  PROVE  Good(q, [q EXCEPT !.pc = "wake"], -1, 0)
  <1> DEFINE c == [q EXCEPT !.pc = "wake"]
  <1>1. c \in RequestType
    BY Updates
  <1>2. /\ c.how = q.how /\ c.op = q.op /\ c.pc = "wake" /\ c.conn = q.conn
        /\ c.expected = q.expected /\ c.got = q.got /\ c.park = q.park
        /\ c.complete = q.complete /\ c.handler = q.handler /\ c.settled = q.settled
        /\ c.answer = q.answer /\ c.path = q.path /\ c.leaked = q.leaked /\ c.used = q.used
        /\ q.how \in {"loop", "threads", "sync"} /\ q.settled \in Nat /\ q.got \in Nat /\ q.expected \in Int
    BY DEF RequestType
  <1> HIDE DEF c
  <1>3. Good(q, c, -1, 0)
    BY <1>1, <1>2 DEF Good, Sane, InHand, Owned, AllBytes, UntilClose, LeakedConnection, LeakedRequest,
                      Counted, Waiting, Exists
  <1> QED BY <1>3 DEF c

\* on_ready_.wakeup() makes the tasks due.
LEMMA Waking ==
  ASSUME NEW q \in RequestType, Sane(q), q.pc = "wake"
  PROVE  Good(q, [q EXCEPT !.park = Woken(q.park), !.complete = Woken(q.complete),
                          !.pc = "notify"], 0, 0)
  <1> DEFINE c == [q EXCEPT !.park = Woken(q.park), !.complete = Woken(q.complete),
                            !.pc = "notify"]
  <1>1. c \in RequestType
    BY Updates, UpdateTypes
  <1>2. /\ c.how = q.how /\ c.op = q.op /\ c.pc = "notify" /\ c.conn = q.conn
        /\ c.expected = q.expected /\ c.got = q.got /\ c.park = Woken(q.park)
        /\ c.complete = Woken(q.complete) /\ c.handler = q.handler /\ c.settled = q.settled
        /\ c.answer = q.answer /\ c.path = q.path /\ c.leaked = q.leaked /\ c.used = q.used
        /\ q.how \in {"loop", "threads", "sync"} /\ q.settled \in Nat /\ q.got \in Nat /\ q.expected \in Int
    BY DEF RequestType
  <1> HIDE DEF c
  <1>3. Good(q, c, 0, 0)
    BY <1>1, <1>2 DEF Good, Sane, InHand, Owned, AllBytes, UntilClose, LeakedConnection, LeakedRequest,
                      Counted, Waiting, Exists, Woken
  <1> QED BY <1>3 DEF c

\* notify_all() of on_ready_.
LEMMA Notifying ==
  ASSUME NEW q \in RequestType, Sane(q), q.pc = "notify"
  PROVE  Good(q, [q EXCEPT !.used = Touched(q),
                          !.pc = IF q.how = "threads" THEN AfterWakeup(q) ELSE "callbacks"], 0, 0)
  <1> DEFINE c == [q EXCEPT !.used = Touched(q),
                            !.pc = IF q.how = "threads" THEN AfterWakeup(q) ELSE "callbacks"]
  <1>1. c \in RequestType
    BY Updates, UpdateTypes
  <1>2. /\ c.how = q.how /\ c.op = q.op
        /\ c.pc = IF q.how = "threads" THEN AfterWakeup(q) ELSE "callbacks"
        /\ c.conn = q.conn /\ c.expected = q.expected /\ c.got = q.got /\ c.park = q.park
        /\ c.complete = q.complete /\ c.handler = q.handler /\ c.settled = q.settled
        /\ c.answer = q.answer /\ c.path = q.path /\ c.leaked = q.leaked
        /\ c.used = Touched(q)
        /\ q.how \in {"loop", "threads", "sync"} /\ q.settled \in Nat /\ q.got \in Nat /\ q.expected \in Int
    BY DEF RequestType
  <1> HIDE DEF c
  <1>3. Good(q, c, 0, 0)
    BY <1>1, <1>2 DEF Good, Sane, InHand, Owned, AllBytes, UntilClose, LeakedConnection, LeakedRequest,
                      Counted, Waiting, Exists, Touched, AfterWakeup
  <1> QED BY <1>3 DEF c

\* on_ready_.wakeup() returns.
LEMMA Returning ==
  ASSUME NEW q \in RequestType, Sane(q), q.pc = "callbacks", q.park # "due", q.complete # "due"
  PROVE  Good(q, [q EXCEPT !.pc = AfterWakeup(q)], 0, 0)
  <1> DEFINE c == [q EXCEPT !.pc = AfterWakeup(q)]
  <1>1. c \in RequestType
    BY Updates, UpdateTypes
  <1>2. /\ c.how = q.how /\ c.op = q.op /\ c.pc = AfterWakeup(q) /\ c.conn = q.conn
        /\ c.expected = q.expected /\ c.got = q.got /\ c.park = q.park
        /\ c.complete = q.complete /\ c.handler = q.handler /\ c.settled = q.settled
        /\ c.answer = q.answer /\ c.path = q.path /\ c.leaked = q.leaked /\ c.used = q.used
        /\ q.how \in {"loop", "threads", "sync"} /\ q.settled \in Nat /\ q.got \in Nat /\ q.expected \in Int
    BY DEF RequestType
  <1> HIDE DEF c
  <1>3. Good(q, c, 0, 0)
    BY <1>1, <1>2 DEF Good, Sane, InHand, Owned, AllBytes, UntilClose, LeakedConnection, LeakedRequest,
                      Counted, Waiting, Exists, AfterWakeup
  <1> QED BY <1>3 DEF c

\* parkConnection() deletes the connection.
LEMMA Parking ==
  ASSUME NEW q \in RequestType, Sane(q), q.park = "due", Runs(q)
  PROVE  Good(q, [q EXCEPT !.park = "no", !.conn = "deleted"], 0, -1)
  <1> DEFINE c == [q EXCEPT !.park = "no", !.conn = "deleted"]
  <1>1. c \in RequestType
    BY Updates
  <1>2. /\ c.how = q.how /\ c.op = q.op /\ c.pc = q.pc /\ c.conn = "deleted"
        /\ c.expected = q.expected /\ c.got = q.got /\ c.park = "no"
        /\ c.complete = q.complete /\ c.handler = q.handler /\ c.settled = q.settled
        /\ c.answer = q.answer /\ c.path = q.path /\ c.leaked = q.leaked /\ c.used = q.used
        /\ q.how \in {"loop", "threads", "sync"} /\ q.settled \in Nat /\ q.got \in Nat /\ q.expected \in Int
    BY DEF RequestType
  <1> HIDE DEF c
  <1>3. Good(q, c, 0, -1)
    BY <1>1, <1>2 DEF Good, Sane, InHand, Owned, AllBytes, UntilClose, LeakedConnection, LeakedRequest,
                      Counted, Waiting, Exists, Runs
  <1> QED BY <1>3 DEF c

\* onResponseComplete() deletes the future and the connection it owns.
LEMMA CompletedSync ==
  ASSUME NEW q \in RequestType, Sane(q), q.complete = "due", Runs(q), q.how = "sync"
  PROVE  Good(q, [q EXCEPT !.settled = q.settled + 1, !.answer = "ok", !.handler = "deleted",
                          !.complete = "no", !.conn = "deleted"], 0, -1)
  <1> DEFINE c == [q EXCEPT !.settled = q.settled + 1, !.answer = "ok", !.handler = "deleted",
                            !.complete = "no", !.conn = "deleted"]
  <1>1. c \in RequestType
    BY Updates, UpdateTypes
  <1>2. /\ c.how = q.how /\ c.op = q.op /\ c.pc = q.pc /\ c.conn = "deleted"
        /\ c.expected = q.expected /\ c.got = q.got /\ c.park = q.park /\ c.complete = "no"
        /\ c.handler = "deleted" /\ c.settled = q.settled + 1 /\ c.answer = "ok"
        /\ c.path = q.path /\ c.leaked = q.leaked /\ c.used = q.used
        /\ q.how \in {"loop", "threads", "sync"} /\ q.settled \in Nat /\ q.got \in Nat /\ q.expected \in Int
    BY DEF RequestType
  <1> HIDE DEF c
  <1>3. Good(q, c, 0, -1)
    BY <1>1, <1>2 DEF Good, Sane, InHand, Owned, AllBytes, UntilClose, LeakedConnection, LeakedRequest,
                      Counted, Waiting, Exists, Runs
  <1> QED BY <1>3 DEF c

\* onResponseComplete() deletes the future.
LEMMA Completed ==
  ASSUME NEW q \in RequestType, Sane(q), q.complete = "due", Runs(q), q.how # "sync",
         q.how # "threads" => q.park # "due"
  PROVE  Good(q, [q EXCEPT !.settled = q.settled + 1, !.answer = "ok", !.handler = "deleted",
                          !.complete = "no"], 0, 0)
  <1> DEFINE c == [q EXCEPT !.settled = q.settled + 1, !.answer = "ok", !.handler = "deleted",
                            !.complete = "no"]
  <1>1. c \in RequestType
    BY Updates, UpdateTypes
  <1>2. /\ c.how = q.how /\ c.op = q.op /\ c.pc = q.pc /\ c.conn = q.conn
        /\ c.expected = q.expected /\ c.got = q.got /\ c.park = q.park /\ c.complete = "no"
        /\ c.handler = "deleted" /\ c.settled = q.settled + 1 /\ c.answer = "ok"
        /\ c.path = q.path /\ c.leaked = q.leaked /\ c.used = q.used
        /\ q.how \in {"loop", "threads", "sync"} /\ q.settled \in Nat /\ q.got \in Nat /\ q.expected \in Int
    BY DEF RequestType
  <1> HIDE DEF c
  <1>3. Good(q, c, 0, 0)
    BY <1>1, <1>2 DEF Good, Sane, InHand, Owned, AllBytes, UntilClose, LeakedConnection, LeakedRequest,
                      Counted, Waiting, Exists, Runs
  <1> QED BY <1>3 DEF c

\* onResponseComplete() after its thread has waited on a deleted connection.
LEMMA CompletedLate ==
  ASSUME NEW q \in RequestType, Sane(q), q.complete = "due", q.how = "threads",
         q.conn = "deleted"
  PROVE  Good(q, [q EXCEPT !.settled = q.settled + 1, !.answer = "ok", !.handler = "deleted",
                          !.complete = "no", !.used = "deleted"], 0, 0)
  <1> DEFINE c == [q EXCEPT !.settled = q.settled + 1, !.answer = "ok", !.handler = "deleted",
                            !.complete = "no", !.used = "deleted"]
  <1>1. c \in RequestType
    BY Updates, UpdateTypes
  <1>2. /\ c.how = q.how /\ c.op = q.op /\ c.pc = q.pc /\ c.conn = q.conn
        /\ c.expected = q.expected /\ c.got = q.got /\ c.park = q.park /\ c.complete = "no"
        /\ c.handler = "deleted" /\ c.settled = q.settled + 1 /\ c.answer = "ok"
        /\ c.path = q.path /\ c.leaked = q.leaked /\ c.used = "deleted"
        /\ q.how \in {"loop", "threads", "sync"} /\ q.settled \in Nat /\ q.got \in Nat /\ q.expected \in Int
    BY DEF RequestType
  <1> HIDE DEF c
  <1>3. Good(q, c, 0, 0)
    BY <1>1, <1>2 DEF Good, Sane, InHand, Owned, AllBytes, UntilClose, LeakedConnection, LeakedRequest,
                      Counted, Waiting, Exists
  <1> QED BY <1>3 DEF c

\* onError() deletes the future and the connection it owns.
LEMMA ErrorSync ==
  ASSUME NEW q \in RequestType, Sane(q), q.pc = "onError", q.how = "sync"
  PROVE  Good(q, [q EXCEPT !.settled = q.settled + 1, !.answer = "error", !.handler = "deleted",
                          !.pc = "none", !.used = Touched(q), !.conn = "deleted"], 0, -1)
  <1> DEFINE c == [q EXCEPT !.settled = q.settled + 1, !.answer = "error",
                            !.handler = "deleted", !.pc = "none", !.used = Touched(q),
                            !.conn = "deleted"]
  <1>1. c \in RequestType
    BY Updates, UpdateTypes
  <1>2. /\ c.how = q.how /\ c.op = q.op /\ c.pc = "none" /\ c.conn = "deleted"
        /\ c.expected = q.expected /\ c.got = q.got /\ c.park = q.park
        /\ c.complete = q.complete /\ c.handler = "deleted" /\ c.settled = q.settled + 1
        /\ c.answer = "error" /\ c.path = q.path /\ c.leaked = q.leaked
        /\ c.used = Touched(q)
        /\ q.how \in {"loop", "threads", "sync"} /\ q.settled \in Nat /\ q.got \in Nat /\ q.expected \in Int
    BY DEF RequestType
  <1> HIDE DEF c
  <1>3. Good(q, c, 0, -1)
    BY <1>1, <1>2 DEF Good, Sane, InHand, Owned, AllBytes, UntilClose, LeakedConnection, LeakedRequest,
                      Counted, Waiting, Exists, Touched
  <1> QED BY <1>3 DEF c

\* onError() deletes the future.
LEMMA ErrorPool ==
  ASSUME NEW q \in RequestType, Sane(q), q.pc = "onError", q.how # "sync"
  PROVE  Good(q, [q EXCEPT !.settled = q.settled + 1, !.answer = "error", !.handler = "deleted",
                          !.pc = "none", !.used = Touched(q)], 0, 0)
  <1> DEFINE c == [q EXCEPT !.settled = q.settled + 1, !.answer = "error",
                            !.handler = "deleted", !.pc = "none", !.used = Touched(q)]
  <1>1. c \in RequestType
    BY Updates, UpdateTypes
  <1>2. /\ c.how = q.how /\ c.op = q.op /\ c.pc = "none" /\ c.conn = q.conn
        /\ c.expected = q.expected /\ c.got = q.got /\ c.park = q.park
        /\ c.complete = q.complete /\ c.handler = "deleted" /\ c.settled = q.settled + 1
        /\ c.answer = "error" /\ c.path = q.path /\ c.leaked = q.leaked
        /\ c.used = Touched(q)
        /\ q.how \in {"loop", "threads", "sync"} /\ q.settled \in Nat /\ q.got \in Nat /\ q.expected \in Int
    BY DEF RequestType
  <1> HIDE DEF c
  <1>3. Good(q, c, 0, 0)
    BY <1>1, <1>2 DEF Good, Sane, InHand, Owned, AllBytes, UntilClose, LeakedConnection, LeakedRequest,
                      Counted, Waiting, Exists, Touched
  <1> QED BY <1>3 DEF c

\* error() crashes on a deleted connection.
LEMMA Crashing ==
  ASSUME NEW q \in RequestType, Sane(q), q.pc = "onError", q.conn = "deleted"
  PROVE  Good(q, [q EXCEPT !.pc = "crashed", !.used = "deleted"], 0, 0)
  <1> DEFINE c == [q EXCEPT !.pc = "crashed", !.used = "deleted"]
  <1>1. c \in RequestType
    BY Updates
  <1>2. /\ c.how = q.how /\ c.op = q.op /\ c.pc = "crashed" /\ c.conn = q.conn
        /\ c.expected = q.expected /\ c.got = q.got /\ c.park = q.park
        /\ c.complete = q.complete /\ c.handler = q.handler /\ c.settled = q.settled
        /\ c.answer = q.answer /\ c.path = q.path /\ c.leaked = q.leaked
        /\ c.used = "deleted"
        /\ q.how \in {"loop", "threads", "sync"} /\ q.settled \in Nat /\ q.got \in Nat /\ q.expected \in Int
    BY DEF RequestType
  <1> HIDE DEF c
  <1>3. Good(q, c, 0, 0)
    BY <1>1, <1>2 DEF Good, Sane, InHand, Owned, AllBytes, UntilClose, LeakedConnection, LeakedRequest,
                      Counted, Waiting, Exists
  <1> QED BY <1>3 DEF c

\* read() with a parser that has moved on.
LEMMA Responded ==
  ASSUME ClientInv, NEW r \in Requests, NEW c \in RequestType, c.op = "read", Good(rq[r], c, 0, 0),
         c.parser = "DONE" => AllBytes(c), Responding(r, c)
  PROVE  ClientInv'
  <1>1. CASE c.parser = "DONE"
    <2>1. Good(c, Closing(c, "finish"), -1, 0)
      <3>1. Good(c, [c EXCEPT !.conn = "closed", !.op = "none", !.pc = "finish",
                              !.path = "response"], -1, 0)
        BY <1>1, Finishing DEF Good
      <3> QED BY <3>1 DEF Closing
    <2>2. Good(rq[r], Closing(c, "finish"), -1, 0)
      BY <2>1 DEF Good
    <2> QED BY <1>1, <2>2, OneRequest DEF Responding
  <1>2. CASE c.parser # "DONE"
    BY <1>2, OneRequest DEF Responding
  <1> QED BY <1>1, <1>2

\* close() and the way into error().
LEMMA Errs ==
  ASSUME ClientInv, NEW r \in Requests, rq[r].op \in {"write", "read"},
         Becomes(r, Closing(rq[r], "error"), 0, 0)
  PROVE  ClientInv'
  <1>1. rq[r] \in RequestType /\ Sane(rq[r])
    BY DEF ClientInv
  <1>2. Good(rq[r], Closing(rq[r], "error"), 0, 0)
    BY <1>1, Failing DEF Closing
  <1> QED BY <1>2, OneRequest

LEMMA ClientNextInv == ClientInv /\ [ClientNext]_clientVars => ClientInv'
  <1> SUFFICES ASSUME ClientInv, [ClientNext]_clientVars PROVE ClientInv'
    OBVIOUS
  <1>0. ASSUME NEW r \in Requests PROVE rq[r] \in RequestType /\ Sane(rq[r])
    BY DEF ClientInv
  <1>1. CASE UNCHANGED clientVars
    BY <1>1 DEF clientVars, ClientInv
  <1>2. ASSUME NEW r \in Requests, poolExecuteRequest(r) PROVE ClientInv'
    <2>1. /\ Good(rq[r], [rq[r] EXCEPT !.op = "none"], 0, 0) /\ Good(rq[r], Failed(rq[r]), 0, 0)
          /\ Good(rq[r], [rq[r] EXCEPT !.op = "connect"], 0, 0)
      BY <1>0, <1>2, Refused, Unconnected, Connecting DEF poolExecuteRequest, Failed
    <2> QED BY <1>2, <2>1, OneRequest DEF poolExecuteRequest
  <1>3. ASSUME NEW r \in Requests, connected(r) PROVE ClientInv'
    <2>1. Good(rq[r], [Busy(rq[r]) EXCEPT !.park = "waiting"], 1, 1)
      BY <1>0, <1>3, Leased DEF connected, Busy
    <2> QED BY <1>3, <2>1, OneRequest DEF connected
  <1>4. ASSUME NEW r \in Requests, connectedRaises(r) PROVE ClientInv'
    <2> DEFINE c == [Answered(rq[r], "error") EXCEPT !.op = "none", !.park = "waiting"]
    <2>1. Good(rq[r], [Failed(rq[r]) EXCEPT !.conn = "deleted"], 0, 0)
      BY <1>0, <1>4, Unparked DEF connectedRaises, Failed
    <2>2. Good(rq[r], [c EXCEPT !.conn = "idle", !.leaked = "connection"], 0, 1)
      BY <1>0, <1>4, LeasedIdle DEF connectedRaises, Answered
    <2>3. Good(rq[r], [c EXCEPT !.conn = "busy", !.leaked = "both"], 1, 1)
      BY <1>0, <1>4, LeasedBusy DEF connectedRaises, Answered
    <2> QED BY <1>4, <2>1, <2>2, <2>3, OneRequest DEF connectedRaises
  <1>5. ASSUME NEW r \in Requests, clientExecuteRequest(r) PROVE ClientInv'
    <2>1. Good(rq[r], [rq[r] EXCEPT !.op = "none"], 0, 0)
      BY <1>0, <1>5, Refused DEF clientExecuteRequest
    <2>2. Good(rq[r], [Answered(rq[r], "error") EXCEPT !.op = "none"], 0, 0)
      BY <1>0, <1>5, Unanswered DEF clientExecuteRequest, Answered
    <2>3. Good(rq[r], Busy(rq[r]), 1, 1)
      BY <1>0, <1>5, Sending DEF clientExecuteRequest, Busy
    <2> QED BY <1>5, <2>1, <2>2, <2>3, OneRequest DEF clientExecuteRequest
  <1>6. ASSUME NEW r \in Requests, clientRaises(r) PROVE ClientInv'
    <2>1. Good(rq[r], [Answered(rq[r], "error") EXCEPT
                         !.op = "none", !.conn = "deleted", !.leaked = "request"], 1, 0)
      BY <1>0, <1>6, Unwatched DEF clientRaises, Answered
    <2>2. Good(rq[r], [Busy(rq[r]) EXCEPT !.op = "none", !.leaked = "both"], 1, 1)
      BY <1>0, <1>6, Escaped DEF clientRaises, Busy
    <2> QED BY <1>6, <2>1, <2>2, OneRequest DEF clientRaises
  <1>7. ASSUME NEW r \in Requests, NEW k \in 1..RequestSize, write(r, k) PROVE ClientInv'
    <2>1. /\ rq[r].left - k \in Nat
          /\ (IF k = rq[r].left THEN "read" ELSE "write") \in {"write", "read"}
      <3>1. rq[r].left \in Nat
        BY <1>0 DEF RequestType
      <3> QED BY <1>7, <3>1, ClientAssumption DEF write
    <2>2. Good(rq[r], [rq[r] EXCEPT !.left = rq[r].left - k,
                         !.op = IF k = rq[r].left THEN "read" ELSE "write"], 0, 0)
      BY <1>0, <1>7, <2>1, Written DEF write
    <2> QED BY <1>7, <2>2, OneRequest DEF write
  <1>8. ASSUME NEW r \in Requests, fails(r) PROVE ClientInv'
    BY <1>8, Errs DEF fails
  <1>9. ASSUME NEW r \in Requests, NEW n \in {UntilClose} \cup 0..MaxBody, readHeaders(r, n)
        PROVE  ClientInv'
    <2> DEFINE p == IF n = 0 THEN "DONE" ELSE "BODY"
               c == [rq[r] EXCEPT !.expected = n, !.parser = p]
    <2>1. n \in Int /\ p \in {"HEADER", "BODY", "DONE"}
      BY ClientAssumption DEF UntilClose
    <2>2. Good(rq[r], c, 0, 0)
      BY <1>0, <1>9, <2>1, Headers DEF readHeaders
    <2>3. c.op = "read" /\ c.parser = p /\ c.expected = n /\ c.got \in Nat
      BY <1>0, <1>9 DEF readHeaders, RequestType
    <2>4. Responding(r, c)
      BY <1>9 DEF readHeaders
    <2> HIDE DEF c
    <2>5. c \in RequestType /\ (c.parser = "DONE" => AllBytes(c))
      BY <2>2, <2>3 DEF Good, AllBytes
    <2> QED BY <2>2, <2>3, <2>4, <2>5, Responded
  <1>10. ASSUME NEW r \in Requests, NEW k \in 1..MaxBody, readBody(r, k) PROVE ClientInv'
    <2> DEFINE p == IF rq[r].got + k = rq[r].expected THEN "DONE" ELSE "BODY"
               c == [rq[r] EXCEPT !.got = rq[r].got + k, !.parser = p]
    <2>1. rq[r].got + k \in Nat /\ p \in {"HEADER", "BODY", "DONE"}
      <3>1. rq[r].got \in Nat
        BY <1>0 DEF RequestType
      <3> QED BY <3>1, ClientAssumption
    <2>2. Good(rq[r], c, 0, 0)
      BY <1>0, <1>10, <2>1, Body DEF readBody
    <2>3. c.op = "read" /\ c.parser = p /\ c.expected = rq[r].expected /\ c.got = rq[r].got + k
      BY <1>0, <1>10 DEF readBody, RequestType
    <2>4. Responding(r, c)
      BY <1>10 DEF readBody
    <2> HIDE DEF c
    <2>5. c \in RequestType /\ (c.parser = "DONE" => AllBytes(c))
      BY <2>1, <2>2, <2>3 DEF Good, AllBytes
    <2> QED BY <2>2, <2>3, <2>4, <2>5, Responded
  <1>11. ASSUME NEW r \in Requests, readEof(r) PROVE ClientInv'
    <2> DEFINE c == [rq[r] EXCEPT !.parser = "DONE"]
    <2>1. CASE rq[r].expected # UntilClose /\ rq[r].got < rq[r].expected
      BY <1>11, <2>1, Errs DEF readEof
    <2>2. CASE ~(rq[r].expected # UntilClose /\ rq[r].got < rq[r].expected)
      <3>1. Good(rq[r], c, 0, 0)
        BY <1>0, <1>11, Ended DEF readEof
      <3>2. /\ c.op = "read" /\ c.expected = rq[r].expected /\ c.got = rq[r].got
            /\ c.got \in Nat /\ c.expected \in Int
        BY <1>0, <1>11 DEF readEof, RequestType
      <3>3. Responding(r, c)
        BY <1>11, <2>2 DEF readEof
      <3> HIDE DEF c
      <3>4. c \in RequestType /\ AllBytes(c)
        BY <2>2, <3>1, <3>2 DEF Good, AllBytes, UntilClose
      <3> QED BY <3>1, <3>2, <3>3, <3>4, Responded
    <2> QED BY <2>1, <2>2
  <1>12. ASSUME NEW r \in Requests, schedules(r) PROVE ClientInv'
    BY <1>0, <1>12, Scheduling, OneRequest DEF schedules
  <1>13. ASSUME NEW r \in Requests, error(r) PROVE ClientInv'
    BY <1>0, <1>13, Erring, OneRequest DEF error
  <1>14. ASSUME NEW r \in Requests, wakes(r) PROVE ClientInv'
    BY <1>0, <1>14, Waking, OneRequest DEF wakes
  <1>15. ASSUME NEW r \in Requests, notifies(r) PROVE ClientInv'
    BY <1>0, <1>15, Notifying, OneRequest DEF notifies
  <1>16. ASSUME NEW r \in Requests, returns(r) PROVE ClientInv'
    BY <1>0, <1>16, Returning, OneRequest DEF returns
  <1>17. ASSUME NEW r \in Requests, parkConnection(r) PROVE ClientInv'
    BY <1>0, <1>17, Parking, OneRequest DEF parkConnection
  <1>18. ASSUME NEW r \in Requests, onResponseComplete(r) PROVE ClientInv'
    <2> DEFINE c == [Answered(rq[r], "ok") EXCEPT !.complete = "no"]
    <2>1. c.how = rq[r].how /\ c.conn = rq[r].conn
      BY <1>0 DEF Answered, RequestType
    <2>2. CASE rq[r].how = "sync"
      <3>1. Good(rq[r], [c EXCEPT !.conn = "deleted"], 0, -1)
        BY <1>0, <1>18, <2>2, CompletedSync DEF onResponseComplete, Answered
      <3> QED BY <1>18, <2>1, <2>2, <3>1, OneRequest DEF onResponseComplete
    <2>3. CASE rq[r].how # "sync" /\ Becomes(r, c, 0, 0)
      <3>1. Good(rq[r], c, 0, 0)
        BY <1>0, <1>18, <2>3, Completed DEF onResponseComplete, Answered
      <3> QED BY <2>3, <3>1, OneRequest
    <2>4. CASE /\ rq[r].how = "threads" /\ rq[r].conn = "deleted"
               /\ Becomes(r, [c EXCEPT !.used = "deleted"], 0, 0)
      <3>1. Good(rq[r], [c EXCEPT !.used = "deleted"], 0, 0)
        BY <1>0, <1>18, <2>4, CompletedLate DEF onResponseComplete, Answered
      <3> QED BY <2>4, <3>1, OneRequest
    <2> QED BY <1>18, <2>1, <2>2, <2>3, <2>4 DEF onResponseComplete
  <1>19. ASSUME NEW r \in Requests, onError(r) PROVE ClientInv'
    <2> DEFINE c == [Answered(rq[r], "error") EXCEPT !.pc = "none", !.used = Touched(rq[r])]
    <2>1. c.how = rq[r].how
      BY <1>0 DEF Answered, RequestType
    <2>2. CASE rq[r].how = "sync"
      <3>1. Good(rq[r], [c EXCEPT !.conn = "deleted"], 0, -1)
        BY <1>0, <1>19, <2>2, ErrorSync DEF onError, Answered
      <3> QED BY <1>19, <2>1, <2>2, <3>1, OneRequest DEF onError
    <2>3. CASE rq[r].how # "sync" /\ Becomes(r, c, 0, 0)
      <3>1. Good(rq[r], c, 0, 0)
        BY <1>0, <1>19, <2>3, ErrorPool DEF onError, Answered
      <3> QED BY <2>3, <3>1, OneRequest
    <2>4. CASE /\ rq[r].conn = "deleted"
               /\ Becomes(r, [rq[r] EXCEPT !.pc = "crashed", !.used = "deleted"], 0, 0)
      BY <1>0, <1>19, <2>4, Crashing, OneRequest DEF onError
    <2> QED BY <1>19, <2>1, <2>2, <2>3, <2>4 DEF onError
  <1> QED BY <1>1, <1>2, <1>3, <1>4, <1>5, <1>6, <1>7, <1>8, <1>9, <1>10, <1>11, <1>12, <1>13, <1>14,
             <1>15, <1>16, <1>17, <1>18, <1>19 DEF ClientNext, RequestStep

LEMMA ClientInitInv == ClientInit => ClientInv
  <1> SUFFICES ASSUME ClientInit PROVE ClientInv
    OBVIOUS
  <1>1. PICK f \in [Requests -> {"loop", "threads", "sync"}] :
          rq = [r \in Requests |-> NewRequest(f[r])]
    BY DEF ClientInit
  <1>2. ASSUME NEW how \in {"loop", "threads", "sync"}
        PROVE  /\ NewRequest(how) \in RequestType /\ Sane(NewRequest(how))
               /\ ~Counted(NewRequest(how)) /\ ~Exists(NewRequest(how))
    BY DEF NewRequest, RequestType, Sane, InHand, Owned, AllBytes, UntilClose, LeakedConnection,
           LeakedRequest, Counted, Waiting, Exists
  <1>3. rq \in [Requests -> RequestType]
    BY <1>1, <1>2
  <1>4. \A r \in Requests : Sane(rq[r]) /\ ~Counted(rq[r]) /\ ~Exists(rq[r])
    BY <1>1, <1>2
  <1>5. {r \in Requests : Counted(rq[r])} = {} /\ {r \in Requests : Exists(rq[r])} = {}
    BY <1>4
  <1>6. Cardinality({}) = 0
    BY FS_EmptySet
  <1> QED BY <1>3, <1>4, <1>5, <1>6 DEF ClientInit, ClientInv

LEMMA ClientInvariant == ClientSpec => []ClientInv
  BY ClientInitInv, ClientNextInv, PTL DEF ClientSpec

\* HTTPConnectionPool, HTTPClient, HTTPClientConnection and HTTPResponseFuture: however
\* the loop, the threads and the failures interleave, the gauges count the requests that
\* wait and the connections that exist at every step between the mutex, the wakeup and
\* the tasks it releases; a promise is settled once, and a request that nobody works on
\* any more has been settled and its connection deleted, unless executeRequest() raised;
\* on a loop only the error path of a pool uses a deleted connection; and no response
\* that lacks announced bytes is reported complete.
THEOREM ClientCorrect == ClientSpec => []ClientSafe
  <1>1. ClientInv => ClientSafe
    <2> SUFFICES ASSUME ClientInv PROVE ClientSafe
      OBVIOUS
    <2>1. ClientAccounting
      BY DEF ClientInv, ClientAccounting, Counted
    <2>2. ASSUME NEW r \in Requests
          PROVE  /\ rq[r].settled <= 1
                 /\ rq[r].handler = "live" => rq[r].settled = 0
                 /\ rq[r].handler = "deleted" => rq[r].settled = 1
                 /\ rq[r].used = "deleted" =>
                      rq[r].how = "threads" \/ (rq[r].how = "loop" /\ rq[r].path = "error")
                 /\ rq[r].answer = "ok" => rq[r].expected = UntilClose \/ rq[r].got >= rq[r].expected
      BY DEF ClientInv, Sane, Owned, AllBytes
    <2>3. ASSUME NEW r \in Requests, AtRest(rq[r])
          PROVE  /\ rq[r].handler = "live" => LeakedConnection(rq[r])
                 /\ Exists(rq[r]) => LeakedConnection(rq[r])
      <3> DEFINE c == rq[r]
      <3>1. c \in RequestType /\ Sane(c)
        BY DEF ClientInv
      <3>2. c.conn \in {"none", "idle", "busy", "closed", "deleted"} /\ c.park \in {"no", "waiting", "due"}
            /\ c.how \in {"loop", "threads", "sync"}
        BY <3>1 DEF RequestType
      <3>3. /\ c.op = "none" /\ c.pc = "none" /\ c.park # "due" /\ c.complete # "due"
        BY <2>3 DEF AtRest
      <3> HIDE DEF c
      <3>4. c.handler = "live" => LeakedConnection(c)
        BY <3>1, <3>3 DEF Sane, Owned
      <3>5. Exists(c) => LeakedConnection(c)
        BY <3>1, <3>2, <3>3, <3>4 DEF Sane, Owned, Exists, LeakedConnection
      <3> QED BY <3>4, <3>5 DEF c
    <2> QED BY <2>1, <2>2, <2>3 DEF ClientSafe, SettledOnce, NoUseAfterDelete, NoTruncatedResponse
  <1> QED BY <1>1, ClientInvariant, PTL

-----------------------------------------------------------------------------
(* TCPServer, UDPServer, TCPConnection and DNSCache.                       *)

\* The connections that will close their descriptor.
Live(o) == conn[o].state = "live" /\ ~conn[o].closed

SocketType == [id : Nat, bytes : Nat, nonblock : BOOLEAN]
ServerType == [fd : Fds \cup {-1}, armed : BOOLEAN]
ConnType == [state : {"none", "live"}, fd : Fds \cup {-1}, id : Nat, closed : BOOLEAN]

SocketsTyped ==
  /\ fds \in [DOMAIN fds -> SocketType] /\ DOMAIN fds \subseteq Fds
  /\ sockets \in Nat /\ tcp \in ServerType /\ udp \in ServerType
  /\ tasks \subseteq Fds /\ lost \subseteq Fds
  /\ conn \in [Connections -> ConnType]
  /\ async \in [pc : {"idle", "register", "release"}, obj : Connections \cup {Nobody}]
  /\ ready \subseteq Connections

\* What is held is open, and is the socket it was made for.
HeldOpen ==
  /\ tcp.fd \in DOMAIN fds \cup {-1} /\ udp.fd \in DOMAIN fds \cup {-1}
  /\ tasks \subseteq DOMAIN fds /\ lost \subseteq DOMAIN fds
  /\ \A o \in Connections : Live(o) => Own(o)

\* Nothing is held twice.
HeldOnce ==
  /\ tcp.fd # -1 => tcp.fd # udp.fd
  /\ tcp.fd \notin tasks /\ tcp.fd \notin lost /\ udp.fd \notin tasks /\ udp.fd \notin lost
  /\ \A fd \in tasks : fd \notin lost
  /\ \A o \in Connections : Live(o) =>
       /\ conn[o].fd # tcp.fd /\ conn[o].fd # udp.fd
       /\ conn[o].fd \notin tasks /\ conn[o].fd \notin lost
       /\ \A p \in Connections : Live(p) /\ conn[p].fd = conn[o].fd => p = o

\* Nothing open is forgotten.
AllHeld ==
  \A fd \in DOMAIN fds :
    \/ fd = tcp.fd \/ fd = udp.fd \/ fd \in tasks \/ fd \in lost
    \/ \E o \in Connections : Live(o) /\ conn[o].fd = fd

\* What the loop will give to on_ready is alive, and so is what connectAsync() has not
\* registered yet.
Pending ==
  /\ \A o \in ready : Live(o)
  /\ async.pc = "register" => async.obj \in Connections /\ Live(async.obj) /\ async.obj \notin ready

SocketsInv == SocketsTyped /\ HeldOpen /\ HeldOnce /\ AllHeld /\ Pending /\ ~misused

LEMMA LeastNatural ==
  ASSUME NEW S \in SUBSET Nat, S # {}
  PROVE  \E m \in S : \A k \in S : m <= k
<1>1. PICK m \in S : \A k \in S : ~(<<k, m>> \in OpToRel(<, Nat))
  BY NatLessThanWellFounded, WFMin
<1>2. \A k \in S : ~(k < m)
  BY <1>1 DEF OpToRel
<1> QED BY <1>2

\* The kernel finds a number that is not in use.
LEMMA NewFdFree == ASSUME SocketsTyped, CanOpen PROVE newFd \in Fds /\ newFd \notin DOMAIN fds
  <1> DEFINE F == Fds \ DOMAIN fds
  <1>1. IsFiniteSet(Fds) /\ Cardinality(Fds) = MaxFd
    <2>1. MaxFd \in Nat
      BY NetAssumption
    <2>2. IsFiniteSet(0..(MaxFd - 1)) /\ Cardinality(0..(MaxFd - 1)) = IF 0 > MaxFd - 1 THEN 0 ELSE (MaxFd - 1) - 0 + 1
      BY <2>1, FS_Interval
    <2> QED BY <2>1, <2>2 DEF Fds
  <1>2. F # {}
    <2>1. CASE F = {}
      <3>1. Fds = DOMAIN fds
        BY <2>1 DEF SocketsTyped
      <3> QED BY <3>1, <1>1, NetAssumption DEF CanOpen
    <2> QED BY <2>1
  <1>3. F \subseteq Nat
    BY NetAssumption DEF Fds
  <1>4. \E n \in F : \A m \in F : n <= m
    BY <1>2, <1>3, LeastNatural
  <1>5. newFd \in F
    BY <1>4 DEF newFd
  <1> QED BY <1>5

\* socket(2) and accept(2).
LEMMA OpensOne ==
  ASSUME SocketsTyped, CanOpen, NEW b \in BOOLEAN
  PROVE  /\ newFd \in Fds /\ newFd \notin DOMAIN fds /\ newFd # -1
         /\ DOMAIN OpenedFds(b) = DOMAIN fds \cup {newFd}
         /\ OpenedFds(b) \in [DOMAIN OpenedFds(b) -> SocketType]
         /\ \A d \in DOMAIN fds : OpenedFds(b)[d] = fds[d]
         /\ OpenedFds(b)[newFd].id = sockets + 1 /\ sockets + 1 \in Nat
  <1>1. newFd \in Fds /\ newFd \notin DOMAIN fds
    BY NewFdFree
  <1>2. newFd # -1
    BY <1>1, NetAssumption DEF Fds
  <1>3. sockets + 1 \in Nat
    BY DEF SocketsTyped
  <1> DEFINE r == [id |-> sockets + 1, bytes |-> 0, nonblock |-> b]
  <1>4. r \in SocketType /\ r.id = sockets + 1
    BY <1>3 DEF SocketType
  <1> HIDE DEF r
  <1>5. OpenedFds(b) = [d \in DOMAIN fds \cup {newFd} |-> IF d = newFd THEN r ELSE fds[d]]
    BY DEF OpenedFds, r
  <1> QED BY <1>1, <1>2, <1>3, <1>4, <1>5 DEF SocketsTyped

Held == HeldOpen /\ HeldOnce /\ AllHeld

\* A step that opens, closes and hands over nothing.
LEMMA HeldSame ==
  ASSUME SocketsInv, DOMAIN fds' = DOMAIN fds, \A d \in DOMAIN fds : fds'[d].id = fds[d].id,
         tcp'.fd = tcp.fd, udp'.fd = udp.fd, UNCHANGED <<tasks, conn, lost>>
  PROVE  Held'
  <1>1. \A o \in Connections : Live(o)' = Live(o) /\ (Own(o)' <=> Own(o))
    BY DEF Live, Own
  <1>2. HeldOpen'
    BY <1>1 DEF SocketsInv, HeldOpen
  <1>3. HeldOnce'
    BY <1>1 DEF SocketsInv, HeldOnce
  <1>4. AllHeld'
    BY <1>1 DEF SocketsInv, AllHeld
  <1> QED BY <1>2, <1>3, <1>4 DEF Held

\* A new descriptor for a server, whose earlier one is lost.
LEMMA HeldListen ==
  ASSUME SocketsInv, CanOpen, NEW b \in BOOLEAN, fds' = OpenedFds(b),
         UNCHANGED <<tasks, conn>>,
         \/ /\ tcp'.fd = newFd /\ udp' = udp
            /\ lost' = IF tcp.fd = -1 THEN lost ELSE lost \cup {tcp.fd}
         \/ /\ udp'.fd = newFd /\ tcp' = tcp
            /\ lost' = IF udp.fd = -1 THEN lost ELSE lost \cup {udp.fd}
  PROVE  Held' /\ lost' \subseteq Fds
  <1> USE DEF SocketsInv
  <1>1. /\ newFd \in Fds /\ newFd \notin DOMAIN fds /\ newFd # -1
        /\ DOMAIN fds' = DOMAIN fds \cup {newFd}
        /\ \A d \in DOMAIN fds : fds'[d] = fds[d]
    BY OpensOne
  <1>2. \A o \in Connections : Live(o)' = Live(o) /\ conn'[o] = conn[o] /\ (Live(o) => Own(o)')
    BY <1>1 DEF Live, Own, HeldOpen
  <1>3. \A o \in Connections : Live(o) => conn[o].fd \in DOMAIN fds
    BY DEF HeldOpen, Own
  <1>4. lost' \subseteq Fds /\ lost' \subseteq DOMAIN fds
    BY DEF SocketsTyped, HeldOpen, ServerType
  <1>5. HeldOpen'
    BY <1>1, <1>2, <1>4 DEF HeldOpen
  <1>6. HeldOnce'
    BY <1>1, <1>2, <1>3 DEF HeldOnce, HeldOpen
  <1>7. AllHeld'
    <2>1. ASSUME NEW fd \in DOMAIN fds'
          PROVE  \/ fd = tcp'.fd \/ fd = udp'.fd \/ fd \in tasks' \/ fd \in lost'
                 \/ \E o \in Connections : Live(o)' /\ conn'[o].fd = fd
      <3>1. CASE fd = newFd
        BY <3>1
      <3>2. CASE fd \in DOMAIN fds /\ fd # -1
        <4>1. \/ fd = tcp.fd \/ fd = udp.fd \/ fd \in tasks \/ fd \in lost
              \/ \E o \in Connections : Live(o) /\ conn[o].fd = fd
          BY <3>2 DEF AllHeld
        <4>2. \A d : (d \in lost \/ (d # -1 /\ d \in {tcp.fd, udp.fd})) =>
                 d \in lost' \/ d = tcp'.fd \/ d = udp'.fd
          OBVIOUS
        <4> QED BY <3>2, <4>1, <4>2, <1>2
      <3> QED BY <3>1, <3>2, <1>1, NetAssumption DEF SocketsTyped, Fds
    <2> QED BY <2>1 DEF AllHeld
  <1> QED BY <1>4, <1>5, <1>6, <1>7 DEF Held

\* An accepted descriptor, for a task or for nobody.
LEMMA HeldAccept ==
  ASSUME SocketsInv, CanOpen, NEW b \in BOOLEAN, fds' = OpenedFds(b),
         UNCHANGED <<tcp, udp, conn>>,
         \/ tasks' = tasks \cup {newFd} /\ lost' = lost
         \/ tasks' = tasks /\ lost' = lost \cup {newFd}
  PROVE  Held' /\ tasks' \subseteq Fds /\ lost' \subseteq Fds
  <1> USE DEF SocketsInv
  <1>1. /\ newFd \in Fds /\ newFd \notin DOMAIN fds /\ newFd # -1
        /\ DOMAIN fds' = DOMAIN fds \cup {newFd}
        /\ \A d \in DOMAIN fds : fds'[d] = fds[d]
    BY OpensOne
  <1>2. \A o \in Connections : Live(o)' = Live(o) /\ conn'[o] = conn[o] /\ (Live(o) => Own(o)')
    BY <1>1 DEF Live, Own, HeldOpen
  <1>3. \A o \in Connections : Live(o) => conn[o].fd \in DOMAIN fds
    BY DEF HeldOpen, Own
  <1>4. tasks' \subseteq Fds /\ lost' \subseteq Fds
    BY <1>1 DEF SocketsTyped
  <1>5. HeldOpen'
    BY <1>1, <1>2 DEF HeldOpen
  <1>6. HeldOnce'
    BY <1>1, <1>2, <1>3 DEF HeldOnce, HeldOpen
  <1>7. AllHeld'
    BY <1>1, <1>2 DEF AllHeld
  <1> QED BY <1>4, <1>5, <1>6, <1>7 DEF Held

\* A connection that was not there before, and the descriptor in it: all the others are
\* as they were.
LEMMA MadeConn ==
  ASSUME SocketsTyped, NEW o \in Unused, NEW fd \in Fds, NEW id \in Nat, conn' = NewConn(o, fd, id)
  PROVE  /\ conn' \in [Connections -> ConnType] /\ ~Live(o) /\ o \in Connections
         /\ Live(o)' /\ conn'[o].fd = fd /\ conn'[o].id = id
         /\ \A p \in Connections \ {o} : conn'[p] = conn[p] /\ Live(p)' = Live(p)
  <1>1. o \in Connections /\ conn[o].state = "none"
    BY DEF Unused
  <1> DEFINE c == [state |-> "live", fd |-> fd, id |-> id, closed |-> FALSE]
  <1>2. c \in ConnType /\ c.state = "live" /\ ~c.closed /\ c.fd = fd /\ c.id = id
    BY DEF ConnType
  <1> HIDE DEF c
  <1>3. conn' = [conn EXCEPT ![o] = c]
    BY DEF NewConn, c
  <1>4. conn'[o] = c /\ \A p \in Connections \ {o} : conn'[p] = conn[p]
    BY <1>1, <1>3 DEF SocketsTyped
  <1>5. conn' \in [Connections -> ConnType]
    BY <1>1, <1>2, <1>3 DEF SocketsTyped
  <1> QED BY <1>1, <1>2, <1>4, <1>5 DEF Live

LEMMA HeldConnect ==
  ASSUME SocketsInv, CanOpen, NEW b \in BOOLEAN, fds' = OpenedFds(b), NEW o \in Unused,
         connectImpl(o), UNCHANGED <<tcp, udp, tasks, lost>>
  PROVE  Held' /\ conn' \in [Connections -> ConnType]
         /\ (\A p \in Connections : Live(p) => Live(p)') /\ Live(o)' /\ ~Live(o) /\ o \in Connections
  <1> USE DEF SocketsInv
  <1>1. /\ newFd \in Fds /\ newFd \notin DOMAIN fds /\ newFd # -1
        /\ DOMAIN fds' = DOMAIN fds \cup {newFd}
        /\ \A d \in DOMAIN fds : fds'[d] = fds[d]
        /\ fds'[newFd].id = sockets + 1 /\ sockets + 1 \in Nat
    BY OpensOne
  <1>2. /\ conn' \in [Connections -> ConnType] /\ ~Live(o) /\ o \in Connections
        /\ Live(o)' /\ conn'[o].fd = newFd /\ conn'[o].id = sockets + 1
        /\ \A p \in Connections \ {o} : conn'[p] = conn[p] /\ Live(p)' = Live(p)
    BY <1>1, MadeConn DEF connectImpl
  <1>3. \A p \in Connections : Live(p) => conn[p].fd \in DOMAIN fds /\ Own(p) /\ p # o
    BY <1>2 DEF HeldOpen, Own
  <1>4. \A p \in Connections : Live(p)' => Own(p)'
    <2> TAKE p \in Connections
    <2> HAVE Live(p)'
    <2>1. CASE p = o
      BY <2>1, <1>1, <1>2 DEF Own
    <2>2. CASE p # o
      BY <2>2, <1>1, <1>2, <1>3 DEF Own
    <2> QED BY <2>1, <2>2
  <1>5. HeldOpen'
    BY <1>1, <1>4 DEF HeldOpen
  <1>6. HeldOnce'
    <2>1. /\ tcp.fd # -1 => tcp.fd # udp.fd
          /\ tcp.fd \notin tasks /\ tcp.fd \notin lost /\ udp.fd \notin tasks /\ udp.fd \notin lost
          /\ \A fd \in tasks : fd \notin lost
          /\ newFd # tcp.fd /\ newFd # udp.fd /\ newFd \notin tasks /\ newFd \notin lost
      BY <1>1 DEF HeldOnce, HeldOpen
    <2>2. ASSUME NEW p \in Connections, Live(p)'
          PROVE  /\ conn'[p].fd # tcp.fd /\ conn'[p].fd # udp.fd
                 /\ conn'[p].fd \notin tasks /\ conn'[p].fd \notin lost
                 /\ \A q \in Connections : Live(q)' /\ conn'[q].fd = conn'[p].fd => q = p
      <3>1. CASE p = o
        BY <3>1, <2>1, <1>1, <1>2, <1>3
      <3>2. CASE p # o
        BY <3>2, <2>2, <1>1, <1>2, <1>3 DEF HeldOnce
      <3> QED BY <3>1, <3>2
    <2> QED BY <2>1, <2>2 DEF HeldOnce
  <1>7. AllHeld'
    BY <1>1, <1>2, <1>3 DEF AllHeld
  <1> QED BY <1>2, <1>3, <1>5, <1>6, <1>7 DEF Held

\* A task gives its descriptor to the connection it makes.
LEMMA HeldTask ==
  ASSUME SocketsInv, NEW fd \in tasks, NEW o \in Unused,
         tasks' = tasks \ {fd}, conn' = NewConn(o, fd, fds[fd].id), UNCHANGED <<fds, tcp, udp, lost>>
  PROVE  Held' /\ conn' \in [Connections -> ConnType]
         /\ (\A p \in Connections : Live(p) => Live(p)')
  <1> USE DEF SocketsInv
  <1>1. fd \in DOMAIN fds /\ fd \in Fds /\ fds[fd].id \in Nat
    BY DEF HeldOpen, SocketsTyped, SocketType
  <1>2. /\ conn' \in [Connections -> ConnType] /\ ~Live(o) /\ o \in Connections
        /\ Live(o)' /\ conn'[o].fd = fd /\ conn'[o].id = fds[fd].id
        /\ \A p \in Connections \ {o} : conn'[p] = conn[p] /\ Live(p)' = Live(p)
    BY <1>1, MadeConn
  <1>3. \A p \in Connections : Live(p) => Own(p) /\ p # o /\ conn[p].fd # fd
    BY <1>2 DEF HeldOpen, HeldOnce
  <1>4. \A p \in Connections : Live(p)' => Own(p)'
    <2> TAKE p \in Connections
    <2> HAVE Live(p)'
    <2>1. CASE p = o
      BY <2>1, <1>1, <1>2 DEF Own
    <2>2. CASE p # o
      BY <2>2, <1>1, <1>2, <1>3 DEF Own
    <2> QED BY <2>1, <2>2
  <1>5. HeldOpen'
    BY <1>4 DEF HeldOpen
  <1>6. HeldOnce'
    <2>1. /\ tcp.fd # -1 => tcp.fd # udp.fd
          /\ tcp.fd \notin tasks' /\ tcp.fd \notin lost /\ udp.fd \notin tasks' /\ udp.fd \notin lost
          /\ \A d \in tasks' : d \notin lost
          /\ fd # tcp.fd /\ fd # udp.fd /\ fd \notin tasks' /\ fd \notin lost
      BY DEF HeldOnce
    <2>2. ASSUME NEW p \in Connections, Live(p)'
          PROVE  /\ conn'[p].fd # tcp.fd /\ conn'[p].fd # udp.fd
                 /\ conn'[p].fd \notin tasks' /\ conn'[p].fd \notin lost
                 /\ \A q \in Connections : Live(q)' /\ conn'[q].fd = conn'[p].fd => q = p
      <3>1. CASE p = o
        BY <3>1, <2>1, <1>2, <1>3
      <3>2. CASE p # o
        BY <3>2, <2>2, <1>2, <1>3 DEF HeldOnce
      <3> QED BY <3>1, <3>2
    <2> QED BY <2>1, <2>2 DEF HeldOnce
  <1>7. AllHeld'
    BY <1>2, <1>3 DEF AllHeld
  <1> QED BY <1>2, <1>3, <1>5, <1>6, <1>7 DEF Held

\* A connection that has not closed its descriptor closes it, in close() or in the
\* destructor, which leaves alone what was closed.
LEMMA HeldClose ==
  ASSUME SocketsInv, NEW o \in Connections, UNCHANGED <<tcp, udp, tasks, lost>>,
         fds' = IF Live(o) THEN ClosedFds(conn[o].fd) ELSE fds,
         ~Live(o)', \A p \in Connections \ {o} : conn'[p] = conn[p]
  PROVE  /\ Held' /\ fds' \in [DOMAIN fds' -> SocketType] /\ DOMAIN fds' \subseteq Fds
         /\ Live(o) => Own(o)
         /\ \A p \in Connections \ {o} : Live(p)' = Live(p)
  <1> USE DEF SocketsInv
  <1>1. \A p \in Connections \ {o} : Live(p)' = Live(p)
    BY DEF Live
  <1>2. Live(o) => Own(o) /\ conn[o].fd \in DOMAIN fds
    BY DEF HeldOpen, Own
  <1>3. /\ DOMAIN fds' = IF Live(o) THEN DOMAIN fds \ {conn[o].fd} ELSE DOMAIN fds
        /\ \A d \in DOMAIN fds' : fds'[d] = fds[d]
        /\ fds' = [d \in DOMAIN fds' |-> fds[d]]
    BY DEF ClosedFds, SocketsTyped
  <1>4. fds' \in [DOMAIN fds' -> SocketType] /\ DOMAIN fds' \subseteq Fds
    BY <1>3 DEF SocketsTyped
  <1>5. \A p \in Connections : Live(p)' => p # o /\ Live(p) /\ Own(p) /\ conn[p].fd \in DOMAIN fds
                                         /\ (Live(o) => conn[p].fd # conn[o].fd)
    BY <1>1 DEF HeldOpen, HeldOnce, Own
  <1>6. \A p \in Connections : Live(p)' => Own(p)'
    BY <1>3, <1>5 DEF Own
  <1>7. Live(o) => conn[o].fd # tcp.fd /\ conn[o].fd # udp.fd /\ conn[o].fd \notin tasks /\ conn[o].fd \notin lost
    BY DEF HeldOnce
  <1>8. HeldOpen'
    BY <1>3, <1>6, <1>7 DEF HeldOpen
  <1>9. HeldOnce'
    BY <1>5 DEF HeldOnce
  <1>10. AllHeld'
    BY <1>1, <1>3 DEF AllHeld
  <1> QED BY <1>1, <1>2, <1>4, <1>8, <1>9, <1>10 DEF Held

\* A new descriptor is a descriptor.
LEMMA OpenedTyped ==
  ASSUME SocketsInv, CanOpen, NEW b \in BOOLEAN, fds' = OpenedFds(b)
  PROVE  /\ fds' \in [DOMAIN fds' -> SocketType] /\ DOMAIN fds' \subseteq Fds
         /\ newFd \in Fds
  <1>1. SocketsTyped
    BY DEF SocketsInv
  <1>2. /\ newFd \in Fds /\ DOMAIN OpenedFds(b) = DOMAIN fds \cup {newFd}
        /\ OpenedFds(b) \in [DOMAIN OpenedFds(b) -> SocketType]
    BY <1>1, OpensOne
  <1> QED BY <1>1, <1>2 DEF SocketsTyped

\* Changing the contents of a socket changes no number and no identity.
LEMMA SocketsChanged ==
  ASSUME SocketsInv, NEW fd \in DOMAIN fds, NEW r \in SocketType, r.id = fds[fd].id,
         fds' = [fds EXCEPT ![fd] = r]
  PROVE  /\ DOMAIN fds' = DOMAIN fds /\ \A d \in DOMAIN fds : fds'[d].id = fds[d].id
         /\ fds' \in [DOMAIN fds' -> SocketType] /\ DOMAIN fds' \subseteq Fds
  BY DEF SocketsInv, SocketsTyped

LEMMA PendingSame ==
  ASSUME SocketsInv, UNCHANGED <<async, ready>>, \A o \in Connections : Live(o) => Live(o)'
  PROVE  Pending'
  BY DEF SocketsInv, SocketsTyped, Pending

Whole == /\ fds' \in [DOMAIN fds' -> SocketType] /\ DOMAIN fds' \subseteq Fds
         /\ DOMAIN fds' = DOMAIN fds /\ \A d \in DOMAIN fds : fds'[d].id = fds[d].id

\* The steps that hand nothing over.
LEMMA QuietStep ==
  ASSUME SocketsInv, Whole, UNCHANGED <<tasks, conn, lost, sockets>>, ~misused',
         tcp' \in ServerType, tcp'.fd = tcp.fd, udp' = udp,
         async' \in [pc : {"idle", "register", "release"}, obj : Connections \cup {Nobody}],
         ready' \subseteq Connections, Pending'
  PROVE  SocketsInv'
  <1>1. Held'
    BY HeldSame DEF Whole
  <1>2. SocketsTyped'
    BY DEF SocketsInv, SocketsTyped, Whole
  <1> QED BY <1>1, <1>2 DEF SocketsInv, Held

LEMMA ArriveStep == ASSUME SocketsInv, Arrive PROVE SocketsInv'
  <1>1. PICK fd \in DOMAIN fds : fds' = [fds EXCEPT ![fd].bytes = @ + 1]
    BY DEF Arrive
  <1> DEFINE r == [fds[fd] EXCEPT !.bytes = @ + 1]
  <1>2. fds[fd] \in SocketType
    BY DEF SocketsInv, SocketsTyped
  <1>3. r \in SocketType /\ r.id = fds[fd].id
    BY <1>2 DEF SocketType
  <1>4. fds' = [fds EXCEPT ![fd] = r]
    BY <1>1
  <1> HIDE DEF r
  <1>5. Whole
    BY <1>3, <1>4, SocketsChanged DEF Whole
  <1>6. Pending'
    BY DEF Arrive, SocketsInv, Pending, Live
  <1> QED BY <1>5, <1>6, QuietStep DEF Arrive, SocketsInv, SocketsTyped

\* The kernel's backlog and the callback.
LEMMA KernelStep == ASSUME SocketsInv, Peer \/ PeerLeaves \/ onConnection PROVE SocketsInv'
  <1>1. UNCHANGED <<fds, sockets, tcp, udp, tasks, conn, async, ready, lost, misused>>
    BY DEF Peer, PeerLeaves, onConnection
  <1>2. Pending'
    BY <1>1 DEF SocketsInv, Pending, Live
  <1>3. Whole
    BY <1>1 DEF Whole, SocketsInv, SocketsTyped
  <1> QED BY <1>1, <1>2, <1>3, QuietStep DEF SocketsInv, SocketsTyped

LEMMA AcceptRaisesStep == ASSUME SocketsInv, acceptRaises PROVE SocketsInv'
  <1>1. tcp' \in ServerType /\ tcp'.fd = tcp.fd
    BY DEF acceptRaises, SocketsInv, SocketsTyped, ServerType
  <1>2. UNCHANGED <<fds, sockets, udp, tasks, conn, async, ready, lost, misused>>
    BY DEF acceptRaises
  <1>3. Pending'
    BY <1>2 DEF SocketsInv, Pending, Live
  <1>4. Whole
    BY <1>2 DEF Whole, SocketsInv, SocketsTyped
  <1> QED BY <1>1, <1>2, <1>3, <1>4, QuietStep DEF SocketsInv, SocketsTyped

\* A server listens: its earlier descriptor is lost.
LEMMA ListenStep == ASSUME SocketsInv, listenTCP \/ listenUDP PROVE SocketsInv'
  <1>1. /\ CanOpen /\ fds' = OpenedFds(TRUE) /\ sockets' = sockets + 1
        /\ UNCHANGED <<tasks, conn, async, ready, misused>>
    BY DEF listenTCP, listenUDP
  <1>2. newFd \in Fds /\ fds' \in [DOMAIN fds' -> SocketType] /\ DOMAIN fds' \subseteq Fds
    BY <1>1, OpenedTyped
  <1>3. \A ok \in BOOLEAN : [fd |-> newFd, armed |-> ok] \in ServerType
    BY <1>2 DEF ServerType
  <1>4. tcp \in ServerType /\ udp \in ServerType
    BY DEF SocketsInv, SocketsTyped
  <1>5. CASE listenTCP
    <2>1. /\ tcp'.fd = newFd /\ udp' = udp /\ tcp' \in ServerType
          /\ lost' = IF tcp.fd = -1 THEN lost ELSE lost \cup {tcp.fd}
      BY <1>3, <1>5 DEF listenTCP
    <2>2. Held' /\ lost' \subseteq Fds
      BY <1>1, <2>1, HeldListen
    <2>3. Pending'
      BY <1>1 DEF SocketsInv, Pending, Live
    <2>4. SocketsTyped'
      <3>1. sockets' \in Nat
        BY <1>1 DEF SocketsInv, SocketsTyped
      <3> QED BY <1>1, <1>2, <1>4, <2>1, <2>2, <3>1 DEF SocketsInv, SocketsTyped
    <2> QED BY <1>1, <2>2, <2>3, <2>4 DEF SocketsInv, Held
  <1>6. CASE listenUDP
    <2>1. /\ udp'.fd = newFd /\ tcp' = tcp /\ udp' \in ServerType
          /\ lost' = IF udp.fd = -1 THEN lost ELSE lost \cup {udp.fd}
      BY <1>3, <1>6 DEF listenUDP
    <2>2. Held' /\ lost' \subseteq Fds
      BY <1>1, <2>1, HeldListen
    <2>3. Pending'
      BY <1>1 DEF SocketsInv, Pending, Live
    <2>4. SocketsTyped'
      <3>1. sockets' \in Nat
        BY <1>1 DEF SocketsInv, SocketsTyped
      <3> QED BY <1>1, <1>2, <1>4, <2>1, <2>2, <3>1 DEF SocketsInv, SocketsTyped
    <2> QED BY <1>1, <2>2, <2>3, <2>4 DEF SocketsInv, Held
  <1> QED BY <1>5, <1>6

LEMMA AcceptStep == ASSUME SocketsInv, accept PROVE SocketsInv'
  <1>1. /\ CanOpen /\ fds' = OpenedFds(FALSE) /\ sockets' = sockets + 1
        /\ UNCHANGED <<tcp, udp, conn, async, ready, misused>>
        /\ \/ tasks' = tasks \cup {newFd} /\ lost' = lost
           \/ tasks' = tasks /\ lost' = lost \cup {newFd}
    BY DEF accept
  <1>2. fds' \in [DOMAIN fds' -> SocketType] /\ DOMAIN fds' \subseteq Fds
    BY <1>1, OpenedTyped
  <1>3. Held' /\ tasks' \subseteq Fds /\ lost' \subseteq Fds
    BY <1>1, HeldAccept
  <1>4. Pending'
    BY <1>1 DEF SocketsInv, Pending, Live
  <1>5. SocketsTyped'
    <2>1. sockets' \in Nat
      BY <1>1 DEF SocketsInv, SocketsTyped
    <2> QED BY <1>1, <1>2, <1>3, <2>1 DEF SocketsInv, SocketsTyped
  <1> QED BY <1>1, <1>3, <1>4, <1>5 DEF SocketsInv, Held

LEMMA TaskStep == ASSUME SocketsInv, connectionTask PROVE SocketsInv'
  <1>1. PICK fd \in tasks, o \in Unused : tasks' = tasks \ {fd} /\ conn' = NewConn(o, fd, fds[fd].id)
    BY DEF connectionTask
  <1>2. UNCHANGED <<fds, sockets, tcp, udp, async, ready, lost, misused>>
    BY DEF connectionTask
  <1>3. /\ Held' /\ conn' \in [Connections -> ConnType]
        /\ \A p \in Connections : Live(p) => Live(p)'
    BY <1>1, <1>2, HeldTask
  <1>4. Pending'
    BY <1>2, <1>3, PendingSame
  <1> QED BY <1>1, <1>2, <1>3, <1>4 DEF SocketsInv, SocketsTyped, Held

\* A connect() that raised leaves nothing but a number used.
LEMMA RaisedStep ==
  ASSUME SocketsInv, sockets' = sockets + 1,
         UNCHANGED <<fds, tcp, udp, tasks, conn, async, ready, lost, misused>>
  PROVE  SocketsInv'
  <1>1. Held'
    BY HeldSame
  <1>2. Pending'
    BY DEF SocketsInv, Pending, Live
  <1>3. SocketsTyped'
    BY DEF SocketsInv, SocketsTyped
  <1> QED BY <1>1, <1>2, <1>3 DEF SocketsInv, Held

LEMMA ConnectStep == ASSUME SocketsInv, connect PROVE SocketsInv'
  <1>1. CanOpen /\ sockets' = sockets + 1 /\ UNCHANGED <<tcp, udp, tasks, async, ready, lost, misused>>
    BY DEF connect
  <1>2. CASE UNCHANGED <<conn, fds>>
    BY <1>1, <1>2, RaisedStep
  <1>3. ASSUME NEW o \in Unused, connectImpl(o), fds' = OpenedFds(FALSE) PROVE SocketsInv'
    <2>1. fds' \in [DOMAIN fds' -> SocketType] /\ DOMAIN fds' \subseteq Fds
      BY <1>1, <1>3, OpenedTyped
    <2>2. /\ Held' /\ conn' \in [Connections -> ConnType]
          /\ \A p \in Connections : Live(p) => Live(p)'
      BY <1>1, <1>3, HeldConnect
    <2>3. Pending'
      BY <1>1, <2>2, PendingSame
    <2> QED BY <1>1, <2>1, <2>2, <2>3 DEF SocketsInv, SocketsTyped, Held
  <1> QED BY <1>2, <1>3 DEF connect

\* connectAsync() makes a connection that is alive and not registered.
LEMMA ConnectAsyncStep == ASSUME SocketsInv, connectAsync PROVE SocketsInv'
  <1>1. CanOpen /\ sockets' = sockets + 1 /\ UNCHANGED <<tcp, udp, tasks, ready, lost, misused>>
    BY DEF connectAsync
  <1>2. CASE UNCHANGED <<conn, fds, async>>
    BY <1>1, <1>2, RaisedStep
  <1>3. ASSUME NEW o \in Unused, connectImpl(o), fds' = OpenedFds(TRUE),
               async' = [pc |-> "register", obj |-> o]
        PROVE  SocketsInv'
    <2>1. fds' \in [DOMAIN fds' -> SocketType] /\ DOMAIN fds' \subseteq Fds
      BY <1>1, <1>3, OpenedTyped
    <2>2. /\ Held' /\ conn' \in [Connections -> ConnType]
          /\ (\A p \in Connections : Live(p) => Live(p)') /\ Live(o)' /\ ~Live(o) /\ o \in Connections
      BY <1>1, <1>3, HeldConnect
    <2>3. async'.obj = o /\ async' \in [pc : {"idle", "register", "release"}, obj : Connections \cup {Nobody}]
      BY <1>3, <2>2
    <2>4. Pending'
      <3>1. o \notin ready
        BY <2>2 DEF SocketsInv, Pending
      <3>2. \A p \in ready' : Live(p)'
        BY <1>1, <2>2 DEF SocketsInv, SocketsTyped, Pending
      <3>3. async'.obj \in Connections /\ Live(o)' /\ async'.obj \notin ready'
        BY <1>1, <2>2, <2>3, <3>1
      <3>4. Live(async.obj)'
        BY <2>2, <2>3 DEF Live
      <3> QED BY <3>2, <3>3, <3>4 DEF Pending
    <2> QED BY <1>1, <2>1, <2>2, <2>3, <2>4 DEF SocketsInv, SocketsTyped, Held
  <1> QED BY <1>2, <1>3 DEF connectAsync


LEMMA RegisteredStep == ASSUME SocketsInv, registered PROVE SocketsInv'
  <1>1. /\ UNCHANGED <<fds, sockets, tcp, udp, tasks, conn, lost, misused>>
        /\ async.pc = "register" /\ ready' = ready \cup {async.obj}
    BY DEF registered
  <1>2. async' = [async EXCEPT !.pc = "release"]
        /\ async \in [pc : {"idle", "register", "release"}, obj : Connections \cup {Nobody}]
    BY DEF registered, SocketsInv, SocketsTyped
  <1>3. /\ async'.pc = "release"
        /\ async' \in [pc : {"idle", "register", "release"}, obj : Connections \cup {Nobody}]
    BY <1>2
  <1>4. async.obj \in Connections /\ Live(async.obj)
    BY <1>1 DEF SocketsInv, Pending
  <1>5. \A o \in ready' : Live(o)'
    BY <1>1, <1>4 DEF SocketsInv, Pending, Live
  <1>6. Pending'
    BY <1>3, <1>5 DEF Pending
  <1>7. Whole
    BY <1>1 DEF Whole, SocketsInv, SocketsTyped
  <1>8. ready' \subseteq Connections /\ tcp' \in ServerType
    BY <1>1, <1>4 DEF SocketsInv, SocketsTyped
  <1> QED BY <1>1, <1>3, <1>6, <1>7, <1>8, QuietStep DEF SocketsInv

LEMMA ReleasedStep == ASSUME SocketsInv, released PROVE SocketsInv'
  <1>1. UNCHANGED <<fds, sockets, tcp, udp, tasks, conn, ready, lost, misused>>
    BY DEF released
  <1>2. /\ async'.pc = "idle"
        /\ async' \in [pc : {"idle", "register", "release"}, obj : Connections \cup {Nobody}]
    BY DEF released
  <1>3. Pending'
    BY <1>1, <1>2 DEF SocketsInv, Pending, Live
  <1>4. Whole
    BY <1>1 DEF Whole, SocketsInv, SocketsTyped
  <1>5. ready' \subseteq Connections /\ tcp' \in ServerType
    BY <1>1 DEF SocketsInv, SocketsTyped
  <1> QED BY <1>1, <1>2, <1>3, <1>4, <1>5, QuietStep DEF SocketsInv

\* The destructor closes what its object still holds, and nothing else.
LEMMA DestroyedHolds ==
  ASSUME SocketsInv, NEW o \in Connections, conn[o].state = "live", Destroyed(o),
         UNCHANGED <<tcp, udp, tasks, lost>>
  PROVE  /\ Held' /\ fds' \in [DOMAIN fds' -> SocketType] /\ DOMAIN fds' \subseteq Fds
         /\ conn' \in [Connections -> ConnType] /\ ~misused'
         /\ \A p \in Connections \ {o} : Live(p)' = Live(p)
  <1>1. conn \in [Connections -> ConnType] /\ conn[o].closed \in BOOLEAN
    BY DEF SocketsInv, SocketsTyped, ConnType
  <1>2. NoConn \in ConnType /\ NoConn.state = "none"
    BY DEF NoConn, ConnType
  <1>3. /\ conn' \in [Connections -> ConnType] /\ conn'[o].state = "none"
        /\ \A p \in Connections \ {o} : conn'[p] = conn[p]
    BY <1>1, <1>2 DEF Destroyed
  <1>4. ~Live(o)'
    BY <1>3 DEF Live
  <1>5. fds' = IF Live(o) THEN ClosedFds(conn[o].fd) ELSE fds
    BY <1>1 DEF Destroyed, Live
  <1>6. /\ Held' /\ fds' \in [DOMAIN fds' -> SocketType] /\ DOMAIN fds' \subseteq Fds
        /\ Live(o) => Own(o)
        /\ \A p \in Connections \ {o} : Live(p)' = Live(p)
    BY <1>3, <1>4, <1>5, HeldClose
  <1>7. ~misused'
    BY <1>1, <1>6 DEF Destroyed, Live, SocketsInv
  <1> QED BY <1>3, <1>6, <1>7

LEMMA CloseStep == ASSUME SocketsInv, NEW o \in Connections, closeConnection(o) PROVE SocketsInv'
  <1>1. /\ Live(o) /\ o \notin ready /\ async.obj # o /\ fds' = ClosedFds(conn[o].fd)
        /\ UNCHANGED <<sockets, tcp, udp, tasks, async, ready, lost>>
        /\ misused' = (misused \/ ~Own(o))
    BY DEF closeConnection, Live
  <1>2. /\ conn' \in [Connections -> ConnType] /\ conn'[o].closed
        /\ \A p \in Connections \ {o} : conn'[p] = conn[p]
    BY DEF closeConnection, SocketsInv, SocketsTyped, ConnType
  <1>3. ~Live(o)'
    BY <1>2 DEF Live
  <1>4. /\ Held' /\ fds' \in [DOMAIN fds' -> SocketType] /\ DOMAIN fds' \subseteq Fds
        /\ Own(o)
        /\ \A p \in Connections \ {o} : Live(p)' = Live(p)
    BY <1>1, <1>2, <1>3, HeldClose
  <1>5. SocketsTyped'
    BY <1>1, <1>2, <1>4 DEF SocketsInv, SocketsTyped
  <1>6. \A p \in ready' : Live(p)'
    BY <1>1, <1>4 DEF SocketsInv, SocketsTyped, Pending
  <1>7. async'.pc = "register" => async'.obj \in Connections /\ Live(async.obj)' /\ async'.obj \notin ready'
    <2>1. async'.pc = "register" => async.obj \in Connections \ {o} /\ Live(async.obj) /\ async.obj \notin ready
      BY <1>1 DEF SocketsInv, Pending
    <2>2. Live(async.obj)' = (conn'[async.obj].state = "live" /\ ~conn'[async.obj].closed)
      BY <1>1 DEF Live
    <2> QED BY <1>1, <1>2, <2>1, <2>2 DEF Live
  <1>8. Pending'
    BY <1>6, <1>7 DEF Pending
  <1> QED BY <1>1, <1>4, <1>5, <1>8 DEF SocketsInv, Held

LEMMA DestroyStep == ASSUME SocketsInv, NEW o \in Connections, destroyConnection(o) PROVE SocketsInv'
  <1>1. /\ conn[o].state = "live" /\ o \notin ready /\ async.obj # o /\ Destroyed(o)
        /\ UNCHANGED <<sockets, tcp, udp, tasks, async, ready, lost>>
    BY DEF destroyConnection
  <1>2. /\ Held' /\ fds' \in [DOMAIN fds' -> SocketType] /\ DOMAIN fds' \subseteq Fds
        /\ conn' \in [Connections -> ConnType] /\ ~misused'
        /\ \A p \in Connections \ {o} : Live(p)' = Live(p)
    BY <1>1, DestroyedHolds
  <1>3. SocketsTyped'
    BY <1>1, <1>2 DEF SocketsInv, SocketsTyped
  <1>4. \A p \in ready' : Live(p)'
    BY <1>1, <1>2 DEF SocketsInv, SocketsTyped, Pending
  <1>5. async'.pc = "register" => async'.obj \in Connections /\ Live(async.obj)' /\ async'.obj \notin ready'
    <2>1. async'.pc = "register" => async.obj \in Connections \ {o} /\ Live(async.obj) /\ async.obj \notin ready
      BY <1>1 DEF SocketsInv, Pending
    <2>2. async.pc = "register" => conn'[async.obj] = conn[async.obj]
      BY <1>1, <2>1 DEF Destroyed, SocketsInv, SocketsTyped
    <2> QED BY <1>1, <2>1, <2>2 DEF Live
  <1>6. Pending'
    BY <1>4, <1>5 DEF Pending
  <1> QED BY <1>2, <1>3, <1>6 DEF SocketsInv, Held

LEMMA RegistrationStep == ASSUME SocketsInv, registrationRaises PROVE SocketsInv'
  <1>1. /\ async.pc = "register" /\ Destroyed(async.obj)
        /\ UNCHANGED <<sockets, tcp, udp, tasks, ready, lost>>
    BY DEF registrationRaises
  <1>2. /\ async'.pc = "idle"
        /\ async' \in [pc : {"idle", "register", "release"}, obj : Connections \cup {Nobody}]
    BY DEF registrationRaises
  <1>3. PICK o \in Connections : o = async.obj
    BY <1>1 DEF SocketsInv, Pending
  <1>4. conn[o].state = "live" /\ o \notin ready /\ Destroyed(o)
    BY <1>1, <1>3 DEF SocketsInv, Pending, Live
  <1>5. /\ Held' /\ fds' \in [DOMAIN fds' -> SocketType] /\ DOMAIN fds' \subseteq Fds
        /\ conn' \in [Connections -> ConnType] /\ ~misused'
        /\ \A p \in Connections \ {o} : Live(p)' = Live(p)
    BY <1>1, <1>4, DestroyedHolds
  <1>6. SocketsTyped'
    BY <1>1, <1>2, <1>5 DEF SocketsInv, SocketsTyped
  <1>7. Pending'
    <2>1. \A p \in ready' : Live(p)'
      BY <1>1, <1>4, <1>5 DEF SocketsInv, SocketsTyped, Pending
    <2> QED BY <1>2, <2>1 DEF Pending
  <1> QED BY <1>5, <1>6, <1>7 DEF SocketsInv, Held

LEMMA OnReadyStep == ASSUME SocketsInv, onReady PROVE SocketsInv'
  <1>1. PICK o \in ready : ready' = ready \ {o} /\ (Destroyed(o) \/ UNCHANGED <<conn, fds, misused>>)
    BY DEF onReady
  <1>2. UNCHANGED <<sockets, tcp, udp, tasks, async, lost>>
    BY DEF onReady
  <1>3. o \in Connections /\ conn[o].state = "live"
    BY DEF SocketsInv, SocketsTyped, Pending, Live
  <1>4. async.pc = "register" => async.obj \in Connections \ {o} /\ Live(async.obj) /\ async.obj \notin ready
    BY DEF SocketsInv, Pending
  <1>5. CASE Destroyed(o)
    <2>1. /\ Held' /\ fds' \in [DOMAIN fds' -> SocketType] /\ DOMAIN fds' \subseteq Fds
          /\ conn' \in [Connections -> ConnType] /\ ~misused'
          /\ \A p \in Connections \ {o} : Live(p)' = Live(p)
      BY <1>2, <1>3, <1>5, DestroyedHolds
    <2>2. SocketsTyped'
      BY <1>1, <1>2, <2>1 DEF SocketsInv, SocketsTyped
    <2>3. \A p \in ready' : Live(p)'
      BY <1>1, <2>1 DEF SocketsInv, SocketsTyped, Pending
    <2>4. async.pc = "register" => conn'[async.obj] = conn[async.obj]
      BY <1>4, <1>5 DEF Destroyed, SocketsInv, SocketsTyped
    <2>5. async'.pc = "register" => async'.obj \in Connections /\ Live(async.obj)' /\ async'.obj \notin ready'
      BY <1>1, <1>2, <1>4, <2>4 DEF Live
    <2>6. Pending'
      BY <2>3, <2>5 DEF Pending
    <2> QED BY <2>1, <2>2, <2>6 DEF SocketsInv, Held
  <1>6. CASE UNCHANGED <<conn, fds, misused>>
    <2>1. Pending'
      BY <1>1, <1>2, <1>4, <1>6 DEF SocketsInv, Pending, Live
    <2>2. Whole
      BY <1>6 DEF Whole, SocketsInv, SocketsTyped
    <2>3. /\ ready' \subseteq Connections /\ tcp' \in ServerType
          /\ async' \in [pc : {"idle", "register", "release"}, obj : Connections \cup {Nobody}]
      BY <1>1, <1>2 DEF SocketsInv, SocketsTyped
    <2> QED BY <1>2, <1>6, <2>1, <2>2, <2>3, QuietStep DEF SocketsInv
  <1> QED BY <1>1, <1>5, <1>6

\* read(), write() and setNonblocking().
LEMMA UseStep ==
  ASSUME SocketsInv, NEW o \in Connections,
         readFrom(o) \/ writeTo(o) \/ \E b \in BOOLEAN : setNonblocking(o, b)
  PROVE  SocketsInv'
  <1>1. UNCHANGED <<sockets, tcp, udp, tasks, conn, async, ready, lost>>
    BY DEF readFrom, writeTo, setNonblocking
  <1>2. Pending'
    BY <1>1 DEF SocketsInv, Pending, Live
  <1>3. /\ ready' \subseteq Connections /\ tcp' \in ServerType
        /\ async' \in [pc : {"idle", "register", "release"}, obj : Connections \cup {Nobody}]
    BY <1>1 DEF SocketsInv, SocketsTyped
  <1>4. ~misused /\ (Live(o) => Own(o))
    BY DEF SocketsInv, HeldOpen
  <1>5. ~misused'
    <2>1. CASE readFrom(o) \/ writeTo(o)
      <3>1. Live(o) /\ misused' = (misused \/ ~Own(o))
        BY <2>1 DEF readFrom, writeTo, Live
      <3> QED BY <3>1, <1>4
    <2>2. CASE \E b \in BOOLEAN : setNonblocking(o, b)
      BY <1>4, <2>2 DEF setNonblocking
    <2> QED BY <2>1, <2>2
  <1>6. Whole
    <2>1. CASE fds' = fds
      BY <2>1 DEF Whole, SocketsInv, SocketsTyped
    <2>2. CASE readFrom(o) /\ Own(o)
      <3>1. conn[o].fd \in DOMAIN fds /\ fds[conn[o].fd].bytes > 0
        BY <2>2 DEF readFrom, Own
      <3>2. PICK fd \in DOMAIN fds : fd = conn[o].fd
        BY <3>1
      <3> DEFINE r == [fds[fd] EXCEPT !.bytes = @ - 1]
      <3>3. fds[fd] \in SocketType
        BY DEF SocketsInv, SocketsTyped
      <3>4. r \in SocketType /\ r.id = fds[fd].id
        BY <3>1, <3>2, <3>3 DEF SocketType
      <3>5. fds' = [fds EXCEPT ![fd] = r]
        BY <2>2, <3>2 DEF readFrom
      <3> HIDE DEF r
      <3> QED BY <3>4, <3>5, SocketsChanged DEF Whole
    <2>3. ASSUME NEW b \in BOOLEAN, setNonblocking(o, b) PROVE Whole
      <3>1. conn[o].fd \in DOMAIN fds
        BY <2>3 DEF setNonblocking, Own
      <3>2. PICK fd \in DOMAIN fds : fd = conn[o].fd
        BY <3>1
      <3> DEFINE r == [fds[fd] EXCEPT !.nonblock = b]
      <3>3. fds[fd] \in SocketType
        BY DEF SocketsInv, SocketsTyped
      <3>4. r \in SocketType /\ r.id = fds[fd].id
        BY <3>3 DEF SocketType
      <3>5. fds' = [fds EXCEPT ![fd] = r]
        BY <2>3, <3>2 DEF setNonblocking
      <3> HIDE DEF r
      <3> QED BY <3>4, <3>5, SocketsChanged DEF Whole
    <2>4. readFrom(o) /\ ~Own(o) => fds' = fds
      BY DEF readFrom
    <2>5. writeTo(o) => fds' = fds
      BY DEF writeTo
    <2> QED BY <2>1, <2>2, <2>3, <2>4, <2>5
  <1> QED BY <1>1, <1>2, <1>3, <1>5, <1>6, QuietStep

LEMMA SocketsStays == ASSUME SocketsInv, UNCHANGED socketsVars PROVE SocketsInv'
  <1>1. UNCHANGED <<fds, sockets, tcp, udp, tasks, conn, async, ready, lost, misused>>
    BY DEF socketsVars
  <1>2. Pending'
    BY <1>1 DEF SocketsInv, Pending, Live
  <1>3. Whole
    BY <1>1 DEF Whole, SocketsInv, SocketsTyped
  <1> QED BY <1>1, <1>2, <1>3, QuietStep DEF SocketsInv, SocketsTyped

LEMMA SocketsStep == ASSUME SocketsInv, SocketsNext PROVE SocketsInv'
  BY ArriveStep, KernelStep, AcceptRaisesStep, ListenStep, AcceptStep, TaskStep, ConnectStep,
     ConnectAsyncStep, RegisteredStep, RegistrationStep, ReleasedStep, OnReadyStep, CloseStep,
     DestroyStep, UseStep DEF SocketsNext

LEMMA SocketsStart == ASSUME SocketsInit PROVE SocketsInv
  <1>1. Closed \in ServerType /\ Closed.fd = -1
    BY DEF Closed, ServerType
  <1>2. NoConn \in ConnType /\ NoConn.state = "none"
    BY DEF NoConn, ConnType
  <1>3. DOMAIN fds = {} /\ fds \in [DOMAIN fds -> SocketType]
    BY DEF SocketsInit
  <1>4. conn \in [Connections -> ConnType] /\ \A o \in Connections : ~Live(o)
    BY <1>2 DEF SocketsInit, Live
  <1>5. async.pc = "idle" /\ async \in [pc : {"idle", "register", "release"}, obj : Connections \cup {Nobody}]
    BY DEF SocketsInit
  <1>6. SocketsTyped
    BY <1>1, <1>3, <1>4, <1>5 DEF SocketsInit, SocketsTyped
  <1>7. HeldOpen /\ HeldOnce /\ AllHeld /\ Pending
    BY <1>1, <1>3, <1>4, <1>5 DEF SocketsInit, HeldOpen, HeldOnce, AllHeld, Pending
  <1> QED BY <1>6, <1>7 DEF SocketsInv, SocketsInit


(* DNSCache: what is stored has the port it was asked with, and whoever was answered  *)
(* from the cache was answered what is in it.                                         *)
Found(a) == {[ip |-> ip, port |-> portOf(a)] : ip \in Ips}
Known == {NoAddr} \cup (UNION {Found(a) : a \in Addresses})
CacheInv ==
  /\ cache \in [Addresses -> Known]
  /\ \A a \in Addresses : cache[a] = NoAddr \/ cache[a] \in Found(a)
LookType == [pc : {"idle", "asking", "done"}, addr : Addresses \cup {<<>>},
             got : Known, hit : BOOLEAN]
LookInv(t) ==
  /\ look[t] \in LookType
  /\ look[t].pc # "idle" => look[t].addr \in Addresses
  /\ look[t].pc = "done" => look[t].got \in Found(look[t].addr)
  /\ look[t].hit =>
       /\ look[t].pc = "done"
       /\ look[t].got = cache[look[t].addr]
DNSInv == CacheInv /\ look \in [Resolvers -> LookType] /\ \A t \in Resolvers : LookInv(t)

LEMMA FoundNotNone == \A a \in Addresses : NoAddr \notin Found(a)
  BY NetAssumption DEF Found

LEMMA NoneKnown == NoAddr \in Known /\ \A a \in Addresses : Found(a) \subseteq Known
  <1>1. NoAddr \in Known
    BY DEF Known
  <1>2. ASSUME NEW a \in Addresses, NEW r \in Found(a) PROVE r \in Known
    <2>1. Found(a) \in {Found(b) : b \in Addresses}
      OBVIOUS
    <2>2. r \in UNION {Found(b) : b \in Addresses}
      BY <2>1, Zenon
    <2> QED BY <2>2, Zenon DEF Known
  <1> QED BY <1>1, <1>2, Zenon

LEMMA FoundPort == ASSUME NEW a, NEW r \in Found(a) PROVE r.port = portOf(a)
  BY DEF Found

LEMMA DNSStart == ASSUME DNSInit PROVE DNSInv
  <1> DEFINE l == [pc |-> "idle", addr |-> <<>>, got |-> NoAddr, hit |-> FALSE]
  <1>1. l \in LookType /\ l.pc = "idle" /\ ~l.hit
    BY NoneKnown DEF LookType
  <1> HIDE DEF l
  <1>2. look = [t \in Resolvers |-> l]
    BY DEF DNSInit, l
  <1>3. CacheInv
    BY NoneKnown DEF DNSInit, CacheInv
  <1> QED BY <1>1, <1>2, <1>3 DEF DNSInv, LookInv

\* What one thread does to its own record; the others' answers stay.
LEMMA LookStep ==
  ASSUME DNSInv, NEW t \in Resolvers, NEW l \in LookType, look' = [look EXCEPT ![t] = l], CacheInv',
         \A a \in Addresses : cache[a] # NoAddr => cache'[a] = cache[a],
         l.pc # "idle" => l.addr \in Addresses,
         l.pc = "done" => l.got \in Found(l.addr),
         l.hit => l.pc = "done" /\ l.got = cache'[l.addr]
  PROVE  DNSInv'
  <1>1. look' \in [Resolvers -> LookType]
    BY DEF DNSInv
  <1>2. ASSUME NEW u \in Resolvers PROVE LookInv(u)'
    <2>1. CASE u = t
      <3>1. look'[u] = l
        BY <2>1 DEF DNSInv
      <3> QED BY <3>1 DEF LookInv
    <2>2. CASE u # t
      <3>1. look'[u] = look[u] /\ LookInv(u)
        BY <2>2 DEF DNSInv
      <3>2. look[u].hit => look[u].addr \in Addresses /\ look[u].got = cache[look[u].addr]
                           /\ cache[look[u].addr] # NoAddr
        BY <3>1, FoundNotNone DEF LookInv
      <3> QED BY <3>1, <3>2 DEF LookInv
    <2> QED BY <2>1, <2>2
  <1> QED BY <1>1, <1>2 DEF DNSInv

LEMMA ResolveStep == ASSUME DNSInv, NEW t \in Resolvers, NEW a \in Addresses, resolve(t, a) PROVE DNSInv'
  <1> DEFINE l == [pc |-> IF cache[a] = NoAddr THEN "asking" ELSE "done", addr |-> a,
                   got |-> cache[a], hit |-> cache[a] # NoAddr]
  <1>1. cache[a] \in Known /\ (cache[a] # NoAddr => cache[a] \in Found(a))
    BY DEF DNSInv, CacheInv
  <1>2. l \in LookType
    BY <1>1 DEF LookType
  <1>3. l.addr = a /\ l.got = cache[a] /\ l.hit = (cache[a] # NoAddr) /\ l.pc = IF cache[a] = NoAddr THEN "asking" ELSE "done"
    OBVIOUS
  <1>4. look' = [look EXCEPT ![t] = l] /\ cache' = cache
    BY DEF resolve
  <1> HIDE DEF l
  <1>5. CacheInv'
    BY <1>4 DEF DNSInv, CacheInv
  <1> QED BY <1>1, <1>2, <1>3, <1>4, <1>5, LookStep

LEMMA ResolvedStep == ASSUME DNSInv, NEW t \in Resolvers, resolved(t) PROVE DNSInv'
  <1>1. PICK r \in resolvesTo(look[t].addr) :
          /\ cache' = [cache EXCEPT ![look[t].addr] = IF @ = NoAddr THEN r ELSE @]
          /\ look' = [look EXCEPT ![t].pc = "done", ![t].got = r]
    BY DEF resolved
  <1>2. look[t].pc = "asking" /\ look[t].addr \in Addresses /\ look[t] \in LookType /\ ~look[t].hit
    BY DEF resolved, DNSInv, LookInv
  <1>3. PICK a \in Addresses : a = look[t].addr
    BY <1>2
  <1>4. r \in Found(a)
    BY <1>1, <1>3 DEF resolvesTo, Found
  <1> DEFINE l == [look[t] EXCEPT !.pc = "done", !.got = r]
  <1>5. r \in Known
    BY <1>4, NoneKnown
  <1>6. l \in LookType /\ l.pc = "done" /\ l.got = r /\ l.addr = a /\ ~l.hit
    BY <1>2, <1>3, <1>5 DEF LookType
  <1>7. look' = [look EXCEPT ![t] = l]
    BY <1>1
  <1> HIDE DEF l
  <1>8. cache' = [cache EXCEPT ![a] = IF @ = NoAddr THEN r ELSE @]
    BY <1>1, <1>3
  <1>9. CacheInv'
    BY <1>4, <1>5, <1>8 DEF DNSInv, CacheInv
  <1>10. \A b \in Addresses : cache[b] # NoAddr => cache'[b] = cache[b]
    BY <1>8 DEF DNSInv, CacheInv
  <1> QED BY <1>4, <1>6, <1>7, <1>9, <1>10, LookStep

\* A thread that has no answer, or has used it, is idle again.
LEMMA IdleStep == ASSUME DNSInv, NEW t \in Resolvers, unresolved(t) \/ again(t) PROVE DNSInv'
  <1> DEFINE l == [look[t] EXCEPT !.pc = "idle"]
  <1>1. look[t] \in LookType /\ ~look[t].hit
    BY DEF unresolved, again, DNSInv, LookInv
  <1>2. l \in LookType /\ l.pc = "idle" /\ ~l.hit
    BY <1>1 DEF LookType
  <1>3. look' = [look EXCEPT ![t] = l] /\ cache' = cache
    BY DEF unresolved, again
  <1> HIDE DEF l
  <1>4. CacheInv'
    BY <1>3 DEF DNSInv, CacheInv
  <1> QED BY <1>2, <1>3, <1>4, LookStep

LEMMA DNSStep == ASSUME DNSInv, DNSNext PROVE DNSInv'
  BY ResolveStep, ResolvedStep, IdleStep DEF DNSNext

LEMMA DNSStays == ASSUME DNSInv, UNCHANGED dnsVars PROVE DNSInv'
  BY DEF DNSInv, CacheInv, LookInv, dnsVars

\* Exactly one of what may hold a descriptor holds it.
LEMMA OneHolder == ASSUME SocketsInv, NEW fd \in DOMAIN fds PROVE Cardinality(Holders(fd)) = 1
  <1>1. \E h : Holders(fd) = {h}
    <2>1. fd \in Fds /\ fd # -1
      BY NetAssumption DEF SocketsInv, SocketsTyped, Fds
    <2>2. CASE fd = tcp.fd
      <3>1. fd # udp.fd /\ fd \notin tasks /\ fd \notin lost
            /\ \A o \in Connections : ~(Live(o) /\ conn[o].fd = fd)
        BY <2>1, <2>2 DEF SocketsInv, HeldOnce
      <3>2. Holders(fd) = {<<"tcp", fd>>}
        BY <2>2, <3>1 DEF Holders, Live
      <3> QED BY <3>2
    <2>3. CASE fd = udp.fd
      <3>1. fd # tcp.fd /\ fd \notin tasks /\ fd \notin lost
            /\ \A o \in Connections : ~(Live(o) /\ conn[o].fd = fd)
        BY <2>1, <2>3 DEF SocketsInv, HeldOnce
      <3>2. Holders(fd) = {<<"udp", fd>>}
        BY <2>3, <3>1 DEF Holders, Live
      <3> QED BY <3>2
    <2>4. CASE fd \in tasks
      <3>1. fd # tcp.fd /\ fd # udp.fd /\ fd \notin lost
            /\ \A o \in Connections : ~(Live(o) /\ conn[o].fd = fd)
        BY <2>4 DEF SocketsInv, HeldOnce
      <3>2. Holders(fd) = {<<"task", fd>>}
        BY <2>4, <3>1 DEF Holders, Live
      <3> QED BY <3>2
    <2>5. CASE fd \in lost
      <3>1. fd # tcp.fd /\ fd # udp.fd /\ fd \notin tasks
            /\ \A o \in Connections : ~(Live(o) /\ conn[o].fd = fd)
        BY <2>5 DEF SocketsInv, HeldOnce
      <3>2. Holders(fd) = {<<"lost", fd>>}
        BY <2>5, <3>1 DEF Holders, Live
      <3> QED BY <3>2
    <2>6. ASSUME NEW o \in Connections, Live(o), conn[o].fd = fd PROVE \E h : Holders(fd) = {h}
      <3>1. fd # tcp.fd /\ fd # udp.fd /\ fd \notin tasks /\ fd \notin lost
            /\ \A p \in Connections : Live(p) /\ conn[p].fd = fd => p = o
        BY <2>6 DEF SocketsInv, HeldOnce
      <3>2. {c \in Connections : conn[c].state = "live" /\ ~conn[c].closed /\ conn[c].fd = fd} = {o}
        BY <2>6, <3>1 DEF Live
      <3>3. Holders(fd) = {<<"conn", o>>}
        BY <3>1, <3>2 DEF Holders
      <3> QED BY <3>3
    <2> QED BY <2>2, <2>3, <2>4, <2>5, <2>6 DEF SocketsInv, AllHeld
  <1> QED BY <1>1, FS_Singleton

LEMMA SafeSockets == ASSUME SocketsInv, DNSInv PROVE SocketsSafe
  <1>1. SocketsOwned
    BY OneHolder DEF SocketsOwned, SocketsInv
  <1>2. CachedAddrStays
    BY FoundPort DEF DNSInv, LookInv, CachedAddrStays
  <1> QED BY <1>1, <1>2 DEF SocketsSafe

\* Every open socket has exactly one holder, no connection uses a descriptor that has
\* become another one's, and an address DNSCache has answered stays, for any number of
\* connections, descriptors, sockets and resolving threads.
THEOREM SocketsCorrect == NetSpec => []SocketsSafe
<1>1. NetInit => SocketsInv /\ DNSInv
  BY SocketsStart, DNSStart DEF NetInit
<1>2. SocketsInv /\ DNSInv /\ [NetNext]_<<socketsVars, dnsVars>> => (SocketsInv /\ DNSInv)'
  <2> SUFFICES ASSUME SocketsInv, DNSInv, [NetNext]_<<socketsVars, dnsVars>> PROVE SocketsInv' /\ DNSInv'
    OBVIOUS
  <2>1. CASE SocketsNext /\ UNCHANGED dnsVars
    BY <2>1, SocketsStep, DNSStays
  <2>2. CASE DNSNext /\ UNCHANGED socketsVars
    BY <2>2, SocketsStays, DNSStep
  <2>3. CASE UNCHANGED <<socketsVars, dnsVars>>
    BY <2>3, SocketsStays, DNSStays
  <2> QED BY <2>1, <2>2, <2>3 DEF NetNext
<1>3. SocketsInv /\ DNSInv => SocketsSafe
  BY SafeSockets
<1> QED BY <1>1, <1>2, <1>3, PTL DEF NetSpec
==============================================================================
