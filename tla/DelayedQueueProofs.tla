------------------------- MODULE DelayedQueueProofs -------------------------
(***************************************************************************)
(* For any threads, jobs, times and sizes: the queues of delayed jobs stay *)
(* ordered, nobody sleeps in them through a change, and the coalescing one *)
(* loses no job as long as no two jobs were queued for the same time.      *)
(***************************************************************************)
EXTENDS CoalescingDelayedQueue, FiniteSetTheorems, SequenceTheorems, WellFoundedInduction, TLAPS

Ordered(q) == \A i, j \in DOMAIN q : i < j => q[i].when <= q[j].when

\* A set of naturals that is not empty has a least element.
LEMMA LeastNatural ==
  ASSUME NEW S \in SUBSET Nat, S # {}
  PROVE  \E m \in S : \A k \in S : m <= k
<1>1. PICK m \in S : \A k \in S : ~(<<k, m>> \in OpToRel(<, Nat))
  BY NatLessThanWellFounded, WFMin
<1>2. \A k \in S : ~(k < m)
  BY <1>1 DEF OpToRel
<1> QED BY <1>2

\* A set of positions that holds all positions before each of its own is an initial
\* segment, as long as it is large.
LEMMA Segment ==
  ASSUME NEW n \in Nat, NEW S \in SUBSET (1..n),
         \A i \in S, j \in 1..n : j < i => j \in S
  PROVE  Cardinality(S) \in 0..n /\ S = 1..Cardinality(S)
<1> DEFINE R == {k \in 1..(n + 1) : k \notin S}
<1>1. R \in SUBSET Nat /\ n + 1 \in R
  OBVIOUS
<1>2. PICK m \in R : \A k \in R : m <= k
  BY <1>1, LeastNatural
<1>3. m \in 1..(n + 1) /\ m \notin S
  BY <1>2
<1>4. \A k \in 1..n : k < m => k \in S
  BY <1>2, <1>3
<1>5. \A k \in S : k < m
  <2> SUFFICES ASSUME NEW k \in S, ~(k < m) PROVE FALSE
    OBVIOUS
  <2>1. k \in 1..n /\ m \in 1..n /\ m < k
    BY <1>3
  <2> QED BY <1>3, <2>1
<1>6. S = 1..(m - 1)
  <2>1. \A k \in S : k \in 1..(m - 1)
    BY <1>3, <1>5
  <2>2. \A k \in 1..(m - 1) : k \in S
    BY <1>3, <1>4
  <2> QED BY <2>1, <2>2
<1>7. Cardinality(1..(m - 1)) = m - 1
  BY <1>3, FS_Interval
<1> QED BY <1>3, <1>6, <1>7

LEMMA Entries ==
  /\ \A w \in Times : w \in Nat
  /\ \A e \in Entry : e.when \in Times /\ e.when \in Nat /\ e.job \in Jobs
  /\ \A q \in Seq(Entry) : /\ Len(q) \in Nat /\ DOMAIN q = 1..Len(q)
                           /\ \A i \in DOMAIN q : q[i] \in Entry /\ q[i].when \in Nat
<1>1. \A w \in Times : w \in Nat
  BY DelayedQueueAssumption DEF Times
<1>2. \A e \in Entry : e.when \in Times /\ e.job \in Jobs
  BY DEF Entry
<1>3. \A q \in Seq(Entry) : /\ Len(q) \in Nat /\ DOMAIN q = 1..Len(q)
                            /\ \A i \in DOMAIN q : q[i] \in Entry
  OBVIOUS
<1> QED BY <1>1, <1>2, <1>3

\* In an ordered queue the entries due no later than w, or before w, come first.
LEMMA Bounds ==
  ASSUME NEW q \in Seq(Entry), Ordered(q), NEW w \in Times
  PROVE  /\ upper_bound(q, w) \in 0..Len(q) /\ lower_bound(q, w) \in 0..upper_bound(q, w)
         /\ \A i \in DOMAIN q : q[i].when <= w <=> i <= upper_bound(q, w)
         /\ \A i \in DOMAIN q : q[i].when < w <=> i <= lower_bound(q, w)
<1> DEFINE U == {i \in DOMAIN q : q[i].when <= w}
           L == {i \in DOMAIN q : q[i].when < w}
<1>1. /\ DOMAIN q = 1..Len(q) /\ Len(q) \in Nat /\ w \in Nat
      /\ \A i \in DOMAIN q : q[i].when \in Nat
  BY Entries
<1>2. Cardinality(U) \in 0..Len(q) /\ U = 1..Cardinality(U)
  <2>1. U \in SUBSET (1..Len(q))
    BY <1>1
  <2>2. \A i \in U, j \in 1..Len(q) : j < i => j \in U
    BY <1>1 DEF Ordered
  <2> HIDE DEF U
  <2> QED BY <1>1, <2>1, <2>2, Segment
<1>3. Cardinality(L) \in 0..Len(q) /\ L = 1..Cardinality(L)
  <2>1. L \in SUBSET (1..Len(q))
    BY <1>1
  <2>2. \A i \in L, j \in 1..Len(q) : j < i => j \in L
    BY <1>1 DEF Ordered
  <2> HIDE DEF L
  <2> QED BY <1>1, <2>1, <2>2, Segment
<1>4. upper_bound(q, w) = Cardinality(U) /\ lower_bound(q, w) = Cardinality(L)
  BY DEF upper_bound, lower_bound
<1>5. \A i \in DOMAIN q : (i \in U <=> q[i].when <= w) /\ (i \in L <=> q[i].when < w)
  OBVIOUS
<1>6. \A i \in L : i \in U
  BY <1>1
<1> HIDE DEF U, L
<1>7. Cardinality(L) <= Cardinality(U)
  <2>1. CASE Cardinality(L) = 0
    BY <1>2, <2>1
  <2>2. CASE Cardinality(L) # 0
    <3>1. Cardinality(L) \in L
      BY <1>3, <2>2
    <3> QED BY <1>2, <1>3, <1>6, <3>1
  <2> QED BY <2>1, <2>2
<1>8. \A i \in DOMAIN q : (i \in U <=> i <= Cardinality(U)) /\ (i \in L <=> i <= Cardinality(L))
  BY <1>1, <1>2, <1>3
<1> QED BY <1>1, <1>2, <1>3, <1>4, <1>5, <1>7, <1>8

\* What emplace() does to an ordered queue: the entry goes to one place, those before it
\* stay, those after it move up, and the queue is still ordered.
LEMMA EmplaceOrdered ==
  ASSUME NEW q \in Seq(Entry), Ordered(q), NEW e \in Entry
  PROVE  LET r == emplace(q, e)
             n == upper_bound(q, e.when)
         IN  /\ r \in Seq(Entry) /\ Ordered(r) /\ Len(r) = Len(q) + 1 /\ n \in 0..Len(q)
             /\ r[n + 1] = e
             /\ \A i \in 1..n : r[i] = q[i]
             /\ \A i \in (n + 1)..Len(q) : r[i + 1] = q[i]
<1> DEFINE n == upper_bound(q, e.when)
           a == SubSeq(q, 1, n)
           b == SubSeq(q, n + 1, Len(q))
           r == a \o <<e>> \o b
<1>1. /\ DOMAIN q = 1..Len(q) /\ Len(q) \in Nat /\ e.when \in Times
      /\ e.when \in Nat /\ \A i \in DOMAIN q : q[i].when \in Nat
  BY Entries
<1>2. n \in 0..Len(q) /\ \A i \in DOMAIN q : q[i].when <= e.when <=> i <= n
  BY <1>1, Bounds
<1>3. emplace(q, e) = r
  BY DEF emplace
<1> HIDE DEF n
<1>4. a \in Seq(Entry) /\ Len(a) = n /\ \A i \in 1..n : a[i] = q[i]
  BY <1>1, <1>2
<1>5. b \in Seq(Entry) /\ Len(b) = Len(q) - n /\ \A i \in 1..(Len(q) - n) : b[i] = q[n + i]
  <2>1. Len(b) = Len(q) - n /\ b \in Seq(Entry)
    <3>1. n + 1 \in Int /\ Len(q) \in Int /\ \A i \in (n + 1)..Len(q) : q[i] \in Entry
      BY <1>1, <1>2
    <3>2. b \in Seq(Entry) /\ Len(b) = IF n + 1 <= Len(q) THEN Len(q) - (n + 1) + 1 ELSE 0
      BY <3>1, SubSeqProperties
    <3>3. n \in Nat /\ Len(q) \in Nat /\ n <= Len(q)
      BY <1>1, <1>2
    <3>4. (IF n + 1 <= Len(q) THEN Len(q) - (n + 1) + 1 ELSE 0) = Len(q) - n
      BY <3>3
    <3> QED BY <3>2, <3>4
  <2>2. \A i \in 1..(Len(q) - n) : b[i] = q[n + 1 + i - 1] /\ n + 1 + i - 1 = n + i
    BY <1>1, <1>2
  <2> QED BY <2>1, <2>2
<1> HIDE DEF a, b
<1>6. /\ r \in Seq(Entry) /\ Len(r) = Len(q) + 1 /\ r[n + 1] = e
      /\ \A i \in 1..n : r[i] = a[i]
      /\ \A i \in 1..(Len(q) - n) : r[n + 1 + i] = b[i]
  <2> DEFINE c == a \o <<e>>
  <2>1. n \in Nat /\ Len(q) \in Nat /\ n <= Len(q)
    BY <1>1, <1>2
  <2>2. /\ c \in Seq(Entry) /\ Len(c) = n + 1 /\ c[n + 1] = e
        /\ \A i \in 1..n : c[i] = a[i]
    BY <1>4, <2>1
  <2>3. r = c \o b
    OBVIOUS
  <2> HIDE DEF c, r
  <2>4. /\ r \in Seq(Entry) /\ Len(r) = Len(c) + Len(b)
        /\ \A i \in 1..(Len(c) + Len(b)) : r[i] = IF i <= Len(c) THEN c[i] ELSE b[i - Len(c)]
    BY <1>5, <2>2, <2>3, ConcatProperties, Zenon
  <2>5. Len(r) = Len(q) + 1
    BY <1>5, <2>1, <2>2, <2>4
  <2>6. \A i \in 1..(n + 1) : r[i] = c[i]
    BY <1>5, <2>1, <2>2, <2>4
  <2>7. \A i \in 1..(Len(q) - n) : r[n + 1 + i] = b[i]
    BY <1>5, <2>1, <2>2, <2>4
  <2>8. n + 1 \in 1..(n + 1) /\ \A i \in 1..n : i \in 1..(n + 1)
    BY <2>1
  <2> QED BY <2>2, <2>4, <2>5, <2>6, <2>7, <2>8
<1> HIDE DEF r
<1>7. \A i \in (n + 1)..Len(q) : r[i + 1] = q[i]
  <2> SUFFICES ASSUME NEW i \in (n + 1)..Len(q) PROVE r[i + 1] = q[i]
    OBVIOUS
  <2>1. i - n \in 1..(Len(q) - n) /\ n + (i - n) = i /\ n + 1 + (i - n) = i + 1
    BY <1>1, <1>2
  <2> QED BY <1>5, <1>6, <2>1
<1>8. Ordered(r)
  <2>1. \A i \in DOMAIN r : \/ i \in 1..n /\ r[i] = q[i] /\ r[i].when <= e.when
                            \/ i = n + 1 /\ r[i] = e
                            \/ i \in (n + 2)..(Len(q) + 1) /\ r[i] = q[i - 1] /\ e.when < r[i].when
    <3> SUFFICES ASSUME NEW i \in 1..(Len(q) + 1)
                 PROVE  \/ i \in 1..n /\ r[i] = q[i] /\ r[i].when <= e.when
                        \/ i = n + 1 /\ r[i] = e
                        \/ i \in (n + 2)..(Len(q) + 1) /\ r[i] = q[i - 1] /\ e.when < r[i].when
      BY <1>1, <1>6
    <3>1. CASE i \in 1..n
      BY <1>1, <1>2, <1>4, <1>6, <3>1
    <3>2. CASE i = n + 1
      BY <1>6, <3>2
    <3>3. CASE i > n + 1
      <4>1. i - 1 \in (n + 1)..Len(q) /\ i - 1 \in DOMAIN q /\ ~(i - 1 <= n) /\ (i - 1) + 1 = i
        BY <1>1, <1>2, <3>3
      <4>2. r[i] = q[i - 1]
        BY <1>7, <4>1
      <4>3. ~(q[i - 1].when <= e.when) /\ q[i - 1].when \in Nat
        BY <1>1, <1>2, <4>1
      <4> QED BY <1>1, <1>2, <3>3, <4>2, <4>3
    <3> QED BY <1>1, <1>2, <3>1, <3>2, <3>3
  <2> SUFFICES ASSUME NEW i \in DOMAIN r, NEW j \in DOMAIN r, i < j
               PROVE  r[i].when <= r[j].when
    BY DEF Ordered
  <2>2. /\ \A k \in DOMAIN r : r[k].when \in Nat
        /\ \A k \in 1..n : k \in DOMAIN q
        /\ \A k \in (n + 2)..(Len(q) + 1) : k - 1 \in DOMAIN q
    BY <1>1, <1>2, <1>6, Entries
  <2>3. i \in Nat /\ j \in Nat
    BY <1>1, <1>6
  <2>4. CASE i \in 1..n /\ j \in 1..n
    BY <1>2, <2>1, <2>2, <2>4 DEF Ordered
  <2>5. CASE i \in (n + 2)..(Len(q) + 1) /\ j \in (n + 2)..(Len(q) + 1)
    <3>1. i - 1 < j - 1 /\ i - 1 \in DOMAIN q /\ j - 1 \in DOMAIN q
      BY <1>1, <1>2, <2>2, <2>5
    <3>2. r[i] = q[i - 1] /\ r[j] = q[j - 1]
      BY <1>1, <1>2, <2>1, <2>5
    <3> QED BY <3>1, <3>2 DEF Ordered
  <2> QED BY <1>1, <1>2, <2>1, <2>2, <2>3, <2>4, <2>5
<1>9. \A i \in 1..n : r[i] = q[i]
  BY <1>4, <1>6
<1> QED BY <1>2, <1>3, <1>6, <1>7, <1>8, <1>9 DEF n

\* emplace() adds one entry and keeps every other one, once.
LEMMA EmplaceEntries ==
  ASSUME NEW q \in Seq(Entry), Ordered(q), NEW e \in Entry
  PROVE  LET r == emplace(q, e)
             n == upper_bound(q, e.when)
             To(i) == IF i <= n THEN i ELSE i + 1
         IN  /\ n + 1 \in DOMAIN r /\ r[n + 1] = e
             /\ \A i \in DOMAIN q : To(i) \in DOMAIN r /\ To(i) # n + 1 /\ r[To(i)] = q[i]
             /\ \A k \in DOMAIN r : k = n + 1 \/ \E i \in DOMAIN q : k = To(i)
<1> DEFINE r == emplace(q, e)
           n == upper_bound(q, e.when)
           To(i) == IF i <= n THEN i ELSE i + 1
<1>1. /\ r \in Seq(Entry) /\ Len(r) = Len(q) + 1 /\ n \in 0..Len(q) /\ r[n + 1] = e
      /\ \A i \in 1..n : r[i] = q[i]
      /\ \A i \in (n + 1)..Len(q) : r[i + 1] = q[i]
  BY EmplaceOrdered
<1> HIDE DEF r, n
<1>2. DOMAIN q = 1..Len(q) /\ DOMAIN r = 1..(Len(q) + 1) /\ Len(q) \in Nat
  BY <1>1
<1>3. ASSUME NEW i \in DOMAIN q PROVE To(i) \in DOMAIN r /\ To(i) # n + 1 /\ r[To(i)] = q[i]
  <2>1. CASE i <= n
    <3>1. i \in 1..n /\ To(i) = i /\ i \in 1..(Len(q) + 1)
      BY <1>1, <1>2, <2>1
    <3> HIDE DEF To
    <3> QED BY <1>1, <1>2, <2>1, <3>1
  <2>2. CASE ~(i <= n)
    <3>1. i \in (n + 1)..Len(q) /\ To(i) = i + 1 /\ i + 1 \in 1..(Len(q) + 1) /\ i + 1 # n + 1
      BY <1>1, <1>2, <2>2
    <3> HIDE DEF To
    <3> QED BY <1>1, <1>2, <3>1
  <2> QED BY <2>1, <2>2
<1>4. ASSUME NEW k \in DOMAIN r, k # n + 1 PROVE \E i \in DOMAIN q : k = To(i)
  <2>1. CASE k <= n
    <3>1. k \in DOMAIN q /\ k = To(k)
      BY <1>1, <1>2, <2>1
    <3> QED BY <3>1
  <2>2. CASE k > n + 1
    <3>1. k - 1 \in DOMAIN q /\ k = To(k - 1)
      BY <1>1, <1>2, <2>2
    <3> QED BY <3>1
  <2> QED BY <1>1, <1>2, <1>4, <2>1, <2>2
<1>5. n + 1 \in DOMAIN r
  BY <1>1, <1>2
<1> QED BY <1>1, <1>3, <1>4, <1>5 DEF r, n

\* erase() takes the entries of one time out of an ordered queue and keeps every other one,
\* once.
LEMMA EraseEntries ==
  ASSUME NEW q \in Seq(Entry), Ordered(q), NEW w \in Times
  PROVE  LET r == erase(q, w)
             lo == lower_bound(q, w)
             hi == upper_bound(q, w)
             From(k) == IF k <= lo THEN k ELSE k + (hi - lo)
         IN  /\ r \in Seq(Entry) /\ Ordered(r) /\ Len(r) <= Len(q)
             /\ \A k \in DOMAIN r : From(k) \in DOMAIN q /\ r[k] = q[From(k)] /\ r[k].when # w
             /\ \A j, k \in DOMAIN r : From(j) = From(k) => j = k
             /\ \A i \in DOMAIN q : q[i].when # w => \E k \in DOMAIN r : i = From(k)
<1> DEFINE lo == lower_bound(q, w)
           hi == upper_bound(q, w)
           From(k) == IF k <= lo THEN k ELSE k + (hi - lo)
           a == SubSeq(q, 1, lo)
           b == SubSeq(q, hi + 1, Len(q))
           r == a \o b
<1>1. /\ DOMAIN q = 1..Len(q) /\ Len(q) \in Nat /\ w \in Nat
      /\ \A i \in DOMAIN q : q[i] \in Entry /\ q[i].when \in Nat
  BY Entries
<1>2. /\ hi \in 0..Len(q) /\ lo \in 0..hi
      /\ \A i \in DOMAIN q : q[i].when <= w <=> i <= hi
      /\ \A i \in DOMAIN q : q[i].when < w <=> i <= lo
  BY Bounds
<1>3. erase(q, w) = r
  BY DEF erase
<1> HIDE DEF lo, hi
<1>4. a \in Seq(Entry) /\ Len(a) = lo /\ \A i \in 1..lo : a[i] = q[i]
  BY <1>1, <1>2
<1>5. b \in Seq(Entry) /\ Len(b) = Len(q) - hi /\ \A i \in 1..(Len(q) - hi) : b[i] = q[hi + i]
  <2>1. hi + 1 \in Int /\ Len(q) \in Int /\ \A i \in (hi + 1)..Len(q) : q[i] \in Entry
    BY <1>1, <1>2
  <2>2. /\ b \in Seq(Entry) /\ Len(b) = IF hi + 1 <= Len(q) THEN Len(q) - (hi + 1) + 1 ELSE 0
        /\ \A i \in 1..(Len(q) - (hi + 1) + 1) : b[i] = q[(hi + 1) + i - 1]
    BY <2>1, SubSeqProperties
  <2>3. hi \in Nat /\ Len(q) \in Nat /\ hi <= Len(q)
    BY <1>1, <1>2
  <2>4. (IF hi + 1 <= Len(q) THEN Len(q) - (hi + 1) + 1 ELSE 0) = Len(q) - hi
    BY <2>3
  <2>5. ASSUME NEW i \in 1..(Len(q) - hi) PROVE b[i] = q[hi + i]
    <3>1. i \in 1..(Len(q) - (hi + 1) + 1) /\ (hi + 1) + i - 1 = hi + i
      BY <2>3
    <3>2. b[i] = q[(hi + 1) + i - 1]
      BY <2>2, <3>1
    <3> QED BY <3>1, <3>2
  <2> QED BY <2>2, <2>4, <2>5
<1> HIDE DEF a, b
<1>6. /\ r \in Seq(Entry) /\ Len(r) = lo + (Len(q) - hi)
      /\ \A i \in 1..lo : r[i] = a[i]
      /\ \A i \in 1..(Len(q) - hi) : r[lo + i] = b[i]
  <2>1. /\ r \in Seq(Entry) /\ Len(r) = Len(a) + Len(b)
        /\ \A i \in 1..(Len(a) + Len(b)) : r[i] = IF i <= Len(a) THEN a[i] ELSE b[i - Len(a)]
    BY <1>4, <1>5, ConcatProperties
  <2>2. lo \in Nat /\ Len(q) - hi \in Nat
    BY <1>1, <1>2
  <2> HIDE DEF r
  <2>3. ASSUME NEW i \in 1..lo PROVE r[i] = a[i]
    BY <1>4, <1>5, <2>1, <2>2
  <2>4. ASSUME NEW i \in 1..(Len(q) - hi) PROVE r[lo + i] = b[i]
    <3>1. lo + i \in 1..(lo + (Len(q) - hi)) /\ ~(lo + i <= lo) /\ (lo + i) - lo = i
      BY <2>2
    <3> QED BY <1>4, <1>5, <2>1, <3>1
  <2> QED BY <1>4, <1>5, <2>1, <2>3, <2>4
<1>7. DOMAIN r = 1..(lo + (Len(q) - hi))
  BY <1>6
<1> HIDE DEF r
<1>8. ASSUME NEW k \in DOMAIN r
      PROVE  From(k) \in DOMAIN q /\ r[k] = q[From(k)] /\ (From(k) <= lo \/ From(k) > hi)
  <2>1. CASE k <= lo
    <3>1. k \in 1..lo /\ From(k) = k /\ k \in DOMAIN q
      BY <1>1, <1>2, <1>7, <2>1
    <3> HIDE DEF From
    <3> QED BY <1>4, <1>6, <2>1, <3>1
  <2>2. CASE ~(k <= lo)
    <3>1. lo \in Nat /\ hi \in Nat /\ Len(q) \in Nat /\ lo <= hi /\ hi <= Len(q)
      BY <1>1, <1>2
    <3>2. k \in Nat /\ k <= lo + (Len(q) - hi)
      BY <1>7, <3>1
    <3>3. From(k) = k + (hi - lo)
      BY <2>2
    <3> HIDE DEF From
    <3>4. /\ k - lo \in 1..(Len(q) - hi) /\ lo + (k - lo) = k /\ hi + (k - lo) = From(k)
          /\ From(k) > hi /\ From(k) \in 1..Len(q)
      BY <2>2, <3>1, <3>2, <3>3
    <3>5. r[lo + (k - lo)] = b[k - lo] /\ b[k - lo] = q[hi + (k - lo)]
      BY <1>5, <1>6, <3>4
    <3> QED BY <1>1, <3>4, <3>5
  <2> QED BY <2>1, <2>2
<1>9. \A j, k \in DOMAIN r : j < k => From(j) < From(k)
  <2> SUFFICES ASSUME NEW j \in Nat, NEW k \in Nat, j < k PROVE From(j) < From(k)
    BY <1>7
  <2>1. lo \in Nat /\ hi \in Nat /\ lo <= hi
    BY <1>1, <1>2
  <2> QED BY <2>1
<1>10. \A i \in DOMAIN q : q[i].when # w => \E k \in DOMAIN r : i = From(k)
  <2> SUFFICES ASSUME NEW i \in DOMAIN q, q[i].when # w
               PROVE  \E k \in DOMAIN r : i = From(k)
    OBVIOUS
  <2>1. CASE i <= lo
    <3>1. i \in DOMAIN r /\ i = From(i)
      BY <1>1, <1>2, <1>7, <2>1
    <3> QED BY <3>1
  <2>2. CASE ~(i <= lo)
    <3>1. i > hi
      <4>1. ~(q[i].when < w) /\ q[i].when \in Nat /\ w \in Nat /\ i \in Nat /\ hi \in Nat
        BY <1>1, <1>2, <2>2
      <4>2. ~(q[i].when <= w)
        BY <4>1
      <4>3. ~(i <= hi)
        BY <1>2, <4>2
      <4> QED BY <4>1, <4>3
    <3>2. i - (hi - lo) \in DOMAIN r /\ i = From(i - (hi - lo))
      BY <1>1, <1>2, <1>7, <3>1
    <3> QED BY <3>2
  <2> QED BY <2>1, <2>2
<1>11. \A k \in DOMAIN r : r[k].when # w
  BY <1>1, <1>2, <1>8
<1>12. \A j, k \in DOMAIN r : From(j) = From(k) => j = k
  BY <1>1, <1>2, <1>7
<1>13. Len(r) <= Len(q)
  BY <1>1, <1>2, <1>6
<1> HIDE DEF From
<1>14. Ordered(r)
  BY <1>8, <1>9 DEF Ordered
<1> QED BY <1>3, <1>6, <1>8, <1>10, <1>11, <1>12, <1>13, <1>14 DEF From, lo, hi

-----------------------------------------------------------------------------
\* length_ never counts less than what is queued (a move counts too).
Counted == Len(queue_) <= length_

\* A blocked insert() has its job and time.
BlockedArgs == \A t \in Threads : op[t] = "insert" => arg[t] \in Entry

\* Only a thread that waits in the queue is asleep.
Sleepers == \A t \in waiting : op[t] \in {"insert", "popEmpty", "popTimed"}

\* The inductive invariant of both queues.
QInv == TypeOK /\ Sorted /\ Counted /\ BlockedArgs /\ Sleepers /\ NoOversleep

ArgsOf(t) ==
  arg' \in [Threads -> Entry \cup {None}] /\ \A u \in Threads : u # t => arg'[u] = arg[u]

\* A thread that changes the queue owes a notify_all.
LEMMA ChangeStep ==
  ASSUME QInv, NEW t \in Threads, t \notin waiting,
         queue_' \in Seq(Entry), Ordered(queue_'), length_' \in Nat, Len(queue_') <= length_',
         op' = [op EXCEPT ![t] = "notify"], ret' \in [Threads -> Entry \cup {None}],
         ArgsOf(t), UNCHANGED <<now, waiting, deadline>>
  PROVE  QInv'
<1>1. op'[t] = "notify" /\ \A u \in Threads : u # t => op'[u] = op[u]
  BY DEF QInv, TypeOK
<1>2. TypeOK'
  BY DEF QInv, TypeOK, Ops, ArgsOf
<1>3. Sorted' /\ Counted'
  BY DEF Ordered, Sorted, Counted
<1>4. BlockedArgs'
  BY <1>1 DEF QInv, BlockedArgs, ArgsOf
<1>5. Sleepers'
  BY <1>1 DEF QInv, TypeOK, Sleepers
<1>6. NoOversleep'
  BY <1>1 DEF NoOversleep
<1> QED BY <1>2, <1>3, <1>4, <1>5, <1>6 DEF QInv

\* A thread goes to sleep on what it has just seen.
LEMMA SleepStep ==
  ASSUME QInv, NEW t \in Threads, op[t] # "notify", NEW o, sleep(t, o),
         \/ o = "insert" /\ Full /\ arg'[t] \in Entry /\ deadline' = deadline
         \/ o = "popEmpty" /\ Empty /\ deadline' = deadline
         \/ o = "popTimed" /\ ~Empty /\ deadline' = [deadline EXCEPT ![t] = Head(queue_).when],
         ArgsOf(t)
  PROVE  QInv'
<1>1. /\ op' = [op EXCEPT ![t] = o] /\ waiting' = waiting \cup {t}
      /\ queue_' = queue_ /\ length_' = length_ /\ now' = now /\ ret' = ret
  BY DEF sleep
<1>2. op'[t] = o /\ \A u \in Threads : u # t => op'[u] = op[u]
  BY <1>1 DEF QInv, TypeOK
<1>3. ~Empty => Head(queue_).when \in Times
  BY Entries DEF QInv, TypeOK, Empty
<1>4. deadline' \in [Threads -> Times] /\ \A u \in Threads : u # t => deadline'[u] = deadline[u]
  BY <1>3 DEF QInv, TypeOK
<1>5. o = "popTimed" => deadline'[t] = Head(queue_).when /\ Head(queue_).when \in Nat
  BY <1>3, Entries DEF QInv, TypeOK
<1>6. TypeOK'
  BY <1>1, <1>4 DEF QInv, TypeOK, Ops, ArgsOf
<1>7. Sorted' /\ Counted'
  BY <1>1 DEF QInv, Sorted, Counted
<1>8. BlockedArgs'
  BY <1>2 DEF QInv, BlockedArgs, ArgsOf
<1>9. Sleepers'
  BY <1>1, <1>2 DEF QInv, TypeOK, Sleepers
<1>10. NoOversleep'
  <2> SUFFICES ASSUME NEW u \in waiting', ~\E v \in Threads : op'[v] = "notify"
               PROVE  \/ op'[u] = "insert" /\ Full'
                      \/ op'[u] = "popEmpty" /\ Empty'
                      \/ op'[u] = "popTimed" /\ (Empty' \/ deadline'[u] <= Head(queue_').when)
    BY DEF NoOversleep
  <2>1. ~\E v \in Threads : op[v] = "notify"
    BY <1>2
  <2>2. CASE u = t
    <3>1. CASE o = "popTimed"
      BY <1>1, <1>2, <1>5, <2>2, <3>1
    <3>2. CASE o # "popTimed"
      BY <1>1, <1>2, <2>2, <3>2 DEF Full, Empty
    <3> QED BY <3>1, <3>2
  <2>3. CASE u # t
    <3>1. u \in waiting /\ u \in Threads
      BY <1>1, <2>3 DEF QInv, TypeOK
    <3> QED BY <1>1, <1>2, <1>4, <2>1, <2>3, <3>1 DEF QInv, NoOversleep, Full, Empty
  <2> QED BY <2>2, <2>3
<1> QED BY <1>6, <1>7, <1>8, <1>9, <1>10 DEF QInv

\* A thread that is awake returns without having changed anything.
LEMMA ReturnStep ==
  ASSUME QInv, NEW t \in Threads, t \notin waiting, op[t] # "notify",
         op' = [op EXCEPT ![t] = "idle"], ArgsOf(t),
         UNCHANGED <<queue_, length_, now, waiting, deadline, ret>>
  PROVE  QInv'
<1>1. op'[t] = "idle" /\ \A u \in Threads : u # t => op'[u] = op[u]
  BY DEF QInv, TypeOK
<1>2. TypeOK'
  BY DEF QInv, TypeOK, Ops, ArgsOf
<1>3. Sorted' /\ Counted'
  BY DEF QInv, Sorted, Counted
<1>4. BlockedArgs'
  BY <1>1 DEF QInv, BlockedArgs, ArgsOf
<1>5. Sleepers'
  BY <1>1 DEF QInv, TypeOK, Sleepers
<1>6. NoOversleep'
  <2>1. (\E u \in Threads : op[u] = "notify") => (\E u \in Threads : op'[u] = "notify")
    BY <1>1
  <2>2. \A u \in waiting' : u \in waiting /\ u \in Threads /\ op'[u] = op[u]
    BY <1>1 DEF QInv, TypeOK
  <2> QED BY <2>1, <2>2 DEF QInv, NoOversleep, Full, Empty
<1> QED BY <1>2, <1>3, <1>4, <1>5, <1>6 DEF QInv

\* Threads wake up, or time passes.
LEMMA WakeStep ==
  ASSUME QInv, waiting' \subseteq waiting, now' \in Times,
         UNCHANGED <<queue_, length_, op, arg, deadline, ret>>
  PROVE  QInv'
<1>1. TypeOK'
  BY DEF QInv, TypeOK
<1>2. Sorted' /\ Counted' /\ BlockedArgs' /\ Sleepers'
  BY DEF QInv, Sorted, Counted, BlockedArgs, Sleepers
<1>3. NoOversleep'
  BY DEF QInv, NoOversleep, Full, Empty
<1> QED BY <1>1, <1>2, <1>3 DEF QInv

\* The notify_all wakes everybody and pays what is owed.
LEMMA NotifyStep ==
  ASSUME QInv, NEW t \in Threads, notifyAll(t)
  PROVE  QInv'
<1>1. op'[t] = "idle" /\ \A u \in Threads : u # t => op'[u] = op[u]
  BY DEF QInv, TypeOK, notifyAll
<1>2. TypeOK'
  BY DEF QInv, TypeOK, Ops, notifyAll
<1>3. Sorted' /\ Counted' /\ Sleepers' /\ NoOversleep'
  BY DEF QInv, Sorted, Counted, Sleepers, NoOversleep, notifyAll
<1>4. BlockedArgs'
  BY <1>1 DEF QInv, BlockedArgs, notifyAll
<1> QED BY <1>2, <1>3, <1>4 DEF QInv

\* The queue without its first entry.
LEMMA TailOrdered ==
  ASSUME NEW q \in Seq(Entry), Ordered(q), q # <<>>
  PROVE  /\ Tail(q) \in Seq(Entry) /\ Ordered(Tail(q)) /\ Len(Tail(q)) = Len(q) - 1
         /\ Len(q) >= 1 /\ Head(q) = q[1] /\ Head(q) \in Entry
         /\ \A i \in DOMAIN Tail(q) : i + 1 \in DOMAIN q /\ i + 1 # 1 /\ Tail(q)[i] = q[i + 1]
         /\ \A i \in DOMAIN q : i = 1 \/ (i - 1 \in DOMAIN Tail(q) /\ Tail(q)[i - 1] = q[i])
<1> DEFINE r == Tail(q)
<1>1. /\ r \in Seq(Entry) /\ Len(q) \in Nat /\ Len(q) >= 1 /\ Len(r) = Len(q) - 1
      /\ DOMAIN r = 1..(Len(q) - 1) /\ DOMAIN q = 1..Len(q)
      /\ \A i \in 1..(Len(q) - 1) : r[i] = q[i + 1]
      /\ Head(q) = q[1] /\ q[1] \in Entry
  OBVIOUS
<1> HIDE DEF r
<1>2. \A i \in DOMAIN r : i + 1 \in DOMAIN q /\ i + 1 # 1 /\ r[i] = q[i + 1]
  BY <1>1
<1>3. \A i \in DOMAIN q : i = 1 \/ (i - 1 \in DOMAIN r /\ r[i - 1] = q[i])
  <2> SUFFICES ASSUME NEW i \in 1..Len(q), i # 1
               PROVE  i - 1 \in DOMAIN r /\ r[i - 1] = q[i]
    BY <1>1
  <2>1. i - 1 \in 1..(Len(q) - 1) /\ (i - 1) + 1 = i
    BY <1>1
  <2> QED BY <1>1, <2>1
<1>4. Ordered(r)
  <2>1. \A i, j \in DOMAIN r : i < j => i + 1 < j + 1
    BY <1>1
  <2> QED BY <1>2, <2>1 DEF Ordered
<1> QED BY <1>1, <1>2, <1>3, <1>4 DEF r

\* insert() with room, of either queue, once the job is placed.
LEMMA PutStep ==
  ASSUME QInv, NEW t \in Threads, t \notin waiting, NEW e \in Entry, put(t, e), ArgsOf(t)
  PROVE  QInv'
<1>1. Ordered(queue_) /\ queue_ \in Seq(Entry) /\ length_ \in Nat /\ Len(queue_) <= length_
  BY DEF QInv, TypeOK, Sorted, Ordered, Counted
<1>2. queue_' \in Seq(Entry) /\ Ordered(queue_') /\ Len(queue_') = Len(queue_) + 1
  BY <1>1, EmplaceOrdered DEF put
<1>3. length_' \in Nat /\ Len(queue_') <= length_'
  BY <1>1, <1>2 DEF put
<1>4. ret' \in [Threads -> Entry \cup {None}]
  BY DEF QInv, TypeOK, put
<1> QED BY <1>2, <1>3, <1>4, ChangeStep DEF put

\* interruptiblePop() takes the first job or sleeps until it is due.
LEMMA TakeOrSleepStep ==
  ASSUME QInv, NEW t \in Threads, t \notin waiting, op[t] # "notify", ~Empty, takeOrSleep(t),
         UNCHANGED arg
  PROVE  QInv'
<1>1. Ordered(queue_) /\ queue_ \in Seq(Entry) /\ length_ \in Nat /\ Len(queue_) <= length_
  BY DEF QInv, TypeOK, Sorted, Ordered, Counted
<1>2. ArgsOf(t)
  BY DEF QInv, TypeOK, ArgsOf
<1>3. CASE take(t)
  <2>1. /\ queue_' \in Seq(Entry) /\ Ordered(queue_') /\ Len(queue_') = Len(queue_) - 1
        /\ Len(queue_) >= 1 /\ Head(queue_) \in Entry
    BY <1>1, <1>3, TailOrdered DEF take, Empty
  <2>2. length_' \in Nat /\ Len(queue_') <= length_'
    BY <1>1, <1>3, <2>1 DEF take
  <2>3. ret' \in [Threads -> Entry \cup {None}]
    BY <1>3, <2>1 DEF QInv, TypeOK, take
  <2> QED BY <1>2, <1>3, <2>1, <2>2, <2>3, ChangeStep DEF take
<1>4. CASE sleep(t, "popTimed") /\ deadline' = [deadline EXCEPT ![t] = Head(queue_).when]
  BY <1>2, <1>4, SleepStep
<1> QED BY <1>3, <1>4 DEF takeOrSleep

\* A thread that is not asleep, inside the queue or not.
LEMMA Awake ==
  ASSUME QInv, NEW t \in Threads, op[t] = "idle" \/ \E o \in Ops : Woken(t, o)
  PROVE  t \notin waiting
BY DEF QInv, TypeOK, Sleepers, Woken

LEMMA PopStep ==
  ASSUME QInv, NEW t \in Threads, interruptiblePop(t) \/ popAfterEmpty(t) \/ popAfterTimed(t)
  PROVE  QInv'
<1>1. t \notin waiting /\ op[t] # "notify" /\ arg' = arg
  BY Awake DEF interruptiblePop, popAfterEmpty, popAfterTimed, Woken, Ops
<1>2. ArgsOf(t)
  BY <1>1 DEF QInv, TypeOK, ArgsOf
<1>3. CASE interruptiblePop(t)
  <2>1. CASE Empty /\ sleep(t, "popEmpty") /\ UNCHANGED deadline
    BY <1>1, <1>2, <2>1, SleepStep
  <2>2. CASE ~Empty /\ takeOrSleep(t)
    BY <1>1, <2>2, TakeOrSleepStep
  <2> QED BY <1>3, <2>1, <2>2 DEF interruptiblePop
<1>4. CASE popAfterEmpty(t)
  <2>1. CASE Empty /\ return(t)
    BY <1>1, <1>2, <2>1, ReturnStep DEF return
  <2>2. CASE ~Empty /\ takeOrSleep(t)
    BY <1>1, <2>2, TakeOrSleepStep
  <2> QED BY <1>4, <2>1, <2>2 DEF popAfterEmpty
<1>5. CASE popAfterTimed(t)
  BY <1>1, <1>2, <1>5, ReturnStep DEF popAfterTimed, return
<1> QED BY <1>3, <1>4, <1>5

\* What does not touch the jobs.
LEMMA OtherStep ==
  ASSUME QInv, \/ tick \/ \E t \in Threads : wakeup(t) \/ timeout(t) \/ spuriousWakeup(t)
               \/ UNCHANGED vars
  PROVE  QInv'
<1>1. CASE tick
  <2>1. now' \in Times
    BY <1>1, DelayedQueueAssumption DEF QInv, TypeOK, Times, tick
  <2> QED BY <1>1, <2>1, WakeStep DEF tick
<1>2. CASE \E t \in Threads : wakeup(t) \/ timeout(t) \/ spuriousWakeup(t)
  BY <1>2, WakeStep DEF QInv, TypeOK, wakeup, timeout, spuriousWakeup
<1>3. CASE UNCHANGED vars
  BY <1>3, WakeStep DEF QInv, TypeOK, vars
<1> QED BY <1>1, <1>2, <1>3

LEMMA InitQInv == Init => QInv
<1> SUFFICES ASSUME Init PROVE QInv
  OBVIOUS
<1>1. TypeOK
  BY DelayedQueueAssumption DEF Init, TypeOK, Ops, Times
<1> QED BY <1>1 DEF Init, QInv, Sorted, Counted, BlockedArgs, Sleepers, NoOversleep

\* A step of insert() in DelayedQueue.
LEMMA InsertStep ==
  ASSUME QInv, NEW t \in Threads,
         (\E e \in Entry, block \in BOOLEAN : insert(t, e, block)) \/ insertAgain(t)
  PROVE  QInv'
<1>1. ASSUME NEW e \in Entry, NEW block \in BOOLEAN, insert(t, e, block) PROVE QInv'
  <2>1. op[t] = "idle" /\ t \notin waiting /\ op[t] # "notify"
    BY <1>1, Awake DEF insert, insertCall
  <2>2. CASE ~Full /\ put(t, e) /\ UNCHANGED arg
    <3>1. ArgsOf(t)
      BY <2>2 DEF QInv, TypeOK, ArgsOf
    <3> QED BY <2>1, <2>2, <3>1, PutStep
  <2>3. CASE UNCHANGED vars
    BY <2>3, OtherStep
  <2>4. CASE Full /\ sleep(t, "insert") /\ arg' = [arg EXCEPT ![t] = e] /\ UNCHANGED deadline
    <3>1. ArgsOf(t) /\ arg'[t] \in Entry
      BY <2>4 DEF QInv, TypeOK, ArgsOf
    <3> QED BY <2>1, <2>4, <3>1, SleepStep
  <2> QED BY <1>1, <2>2, <2>3, <2>4 DEF insert, insertCall
<1>2. CASE insertAgain(t)
  <2>1. t \notin waiting /\ op[t] = "insert" /\ op[t] # "notify" /\ arg[t] \in Entry
    BY <1>2 DEF insertAgain, insertRetry, Woken, QInv, BlockedArgs
  <2>2. CASE ~Full /\ put(t, arg[t]) /\ arg' = [arg EXCEPT ![t] = None]
    <3>1. ArgsOf(t)
      BY <2>2 DEF QInv, TypeOK, ArgsOf
    <3> QED BY <2>1, <2>2, <3>1, PutStep
  <2>3. CASE Full /\ sleep(t, "insert") /\ UNCHANGED <<arg, deadline>>
    <3>1. ArgsOf(t) /\ arg'[t] \in Entry
      BY <2>1, <2>3 DEF QInv, TypeOK, ArgsOf
    <3> QED BY <2>1, <2>3, <3>1, SleepStep
  <2> QED BY <1>2, <2>2, <2>3 DEF insertAgain, insertRetry
<1> QED BY <1>1, <1>2

LEMMA NextQInv == QInv /\ [Next]_vars => QInv'
<1>1. Producers \subseteq Threads /\ Consumers \subseteq Threads
  BY DEF Threads
<1> QED BY <1>1, InsertStep, PopStep, OtherStep, NotifyStep DEF Next

\* Type correctness of DelayedQueue.
THEOREM TypeCorrect == Spec => []TypeOK
<1>1. QInv => TypeOK
  BY DEF QInv
<1> QED BY <1>1, InitQInv, NextQInv, PTL DEF Spec

\* DelayedQueue hands out the job that is due first, and no thread sleeps in it through a
\* change that concerns it.
THEOREM InTimeCorrect == Spec => []InTime
<1>1. QInv => InTime
  BY DEF QInv, InTime
<1> QED BY <1>1, InitQInv, NextQInv, PTL DEF Spec

-----------------------------------------------------------------------------
\* The coalescing queue.  q is indexed by m: each job is queued once, at the time of the
\* index, and every job of the index is queued; and no two jobs have the same time.
Indexed(q, m) ==
  /\ \A i, j \in DOMAIN q : q[i].job = q[j].job => i = j
  /\ \A i \in DOMAIN q : m[q[i].job] = q[i].when
  /\ \A j \in Jobs : m[j] # None => \E i \in DOMAIN q : q[i].job = j
TimesApart(q) == \A i, j \in DOMAIN q : q[i].when = q[j].when => q[i].job = q[j].job

CInv ==
  /\ QInv
  /\ map_ \in [Jobs -> Times \cup {None}] /\ collided \in BOOLEAN
  /\ ~collided => Indexed(queue_, map_) /\ TimesApart(queue_)

\* A new job is indexed where it is placed.
LEMMA IndexNew ==
  ASSUME NEW q \in Seq(Entry), Ordered(q), NEW e \in Entry, NEW m \in [Jobs -> Times \cup {None}],
         Indexed(q, m), m[e.job] = None \/ \A i \in DOMAIN q : q[i].job # e.job
  PROVE  Indexed(emplace(q, e), [m EXCEPT ![e.job] = e.when])
<1> DEFINE r == emplace(q, e)
           n == upper_bound(q, e.when)
           To(i) == IF i <= n THEN i ELSE i + 1
           p == [m EXCEPT ![e.job] = e.when]
<1>1. /\ n + 1 \in DOMAIN r /\ r[n + 1] = e
      /\ \A i \in DOMAIN q : To(i) \in DOMAIN r /\ To(i) # n + 1 /\ r[To(i)] = q[i]
      /\ \A k \in DOMAIN r : k = n + 1 \/ \E i \in DOMAIN q : k = To(i)
  BY EmplaceEntries
<1> HIDE DEF r, To
<1>2. \A i \in DOMAIN q : q[i].job # e.job /\ q[i].job \in Jobs
  <2>1. \A i \in DOMAIN q : q[i] \in Entry /\ q[i].when \in Nat /\ q[i].job \in Jobs
    BY Entries
  <2>2. None \notin Nat
    BY DelayedQueueAssumption
  <2> QED BY <2>1, <2>2 DEF Indexed
<1>3. e.job \in Jobs
  BY Entries
<1>4. p[e.job] = e.when /\ \A j \in Jobs : j # e.job => p[j] = m[j]
  BY <1>3
<1> HIDE DEF p
<1>5. \A i, j \in DOMAIN r : r[i].job = r[j].job => i = j
  BY <1>1, <1>2 DEF Indexed
<1>6. \A i \in DOMAIN r : p[r[i].job] = r[i].when
  BY <1>1, <1>2, <1>4 DEF Indexed
<1>7. \A j \in Jobs : p[j] # None => \E i \in DOMAIN r : r[i].job = j
  BY <1>1, <1>4 DEF Indexed
<1> QED BY <1>5, <1>6, <1>7 DEF Indexed, p, r

\* Erasing the time of a queued job takes that job out of the queue and no other.
LEMMA IndexErase ==
  ASSUME NEW q \in Seq(Entry), Ordered(q), NEW m \in [Jobs -> Times \cup {None}],
         Indexed(q, m), TimesApart(q), NEW j \in Jobs, m[j] # None
  PROVE  LET r == erase(q, m[j]) IN
         /\ r \in Seq(Entry) /\ Ordered(r) /\ Len(r) <= Len(q)
         /\ \A i \in DOMAIN r : r[i].job # j
         /\ Indexed(r, [m EXCEPT ![j] = None])
<1> DEFINE w == m[j]
           r == erase(q, w)
           lo == lower_bound(q, w)
           hi == upper_bound(q, w)
           From(k) == IF k <= lo THEN k ELSE k + (hi - lo)
           p == [m EXCEPT ![j] = None]
<1>1. w \in Times
  OBVIOUS
<1>2. /\ r \in Seq(Entry) /\ Ordered(r) /\ Len(r) <= Len(q)
      /\ \A k \in DOMAIN r : From(k) \in DOMAIN q /\ r[k] = q[From(k)] /\ r[k].when # w
      /\ \A i, k \in DOMAIN r : From(i) = From(k) => i = k
      /\ \A i \in DOMAIN q : q[i].when # w => \E k \in DOMAIN r : i = From(k)
  BY <1>1, EraseEntries
<1> HIDE DEF r, From
<1>3. \A i \in DOMAIN q : q[i].job \in Jobs
  BY Entries
<1>4. \A i \in DOMAIN q : q[i].when = w <=> q[i].job = j
  <2>1. PICK k \in DOMAIN q : q[k].job = j
    BY DEF Indexed
  <2>2. q[k].when = w
    BY <2>1 DEF Indexed
  <2> QED BY <2>1, <2>2 DEF Indexed, TimesApart
<1>5. \A i \in DOMAIN r : r[i].job # j
  BY <1>2, <1>4
<1>6. p[j] = None /\ \A k \in Jobs : k # j => p[k] = m[k]
  OBVIOUS
<1> HIDE DEF p
<1>7. \A i, k \in DOMAIN r : r[i].job = r[k].job => i = k
  BY <1>2 DEF Indexed
<1>8. \A i \in DOMAIN r : p[r[i].job] = r[i].when
  BY <1>2, <1>3, <1>5, <1>6 DEF Indexed
<1>9. \A k \in Jobs : p[k] # None => \E i \in DOMAIN r : r[i].job = k
  <2> SUFFICES ASSUME NEW k \in Jobs, p[k] # None PROVE \E i \in DOMAIN r : r[i].job = k
    OBVIOUS
  <2>1. PICK i \in DOMAIN q : q[i].job = k
    BY <1>6 DEF Indexed
  <2>2. q[i].when # w
    BY <1>4, <1>6, <2>1
  <2> QED BY <1>2, <2>1, <2>2
<1> QED BY <1>2, <1>5, <1>7, <1>8, <1>9 DEF Indexed, r, p

\* Taking the first job takes it out of the index.
LEMMA IndexTake ==
  ASSUME NEW q \in Seq(Entry), Ordered(q), q # <<>>, NEW m \in [Jobs -> Times \cup {None}],
         Indexed(q, m)
  PROVE  Indexed(Tail(q), [m EXCEPT ![Head(q).job] = None])
<1> DEFINE r == Tail(q)
           j == Head(q).job
           p == [m EXCEPT ![j] = None]
<1>1. /\ Head(q) = q[1] /\ Head(q) \in Entry /\ 1 \in DOMAIN q
      /\ \A i \in DOMAIN r : i + 1 \in DOMAIN q /\ i + 1 # 1 /\ r[i] = q[i + 1] /\ i \in Int
      /\ \A i \in DOMAIN q : i = 1 \/ (i - 1 \in DOMAIN r /\ r[i - 1] = q[i])
  <2>1. \A i \in DOMAIN r : i \in Int
    BY TailOrdered
  <2> QED BY <2>1, TailOrdered
<1> HIDE DEF r
<1>2. j \in Jobs /\ \A i \in DOMAIN q : q[i].job \in Jobs
  BY <1>1, Entries
<1>3. p[j] = None /\ \A k \in Jobs : k # j => p[k] = m[k]
  BY <1>2
<1> HIDE DEF p
<1>4. \A i \in DOMAIN r : r[i].job # j
  BY <1>1 DEF Indexed
<1>5. \A i, k \in DOMAIN r : r[i].job = r[k].job => i = k
  <2> SUFFICES ASSUME NEW i \in DOMAIN r, NEW k \in DOMAIN r, r[i].job = r[k].job PROVE i = k
    OBVIOUS
  <2>1. /\ i + 1 \in DOMAIN q /\ k + 1 \in DOMAIN q /\ i \in Int /\ k \in Int
        /\ q[i + 1].job = q[k + 1].job
    BY <1>1
  <2>2. i + 1 = k + 1
    BY <2>1 DEF Indexed
  <2> QED BY <2>1, <2>2
<1>6. \A i \in DOMAIN r : p[r[i].job] = r[i].when
  BY <1>1, <1>2, <1>3, <1>4 DEF Indexed
<1>7. \A k \in Jobs : p[k] # None => \E i \in DOMAIN r : r[i].job = k
  <2> SUFFICES ASSUME NEW k \in Jobs, p[k] # None PROVE \E i \in DOMAIN r : r[i].job = k
    OBVIOUS
  <2>1. PICK i \in DOMAIN q : q[i].job = k
    BY <1>3 DEF Indexed
  <2>2. i # 1
    BY <1>1, <1>3, <2>1
  <2> QED BY <1>1, <2>1, <2>2
<1> QED BY <1>5, <1>6, <1>7 DEF Indexed, r, p

\* insert() with room: a new job, a job moved forward, or one that stays where it is.
LEMMA CoalPutStep ==
  ASSUME CInv, NEW t \in Threads, t \notin waiting, op[t] # "notify", NEW e \in Entry,
         coalPut(t, e), ArgsOf(t)
  PROVE  /\ QInv' /\ map_' \in [Jobs -> Times \cup {None}]
         /\ ~collided => Indexed(queue_', map_')
<1> DEFINE old == map_[e.job]
<1>1. /\ QInv /\ Ordered(queue_) /\ queue_ \in Seq(Entry)
      /\ length_ \in Nat /\ Len(queue_) <= length_ /\ Len(queue_) \in Nat
      /\ map_ \in [Jobs -> Times \cup {None}] /\ e.job \in Jobs /\ e.when \in Times
  BY Entries DEF CInv, QInv, TypeOK, Sorted, Ordered, Counted
<1>2. CASE old = None
  <2>1. put(t, e) /\ map_' = [map_ EXCEPT ![e.job] = e.when]
    BY <1>2 DEF coalPut
  <2>2. QInv'
    BY <1>1, <2>1, PutStep
  <2>3. queue_' = emplace(queue_, e)
    BY <2>1 DEF put
  <2>4. ~collided => Indexed(queue_', map_')
    BY <1>1, <1>2, <2>1, <2>3, IndexNew DEF CInv
  <2> QED BY <1>1, <2>1, <2>2, <2>4
<1>3. CASE old # None /\ old > e.when
  <2> DEFINE r == erase(queue_, old)
  <2>1. /\ queue_' = emplace(r, e) /\ map_' = [map_ EXCEPT ![e.job] = e.when]
        /\ length_' = length_ + 1 /\ op' = [op EXCEPT ![t] = "notify"]
        /\ UNCHANGED <<now, waiting, ret, deadline>>
    BY <1>3 DEF coalPut
  <2>2. old \in Times
    BY <1>1, <1>3
  <2>3. r \in Seq(Entry) /\ Ordered(r) /\ Len(r) <= Len(queue_) /\ Len(r) \in Nat
    <3>1. r \in Seq(Entry) /\ Ordered(r) /\ Len(r) <= Len(queue_)
      BY <1>1, <2>2, EraseEntries
    <3> HIDE DEF r
    <3> QED BY <3>1
  <2>4. queue_' \in Seq(Entry) /\ Ordered(queue_') /\ Len(queue_') = Len(r) + 1
    <3> HIDE DEF r
    <3> QED BY <2>1, <2>3, EmplaceOrdered
  <2>5. QInv'
    <3> HIDE DEF r
    <3>1. length_' \in Nat /\ Len(queue_') <= length_'
      BY <1>1, <2>1, <2>3, <2>4
    <3>2. ret' \in [Threads -> Entry \cup {None}]
      BY <1>1, <2>1 DEF QInv, TypeOK
    <3> QED BY <1>1, <2>1, <2>4, <3>1, <3>2, ChangeStep
  <2>6. ASSUME ~collided PROVE Indexed(queue_', map_')
    <3> DEFINE m == [map_ EXCEPT ![e.job] = None]
    <3>1. (\A i \in DOMAIN r : r[i].job # e.job) /\ Indexed(r, m)
      BY <1>1, <1>3, <2>6, IndexErase DEF CInv
    <3>2. m \in [Jobs -> Times \cup {None}] /\ [m EXCEPT ![e.job] = e.when] = map_'
      BY <1>1, <2>1
    <3> HIDE DEF r, m
    <3>3. Indexed(emplace(r, e), [m EXCEPT ![e.job] = e.when])
      BY <2>3, <3>1, <3>2, IndexNew
    <3> QED BY <2>1, <3>2, <3>3
  <2> QED BY <1>1, <2>1, <2>5, <2>6
<1>4. CASE old # None /\ ~(old > e.when)
  <2>1. /\ op' = [op EXCEPT ![t] = "idle"]
        /\ UNCHANGED <<queue_, length_, now, waiting, ret, deadline, map_>>
    BY <1>4 DEF coalPut
  <2>2. QInv'
    BY <1>1, <2>1, ReturnStep
  <2> QED BY <1>1, <2>1, <2>2 DEF CInv
<1> QED BY <1>2, <1>3, <1>4

\* What changes neither the queue nor the index keeps them in agreement.
LEMMA CoalKept ==
  ASSUME CInv, UNCHANGED <<queue_, map_>>
  PROVE  /\ map_' \in [Jobs -> Times \cup {None}]
         /\ ~collided => Indexed(queue_', map_')
BY DEF CInv

LEMMA CoalInsertStep ==
  ASSUME CInv, NEW t \in Threads,
         \/ \E e \in Entry, block \in BOOLEAN : coalInsert(t, e, block)
         \/ coalInsertAgain(t)
  PROVE  /\ QInv' /\ map_' \in [Jobs -> Times \cup {None}]
         /\ ~collided => Indexed(queue_', map_')
<1>1. QInv
  BY DEF CInv
<1>2. ASSUME NEW e \in Entry, NEW block \in BOOLEAN, coalInsert(t, e, block)
      PROVE  /\ QInv' /\ map_' \in [Jobs -> Times \cup {None}]
             /\ ~collided => Indexed(queue_', map_')
  <2>1. op[t] = "idle" /\ t \notin waiting /\ op[t] # "notify" /\ (Full => UNCHANGED map_)
    BY <1>1, <1>2, Awake DEF coalInsert, insertCall
  <2>2. CASE ~Full /\ coalPut(t, e) /\ UNCHANGED arg
    <3>1. ArgsOf(t)
      BY <1>1, <2>2 DEF QInv, TypeOK, ArgsOf
    <3> QED BY <2>1, <2>2, <3>1, CoalPutStep
  <2>3. CASE Full /\ UNCHANGED vars
    <3>1. QInv'
      BY <1>1, <2>3, OtherStep
    <3> QED BY <2>1, <2>3, <3>1, CoalKept DEF vars
  <2>4. CASE Full /\ sleep(t, "insert") /\ arg' = [arg EXCEPT ![t] = e] /\ UNCHANGED deadline
    <3>1. ArgsOf(t) /\ arg'[t] \in Entry
      BY <1>1, <2>4 DEF QInv, TypeOK, ArgsOf
    <3>2. QInv'
      BY <1>1, <2>1, <2>4, <3>1, SleepStep
    <3> QED BY <2>1, <2>4, <3>2, CoalKept DEF sleep
  <2> QED BY <1>2, <2>2, <2>3, <2>4 DEF coalInsert, insertCall
<1>3. CASE coalInsertAgain(t)
  <2>1. /\ t \notin waiting /\ op[t] = "insert" /\ op[t] # "notify" /\ arg[t] \in Entry
        /\ Full => UNCHANGED map_
    BY <1>1, <1>3 DEF coalInsertAgain, insertRetry, Woken, QInv, BlockedArgs
  <2>2. CASE ~Full /\ coalPut(t, arg[t]) /\ arg' = [arg EXCEPT ![t] = None]
    <3>1. ArgsOf(t)
      BY <1>1, <2>2 DEF QInv, TypeOK, ArgsOf
    <3> QED BY <2>1, <2>2, <3>1, CoalPutStep
  <2>3. CASE Full /\ sleep(t, "insert") /\ UNCHANGED <<arg, deadline>>
    <3>1. ArgsOf(t) /\ arg'[t] \in Entry
      BY <1>1, <2>1, <2>3 DEF QInv, TypeOK, ArgsOf
    <3>2. QInv'
      BY <1>1, <2>1, <2>3, <3>1, SleepStep
    <3> QED BY <2>1, <2>3, <3>2, CoalKept DEF sleep
  <2> QED BY <1>3, <2>2, <2>3 DEF coalInsertAgain, insertRetry
<1> QED BY <1>2, <1>3

LEMMA CoalPopStep ==
  ASSUME CInv, NEW t \in Threads, coalPop(t)
  PROVE  /\ QInv' /\ map_' \in [Jobs -> Times \cup {None}]
         /\ ~collided => Indexed(queue_', map_')
<1>1. /\ QInv /\ Ordered(queue_) /\ queue_ \in Seq(Entry)
      /\ map_ \in [Jobs -> Times \cup {None}] /\ op \in [Threads -> Ops]
  BY DEF CInv, QInv, TypeOK, Sorted, Ordered
<1>2. QInv'
  BY <1>1, PopStep DEF coalPop
<1>3. CASE ~Empty /\ take(t)
  <2>1. queue_' = Tail(queue_) /\ map_' = [map_ EXCEPT ![Head(queue_).job] = None]
    BY <1>1, <1>3 DEF coalPop, popMap, take
  <2>2. Head(queue_) \in Entry /\ Head(queue_).job \in Jobs
    BY <1>1, <1>3, Entries, TailOrdered DEF Empty
  <2>3. ~collided => Indexed(queue_', map_')
    BY <1>1, <1>3, <2>1, IndexTake DEF CInv, Empty
  <2> QED BY <1>1, <1>2, <2>1, <2>2, <2>3
<1>4. CASE ~(~Empty /\ take(t))
  <2>1. (\E o \in {"popEmpty", "popTimed"} : sleep(t, o)) \/ return(t)
    BY <1>4 DEF coalPop, interruptiblePop, popAfterEmpty, popAfterTimed, takeOrSleep
  <2>2. queue_' = queue_ /\ op'[t] # "notify"
    BY <1>1, <2>1 DEF sleep, return
  <2>3. map_' = map_
    BY <2>2 DEF coalPop, popMap
  <2> QED BY <1>2, <2>2, <2>3, CoalKept
<1> QED BY <1>3, <1>4

LEMMA CoalNextInv == CInv /\ [CoalNext]_coalVars => CInv'
<1> SUFFICES ASSUME CInv, [CoalNext]_coalVars PROVE CInv'
  OBVIOUS
<1>1. Producers \subseteq Threads /\ Consumers \subseteq Threads /\ QInv
  BY DEF Threads, CInv
<1>2. CASE UNCHANGED coalVars
  <2>1. QInv'
    BY <1>1, <1>2, OtherStep DEF coalVars
  <2> QED BY <1>2, <2>1 DEF coalVars, vars, CInv, TimesApart
<1>3. CASE CoalNext
  <2>1. /\ QInv' /\ map_' \in [Jobs -> Times \cup {None}]
        /\ ~collided => Indexed(queue_', map_')
    <3>1. CASE tick /\ UNCHANGED map_
      BY <1>1, <3>1, OtherStep, CoalKept DEF tick
    <3>2. ASSUME NEW p \in Threads, wakeup(p) \/ timeout(p) \/ spuriousWakeup(p), UNCHANGED map_
          PROVE  /\ QInv' /\ map_' \in [Jobs -> Times \cup {None}]
                 /\ ~collided => Indexed(queue_', map_')
      BY <1>1, <3>2, OtherStep, CoalKept DEF wakeup, timeout, spuriousWakeup
    <3>3. ASSUME NEW p \in Threads, notifyAll(p), UNCHANGED map_
          PROVE  /\ QInv' /\ map_' \in [Jobs -> Times \cup {None}]
                 /\ ~collided => Indexed(queue_', map_')
      BY <1>1, <3>3, NotifyStep, CoalKept DEF notifyAll
    <3> QED BY <1>1, <1>3, <3>1, <3>2, <3>3, CoalInsertStep, CoalPopStep DEF CoalNext, CoalStep
  <2>2. collided' = (collided \/ Collision')
    BY <1>3 DEF CoalNext
  <2>3. collided' \in BOOLEAN /\ (~collided' => ~collided /\ ~Collision')
    BY <2>2
  <2>4. ~Collision' => TimesApart(queue_')
    BY DEF Collision, TimesApart
  <2> QED BY <2>1, <2>3, <2>4 DEF CInv
<1> QED BY <1>2, <1>3

LEMMA CoalInitInv == CoalInit => CInv
<1> SUFFICES ASSUME CoalInit PROVE CInv
  OBVIOUS
<1>1. QInv
  BY InitQInv DEF CoalInit
<1>2. DOMAIN queue_ = {} /\ \A j \in Jobs : map_[j] = None
  BY DEF CoalInit, Init
<1>3. Indexed(queue_, map_) /\ TimesApart(queue_)
  BY <1>2 DEF Indexed, TimesApart
<1> QED BY <1>1, <1>3 DEF CoalInit, CInv

\* The invariant says that the index and the queue agree.
LEMMA IndexedIsNoJobLost == CInv => NoJobLost
<1> SUFFICES ASSUME CInv, ~collided, NEW j \in Jobs
             PROVE  LET at == {i \in DOMAIN queue_ : queue_[i].job = j} IN
                    IF map_[j] = None THEN at = {}
                    ELSE \E i \in at : at = {i} /\ queue_[i].when = map_[j]
  BY DEF NoJobLost
<1> DEFINE at == {i \in DOMAIN queue_ : queue_[i].job = j}
<1>1. Indexed(queue_, map_) /\ queue_ \in Seq(Entry)
  BY DEF CInv, QInv, TypeOK
<1>2. CASE map_[j] = None
  <2>1. \A i \in DOMAIN queue_ : queue_[i].when \in Nat
    BY <1>1, Entries
  <2>2. at = {}
    BY <1>1, <1>2, <2>1, DelayedQueueAssumption DEF Indexed
  <2> QED BY <1>2, <2>2
<1>3. CASE map_[j] # None
  <2>1. PICK i \in DOMAIN queue_ : queue_[i].job = j
    BY <1>1, <1>3 DEF Indexed
  <2>2. i \in at /\ at = {i} /\ queue_[i].when = map_[j]
    BY <1>1, <2>1 DEF Indexed
  <2> QED BY <1>3, <2>2
<1> QED BY <1>2, <1>3

\* The coalescing queue loses no job and queues each once, at the time its index says,
\* however often it is moved, until two jobs are queued for the same time.
THEOREM NoJobLostCorrect == CoalSpec => []NoJobLost
<1>1. CInv => NoJobLost
  BY IndexedIsNoJobLost DEF CInv, QInv
<1> QED BY <1>1, CoalInitInv, CoalNextInv, PTL DEF CoalSpec

\* The entries stay in the order of their times although jobs are moved, and no thread
\* sleeps through a change: whether or not two jobs were queued for one time.
THEOREM CoalInTimeCorrect == CoalSpec => []InTime
<1>1. CInv => InTime
  BY DEF CInv, QInv, InTime
<1> QED BY <1>1, CoalInitInv, CoalNextInv, PTL DEF CoalSpec

\* Type correctness of CoalescingDelayedQueue.
THEOREM CoalTypeCorrect == CoalSpec => []CoalTypeOK
<1>1. CInv => CoalTypeOK
  BY DEF CInv, QInv, CoalTypeOK
<1> QED BY <1>1, CoalInitInv, CoalNextInv, PTL DEF CoalSpec
=============================================================================
