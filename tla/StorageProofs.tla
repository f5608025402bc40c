---------------------------- MODULE StorageProofs ----------------------------
(***************************************************************************)
(* The pages of PageManager partition the bytes between the initial end of *)
(* the file and end_pos_, for any holders, sizes and block size: they do   *)
(* not overlap and none is lost.  The three facts are inductive together:  *)
(* a page cut from the end is apart from the others because they lie       *)
(* inside the old end, and a page moves between live and freelist_ whole.  *)
(* MmapPageManager implements PageManager, and while shrinkFile() does not *)
(* run beside getPage(), a mapped page is spanned by its mapping and       *)
(* backed by the file.                                                     *)
(*                                                                         *)
(* PersistentHashSet keeps every id whose insertion was reported, for any  *)
(* ids, hashes, readers, table and batch sizes, and implements RecordSet:  *)
(* every id is reached by its probes before an empty slot, also in a table *)
(* that has grown and holds some ids twice.                                *)
(*                                                                         *)
(* FileUtil::mkdir_p() called by several processes completes the path and  *)
(* no update under FileLock is lost.  Every descriptor of File, the        *)
(* streams and FileUtil::cp() has one owner that closes it, and a copy     *)
(* nobody interferes with has the bytes of its source.                     *)
(***************************************************************************)
EXTENDS MmapPageManager, PersistentHashSet, Files, Handles, FiniteSetTheorems,
        SequenceTheorems, WellFoundedInduction, TLAPS

Inv == TypeOK /\ NoOverlap /\ PagesInside /\ NoLeak

\* align() is a natural number: the only fact about it that the partition needs.
LEMMA AlignNat == \A n \in Nat : align(n) \in Nat
  <1>1. \A n \in Nat : n + block_size_ - 1 \in Nat
    BY PageManagerAssumption
  <1>2. \A m \in Nat : m \div block_size_ \in Nat
    BY PageManagerAssumption
  <1>3. \A m \in Nat : m * block_size_ \in Nat
    BY PageManagerAssumption
  <1> QED BY <1>1, <1>2, <1>3 DEF align

\* What freelist_.erase(iter) leaves: one entry less, every entry of the result is
\* an entry of the old list other than i, and each such entry is still there.
LEMMA EraseAt ==
  ASSUME NEW S, NEW s \in Seq(S), NEW i \in 1..Len(s)
  PROVE  /\ eraseAt(s, i) \in Seq(S)
         /\ Len(eraseAt(s, i)) = Len(s) - 1
         /\ \A j \in 1..(Len(s) - 1) :
              eraseAt(s, i)[j] = s[IF j < i THEN j ELSE j + 1]
         /\ \A k \in 1..Len(s) : k # i =>
              \E j \in 1..(Len(s) - 1) : eraseAt(s, i)[j] = s[k]
  <1> DEFINE n == Len(s)
             e == eraseAt(s, i)
  <1>1. n \in Nat /\ i \in 1..n /\ n - 1 \in Nat
    OBVIOUS
  <1>2. \A j \in 1..(n - 1) : e[j] = IF j < i THEN s[j] ELSE s[j + 1]
    BY DEF eraseAt
  <1>3. \A j \in 1..(n - 1) : e[j] \in S
    BY <1>1, <1>2
  <1>4. e \in [1..(n - 1) -> S]
    BY <1>3 DEF eraseAt
  <1>5. e \in Seq(S) /\ Len(e) = n - 1
    BY <1>1, <1>4
  <1>6. ASSUME NEW k \in 1..n, k # i
        PROVE  \E j \in 1..(n - 1) : e[j] = s[k]
    <2>1. CASE k < i
      <3>1. k \in 1..(n - 1) /\ e[k] = s[k]
        BY <1>1, <1>2, <2>1
      <3> QED BY <3>1
    <2>2. CASE k > i
      <3>1. k - 1 \in 1..(n - 1) /\ ~(k - 1 < i) /\ (k - 1) + 1 = k
        BY <1>1, <2>2
      <3>2. e[k - 1] = s[k]
        BY <1>2, <3>1
      <3> QED BY <3>1, <3>2
    <2> QED BY <1>1, <1>6, <2>1, <2>2
  <1> QED BY <1>2, <1>5, <1>6

\* The empty manager satisfies the invariant.
LEMMA InitInv == Init => Inv
  <1> SUFFICES ASSUME Init PROVE Inv
    OBVIOUS
  <1> USE PageManagerAssumption, NoneIsNoPage DEF Init
  <1>1. TypeOK
    BY DEF TypeOK
  <1>2. NoOverlap
    BY DEF NoOverlap
  <1>3. PagesInside
    BY DEF PagesInside
  <1>4. NoLeak
    BY DEF NoLeak
  <1> QED BY <1>1, <1>2, <1>3, <1>4 DEF Inv

\* allocPage() from the free list: entry i becomes h's page, as it is.
LEMMA ReuseInv ==
  ASSUME Inv, NEW h \in Holders, NEW n \in Nat, live[h] = None, reusePage(h, n),
         asked' \in [Holders -> Nat]
  PROVE  Inv'
  <1> USE NoneIsNoPage, PageManagerAssumption
  <1>0. PICK i \in 1..Len(freelist_) :
          /\ live' = [live EXCEPT ![h] = freelist_[i]]
          /\ freelist_' = eraseAt(freelist_, i)
          /\ end_pos_' = end_pos_
    BY DEF reusePage
  <1> DEFINE L == Len(freelist_)
             src(j) == IF j < i THEN j ELSE j + 1
  <1>1. freelist_ \in Seq(Page) /\ live \in [Holders -> Page \cup {None}] /\ end_pos_ \in Nat
    BY DEF Inv, TypeOK
  <1>2. L \in Nat /\ freelist_[i] \in Page /\ freelist_[i] # None
    BY <1>1
  <1>3. /\ freelist_' \in Seq(Page)
        /\ Len(freelist_') = L - 1
        /\ \A j \in 1..(L - 1) : freelist_'[j] = freelist_[src(j)]
        /\ \A k \in 1..L : k # i => \E j \in 1..(L - 1) : freelist_'[j] = freelist_[k]
    BY <1>0, <1>1, EraseAt
  <1>4. /\ live'[h] = freelist_[i]
        /\ \A g \in Holders : g # h => live'[g] = live[g]
        /\ live' \in [Holders -> Page \cup {None}]
    BY <1>0, <1>1, <1>2
  <1>5. \A j \in 1..(L - 1) : src(j) \in 1..L /\ src(j) # i
    BY <1>2
  <1>6. \A j, k \in 1..(L - 1) : j # k => src(j) # src(k)
    BY <1>2
  <1> HIDE DEF src
  <1>7. TypeOK'
    BY <1>0, <1>1, <1>3, <1>4 DEF TypeOK
  <1>8. NoOverlap'
    <2> USE DEF Inv, NoOverlap
    <2>1. ASSUME NEW g \in Holders, NEW k \in Holders,
                 g # k, live'[g] # None, live'[k] # None
          PROVE  Apart(live'[g], live'[k])
      <3>1. CASE g = h
        <4>1. Apart(live[k], freelist_[i])
          BY <1>4, <2>1, <3>1
        <4>2. live'[k] = live[k] /\ live'[g] = freelist_[i] /\ live[k] \in Page
          BY <1>1, <1>4, <2>1, <3>1
        <4> QED BY <1>2, <4>1, <4>2 DEF Apart, Page
      <3>2. CASE k = h
        BY <1>4, <2>1, <3>2
      <3>3. CASE g # h /\ k # h
        BY <1>4, <2>1, <3>3
      <3> QED BY <3>1, <3>2, <3>3
    <2>2. ASSUME NEW j \in 1..(L - 1), NEW k \in 1..(L - 1), j # k
          PROVE  Apart(freelist_'[j], freelist_'[k])
      BY <1>3, <1>5, <1>6, <2>2
    <2>3. ASSUME NEW g \in Holders, NEW j \in 1..(L - 1), live'[g] # None
          PROVE  Apart(live'[g], freelist_'[j])
      BY <1>3, <1>4, <1>5, <2>3
    <2> QED BY <1>3, <2>1, <2>2, <2>3
  <1>9. PagesInside'
    <2>1. InitialEnd <= end_pos_ /\ \A k \in 1..L : Inside(freelist_[k])
      BY DEF Inv, PagesInside
    <2>2. \A j \in 1..(L - 1) : Inside(freelist_'[j])
      BY <1>3, <1>5, <2>1
    <2>3. \A g \in Holders : live'[g] # None => Inside(live'[g])
      BY <1>4, <2>1 DEF Inv, PagesInside
    <2> QED BY <1>0, <1>3, <2>1, <2>2, <2>3 DEF PagesInside, Inside
  <1>10. NoLeak'
    <2> SUFFICES ASSUME NEW b \in InitialEnd..(end_pos_ - 1)
                 PROVE  \/ \E g \in Holders : live'[g] # None /\ Covers(live'[g], b)
                        \/ \E j \in 1..(L - 1) : Covers(freelist_'[j], b)
      BY <1>0, <1>3 DEF NoLeak, Covers
    <2>1. CASE \E g \in Holders : live[g] # None /\ Covers(live[g], b)
      BY <1>4, <2>1
    <2>2. CASE \E k \in 1..L : Covers(freelist_[k], b)
      <3>1. PICK k \in 1..L : Covers(freelist_[k], b)
        BY <2>2
      <3>2. CASE k = i
        BY <1>2, <1>4, <3>1, <3>2
      <3>3. CASE k # i
        BY <1>3, <3>1, <3>3
      <3> QED BY <3>2, <3>3
    <2> QED BY <2>1, <2>2 DEF Inv, NoLeak
  <1> QED BY <1>7, <1>8, <1>9, <1>10 DEF Inv

\* allocPage() from the end of the file.
LEMMA ExtendInv ==
  ASSUME Inv, NEW h \in Holders, NEW n \in Nat, live[h] = None, extendFile(h, n),
         asked' \in [Holders -> Nat]
  PROVE  Inv'
  <1> USE NoneIsNoPage, PageManagerAssumption
  <1> DEFINE p == [offset |-> end_pos_, size |-> n]
  <1>1. freelist_ \in Seq(Page) /\ live \in [Holders -> Page \cup {None}] /\ end_pos_ \in Nat
    BY DEF Inv, TypeOK
  <1>2. p \in Page /\ p # None /\ p.offset = end_pos_ /\ p.size = n
    BY <1>1 DEF Page
  <1>3. /\ live' = [live EXCEPT ![h] = p]
        /\ end_pos_' = end_pos_ + n
        /\ freelist_' = freelist_
    BY DEF extendFile
  <1> HIDE DEF p
  <1>4. /\ live'[h] = p
        /\ \A g \in Holders : g # h => live'[g] = live[g]
        /\ live' \in [Holders -> Page \cup {None}]
    BY <1>1, <1>2, <1>3
  <1>5. \A i \in 1..Len(freelist_) : freelist_[i] \in Page
    BY <1>1
  <1>6. /\ \A g \in Holders : live[g] # None =>
             live[g] \in Page /\ live[g].offset + live[g].size <= end_pos_
        /\ \A i \in 1..Len(freelist_) : freelist_[i].offset + freelist_[i].size <= end_pos_
    BY <1>1 DEF Inv, PagesInside, Inside
  <1>7. \A q \in Page : q.offset + q.size <= end_pos_ => Apart(p, q) /\ Apart(q, p)
    BY <1>1, <1>2 DEF Apart, Page
  <1>8. TypeOK'
    BY <1>1, <1>3, <1>4 DEF TypeOK
  <1>9. NoOverlap'
    <2>1. ASSUME NEW g \in Holders, NEW k \in Holders,
                 g # k, live'[g] # None, live'[k] # None
          PROVE  Apart(live'[g], live'[k])
      <3>1. CASE g # h /\ k # h
        BY <1>4, <2>1, <3>1 DEF Inv, NoOverlap
      <3>2. CASE g = h \/ k = h
        BY <1>4, <1>6, <1>7, <2>1, <3>2
      <3> QED BY <3>1, <3>2
    <2>2. ASSUME NEW g \in Holders, NEW i \in 1..Len(freelist_), live'[g] # None
          PROVE  Apart(live'[g], freelist_[i])
      <3>1. CASE g # h
        BY <1>4, <2>2, <3>1 DEF Inv, NoOverlap
      <3>2. CASE g = h
        BY <1>4, <1>5, <1>6, <1>7, <2>2, <3>2
      <3> QED BY <3>1, <3>2
    <2>3. \A i, j \in 1..Len(freelist_) : i # j => Apart(freelist_[i], freelist_[j])
      BY DEF Inv, NoOverlap
    <2> QED BY <1>3, <2>1, <2>2, <2>3 DEF NoOverlap
  <1>10. PagesInside'
    <2>1. InitialEnd <= end_pos_
      BY DEF Inv, PagesInside
    <2>2. InitialEnd <= end_pos_ + n /\ \A x \in Nat : x <= end_pos_ => x <= end_pos_ + n
      BY <1>1, <2>1
    <2>3. ASSUME NEW g \in Holders, live'[g] # None PROVE Inside(live[g])'
      <3>1. CASE g = h
        BY <1>1, <1>2, <1>3, <1>4, <2>1, <3>1 DEF Inside
      <3>2. CASE g # h
        <4>1. live'[g] = live[g] /\ live[g] \in Page /\ Inside(live[g])
          BY <1>1, <1>4, <2>3, <3>2 DEF Inv, PagesInside
        <4> QED BY <1>3, <2>2, <4>1 DEF Inside, Page
      <3> QED BY <3>1, <3>2
    <2>4. ASSUME NEW i \in 1..Len(freelist_) PROVE Inside(freelist_[i])'
      <3>1. freelist_[i] \in Page /\ Inside(freelist_[i])
        BY <1>5 DEF Inv, PagesInside
      <3> QED BY <1>3, <2>2, <3>1 DEF Inside, Page
    <2> QED BY <1>3, <2>2, <2>3, <2>4 DEF PagesInside
  <1>11. NoLeak'
    <2> SUFFICES ASSUME NEW b \in InitialEnd..(end_pos_ + n - 1)
                 PROVE  \/ \E g \in Holders : live'[g] # None /\ Covers(live'[g], b)
                        \/ \E i \in 1..Len(freelist_) : Covers(freelist_[i], b)
      <3>1. end_pos_' - 1 = end_pos_ + n - 1
        BY <1>1, <1>3
      <3> QED BY <1>3, <3>1 DEF NoLeak, Covers
    <2>1. CASE b < end_pos_
      <3>1. b \in InitialEnd..(end_pos_ - 1)
        BY <1>1, <2>1
      <3> QED BY <1>4, <3>1 DEF Inv, NoLeak
    <2>2. CASE ~(b < end_pos_)
      <3>1. Covers(p, b)
        BY <1>1, <1>2, <2>2 DEF Covers
      <3> QED BY <1>2, <1>4, <3>1
    <2> QED BY <2>1, <2>2
  <1> QED BY <1>8, <1>9, <1>10, <1>11 DEF Inv

\* freePage(): h's page becomes the last entry of the free list.
LEMMA FreeInv ==
  ASSUME Inv, NEW h \in Holders, freePage(h)
  PROVE  Inv'
  <1> USE NoneIsNoPage, PageManagerAssumption
  <1> DEFINE L == Len(freelist_)
  <1>1. freelist_ \in Seq(Page) /\ live \in [Holders -> Page \cup {None}] /\ end_pos_ \in Nat
    BY DEF Inv, TypeOK
  <1>2. live[h] \in Page /\ live[h] # None
    BY <1>1 DEF freePage
  <1>3. /\ freelist_' = Append(freelist_, live[h])
        /\ live' = [live EXCEPT ![h] = None]
        /\ end_pos_' = end_pos_ /\ asked' = asked
    BY DEF freePage
  <1>4. /\ freelist_' \in Seq(Page) /\ L \in Nat /\ Len(freelist_') = L + 1
        /\ freelist_'[L + 1] = live[h]
        /\ \A i \in 1..L : freelist_'[i] = freelist_[i] /\ freelist_[i] \in Page
    BY <1>1, <1>2, <1>3
  <1>5. /\ live' \in [Holders -> Page \cup {None}]
        /\ live'[h] = None
        /\ \A g \in Holders : g # h => live'[g] = live[g]
    BY <1>1, <1>3
  <1>6. \A i \in 1..(L + 1) : i # L + 1 => i \in 1..L
    BY <1>4
  <1>7. TypeOK'
    BY <1>1, <1>3, <1>4, <1>5 DEF Inv, TypeOK
  <1>8. NoOverlap'
    <2>1. \A i \in 1..L : Apart(live[h], freelist_[i])
      BY <1>2 DEF Inv, NoOverlap
    <2>2. \A i \in 1..L : Apart(freelist_[i], live[h])
      BY <1>2, <1>4, <2>1 DEF Apart, Page
    <2>3. ASSUME NEW i \in 1..(L + 1), NEW j \in 1..(L + 1), i # j
          PROVE  Apart(freelist_'[i], freelist_'[j])
      <3>1. CASE i = L + 1
        BY <1>4, <1>6, <2>1, <2>3, <3>1
      <3>2. CASE j = L + 1
        BY <1>4, <1>6, <2>2, <2>3, <3>2
      <3>3. CASE i # L + 1 /\ j # L + 1
        BY <1>4, <1>6, <2>3, <3>3 DEF Inv, NoOverlap
      <3> QED BY <3>1, <3>2, <3>3
    <2>4. ASSUME NEW g \in Holders, NEW i \in 1..(L + 1), live'[g] # None
          PROVE  Apart(live'[g], freelist_'[i])
      <3>1. g # h /\ live'[g] = live[g]
        BY <1>5, <2>4
      <3>2. CASE i = L + 1
        BY <1>2, <1>4, <2>4, <3>1, <3>2 DEF Inv, NoOverlap
      <3>3. CASE i # L + 1
        BY <1>4, <1>6, <2>4, <3>1, <3>3 DEF Inv, NoOverlap
      <3> QED BY <3>2, <3>3
    <2>5. \A g, k \in Holders :
            g # k /\ live'[g] # None /\ live'[k] # None => Apart(live'[g], live'[k])
      BY <1>5 DEF Inv, NoOverlap
    <2> QED BY <1>4, <2>3, <2>4, <2>5 DEF NoOverlap
  <1>9. PagesInside'
    <2>1. \A i \in 1..L : Inside(freelist_[i])
      BY DEF Inv, PagesInside
    <2>2. Inside(live[h])
      BY <1>2 DEF Inv, PagesInside
    <2>3. \A i \in 1..(L + 1) : Inside(freelist_'[i])
      BY <1>4, <1>6, <2>1, <2>2
    <2>4. \A g \in Holders : live'[g] # None => Inside(live'[g])
      BY <1>5 DEF Inv, PagesInside
    <2>5. InitialEnd <= end_pos_
      BY DEF Inv, PagesInside
    <2> QED BY <1>3, <1>4, <2>3, <2>4, <2>5 DEF PagesInside, Inside
  <1>10. NoLeak'
    <2> SUFFICES ASSUME NEW b \in InitialEnd..(end_pos_ - 1)
                 PROVE  \/ \E g \in Holders : live'[g] # None /\ Covers(live'[g], b)
                        \/ \E j \in 1..(L + 1) : Covers(freelist_'[j], b)
      BY <1>3, <1>4 DEF NoLeak, Covers
    <2>1. CASE \E g \in Holders : live[g] # None /\ Covers(live[g], b)
      <3>1. PICK g \in Holders : live[g] # None /\ Covers(live[g], b)
        BY <2>1
      <3>2. CASE g = h
        <4>1. L + 1 \in 1..(L + 1)
          BY <1>4
        <4> QED BY <1>4, <3>1, <3>2, <4>1
      <3>3. CASE g # h
        BY <1>5, <3>1, <3>3
      <3> QED BY <3>2, <3>3
    <2>2. CASE \E k \in 1..L : Covers(freelist_[k], b)
      <3>1. \A k \in 1..L : k \in 1..(L + 1)
        BY <1>4
      <3> QED BY <1>4, <2>2, <3>1
    <2> QED BY <2>1, <2>2 DEF Inv, NoLeak
  <1> QED BY <1>7, <1>8, <1>9, <1>10 DEF Inv

\* Every step of the manager preserves the invariant.
LEMMA NextInv == Inv /\ [Next]_pageVars => Inv'
  <1> SUFFICES ASSUME Inv, [Next]_pageVars PROVE Inv'
    OBVIOUS
  <1> USE PageManagerAssumption
  <1>1. ASSUME NEW h \in Holders, NEW m \in Sizes, allocPage(h, m)
        PROVE  Inv'
    <2>1. m \in Nat /\ align(m) \in Nat
      BY AlignNat
    <2>2. asked' \in [Holders -> Nat] /\ live[h] = None
      BY <1>1, <2>1 DEF Inv, TypeOK, allocPage
    <2>3. CASE reusePage(h, align(m))
      BY <2>1, <2>2, <2>3, ReuseInv
    <2>4. CASE extendFile(h, align(m))
      BY <2>1, <2>2, <2>4, ExtendInv
    <2> QED BY <1>1, <2>3, <2>4 DEF allocPage
  <1>2. ASSUME NEW h \in Holders, freePage(h)
        PROVE  Inv'
    BY <1>2, FreeInv
  <1>3. CASE UNCHANGED pageVars
    BY <1>3 DEF pageVars, Inv, TypeOK, NoOverlap, PagesInside, NoLeak, Inside
  <1> QED BY <1>1, <1>2, <1>3 DEF Next

\* The inductive invariant holds in every reachable state.
THEOREM InvAlways == Spec => []Inv
  BY InitInv, NextInv, PTL DEF Spec

\* The free list, end_pos_ and the holders' pages keep their types.
THEOREM TypeCorrect == Spec => []TypeOK
  <1>1. Inv => TypeOK
    BY DEF Inv
  <1> QED BY <1>1, InvAlways, PTL

\* allocPage() and freePage() never put a byte into two pages, for any number of
\* holders, any request sizes and any block size.
THEOREM OverlapCorrect == Spec => []NoOverlap
  <1>1. Inv => NoOverlap
    BY DEF Inv
  <1> QED BY <1>1, InvAlways, PTL

\* No page reaches beyond end_pos_ or into what was in the file before.
THEOREM InsideCorrect == Spec => []PagesInside
  <1>1. Inv => PagesInside
    BY DEF Inv
  <1> QED BY <1>1, InvAlways, PTL

\* No byte the manager has cut from the file is ever lost.
THEOREM LeakCorrect == Spec => []NoLeak
  <1>1. Inv => NoLeak
    BY DEF Inv
  <1> QED BY <1>1, InvAlways, PTL

\* The pages held and the free ones always partition what was cut from the file: none
\* overlap and no byte is lost.
THEOREM PartitionCorrect == Spec => []PagesPartition
  <1>1. NoOverlap /\ NoLeak => PagesPartition
    BY DEF PagesPartition
  <1> QED BY <1>1, OverlapCorrect, LeakCorrect, PTL

-----------------------------------------------------------------------------
(***************************************************************************)
(* The size of a page                                                      *)
(***************************************************************************)

\* Division with remainder.
LEMMA DivMod ==
  ASSUME NEW a \in Nat, NEW b \in Nat \ {0}
  PROVE  /\ a = b * (a \div b) + (a % b)
         /\ a \div b \in Nat /\ a % b \in 0..(b - 1)
  OBVIOUS

\* The only multiple of b between 0 and b - 1 is 0.
LEMMA SmallMultiple ==
  ASSUME NEW b \in Nat \ {0}, NEW d \in Int, 0 <= b * d, b * d < b
  PROVE  d = 0
  <1>1. CASE d >= 1
    BY <1>1
  <1>2. CASE d <= -1
    BY <1>2
  <1> QED BY <1>1, <1>2

\* A multiple of b leaves no remainder.
LEMMA MultipleMod ==
  ASSUME NEW b \in Nat \ {0}, NEW k \in Nat
  PROVE  (k * b) % b = 0
  <1> DEFINE q == (k * b) \div b
             r == (k * b) % b
  <1>1. k * b \in Nat
    OBVIOUS
  <1>2. k * b = b * q + r /\ q \in Nat /\ r \in 0..(b - 1)
    BY <1>1, DivMod
  <1> HIDE DEF q, r
  <1>3. b * (k - q) = r
    BY <1>2
  <1>4. k - q = 0
    BY <1>2, <1>3, SmallMultiple
  <1>5. r = 0
    BY <1>2, <1>3, <1>4
  <1> QED BY <1>5 DEF r

\* align() rounds up to a whole number of blocks.
LEMMA AlignFits == \A n \in Nat : align(n) >= n /\ align(n) % block_size_ = 0
  <1> SUFFICES ASSUME NEW n \in Nat
               PROVE  align(n) >= n /\ align(n) % block_size_ = 0
    OBVIOUS
  <1> DEFINE m == n + block_size_ - 1
             q == m \div block_size_
             r == m % block_size_
  <1>1. m \in Nat /\ block_size_ \in Nat \ {0}
    BY PageManagerAssumption
  <1>2. m = block_size_ * q + r /\ q \in Nat /\ r \in 0..(block_size_ - 1)
    BY <1>1, DivMod
  <1>3. align(n) = q * block_size_
    BY DEF align
  <1> HIDE DEF q, r
  <1>4. q * block_size_ = block_size_ * q
    BY <1>1, <1>2
  <1>5. q * block_size_ >= n
    BY <1>1, <1>2, <1>4
  <1>6. (q * block_size_) % block_size_ = 0
    BY <1>1, <1>2, MultipleMod
  <1> QED BY <1>3, <1>5, <1>6

\* The entries of the free list are whole numbers of blocks too: a page is reused as it is.
FreeFits == \A i \in 1..Len(freelist_) : freelist_[i].size % block_size_ = 0
Fits == PageFits /\ FreeFits

\* Pages keep their size when they are freed and reused.
LEMMA FitsStep == Inv /\ Fits /\ [Next]_pageVars => Fits'
  <1> SUFFICES ASSUME Inv, Fits, [Next]_pageVars PROVE Fits'
    OBVIOUS
  <1> USE PageManagerAssumption, NoneIsNoPage
  <1>0. /\ freelist_ \in Seq(Page) /\ live \in [Holders -> Page \cup {None}]
        /\ asked \in [Holders -> Nat] /\ end_pos_ \in Nat
    BY DEF Inv, TypeOK
  <1>1. ASSUME NEW h \in Holders, NEW m \in Sizes, allocPage(h, m)
        PROVE  Fits'
    <2>1. /\ m \in Nat /\ align(m) \in Nat /\ align(m) >= m
          /\ align(m) % block_size_ = 0
      BY AlignNat, AlignFits
    <2>2. /\ asked' \in [Holders -> Nat] /\ asked'[h] = m
          /\ \A g \in Holders \ {h} : asked'[g] = asked[g]
      BY <1>0, <1>1, <2>1 DEF allocPage
    <2>3. CASE reusePage(h, align(m))
      <3>1. PICK i \in 1..Len(freelist_) :
              /\ freelist_[i].size >= align(m)
              /\ live' = [live EXCEPT ![h] = freelist_[i]]
              /\ freelist_' = eraseAt(freelist_, i)
        BY <2>3 DEF reusePage, FirstFit
      <3>2. /\ Len(freelist_') = Len(freelist_) - 1
            /\ \A j \in 1..(Len(freelist_) - 1) :
                 freelist_'[j] = freelist_[IF j < i THEN j ELSE j + 1]
        BY <1>0, <3>1, EraseAt
      <3>3. FreeFits'
        <4>1. ASSUME NEW j \in 1..(Len(freelist_) - 1)
              PROVE  freelist_'[j].size % block_size_ = 0
          <5>1. (IF j < i THEN j ELSE j + 1) \in 1..Len(freelist_)
            BY <1>0
          <5> QED BY <3>2, <5>1 DEF Fits, FreeFits
        <4> QED BY <3>2, <4>1 DEF FreeFits
      <3>4. freelist_[i] \in Page /\ freelist_[i].size \in Nat
        <4>1. freelist_[i] \in Page
          BY <1>0
        <4> QED BY <4>1 DEF Page
      <3>5. freelist_[i].size >= m /\ freelist_[i].size % block_size_ = 0
        BY <2>1, <3>1, <3>4 DEF Fits, FreeFits
      <3>6. /\ live'[h] = freelist_[i]
            /\ \A g \in Holders \ {h} : live'[g] = live[g]
        BY <1>0, <3>1
      <3>7. PageFits'
        BY <2>2, <3>5, <3>6 DEF Fits, PageFits
      <3> QED BY <3>3, <3>7 DEF Fits
    <2>4. CASE extendFile(h, align(m))
      <3> DEFINE p == [offset |-> end_pos_, size |-> align(m)]
      <3>1. live' = [live EXCEPT ![h] = p] /\ freelist_' = freelist_
        BY <2>4 DEF extendFile
      <3>2. p.size = align(m)
        OBVIOUS
      <3> HIDE DEF p
      <3>3. PageFits'
        BY <1>0, <2>1, <2>2, <3>1, <3>2 DEF Fits, PageFits
      <3> QED BY <3>1, <3>3 DEF Fits, FreeFits
    <2> QED BY <1>1, <2>3, <2>4 DEF allocPage
  <1>2. ASSUME NEW h \in Holders, freePage(h)
        PROVE  Fits'
    <2>1. /\ freelist_' = Append(freelist_, live[h]) /\ live[h] \in Page /\ live[h] # None
          /\ live' = [live EXCEPT ![h] = None] /\ asked' = asked
      BY <1>0, <1>2 DEF freePage
    <2>2. live[h].size % block_size_ = 0
      BY <2>1 DEF Fits, PageFits
    <2>3. FreeFits'
      <3>1. /\ Len(freelist_') = Len(freelist_) + 1
            /\ freelist_'[Len(freelist_) + 1] = live[h]
            /\ \A i \in 1..Len(freelist_) : freelist_'[i] = freelist_[i]
        BY <1>0, <2>1
      <3>2. \A i \in 1..(Len(freelist_) + 1) : i = Len(freelist_) + 1 \/ i \in 1..Len(freelist_)
        BY <1>0
      <3> QED BY <2>2, <3>1, <3>2 DEF Fits, FreeFits
    <2>4. PageFits'
      BY <1>0, <2>1 DEF Fits, PageFits
    <2> QED BY <2>3, <2>4 DEF Fits
  <1>3. CASE UNCHANGED pageVars
    BY <1>3 DEF pageVars, Fits, PageFits, FreeFits
  <1> QED BY <1>1, <1>2, <1>3 DEF Next

\* A page is never smaller than what its holder asked for and is a whole number of
\* blocks, also when it was another holder's page before.
THEOREM FitsCorrect == Spec => []PageFits
  <1>1. Init => Fits
    BY NoneIsNoPage DEF Init, Fits, PageFits, FreeFits
  <1>2. Fits => PageFits
    BY DEF Fits
  <1> QED BY <1>1, <1>2, FitsStep, InvAlways, PTL DEF Spec

-----------------------------------------------------------------------------
(***************************************************************************)
(* The mapped file                                                         *)
(***************************************************************************)

\* Every step of MmapPageManager is one of PageManager or leaves the pages alone.
LEMMA MmapStep == [MmapNext]_vars => [Next]_pageVars
  BY DEF MmapNext, vars, mmapVars, pageVars, Next, alloc, free, getPage, growFile, mapPage,
         growFileFails, mapPageFails, dropRef, shrinkFile

\* MmapPageManager implements PageManager.
THEOREM MmapIsPageManager == MmapSpec => Spec
  <1>1. MmapInit => Init
    BY DEF MmapInit
  <1> QED BY <1>1, MmapStep, PTL DEF MmapSpec, Spec

\* The pages of a mapped file partition what was cut from it.
THEOREM MmapPartition == MmapSpec => []PagesPartition
  BY MmapIsPageManager, PartitionCorrect, PTL

\* h has its page mapped, or has grown the file for it and maps it next.
Maps(h) == pc[h] = "map" \/ ref[h] # None

\* A PageRef is to its holder's page, and getPage() is called for a page without one.
RefsMatch ==
  \A h \in Holders :
    /\ pc[h] # "idle" => live[h] # None /\ ref[h] = None
    /\ ref[h] # None => live[h] = ref[h].page

\* Neither used_bytes_ nor file_size_ falls below the end of a page that is mapped.
Counted ==
  \A h \in Holders :
    Maps(h) => last_byte(live[h]) <= used_bytes_ /\ last_byte(live[h]) <= file_size_

\* The file is as long as file_size_ says, except inside shrinkFile(), which runs while
\* nobody is in getPage() and leaves the bytes that are in use.
Shrinks ==
  /\ shrinking.at # "no" => \A h \in Holders : pc[h] = "idle"
  /\ shrinking.at = "no" => shrinking.size = 0
  /\ shrinking.at = "truncate" => shrinking.size = used_bytes_
  /\ IF shrinking.at = "store" THEN fileLen = used_bytes_ ELSE file_size_ <= fileLen

\* That a mapped page stays backed rests on used_bytes_, which shrinkFile() cuts the file
\* to, and so on every page having been counted in it before it was mapped.
MmapInv == MmapTypeOK /\ RefsMatch /\ Counted /\ Shrinks /\ MappingSpans

\* The size getPageImpl() gives the file reaches the end of the page.
LEMMA NewSize ==
  ASSUME NEW n \in Nat, NEW padding \in BOOLEAN
  PROVE  new_size(n, padding) \in Nat /\ new_size(n, padding) >= n
  <1> DEFINE q == n \div MmapBlock
             r == n % MmapBlock
  <1>1. MmapBlock \in Nat \ {0}
    BY MmapAssumption
  <1>2. n = MmapBlock * q + r /\ q \in Nat /\ r \in 0..(MmapBlock - 1)
    BY <1>1, DivMod
  <1>3. new_size(n, padding) = IF padding THEN (q + 1) * MmapBlock ELSE n
    BY DEF new_size
  <1> HIDE DEF q, r
  <1>4. (q + 1) * MmapBlock = MmapBlock * q + MmapBlock
    BY <1>1, <1>2
  <1>5. (q + 1) * MmapBlock \in Nat
    BY <1>1, <1>2
  <1> QED BY <1>1, <1>2, <1>3, <1>4, <1>5

\* The end of a page is a number.
LEMMA LastByte == \A p \in Page : last_byte(p) \in Nat
  BY DEF Page, last_byte

\* The steps of getPageImpl() up to truncate(), with or without success: h's page is
\* counted in used_bytes_, and if the file is grown it is grown to the page's end.
LEMMA GrowInv ==
  ASSUME ~ConcurrentShrink, TypeOK, MmapInv, NEW h \in Holders,
         (\E padding \in BOOLEAN : growFile(h, padding)) \/ growFileFails(h)
  PROVE  MmapInv'
  <1> USE NoneIsNoPage
  <1> DEFINE last == last_byte(live[h])
  <1>1. /\ pc[h] = "call" /\ live[h] # None /\ ref[h] = None /\ live[h] \in Page
        /\ UNCHANGED <<pageVars, mapping, ref, shrinking>>
        /\ mmap_mutex_' = h /\ failed' \in BOOLEAN
    BY DEF growFile, growFileFails, MmapInv, MmapTypeOK, RefsMatch, TypeOK
  <1>2. last \in Nat
    BY <1>1, LastByte
  <1>3. used_bytes_' = IF last > used_bytes_ THEN last ELSE used_bytes_
    BY DEF growFile, growFileFails
  <1>4. \/ /\ pc' = [pc EXCEPT ![h] = "map"]
           /\ \/ last > file_size_ /\ file_size_' >= last /\ fileLen' = file_size_'
              \/ last <= file_size_ /\ UNCHANGED <<file_size_, fileLen>>
           /\ file_size_' \in Nat /\ fileLen' \in Nat
        \/ pc' = [pc EXCEPT ![h] = "idle"] /\ UNCHANGED <<file_size_, fileLen>>
    <2>1. ASSUME NEW padding \in BOOLEAN, growFile(h, padding)
          PROVE  /\ pc' = [pc EXCEPT ![h] = "map"]
                 /\ \/ last > file_size_ /\ file_size_' >= last /\ fileLen' = file_size_'
                    \/ last <= file_size_ /\ UNCHANGED <<file_size_, fileLen>>
                 /\ file_size_' \in Nat /\ fileLen' \in Nat
      <3>1. new_size(last, padding) \in Nat /\ new_size(last, padding) >= last
        BY <1>2, NewSize
      <3> QED BY <1>2, <2>1, <3>1 DEF growFile, MmapInv, MmapTypeOK
    <2>2. ASSUME growFileFails(h)
          PROVE  pc' = [pc EXCEPT ![h] = "idle"] /\ UNCHANGED <<file_size_, fileLen>>
      BY <2>2 DEF growFileFails
    <2> QED BY <2>1, <2>2
  <1> HIDE DEF last
  <1>5. /\ used_bytes_ \in Nat /\ file_size_ \in Nat /\ fileLen \in Nat
        /\ pc \in [Holders -> {"idle", "call", "map"}]
        /\ shrinking.at = "no"
    BY <1>1 DEF MmapInv, MmapTypeOK, Shrinks
  <1>6. MmapTypeOK'
    BY <1>1, <1>2, <1>3, <1>4, <1>5 DEF MmapInv, MmapTypeOK
  <1>7. live' = live
    BY <1>1 DEF pageVars
  <1>8. RefsMatch' /\ MappingSpans'
    BY <1>1, <1>4, <1>5, <1>7 DEF MmapInv, RefsMatch, MappingSpans, last_byte
  <1>9. Counted'
    <2> SUFFICES ASSUME NEW g \in Holders, Maps(g)'
                 PROVE  last_byte(live[g]) <= used_bytes_' /\ last_byte(live[g]) <= file_size_'
      BY <1>7 DEF Counted, last_byte
    <2>1. CASE g = h
      BY <1>1, <1>2, <1>3, <1>4, <1>5, <2>1 DEF Maps, last
    <2>2. CASE g # h
      <3>1. Maps(g)
        BY <1>1, <1>4, <1>5, <2>2 DEF Maps
      <3>2. live[g] # None
        BY <3>1 DEF Maps, MmapInv, RefsMatch, MmapTypeOK, PageRef
      <3>3. last_byte(live[g]) \in Nat
        BY <3>2, LastByte DEF TypeOK
      <3> QED BY <1>2, <1>3, <1>4, <1>5, <3>1, <3>3 DEF MmapInv, Counted
    <2> QED BY <2>1, <2>2
  <1>10. Shrinks'
    BY <1>1, <1>2, <1>3, <1>4, <1>5 DEF MmapInv, Shrinks
  <1> QED BY <1>6, <1>8, <1>9, <1>10 DEF MmapInv

\* getMmappedFile(): the mapping that is used or made spans the page.
LEMMA MapInv ==
  ASSUME TypeOK, MmapInv, NEW h \in Holders, mapPage(h)
  PROVE  MmapInv'
  <1> USE NoneIsNoPage
  <1>1. /\ pc[h] = "map" /\ live[h] \in Page /\ live[h] # None /\ Maps(h)
        /\ UNCHANGED <<pageVars, used_bytes_, file_size_, fileLen, shrinking, failed>>
        /\ pc' = [pc EXCEPT ![h] = "idle"] /\ mmap_mutex_' = None
        /\ ref' = [ref EXCEPT ![h] = [page |-> live[h], mapped |-> mapping']]
    BY DEF mapPage, MmapInv, MmapTypeOK, RefsMatch, TypeOK, Maps
  <1>2. last_byte(live[h]) \in Nat /\ last_byte(live[h]) <= fileLen
    BY <1>1, LastByte DEF MmapInv, MmapTypeOK, Counted, Shrinks
  <1>3. mapping' \in Nat /\ last_byte(live[h]) <= mapping'
    BY <1>1, <1>2 DEF mapPage, NeedsMapping, MmapInv, MmapTypeOK
  <1> DEFINE r == [page |-> live[h], mapped |-> mapping']
  <1>4. r \in PageRef /\ r.page = live[h] /\ r.mapped = mapping'
    BY <1>1, <1>3 DEF PageRef
  <1> HIDE DEF r
  <1>5. /\ ref'[h] = r /\ \A g \in Holders \ {h} : ref'[g] = ref[g]
        /\ ref' \in [Holders -> PageRef \cup {None}]
    BY <1>1, <1>4 DEF MmapInv, MmapTypeOK, r
  <1>6. /\ pc'[h] = "idle" /\ \A g \in Holders \ {h} : pc'[g] = pc[g]
        /\ pc' \in [Holders -> {"idle", "call", "map"}]
    BY <1>1 DEF MmapInv, MmapTypeOK
  <1>7. live' = live
    BY <1>1 DEF pageVars
  <1>8. MmapTypeOK'
    BY <1>1, <1>3, <1>5, <1>6 DEF MmapInv, MmapTypeOK
  <1>9. RefsMatch'
    BY <1>4, <1>5, <1>6, <1>7 DEF MmapInv, RefsMatch
  <1>10. Counted'
    BY <1>1, <1>5, <1>6, <1>7 DEF MmapInv, Counted, Maps, last_byte
  <1>11. Shrinks'
    BY <1>1, <1>6 DEF MmapInv, Shrinks
  <1>12. MappingSpans'
    BY <1>3, <1>4, <1>5 DEF MmapInv, MappingSpans, last_byte
  <1> QED BY <1>8, <1>9, <1>10, <1>11, <1>12 DEF MmapInv

\* shrinkFile() cuts the file to used_bytes_, which no mapped page exceeds.
LEMMA ShrinkInv ==
  ASSUME ~ConcurrentShrink, TypeOK, MmapInv, shrinkFile
  PROVE  MmapInv'
  <1>1. UNCHANGED <<live, used_bytes_, mapping, mmap_mutex_, pc, ref, failed>>
    BY DEF shrinkFile, pageVars
  <1>2. RefsMatch' /\ MappingSpans'
    BY <1>1 DEF MmapInv, RefsMatch, MappingSpans, last_byte
  <1>3. CASE shrinking.at = "no"
    <2>1. /\ \A h \in Holders : pc[h] = "idle"
          /\ shrinking' = [at |-> "truncate", size |-> used_bytes_]
          /\ UNCHANGED <<fileLen, file_size_>>
      BY <1>3 DEF shrinkFile
    <2> QED BY <1>1, <1>2, <1>3, <2>1
            DEF MmapInv, MmapTypeOK, Shrinks, Counted, Maps, last_byte
  <1>4. CASE shrinking.at = "truncate"
    <2>1. /\ fileLen' = shrinking.size /\ shrinking' = [at |-> "store", size |-> 0]
          /\ UNCHANGED file_size_
      BY <1>4 DEF shrinkFile
    <2> QED BY <1>1, <1>2, <1>4, <2>1
            DEF MmapInv, MmapTypeOK, Shrinks, Counted, Maps, last_byte
  <1>5. CASE shrinking.at = "store"
    <2>1. file_size_' = used_bytes_ /\ shrinking' = NotShrinking /\ UNCHANGED fileLen
      BY <1>5 DEF shrinkFile
    <2> QED BY <1>1, <1>2, <1>5, <2>1
            DEF MmapInv, MmapTypeOK, Shrinks, Counted, Maps, last_byte, NotShrinking
  <1> QED BY <1>3, <1>4, <1>5 DEF shrinkFile

\* The steps that change a page, a reference or the program counter alone.
LEMMA HolderInv ==
  ASSUME ~ConcurrentShrink, TypeOK, TypeOK', MmapInv, NEW h \in Holders,
         alloc(h) \/ free(h) \/ getPage(h) \/ mapPageFails(h) \/ dropRef(h)
  PROVE  MmapInv'
  <1> USE NoneIsNoPage
  <1>1. /\ UNCHANGED <<used_bytes_, file_size_, fileLen, mapping, mmap_mutex_, shrinking>>
        /\ failed' \in BOOLEAN
    BY DEF alloc, free, getPage, mapPageFails, dropRef, mmapVars, MmapInv, MmapTypeOK
  <1>2. /\ \A g \in Holders \ {h} : pc'[g] = pc[g] /\ ref'[g] = ref[g] /\ live'[g] = live[g]
        /\ pc'[h] \in {"idle", "call"} /\ ref'[h] \in {ref[h], None}
        /\ pc' \in [Holders -> {"idle", "call", "map"}]
        /\ ref' \in [Holders -> PageRef \cup {None}]
    BY DEF alloc, free, getPage, mapPageFails, dropRef, mmapVars, pageVars, MmapInv, MmapTypeOK,
           TypeOK, allocPage, freePage, reusePage, extendFile
  <1>3. \/ live'[h] = live[h]
        \/ pc'[h] = "idle" /\ ref'[h] = None
    BY DEF alloc, free, getPage, mapPageFails, dropRef, mmapVars, pageVars, MmapInv, RefsMatch,
           MmapTypeOK, PageRef, TypeOK, allocPage, freePage
  <1>4. pc'[h] = "call" => live[h] # None /\ ref'[h] = None /\ shrinking.at = "no"
    BY DEF alloc, free, getPage, mapPageFails, dropRef, mmapVars, MmapInv, MmapTypeOK,
           NotShrinking
  <1>5. MmapTypeOK'
    BY <1>1, <1>2 DEF MmapInv, MmapTypeOK
  <1>6. RefsMatch'
    BY <1>2, <1>3, <1>4 DEF MmapInv, RefsMatch
  <1>7. Counted' /\ MappingSpans'
    BY <1>1, <1>2, <1>3 DEF MmapInv, Counted, MappingSpans, Maps, last_byte
  <1>8. Shrinks'
    BY <1>1, <1>2, <1>4 DEF MmapInv, Shrinks
  <1> QED BY <1>5, <1>6, <1>7, <1>8 DEF MmapInv

\* The invariant of the mapping holds as long as shrinkFile() has the file to itself.
THEOREM MmapInvAlways == ASSUME ~ConcurrentShrink PROVE MmapSpec => []MmapInv
  <1>1. MmapInit => MmapInv
    <2> SUFFICES ASSUME MmapInit PROVE MmapInv
      OBVIOUS
    <2> USE PageManagerAssumption, NoneIsNoPage DEF MmapInit
    <2>1. MmapTypeOK
      BY DEF MmapTypeOK, NotShrinking
    <2>2. RefsMatch /\ Counted /\ MappingSpans
      BY DEF RefsMatch, Counted, MappingSpans, Maps
    <2>3. Shrinks
      BY DEF Shrinks, NotShrinking
    <2> QED BY <2>1, <2>2, <2>3 DEF MmapInv
  <1>2. TypeOK /\ TypeOK' /\ MmapInv /\ [MmapNext]_vars => MmapInv'
    <2> SUFFICES ASSUME TypeOK, TypeOK', MmapInv, [MmapNext]_vars PROVE MmapInv'
      OBVIOUS
    <2>1. CASE UNCHANGED vars
      BY <2>1 DEF vars, mmapVars, pageVars, MmapInv, MmapTypeOK, RefsMatch, Counted, Shrinks,
                  MappingSpans, Maps, last_byte
    <2> QED BY <2>1, GrowInv, MapInv, ShrinkInv, HolderInv DEF MmapNext
  <1> QED BY <1>1, <1>2, MmapIsPageManager, TypeCorrect, PTL DEF MmapSpec

\* A page is what was asked for, and while somebody has it mapped its mapping spans it
\* and the file backs it, for any holders, sizes, failures of I/O and shrinks in between.
THEOREM MappedCorrect == ASSUME ~ConcurrentShrink PROVE MmapSpec => []PagesMapped
  <1>1. TypeOK /\ MmapInv => MappedPagesBacked
    <2> SUFFICES ASSUME TypeOK, MmapInv, NEW h \in Holders, ref[h] # None
                 PROVE  last_byte(ref[h].page) <= fileLen
      BY DEF MappedPagesBacked
    <2>1. live[h] = ref[h].page /\ ref[h].page \in Page /\ Maps(h)
      BY DEF MmapInv, MmapTypeOK, RefsMatch, PageRef, Maps
    <2>2. last_byte(live[h]) \in Nat
      BY <2>1, LastByte
    <2> QED BY <2>1, <2>2 DEF MmapInv, MmapTypeOK, Counted, Shrinks
  <1>2. PageFits /\ MmapInv /\ MappedPagesBacked => PagesMapped
    BY DEF MmapInv, PagesMapped
  <1> QED BY <1>1, <1>2, MmapInvAlways, MmapIsPageManager, TypeCorrect, FitsCorrect, PTL

-----------------------------------------------------------------------------
(* PersistentHashSet *)

\* The slot of the i-th probe for x, the slots that are not empty.
Probe(f, x, i) == f[Probes(Len(f), x)[i]]
Filled(f) == {j \in 1..Len(f) : f[j] # 0}

\* Every id in a table is reached by its probes before an empty slot, and there is one.
Reached(f, x, i) == Probe(f, x, i) = x /\ \A k \in 1..(i - 1) : Probe(f, x, k) # 0
Chained(f) == \A x \in Contents(f) : \E i \in 1..Len(f) : Reached(f, x, i)
HasRoom(f) == \E j \in 1..Len(f) : f[j] = 0
Table(f) == Len(f) >= kInitialSlots /\ Chained(f) /\ HasRoom(f)

\* nslots_used_ (u) may be less than what is in the table, because growing doubles ids,
\* but never by so much that a table that is not Full has no room for an id and an
\* empty slot.
Loaded(f, u) ==
  /\ Cardinality(Filled(f)) <= u + Len(f) - kFetchIOBatchSize
  /\ 2 * (Cardinality(Filled(f)) - u) < Len(f)
Roomy(f) == Cardinality(Filled(f)) + 1 < Len(f)

-----------------------------------------------------------------------------
\* A set of natural numbers that is not empty has a least element.
LEMMA LeastNatural ==
  ASSUME NEW S \in SUBSET Nat, S # {}
  PROVE  \E m \in S : \A k \in S : m <= k
<1>1. PICK m \in S : \A k \in S : ~(<<k, m>> \in OpToRel(<, Nat))
  BY NatLessThanWellFounded, WFMin
<1>2. \A k \in S : ~(k < m)
  BY <1>1 DEF OpToRel
<1> QED BY <1>2

\* A remainder is what is left over a multiple.
LEMMA Remainder ==
  ASSUME NEW n \in Nat \ {0}, NEW q \in Nat, NEW r \in 0..(n - 1)
  PROVE  (n * q + r) % n = r
<1> DEFINE a == n * q + r
           d == a \div n
           e == a % n
<1>1. n * q \in Nat
  OBVIOUS
<1>2. a \in Nat
  BY <1>1
<1>3. d \in Nat /\ e \in 0..(n - 1) /\ a = n * d + e
  BY <1>2
<1>4. n * d \in Nat
  BY <1>3
<1> HIDE DEF d, e
<1>5. ~(d > q)
  <2> SUFFICES ASSUME d > q PROVE FALSE
    OBVIOUS
  <2>1. PICK c \in Nat : d = q + 1 + c
    <3>1. d - q - 1 \in Nat /\ d = q + 1 + (d - q - 1)
      BY <1>3
    <3> QED BY <3>1
  <2>2. n * d = n * q + n + n * c /\ n * c \in Nat
    BY <2>1
  <2> QED BY <1>1, <1>3, <1>4, <2>2
<1>6. ~(d < q)
  <2> SUFFICES ASSUME d < q PROVE FALSE
    OBVIOUS
  <2>1. PICK c \in Nat : q = d + 1 + c
    <3>1. q - d - 1 \in Nat /\ q = d + 1 + (q - d - 1)
      BY <1>3
    <3> QED BY <3>1
  <2>2. n * q = n * d + n + n * c /\ n * c \in Nat
    BY <1>3, <2>1
  <2> QED BY <1>1, <1>3, <1>4, <2>2
<1>7. d = q
  BY <1>3, <1>5, <1>6
<1>8. e = r
  BY <1>1, <1>3, <1>7
<1> QED BY <1>8 DEF e

\* The probes of an id go from the slot of its hash to the last slot and around.
LEMMA ProbeOrder ==
  ASSUME NEW n \in Nat \ {0}, NEW x \in Ids
  PROVE  \E h \in 0..(n - 1) :
           /\ Probes(n, x) \in [1..n -> 1..n]
           /\ \A i \in 1..n : Probes(n, x)[i] = IF h + i <= n THEN h + i ELSE h + i - n
<1> USE HashSetAssumption
<1> DEFINE a == Hash[x]
           q == a \div n
           h == a % n
<1>1. a \in Nat
  OBVIOUS
<1>2. q \in Nat /\ h \in 0..(n - 1) /\ a = n * q + h
  BY <1>1, DivMod
<1> HIDE DEF a, q, h
<1>0. n * q \in Nat
  BY <1>2
<1>3. ASSUME NEW i \in 1..n
      PROVE  (a + i - 1) % n = IF h + i <= n THEN h + i - 1 ELSE h + i - 1 - n
  <2>1. CASE h + i <= n
    <3>1. h + i - 1 \in 0..(n - 1) /\ a + i - 1 = n * q + (h + i - 1)
      BY <1>0, <1>2, <2>1
    <3> QED BY <1>0, <1>2, <2>1, <3>1, Remainder
  <2>2. CASE ~(h + i <= n)
    <3>1. n * (q + 1) = n * q + n
      BY <1>2
    <3>2. /\ q + 1 \in Nat /\ h + i - 1 - n \in 0..(n - 1)
          /\ a + i - 1 = n * (q + 1) + (h + i - 1 - n)
      BY <1>0, <1>2, <2>2, <3>1
    <3> QED BY <2>2, <3>2, Remainder
  <2> QED BY <2>1, <2>2
<1>4. \A i \in 1..n : Probes(n, x)[i] = ((a + i - 1) % n) + 1
  BY DEF Probes, a
<1>5. \A i \in 1..n : Probes(n, x)[i] = IF h + i <= n THEN h + i ELSE h + i - n
  BY <1>2, <1>3, <1>4
<1>6. \A i \in 1..n : Probes(n, x)[i] \in 1..n
  BY <1>2, <1>5
<1>7. Probes(n, x) \in [1..n -> 1..n]
  BY <1>6 DEF Probes
<1> QED BY <1>2, <1>5, <1>7

\* They reach every slot.
LEMMA ProbeOnto ==
  ASSUME NEW n \in Nat \ {0}, NEW x \in Ids, NEW j \in 1..n
  PROVE  \E i \in 1..n : Probes(n, x)[i] = j
<1>1. PICK h \in 0..(n - 1) :
        \A i \in 1..n : Probes(n, x)[i] = IF h + i <= n THEN h + i ELSE h + i - n
  BY ProbeOrder
<1>2. CASE j > h
  <2>1. j - h \in 1..n /\ h + (j - h) <= n /\ h + (j - h) = j
    BY <1>2
  <2> QED BY <1>1, <2>1
<1>3. CASE ~(j > h)
  <2>1. j - h + n \in 1..n /\ ~(h + (j - h + n) <= n) /\ h + (j - h + n) - n = j
    BY <1>3
  <2> QED BY <1>1, <2>1
<1> QED BY <1>2, <1>3

\* The slots that are not empty are finitely many, and a table that has fewer of them
\* than slots has an empty one.
LEMMA FilledCount ==
  ASSUME NEW f \in Seq(Ids \cup {0})
  PROVE  /\ IsFiniteSet(Filled(f)) /\ Cardinality(Filled(f)) \in 0..Len(f)
         /\ HasRoom(f) <=> Cardinality(Filled(f)) < Len(f)
<1> DEFINE n == Len(f)
<1>1. n \in Nat /\ IsFiniteSet(1..n) /\ Cardinality(1..n) = n
  <2>1. n \in Nat
    OBVIOUS
  <2> QED BY <2>1, FS_Interval
<1>2. Filled(f) \in SUBSET (1..n)
  BY DEF Filled
<1>3. /\ IsFiniteSet(Filled(f)) /\ Cardinality(Filled(f)) <= n
      /\ n = Cardinality(Filled(f)) => 1..n = Filled(f)
  BY <1>1, <1>2, FS_Subset
<1>4. Cardinality(Filled(f)) \in 0..n
  BY <1>1, <1>3, FS_CardinalityType
<1>5. HasRoom(f) <=> 1..n # Filled(f)
  BY <1>2 DEF HasRoom, Filled
<1>6. 1..n = Filled(f) => Cardinality(Filled(f)) = n
  BY <1>1
<1> QED BY <1>1, <1>3, <1>4, <1>5, <1>6

\* The table with x written to the slot of its i-th probe.  A table g that adds x to f
\* has one more slot filled and all chains of f.
Placed(f, x, i) == [f EXCEPT ![Probes(Len(f), x)[i]] = x]
Adds(f, x, g) ==
  /\ g \in Seq(Ids \cup {0}) /\ Len(g) = Len(f)
  /\ \A k \in 1..Len(f) : f[k] # 0 => g[k] = f[k]
  /\ Contents(g) = Contents(f) \cup {x}
  /\ Cardinality(Filled(g)) = Cardinality(Filled(f)) + 1
  /\ Chained(f) => Chained(g)

\* Writing an id to the first empty slot of its probes adds it to the table, takes one
\* slot and breaks no chain.
LEMMA Place ==
  ASSUME NEW f \in Seq(Ids \cup {0}), NEW x \in Ids, NEW i \in 1..Len(f),
         Probe(f, x, i) = 0, \A k \in 1..(i - 1) : Probe(f, x, k) # 0
  PROVE  Adds(f, x, Placed(f, x, i))
<1> DEFINE n == Len(f)
           j == Probes(n, x)[i]
           g == Placed(f, x, i)
<1>0. 0 \notin Ids
  BY HashSetAssumption
<1>1. n \in Nat \ {0} /\ f \in [1..n -> Ids \cup {0}]
  OBVIOUS
<1>2. \A y \in Ids : Probes(n, y) \in [1..n -> 1..n]
  BY <1>1, ProbeOrder
<1>3. j \in 1..n
  BY <1>1, <1>2
<1>f. f[j] = 0
  BY DEF Probe
<1>g. g = [f EXCEPT ![j] = x]
  BY DEF Placed
<1> HIDE DEF g, j
<1>4. g \in [1..n -> Ids \cup {0}] /\ \A k \in 1..n : g[k] = IF k = j THEN x ELSE f[k]
  BY <1>1, <1>3, <1>g
<1>5. g \in Seq(Ids \cup {0}) /\ Len(g) = n
  BY <1>1, <1>4
<1>6. Contents(g) = Contents(f) \cup {x}
  <2>1. \A y : y \in Contents(g) <=> y # 0 /\ \E k \in 1..n : y = g[k]
    BY <1>5 DEF Contents
  <2>2. \A y : y \in Contents(f) <=> y # 0 /\ \E k \in 1..n : y = f[k]
    BY DEF Contents
  <2>3. \A y \in Contents(g) : y \in Contents(f) \cup {x}
    BY <1>4, <2>1, <2>2
  <2>4. ASSUME NEW y \in Contents(f) PROVE y \in Contents(g)
    <3>1. PICK k \in 1..n : y = f[k] /\ y # 0
      BY <2>2
    <3>2. k # j /\ g[k] = f[k]
      BY <1>4, <1>f, <3>1
    <3> QED BY <2>1, <3>1, <3>2
  <2>5. x \in Contents(g)
    <3>1. g[j] = x /\ x # 0
      BY <1>0, <1>3, <1>4
    <3> QED BY <1>3, <2>1, <3>1
  <2> QED BY <2>3, <2>4, <2>5
<1>7. Filled(g) = Filled(f) \cup {j} /\ j \notin Filled(f)
  BY <1>0, <1>3, <1>4, <1>5, <1>f DEF Filled
<1>8. Cardinality(Filled(g)) = Cardinality(Filled(f)) + 1
  <2>1. IsFiniteSet(Filled(f))
    BY FilledCount
  <2>2. Cardinality(Filled(f) \cup {j}) = Cardinality(Filled(f)) + 1
    BY <1>7, <2>1, FS_AddElement
  <2> QED BY <1>7, <2>2
<1>9. ASSUME Chained(f) PROVE Chained(g)
  <2> SUFFICES ASSUME NEW y \in Contents(g) PROVE \E m \in 1..n : Reached(g, y, m)
    BY <1>5 DEF Chained
  <2>1. y \in Ids
    BY <1>4, <1>5 DEF Contents
  <2>2. \A k \in 1..n : /\ Probe(g, y, k) = IF Probes(n, y)[k] = j THEN x ELSE Probe(f, y, k)
                        /\ Probe(f, y, k) # 0 => Probe(g, y, k) = Probe(f, y, k)
    BY <1>2, <1>4, <1>5, <1>f, <2>1 DEF Probe
  <2>3. CASE y \in Contents(f)
    <3>1. PICK m \in 1..n : Reached(f, y, m)
      BY <1>9, <2>3 DEF Chained
    <3>2. y # 0 /\ Probe(f, y, m) = y /\ \A k \in 1..(m - 1) : k \in 1..n /\ Probe(f, y, k) # 0
      BY <1>1, <2>3, <3>1 DEF Reached, Contents
    <3>3. Probe(g, y, m) = y /\ \A k \in 1..(m - 1) : Probe(g, y, k) # 0
      BY <2>2, <3>2
    <3> QED BY <3>3 DEF Reached
  <2>4. CASE y = x
    <3>0. \A k \in 1..(i - 1) : k \in 1..n
      BY <1>1
    <3>1. \A k \in 1..(i - 1) : Probe(g, x, k) # 0
      BY <2>2, <2>4, <3>0
    <3>2. Probe(g, x, i) = x
      BY <2>2, <2>4 DEF j
    <3> QED BY <2>4, <3>1, <3>2 DEF Reached
  <2> QED BY <1>6, <2>3, <2>4
<1> QED BY <1>4, <1>5, <1>6, <1>8, <1>9, <1>f DEF Adds, g

\* lookup() ends at the id if it is in the table, and else at the first empty slot of
\* its probes.
LEMMA LookupEnds ==
  ASSUME NEW f \in Seq(Ids \cup {0}), NEW x \in Ids, Chained(f), HasRoom(f)
  PROVE  /\ lookup(f, x) \in 1..Len(f) /\ f[lookup(f, x)] \in {0, x}
         /\ f[lookup(f, x)] = x <=> x \in Contents(f)
         /\ \E i \in 1..Len(f) : /\ lookup(f, x) = Probes(Len(f), x)[i]
                                 /\ \A k \in 1..(i - 1) : Probe(f, x, k) # 0
<1> DEFINE n == Len(f)
           p == Probes(n, x)
           hits == {i \in 1..n : f[p[i]] \in {0, x}}
           first == CHOOSE i \in hits : \A j \in hits : i <= j
<1>0. 0 \notin Ids
  BY HashSetAssumption
<1>1. n \in Nat \ {0} /\ f \in [1..n -> Ids \cup {0}]
  BY DEF HasRoom
<1>2. p \in [1..n -> 1..n] /\ \A j \in 1..n : \E i \in 1..n : p[i] = j
  BY <1>1, ProbeOrder, ProbeOnto
<1>3. hits # {}
  BY <1>2 DEF HasRoom
<1>4. hits \in SUBSET Nat
  BY <1>1
<1>5. first \in hits /\ \A j \in hits : first <= j
  BY <1>3, <1>4, LeastNatural
<1>6. lookup(f, x) = p[first]
  BY <1>3 DEF lookup
<1> HIDE DEF first
<1>7. first \in 1..n /\ f[p[first]] \in {0, x}
  BY <1>5
<1>8. \A k \in 1..(first - 1) : k \in 1..n /\ f[p[k]] \notin {0, x}
  BY <1>1, <1>5, <1>7
<1>9. ASSUME x \in Contents(f) PROVE f[p[first]] = x
  <2>1. PICK m \in 1..n : f[p[m]] = x /\ \A k \in 1..(m - 1) : f[p[k]] # 0
    BY <1>9 DEF Chained, Reached, Probe
  <2>2. m \in hits
    BY <2>1
  <2>3. first = m \/ first \in 1..(m - 1)
    BY <1>5, <1>7, <2>2
  <2> QED BY <1>7, <2>1, <2>3
<1>10. ASSUME f[p[first]] = x PROVE x \in Contents(f)
  <2>1. p[first] \in 1..n /\ x # 0
    BY <1>0, <1>2, <1>7
  <2> QED BY <1>10, <2>1 DEF Contents
<1> QED BY <1>2, <1>6, <1>7, <1>8, <1>9, <1>10 DEF Probe

\* grow()'s callback finds a slot while there is one.
LEMMA PutPlaces ==
  ASSUME NEW f \in Seq(Ids \cup {0}), NEW x \in Ids, HasRoom(f)
  PROVE  Adds(f, x, put(f, x))
<1> DEFINE n == Len(f)
           p == Probes(n, x)
           empty == {i \in 1..n : f[p[i]] = 0}
           first == CHOOSE i \in empty : \A j \in empty : i <= j
<1>1. n \in Nat \ {0}
  BY DEF HasRoom
<1>2. \A j \in 1..n : \E i \in 1..n : p[i] = j
  BY <1>1, ProbeOnto
<1>3. empty # {} /\ empty \in SUBSET Nat
  <2>1. PICK j \in 1..n : f[j] = 0
    BY DEF HasRoom
  <2>2. PICK i \in 1..n : p[i] = j
    BY <1>2
  <2>3. i \in empty
    BY <2>1, <2>2
  <2> QED BY <1>1, <2>3
<1>4. first \in empty /\ \A j \in empty : first <= j
  BY <1>3, LeastNatural
<1>5. put(f, x) = Placed(f, x, first)
  BY <1>3 DEF put, Placed
<1> HIDE DEF first
<1>6. first \in 1..n /\ Probe(f, x, first) = 0
  BY <1>4 DEF Probe
<1>7. ASSUME NEW k \in 1..(first - 1) PROVE Probe(f, x, k) # 0
  <2>1. k \in 1..n /\ ~(first <= k)
    BY <1>1, <1>6
  <2>2. k \notin empty
    BY <1>4, <2>1
  <2> QED BY <2>1, <2>2 DEF Probe
<1>8. Adds(f, x, Placed(f, x, first))
  BY <1>6, <1>7, Place
<1> QED BY <1>5, <1>8

\* scan() looks at every slot, and at fewer than a batch of them twice.
LEMMA ScanCovers ==
  ASSUME NEW f \in Seq(Ids \cup {0}), Len(f) = 0 \/ Len(f) >= kFetchIOBatchSize
  PROVE  /\ Scanned(f) \in Nat /\ Len(f) <= Scanned(f)
         /\ Scanned(f) < Len(f) + kFetchIOBatchSize
         /\ Len(f) = 0 => Scanned(f) = 0
         /\ \A j \in 1..Scanned(f) :
              /\ Slot(f, j) \in Ids \cup {0}
              /\ j \in 1..Len(f) => Slot(f, j) = f[j]
              /\ \E i \in 1..Len(f) : Slot(f, j) = f[i]
<1> DEFINE n == Len(f)
           k == kFetchIOBatchSize
           a == n + k - 1
           q == a \div k
           N == Scanned(f)
<1>1. n \in Nat /\ k \in Nat \ {0} /\ a \in Nat
  BY HashSetAssumption
<1>2. a = k * q + (a % k) /\ q \in Nat /\ a % k \in 0..(k - 1)
  BY <1>1, DivMod
<1>3. N = q * k
  BY DEF Scanned
<1> HIDE DEF q, N
<1>4. q * k = k * q /\ k * q \in Nat
  BY <1>1, <1>2
<1>5. N \in Nat /\ n <= N /\ N < n + k
  BY <1>1, <1>2, <1>3, <1>4
<1>6. ASSUME n = 0 PROVE N = 0
  <2>1. k * 0 + (k - 1) = a /\ k - 1 \in 0..(k - 1) /\ 0 \in Nat
    BY <1>1, <1>6
  <2>2. (k * 0 + (k - 1)) % k = k - 1
    BY <1>1, <2>1, Remainder
  <2>3. a % k = k - 1
    BY <2>1, <2>2
  <2> QED BY <1>1, <1>2, <1>3, <1>4, <1>6, <2>3
<1>7. ASSUME NEW j \in 1..N
      PROVE  /\ j \in 1..n => Slot(f, j) = f[j]
             /\ \E i \in 1..n : Slot(f, j) = f[i]
  <2>1. CASE j <= n
    <3>1. j \in 1..n /\ Slot(f, j) = f[j]
      BY <1>1, <1>5, <2>1 DEF Slot
    <3> QED BY <3>1
  <2>2. CASE ~(j <= n)
    <3>1. j \notin 1..n /\ j - k \in 1..n
      BY <1>1, <1>5, <1>6, <2>2
    <3>2. Slot(f, j) = f[j - k]
      BY <2>2 DEF Slot
    <3> QED BY <3>1, <3>2
  <2> QED BY <2>1, <2>2
<1>8. \A i \in 1..n : f[i] \in Ids \cup {0}
  OBVIOUS
<1> QED BY <1>5, <1>6, <1>7, <1>8 DEF N

\* So it sees the contents of the file, and counts at least the slots that are filled.
LEMMA ScanSees ==
  ASSUME NEW f \in Seq(Ids \cup {0}), Len(f) = 0 \/ Len(f) >= kFetchIOBatchSize
  PROVE  /\ {Slot(f, j) : j \in 1..Scanned(f)} \ {0} = Contents(f)
         /\ {Slot(f, j) : j \in scan(f)} = Contents(f)
         /\ IsFiniteSet(scan(f))
         /\ Cardinality(Filled(f)) <= Cardinality(scan(f))
         /\ Cardinality(scan(f)) <= Cardinality(Filled(f)) + kFetchIOBatchSize - 1
<1> DEFINE n == Len(f)
           N == Scanned(f)
           C == Cardinality(Filled(f))
<1>1. /\ n \in Nat /\ N \in Nat /\ n <= N /\ N < n + kFetchIOBatchSize
      /\ \A j \in 1..N : /\ j \in 1..n => Slot(f, j) = f[j]
                         /\ \E i \in 1..n : Slot(f, j) = f[i]
  BY ScanCovers
<1>2. kFetchIOBatchSize \in Nat \ {0}
  BY HashSetAssumption
<1> HIDE DEF N
<1>3. \A i \in 1..n : i \in 1..N
  BY <1>1
<1>4. \A y : y \in Contents(f) <=> y # 0 /\ \E i \in 1..n : y = f[i]
  BY DEF Contents
<1>5. \A y : y \in Contents(f) <=> y # 0 /\ \E j \in 1..N : y = Slot(f, j)
  BY <1>1, <1>3, <1>4
<1>6. {Slot(f, j) : j \in 1..N} \ {0} = Contents(f)
  BY <1>5
<1>7. \A j : j \in scan(f) <=> j \in 1..N /\ Slot(f, j) # 0
  BY DEF scan, N
<1>8. {Slot(f, j) : j \in scan(f)} = Contents(f)
  BY <1>5, <1>7
<1>9. IsFiniteSet(1..N) /\ scan(f) \in SUBSET (1..N)
  BY <1>1, <1>7, FS_Interval
<1>10. IsFiniteSet(scan(f))
  BY <1>9, FS_Subset
<1>11. Filled(f) \in SUBSET scan(f)
  BY <1>1, <1>3, <1>7 DEF Filled
<1>12. C <= Cardinality(scan(f))
  BY <1>10, <1>11, FS_Subset
<1>13. /\ IsFiniteSet((n + 1)..N)
       /\ Cardinality((n + 1)..N) = IF n + 1 > N THEN 0 ELSE N - (n + 1) + 1
  <2>1. n + 1 \in Int /\ N \in Int
    BY <1>1
  <2> QED BY <2>1, FS_Interval
<1>14. IsFiniteSet(Filled(f)) /\ C \in Nat
  BY FilledCount, FS_CardinalityType
<1> DEFINE U == Filled(f) \cup ((n + 1)..N)
<1>15. IsFiniteSet(U) /\ IsFiniteSet(Filled(f) \cap ((n + 1)..N))
       /\ Cardinality(U) = C + Cardinality((n + 1)..N) - Cardinality(Filled(f) \cap ((n + 1)..N))
  BY <1>13, <1>14, FS_Union, FS_Intersection
<1>16. Cardinality(Filled(f) \cap ((n + 1)..N)) \in Nat
  BY <1>15, FS_CardinalityType
<1>17. scan(f) \in SUBSET U
  <2> SUFFICES ASSUME NEW j \in scan(f) PROVE j \in U
    OBVIOUS
  <2>1. j \in 1..N /\ Slot(f, j) # 0
    BY <1>7
  <2>2. CASE j \in 1..n
    BY <1>1, <2>1, <2>2 DEF Filled
  <2>3. CASE j \notin 1..n
    BY <1>1, <2>1, <2>3
  <2> QED BY <2>2, <2>3
<1>18. Cardinality(scan(f)) <= Cardinality(U)
  BY <1>15, <1>17, FS_Subset
<1>19. Cardinality(scan(f)) \in Nat /\ Cardinality(U) \in Nat
  BY <1>10, <1>15, FS_CardinalityType
<1>20. Cardinality(scan(f)) <= C + kFetchIOBatchSize - 1
  BY <1>1, <1>2, <1>13, <1>14, <1>15, <1>16, <1>18, <1>19
<1> QED BY <1>6, <1>8, <1>10, <1>12, <1>20 DEF N

\* The recursion of Rehashing has a solution: its first m elements determine the next.
LEMMA RehashingSteps ==
  ASSUME NEW f, Scanned(f) \in Nat
  PROVE  /\ Rehashing(f)[0] = [j \in 1..(2 * Len(f)) |-> 0]
         /\ \A m \in 1..Scanned(f) :
              Rehashing(f)[m] = IF Slot(f, m) = 0 THEN Rehashing(f)[m - 1]
                                ELSE put(Rehashing(f)[m - 1], Slot(f, m))
<1> DEFINE N == Scanned(f)
           blank == [j \in 1..(2 * Len(f)) |-> 0]
           next(g, m) == IF Slot(f, m) = 0 THEN g ELSE put(g, Slot(f, m))
           Solves(t, n) == t = [m \in 0..n |-> IF m = 0 THEN blank ELSE next(t[m - 1], m)]
           T == Rehashing(f)
<1>1. T = CHOOSE t : Solves(t, N)
  BY Zenon DEF Rehashing
<1> HIDE DEF T, N, blank, next
<1>2. N \in Nat
  BY DEF N
<1> DEFINE Bad == {n \in 0..N : ~ \E t : Solves(t, n)}
<1>3. Bad = {}
  <2> SUFFICES ASSUME Bad # {} PROVE FALSE
    OBVIOUS
  <2>1. Bad \in SUBSET Nat
    BY <1>2
  <2>2. PICK n \in Bad : \A k \in Bad : n <= k
    BY <2>1, LeastNatural
  <2>3. n \in 0..N /\ ~ \E t : Solves(t, n)
    BY <2>2
  <2>4. n # 0
    <3> SUFFICES ASSUME n = 0 PROVE FALSE
      OBVIOUS
    <3> DEFINE t0 == [m \in 0..0 |-> blank]
    <3>1. Solves(t0, 0)
      OBVIOUS
    <3> QED BY <2>3, <3>1
  <2>5. n - 1 \in 0..N /\ ~(n <= n - 1)
    BY <1>2, <2>3, <2>4
  <2>6. n - 1 \notin Bad
    BY <2>2, <2>5
  <2>7. PICK t : Solves(t, n - 1)
    BY <2>5, <2>6
  <2> DEFINE u == [m \in 0..n |-> IF m = n THEN next(t[n - 1], n) ELSE t[m]]
  <2>8. \A m \in 0..(n - 1) : t[m] = IF m = 0 THEN blank ELSE next(t[m - 1], m)
    BY <2>7
  <2>9. \A m \in 0..n : u[m] = IF m = 0 THEN blank ELSE next(u[m - 1], m)
    <3> SUFFICES ASSUME NEW m \in 0..n PROVE u[m] = IF m = 0 THEN blank ELSE next(u[m - 1], m)
      OBVIOUS
    <3>1. CASE m = n
      <4>1. n - 1 \in 0..n /\ n - 1 # n /\ m # 0 /\ u[n - 1] = t[n - 1]
        BY <1>2, <2>3, <2>4, <3>1
      <4> QED BY <3>1, <4>1
    <3>2. CASE m # n
      <4>1. m \in 0..(n - 1)
        BY <1>2, <2>3, <3>2
      <4>2. u[m] = t[m]
        BY <3>2
      <4>3. m # 0 => m - 1 \in 0..n /\ m - 1 # n
        BY <1>2, <2>3, <3>2
      <4>4. m # 0 => u[m - 1] = t[m - 1]
        BY <4>3
      <4> QED BY <2>8, <4>1, <4>2, <4>4
    <3> QED BY <3>1, <3>2
  <2>10. u = [m \in 0..n |-> u[m]]
    OBVIOUS
  <2> HIDE DEF u
  <2>11. Solves(u, n)
    BY <2>9, <2>10
  <2> QED BY <2>3, <2>11
<1>4. N \in 0..N
  BY <1>2
<1>5. \E t : Solves(t, N)
  BY <1>3, <1>4
<1>6. Solves(T, N)
  BY <1>1, <1>5
<1>7. T[0] = blank
  BY <1>2, <1>6
<1>8. ASSUME NEW m \in 1..N PROVE T[m] = next(T[m - 1], m)
  <2>1. m \in 0..N /\ m # 0
    BY <1>2
  <2> QED BY <1>6, <2>1
<1> QED BY <1>7, <1>8 DEF T, N, blank, next

\* After m slots of the buffers the new table has the ids seen so far, no more slots
\* filled than were seen, and every id within reach.
Rehashed(f, m, g) ==
  /\ g \in Seq(Ids \cup {0}) /\ Len(g) = 2 * Len(f)
  /\ Contents(g) = {Slot(f, j) : j \in 1..m} \ {0}
  /\ Cardinality(Filled(g)) <= Cardinality({j \in 1..m : Slot(f, j) # 0})
  /\ Chained(g)

LEMMA RehashingRight ==
  ASSUME NEW f \in Seq(Ids \cup {0}), Len(f) >= kFetchIOBatchSize,
         NEW m \in 0..Scanned(f)
  PROVE  Rehashed(f, m, Rehashing(f)[m])
<1> DEFINE N == Scanned(f)
           n == Len(f)
           T == Rehashing(f)
           S(i) == {j \in 1..i : Slot(f, j) # 0}
<1>0. kFetchIOBatchSize \in Nat \ {0} /\ 0 \notin Ids
  BY HashSetAssumption
<1>1. /\ n \in Nat \ {0} /\ N \in Nat /\ N < n + kFetchIOBatchSize
      /\ \A j \in 1..N : Slot(f, j) \in Ids \cup {0}
  <2>1. n \in Nat \ {0}
    BY <1>0
  <2> QED BY <2>1, ScanCovers
<1>2. /\ T[0] = [j \in 1..(2 * n) |-> 0]
      /\ \A i \in 1..N : T[i] = IF Slot(f, i) = 0 THEN T[i - 1] ELSE put(T[i - 1], Slot(f, i))
  BY <1>1, RehashingSteps
<1> HIDE DEF T, N
<1>3. \A i \in 0..N : IsFiniteSet(S(i)) /\ Cardinality(S(i)) \in 0..i
  <2> SUFFICES ASSUME NEW i \in 0..N PROVE IsFiniteSet(S(i)) /\ Cardinality(S(i)) \in 0..i
    OBVIOUS
  <2>1. i \in Nat /\ IsFiniteSet(1..i) /\ Cardinality(1..i) = i
    <3>1. i \in Nat
      BY <1>1
    <3> QED BY <3>1, FS_Interval
  <2>2. S(i) \in SUBSET (1..i)
    OBVIOUS
  <2>3. IsFiniteSet(S(i)) /\ Cardinality(S(i)) <= i
    BY <2>1, <2>2, FS_Subset
  <2>4. Cardinality(S(i)) \in Nat
    BY <2>3, FS_CardinalityType
  <2> QED BY <2>1, <2>3, <2>4
<1>4. Rehashed(f, 0, T[0])
  <2> DEFINE g == T[0]
  <2>1. 2 * n \in Nat /\ g \in [1..(2 * n) -> Ids \cup {0}]
    BY <1>1, <1>2
  <2>2. g \in Seq(Ids \cup {0}) /\ Len(g) = 2 * n /\ \A j \in 1..(2 * n) : g[j] = 0
    BY <1>2, <2>1
  <2> HIDE DEF g
  <2>3. Contents(g) = {} /\ Filled(g) = {}
    BY <2>2 DEF Contents, Filled
  <2>4. Cardinality(Filled(g)) = 0
    BY <2>3, FS_EmptySet
  <2>5. Chained(g)
    BY <2>3 DEF Chained
  <2>6. 1..0 = {}
    OBVIOUS
  <2>7. {Slot(f, j) : j \in 1..0} \ {0} = {}
    BY <2>6
  <2>8. 0 \in 0..N
    BY <1>1
  <2>9. Cardinality(S(0)) \in 0..0
    BY <1>3, <2>8
  <2> QED BY <2>2, <2>3, <2>4, <2>5, <2>7, <2>9 DEF Rehashed, g
<1>5. ASSUME NEW i \in 1..N, Rehashed(f, i - 1, T[i - 1]) PROVE Rehashed(f, i, T[i])
  <2> DEFINE g == T[i - 1]
             h == T[i]
             x == Slot(f, i)
  <2>1. /\ g \in Seq(Ids \cup {0}) /\ Len(g) = 2 * n /\ Chained(g)
        /\ Contents(g) = {Slot(f, j) : j \in 1..(i - 1)} \ {0}
        /\ Cardinality(Filled(g)) <= Cardinality(S(i - 1))
    BY <1>5 DEF Rehashed
  <2>2. h = (IF x = 0 THEN g ELSE put(g, x)) /\ x \in Ids \cup {0}
    BY <1>1, <1>2
  <2>3. i \in Nat /\ i - 1 \in 0..N /\ 1..i = (1..(i - 1)) \cup {i} /\ i \notin 1..(i - 1)
    BY <1>1
  <2> HIDE DEF g, h
  <2>4. CASE x = 0
    <3>1. S(i) = S(i - 1)
      BY <2>3, <2>4
    <3>2. {Slot(f, j) : j \in 1..i} \ {0} = {Slot(f, j) : j \in 1..(i - 1)} \ {0}
      BY <2>3, <2>4
    <3> QED BY <2>1, <2>2, <2>4, <3>1, <3>2 DEF Rehashed, h
  <2>5. CASE x # 0
    <3>1. Cardinality(S(i - 1)) \in 0..(i - 1)
      BY <1>3, <2>3
    <3>2. Cardinality(Filled(g)) \in Nat
      BY <2>1, FilledCount
    <3>3. Cardinality(Filled(g)) < Len(g)
      BY <1>0, <1>1, <2>1, <2>3, <3>1, <3>2
    <3>4. HasRoom(g)
      BY <2>1, <3>3, FilledCount
    <3>5. x \in Ids
      BY <2>2, <2>5
    <3> HIDE DEF x
    <3>6. Adds(g, x, h)
      BY <2>1, <2>2, <2>5, <3>4, <3>5, PutPlaces
    <3>7. /\ h \in Seq(Ids \cup {0}) /\ Len(h) = 2 * n /\ Chained(h)
          /\ Contents(h) = Contents(g) \cup {x}
          /\ Cardinality(Filled(h)) = Cardinality(Filled(g)) + 1
      BY <2>1, <3>6 DEF Adds
    <3>8. S(i) = S(i - 1) \cup {i} /\ i \notin S(i - 1)
      BY <2>3, <2>5 DEF x
    <3>9. Cardinality(S(i)) = Cardinality(S(i - 1)) + 1
      <4>1. IsFiniteSet(S(i - 1))
        BY <1>3, <2>3
      <4> HIDE DEF S
      <4>2. Cardinality(S(i - 1) \cup {i}) = Cardinality(S(i - 1)) + 1
        BY <3>8, <4>1, FS_AddElement
      <4> QED BY <3>8, <4>2
    <3>10. {Slot(f, j) : j \in 1..i} \ {0} = ({Slot(f, j) : j \in 1..(i - 1)} \ {0}) \cup {x}
      BY <2>3, <2>5 DEF x
    <3>11. Cardinality(Filled(h)) <= Cardinality(S(i))
      BY <2>1, <3>1, <3>2, <3>7, <3>9
    <3> QED BY <2>1, <3>7, <3>10, <3>11 DEF Rehashed, h
  <2> QED BY <2>4, <2>5
<1> DEFINE Bad == {i \in 0..N : ~Rehashed(f, i, T[i])}
<1>6. Bad = {}
  <2> SUFFICES ASSUME Bad # {} PROVE FALSE
    OBVIOUS
  <2>1. Bad \in SUBSET Nat
    BY <1>1
  <2>2. PICK i \in Bad : \A k \in Bad : i <= k
    BY <2>1, LeastNatural
  <2>3. i \in 0..N /\ ~Rehashed(f, i, T[i])
    BY <2>2
  <2>4. i # 0
    BY <1>4, <2>3
  <2>5. i \in 1..N /\ i - 1 \in 0..N /\ ~(i <= i - 1)
    BY <1>1, <2>3, <2>4
  <2>6. Rehashed(f, i - 1, T[i - 1])
    BY <2>2, <2>5
  <2> QED BY <1>5, <2>3, <2>5, <2>6
<1> QED BY <1>6 DEF N, T

\* grow() keeps the contents in a table twice the size, where they can be found, and
\* doubles fewer slots than a batch has.
LEMMA RehashKeeps ==
  ASSUME NEW f \in Seq(Ids \cup {0}), Len(f) >= kFetchIOBatchSize
  PROVE  /\ rehash(f) \in Seq(Ids \cup {0}) /\ Len(rehash(f)) = 2 * Len(f)
         /\ Contents(rehash(f)) = Contents(f) /\ Chained(rehash(f))
         /\ Cardinality(Filled(rehash(f))) <= Cardinality(Filled(f)) + kFetchIOBatchSize - 1
<1> DEFINE N == Scanned(f)
           g == rehash(f)
<1>1. N \in 0..N
  BY ScanCovers
<1>2. Rehashed(f, N, g)
  BY <1>1, RehashingRight DEF rehash
<1> HIDE DEF g
<1>3. /\ g \in Seq(Ids \cup {0}) /\ Len(g) = 2 * Len(f) /\ Chained(g)
      /\ Contents(g) = {Slot(f, j) : j \in 1..N} \ {0}
      /\ Cardinality(Filled(g)) <= Cardinality(scan(f))
  BY <1>2 DEF Rehashed, scan
<1>4. /\ {Slot(f, j) : j \in 1..N} \ {0} = Contents(f)
      /\ IsFiniteSet(scan(f))
      /\ Cardinality(scan(f)) <= Cardinality(Filled(f)) + kFetchIOBatchSize - 1
  BY ScanSees
<1>5. /\ Cardinality(Filled(g)) \in Nat /\ Cardinality(Filled(f)) \in Nat
      /\ Cardinality(scan(f)) \in Nat /\ kFetchIOBatchSize \in Nat
  BY <1>3, <1>4, FilledCount, FS_CardinalityType, HashSetAssumption
<1> HIDE DEF N
<1>6. Cardinality(Filled(g)) <= Cardinality(Filled(f)) + kFetchIOBatchSize - 1
  BY <1>3, <1>4, <1>5
<1> QED BY <1>3, <1>4, <1>6 DEF g

-----------------------------------------------------------------------------
Writing == [at : {"insert", "rename", "grown"}, ids : SUBSET Ids]
Probing == [at : {"probe"}, id : Ids, file : Nat, n : Nat, i : Nat, before : BOOLEAN]
Answered == [at : {"answered"}, id : Ids, found : BOOLEAN, before : BOOLEAN]

\* In particular, nobody has raised "set is full".
SetTypeOK ==
  /\ inodes \in Seq(Seq(Ids \cup {0})) /\ path \in 0..Len(inodes)
  /\ process \in {"down", "up", "unusable"}
  /\ nslots \in Nat /\ used \in Nat \cup {-1}
  /\ writer \in {Idle} \cup Writing
  /\ reader \in [Readers -> {Idle} \cup Probing \cup Answered]
  /\ acked \subseteq Ids

\* Files are complete tables or were just created.  The newest is at fpath_, or it is the
\* table that grow() is about to move there, which has the same ids.
Newest == inodes[Len(inodes)]
FilesGood == \A i \in 1..Len(inodes) : inodes[i] = <<>> \/ Table(inodes[i])
PathGood ==
  /\ path = 0 <=> Len(inodes) = 0
  /\ writer.at # "rename" => path = Len(inodes)
  /\ writer.at = "rename" =>
       /\ path # 0 /\ path = Len(inodes) - 1 /\ used # -1 /\ Newest # <<>>
       /\ Loaded(Newest, used) /\ Roomy(Newest) /\ Contents(Newest) = Contents(File)
  /\ \A i \in 1..Len(inodes) : Contents(inodes[i]) \subseteq Contents(File)
  /\ acked \subseteq Contents(File)

\* nslots_ is that of the file at fpath_, and its table has room for what is inserted.
Running ==
  /\ process = "up" => nslots = Len(File)
  /\ process # "up" => writer = Idle /\ used = -1 /\ \A r \in Readers : reader[r] = Idle
  /\ writer # Idle => path # 0
  /\ writer.at = "grown" => used # -1 /\ File # <<>> /\ Roomy(File)
  /\ used # -1 /\ File # <<>> => Loaded(File, used)

\* A reader's file is the one it opened; what it has passed is neither empty nor its id.
Inode(i) == IF i = 0 THEN <<>> ELSE inodes[i]
ProbingRight(s) ==
  /\ s.file \in 0..Len(inodes) /\ s.n = Len(Inode(s.file)) /\ (s.n # 0 => s.i \in 1..s.n)
  /\ \A k \in 1..(s.i - 1) : k \in 1..s.n /\ Probe(Inode(s.file), s.id, k) \notin {0, s.id}
  /\ s.before => s.id \in Contents(Inode(s.file))
AnsweredRight(s) ==
  /\ s.before => s.found
  /\ s.found => s.id \in Contents(File)
ReadersRight ==
  \A r \in Readers : /\ reader[r].at = "probe" => ProbingRight(reader[r])
                     /\ reader[r].at = "answered" => AnsweredRight(reader[r])

SetInv == SetTypeOK /\ FilesGood /\ PathGood /\ Running /\ ReadersRight

\* What the invariant says of the file at fpath_.
LEMMA FileFacts ==
  ASSUME SetInv
  PROVE  /\ File \in Seq(Ids \cup {0}) /\ Len(File) \in Nat /\ Len(inodes) \in Nat
         /\ File = <<>> <=> Len(File) = 0
         /\ File = <<>> \/ Table(File)
         /\ Len(File) = 0 \/ Len(File) >= kInitialSlots
         /\ Len(File) = 0 \/ Len(File) >= kFetchIOBatchSize
         /\ File = Inode(path)
<1>1. inodes \in Seq(Seq(Ids \cup {0})) /\ path \in 0..Len(inodes) /\ Len(inodes) \in Nat
  BY DEF SetInv, SetTypeOK
<1>2. <<>> \in Seq(Ids \cup {0}) /\ Len(<<>>) = 0
  OBVIOUS
<1>3. path # 0 => path \in 1..Len(inodes)
  BY <1>1
<1>4. File \in Seq(Ids \cup {0})
  BY <1>1, <1>2, <1>3 DEF File
<1>5. File = <<>> \/ Table(File)
  BY <1>3 DEF File, SetInv, FilesGood
<1>6. Len(File) \in Nat /\ (File = <<>> <=> Len(File) = 0)
  BY <1>4, EmptySeq
<1>7. Len(File) = 0 \/ Len(File) >= kInitialSlots
  BY <1>5, <1>6 DEF Table
<1>8. Len(File) = 0 \/ Len(File) >= kFetchIOBatchSize
  BY <1>6, <1>7, HashSetAssumption
<1> QED BY <1>1, <1>4, <1>5, <1>6, <1>7, <1>8 DEF File, Inode

\* A table that has more slots than are filled is one to look in; a new file has no ids.
LEMMA NewFile == Contents(<<>>) = {}
  BY DEF Contents

\* The kinds of readers and writers are told apart by at.
LEMMA Kinds ==
  ASSUME SetTypeOK
  PROVE  /\ writer.at \in {"idle", "insert", "rename", "grown"}
         /\ writer = Idle <=> writer.at = "idle"
         /\ writer # Idle => writer \in Writing
         /\ \A r \in Readers :
              /\ reader[r].at \in {"idle", "probe", "answered"}
              /\ reader[r].at = "probe" => reader[r] \in Probing
              /\ reader[r].at = "answered" => reader[r] \in Answered
<1>1. Idle.at = "idle"
  BY DEF Idle
<1>2. /\ \A w \in Writing : w.at \in {"insert", "rename", "grown"}
      /\ \A s \in Probing : s.at = "probe"
      /\ \A s \in Answered : s.at = "answered"
  BY DEF Writing, Probing, Answered
<1>3. writer \in {Idle} \cup Writing /\ \A r \in Readers : reader[r] \in {Idle} \cup Probing \cup Answered
  BY DEF SetTypeOK
<1> QED BY <1>1, <1>2, <1>3

\* A reader in progress is not disturbed by files that are added and by ids that are
\* written to empty slots.
LEMMA ReadersKept ==
  ASSUME SetTypeOK, ReadersRight, reader' = reader,
         Len(inodes) <= Len(inodes'), Len(inodes') \in Nat,
         \A i \in 1..Len(inodes) :
           /\ Len(inodes'[i]) = Len(inodes[i])
           /\ \A k \in 1..Len(inodes[i]) : inodes[i][k] # 0 => inodes'[i][k] = inodes[i][k]
           /\ Contents(inodes[i]) \subseteq Contents(inodes'[i]),
         Contents(File) \subseteq Contents(File)'
  PROVE  ReadersRight'
<1> SUFFICES ASSUME NEW r \in Readers
             PROVE  /\ reader[r].at = "probe" => ProbingRight(reader[r])'
                    /\ reader[r].at = "answered" => AnsweredRight(reader[r])'
  BY DEF ReadersRight
<1> DEFINE s == reader[r]
<1>1. s' = s
  OBVIOUS
<1>2. ASSUME s.at = "probe" PROVE ProbingRight(s)'
  <2> DEFINE f == Inode(s.file)
             g == Inode(s.file)'
  <2>1. s \in Probing
    BY <1>2, Kinds
  <2>2. /\ s.id \in Ids /\ s.file \in Nat /\ s.n \in Nat /\ s.i \in Nat
        /\ Len(inodes) \in Nat /\ inodes \in Seq(Seq(Ids \cup {0}))
    BY <2>1 DEF Probing, SetTypeOK
  <2>3. /\ s.file \in 0..Len(inodes) /\ s.n = Len(f) /\ (s.n # 0 => s.i \in 1..s.n)
        /\ \A k \in 1..(s.i - 1) : k \in 1..s.n /\ Probe(f, s.id, k) \notin {0, s.id}
        /\ s.before => s.id \in Contents(f)
    BY <1>2 DEF ReadersRight, ProbingRight
  <2>4. s.file \in 0..Len(inodes')
    BY <2>2, <2>3
  <2>5. /\ Len(g) = Len(f) /\ Contents(f) \subseteq Contents(g)
        /\ \A k \in 1..Len(f) : f[k] # 0 => g[k] = f[k]
    <3>1. CASE s.file = 0
      BY <1>1, <3>1 DEF Inode
    <3>2. CASE s.file # 0
      <4>1. s.file \in 1..Len(inodes) /\ f = inodes[s.file] /\ g = inodes'[s.file]
        BY <1>1, <2>2, <2>3, <3>2 DEF Inode
      <4> QED BY <4>1
    <3> QED BY <3>1, <3>2
  <2> HIDE DEF f, g, s
  <2>6. ASSUME NEW k \in 1..(s.i - 1) PROVE Probe(g, s.id, k) = Probe(f, s.id, k)
    <3>1. k \in 1..s.n /\ Probe(f, s.id, k) # 0
      BY <2>3
    <3>2. s.n \in Nat \ {0}
      BY <2>2, <3>1
    <3>3. Probes(s.n, s.id)[k] \in 1..s.n
      BY <2>2, <3>1, <3>2, ProbeOrder
    <3> QED BY <2>3, <2>5, <3>1, <3>3 DEF Probe
  <2>7. \A k \in 1..(s.i - 1) : k \in 1..s.n /\ Probe(g, s.id, k) \notin {0, s.id}
    BY <2>3, <2>6
  <2>8. s.n = Len(g) /\ (s.before => s.id \in Contents(g))
    BY <2>3, <2>5
  <2> QED BY <1>1, <2>3, <2>4, <2>7, <2>8 DEF ProbingRight, g, s
<1>3. ASSUME s.at = "answered" PROVE AnsweredRight(s)'
  BY <1>1, <1>3 DEF ReadersRight, AnsweredRight
<1> QED BY <1>2, <1>3

-----------------------------------------------------------------------------
\* The set before its file exists.
LEMMA SetInitInv == SetInit => SetInv /\ Contents(File) = {}
<1> SUFFICES ASSUME SetInit PROVE SetInv /\ Contents(File) = {}
  OBVIOUS
<1>1. Len(inodes) = 0 /\ inodes = <<>> /\ path = 0 /\ File = <<>> /\ writer.at = "idle"
  BY DEF SetInit, File, Idle
<1>2. Contents(File) = {}
  BY <1>1, NewFile
<1>3. \A r \in Readers : reader[r] = Idle /\ reader[r].at = "idle"
  BY DEF SetInit, Idle
<1>4. SetTypeOK
  BY DEF SetInit, SetTypeOK
<1>5. FilesGood
  BY <1>1 DEF FilesGood
<1>6. PathGood
  BY <1>1 DEF PathGood, SetInit
<1>7. Running
  BY <1>1, <1>3 DEF Running, SetInit
<1>8. ReadersRight
  BY <1>3 DEF ReadersRight
<1> QED BY <1>2, <1>4, <1>5, <1>6, <1>7, <1>8 DEF SetInv

\* The constructor takes nslots_ from the file, and does not count.
LEMMA OpenInv == SetInv /\ open => SetInv' /\ Contents(File)' = Contents(File)
<1> SUFFICES ASSUME SetInv, open PROVE SetInv' /\ Contents(File)' = Contents(File)
  OBVIOUS
<1>1. /\ process = "down" /\ process' \in {"up", "unusable"}
      /\ nslots' = Len(File) /\ used' = -1
      /\ UNCHANGED <<inodes, path, writer, reader, acked>>
  BY DEF open
<1>2. File' = File /\ Newest' = Newest /\ \A i : Inode(i)' = Inode(i)
  BY <1>1 DEF File, Newest, Inode
<1>3. writer = Idle /\ used = -1 /\ \A r \in Readers : reader[r] = Idle
  BY <1>1 DEF SetInv, Running
<1>4. writer.at = "idle" /\ \A r \in Readers : reader[r].at = "idle"
  BY <1>3 DEF Idle
<1>5. SetTypeOK'
  BY <1>1, FileFacts DEF SetInv, SetTypeOK
<1>6. FilesGood'
  BY <1>1 DEF SetInv, FilesGood
<1>7. PathGood'
  BY <1>1, <1>2, <1>4 DEF SetInv, PathGood
<1>8. Running'
  BY <1>1, <1>2, <1>3, <1>4 DEF Running
<1>9. ReadersRight'
  BY <1>1, <1>4 DEF ReadersRight
<1> QED BY <1>2, <1>5, <1>6, <1>7, <1>8, <1>9 DEF SetInv

\* A crash leaves the file that fpath_ names.
LEMMA CrashInv == SetInv /\ crash => SetInv' /\ Contents(File)' = Contents(File)
<1> SUFFICES ASSUME SetInv, crash PROVE SetInv' /\ Contents(File)' = Contents(File)
  OBVIOUS
<1>1. /\ process' = "down" /\ nslots' = 0 /\ used' = -1
      /\ writer' = Idle /\ reader' = [r \in Readers |-> Idle] /\ acked' = acked
  BY DEF crash
<1>2. writer'.at = "idle" /\ \A r \in Readers : reader'[r] = Idle /\ reader'[r].at = "idle"
  BY <1>1 DEF Idle
<1>3. inodes \in Seq(Seq(Ids \cup {0})) /\ path \in 0..Len(inodes) /\ acked \subseteq Ids
  BY DEF SetInv, SetTypeOK
<1>4. /\ File \in Seq(Ids \cup {0}) /\ (File = <<>> \/ Table(File)) /\ Len(inodes) \in Nat
  BY FileFacts
<1>5. acked \subseteq Contents(File) /\ (path = 0 <=> Len(inodes) = 0)
  BY DEF SetInv, PathGood
<1>6. /\ inodes' \in Seq(Seq(Ids \cup {0})) /\ path' = Len(inodes') /\ path' \in 0..Len(inodes')
      /\ File' = File
      /\ \A i \in 1..Len(inodes') : inodes'[i] = File
  <2>1. CASE path = 0
    <3>1. inodes' = inodes /\ path' = path /\ Len(inodes') = 0
      BY <1>5, <2>1 DEF crash
    <3> QED BY <1>3, <2>1, <3>1 DEF File
  <2>2. CASE path # 0
    <3>1. inodes' = <<File>> /\ path' = 1
      BY <2>2 DEF crash
    <3>2. Len(inodes') = 1 /\ inodes'[1] = File /\ inodes' \in Seq(Seq(Ids \cup {0}))
      BY <1>4, <3>1
    <3>3. File' = inodes'[1]
      BY <3>1 DEF File
    <3> QED BY <3>1, <3>2, <3>3
  <2> QED BY <2>1, <2>2
<1>7. SetTypeOK'
  BY <1>1, <1>3, <1>6 DEF SetTypeOK
<1>8. FilesGood'
  BY <1>4, <1>6 DEF FilesGood
<1>9. PathGood'
  BY <1>1, <1>2, <1>5, <1>6 DEF PathGood
<1>10. Running'
  BY <1>1, <1>2 DEF Running
<1>11. ReadersRight'
  BY <1>2 DEF ReadersRight
<1> QED BY <1>6, <1>7, <1>8, <1>9, <1>10, <1>11 DEF SetInv

\* A writer may create the file.
LEMMA AddInv ==
  ASSUME SetInv, NEW ids \in SUBSET Ids, addRecordIDs(ids)
  PROVE  SetInv' /\ Contents(File)' = Contents(File)
<1>1. /\ process = "up" /\ writer = Idle /\ writer' = [at |-> "insert", ids |-> ids]
      /\ UNCHANGED <<process, nslots, used, reader, acked>>
  BY DEF addRecordIDs
<1>2. writer'.at = "insert" /\ writer.at = "idle" /\ writer' \in Writing
  BY <1>1 DEF Writing, Idle
<1>3. inodes \in Seq(Seq(Ids \cup {0})) /\ path \in 0..Len(inodes) /\ Len(inodes) \in Nat
  BY DEF SetInv, SetTypeOK
<1>4. /\ path = 0 <=> Len(inodes) = 0
      /\ path = Len(inodes)
      /\ \A i \in 1..Len(inodes) : Contents(inodes[i]) \subseteq Contents(File)
      /\ acked \subseteq Contents(File)
  BY <1>2 DEF SetInv, PathGood
<1>5. /\ inodes' \in Seq(Seq(Ids \cup {0})) /\ path' = Len(inodes') /\ path' # 0
      /\ File' = File /\ Len(inodes) <= Len(inodes') /\ Len(inodes') \in Nat
      /\ \A i \in 1..Len(inodes) : inodes'[i] = inodes[i]
      /\ \A i \in 1..Len(inodes') : i \in 1..Len(inodes) \/ inodes'[i] = <<>>
  <2>1. CASE path = 0
    <3>1. inodes' = <<<<>>>> /\ path' = 1 /\ Len(inodes) = 0
      BY <1>4, <2>1 DEF addRecordIDs
    <3>2. <<>> \in Seq(Ids \cup {0})
      OBVIOUS
    <3>3. Len(inodes') = 1 /\ inodes'[1] = <<>> /\ inodes' \in Seq(Seq(Ids \cup {0}))
      BY <3>1, <3>2
    <3>4. File' = <<>> /\ File = <<>>
      BY <2>1, <3>1, <3>3 DEF File
    <3> QED BY <3>1, <3>3, <3>4
  <2>2. CASE path # 0
    <3>1. inodes' = inodes /\ path' = path
      BY <2>2 DEF addRecordIDs
    <3> QED BY <1>3, <1>4, <2>2, <3>1 DEF File
  <2> QED BY <2>1, <2>2
<1>6. SetTypeOK'
  BY <1>1, <1>2, <1>5 DEF SetInv, SetTypeOK
<1>7. FilesGood'
  BY <1>5 DEF SetInv, FilesGood
<1>8. PathGood'
  <2>1. \A i \in 1..Len(inodes') : Contents(inodes'[i]) \subseteq Contents(File)
    BY <1>4, <1>5, NewFile
  <2> QED BY <1>1, <1>2, <1>4, <1>5, <2>1 DEF PathGood
<1>9. Running'
  BY <1>1, <1>2, <1>5 DEF SetInv, Running
<1>10. ReadersRight'
  BY <1>1, <1>5, ReadersKept DEF SetInv
<1> QED BY <1>5, <1>6, <1>7, <1>8, <1>9, <1>10 DEF SetInv

\* insert() counts no less than what is in the table.
LEMMA CountInv == SetInv /\ countUsed => SetInv' /\ Contents(File)' = Contents(File)
<1> SUFFICES ASSUME SetInv, countUsed PROVE SetInv' /\ Contents(File)' = Contents(File)
  OBVIOUS
<1>1. /\ writer.at = "insert" /\ used' = Cardinality(scan(File))
      /\ UNCHANGED <<inodes, path, process, nslots, writer, reader, acked>>
  BY DEF countUsed
<1>2. File' = File /\ Newest' = Newest /\ \A i : Inode(i)' = Inode(i)
  BY <1>1 DEF File, Newest, Inode
<1>3. /\ File \in Seq(Ids \cup {0}) /\ Len(File) \in Nat
      /\ File = <<>> <=> Len(File) = 0
      /\ Len(File) = 0 \/ Len(File) >= kFetchIOBatchSize
  BY FileFacts
<1>4. IsFiniteSet(scan(File)) /\ Cardinality(Filled(File)) <= Cardinality(scan(File))
  BY <1>3, ScanSees
<1>5. Cardinality(scan(File)) \in Nat /\ Cardinality(Filled(File)) \in Nat
  BY <1>3, <1>4, FilledCount, FS_CardinalityType
<1>6. used' \in Nat /\ Cardinality(Filled(File)) <= used'
  BY <1>1, <1>4, <1>5
<1>7. File # <<>> => Loaded(File, used')
  BY <1>3, <1>5, <1>6, HashSetAssumption DEF Loaded
<1>8. SetTypeOK'
  BY <1>1, <1>6 DEF SetInv, SetTypeOK
<1>9. FilesGood'
  BY <1>1 DEF SetInv, FilesGood
<1>10. PathGood'
  BY <1>1, <1>2 DEF SetInv, PathGood
<1>11. Running'
  <2>1. process = "up"
    BY <1>1, Kinds DEF SetInv, Running, Idle
  <2> QED BY <1>1, <1>2, <1>7, <2>1 DEF SetInv, Running
<1>12. ReadersRight'
  BY <1>1, <1>2 DEF SetInv, ReadersRight, ProbingRight, AnsweredRight
<1> QED BY <1>2, <1>8, <1>9, <1>10, <1>11, <1>12 DEF SetInv

\* The table that grow() writes has the ids of the old one and room for more.
Grown == IF nslots = 0 THEN [j \in 1..kInitialSlots |-> 0] ELSE rehash(File)

LEMMA GrownTable ==
  ASSUME SetInv, writer # Idle, used # -1
  PROVE  /\ Grown \in Seq(Ids \cup {0}) /\ Grown # <<>> /\ Table(Grown)
         /\ Loaded(Grown, used) /\ Roomy(Grown) /\ Contents(Grown) = Contents(File)
<1> DEFINE g == Grown
           n == Len(File)
           k == kFetchIOBatchSize
           C(f) == Cardinality(Filled(f))
<1>0. kInitialSlots \in Nat \ {0, 1} /\ k \in Nat \ {0} /\ k <= kInitialSlots
  BY HashSetAssumption
<1>1. /\ File \in Seq(Ids \cup {0}) /\ n \in Nat
      /\ File = <<>> <=> n = 0
      /\ File = <<>> \/ Table(File)
      /\ n = 0 \/ n >= kInitialSlots
  BY FileFacts
<1>2. nslots = n /\ used \in Nat
  BY DEF SetInv, Running, SetTypeOK
<1>3. CASE nslots = 0
  <2>1. g \in [1..kInitialSlots -> Ids \cup {0}] /\ \A j \in 1..kInitialSlots : g[j] = 0
    BY <1>3 DEF Grown
  <2>2. g \in Seq(Ids \cup {0}) /\ Len(g) = kInitialSlots
    BY <1>0, <2>1
  <2>3. Contents(g) = {} /\ Filled(g) = {}
    BY <2>1, <2>2 DEF Contents, Filled
  <2>4. C(g) = 0
    BY <2>3, FS_EmptySet
  <2>5. Contents(File) = {}
    BY <1>1, <1>2, <1>3, NewFile
  <2>6. Chained(g)
    BY <2>3 DEF Chained
  <2>7. HasRoom(g)
    BY <1>0, <2>1, <2>2 DEF HasRoom
  <2>8. g # <<>>
    BY <1>0, <2>2, EmptySeq
  <2>9. Loaded(g, used) /\ Roomy(g)
    BY <1>0, <1>2, <2>2, <2>4 DEF Loaded, Roomy
  <2> QED BY <1>0, <2>2, <2>3, <2>5, <2>6, <2>7, <2>8, <2>9 DEF Table
<1>4. CASE nslots # 0
  <2>1. g = rehash(File) /\ n >= k /\ n >= kInitialSlots /\ File # <<>>
    BY <1>0, <1>1, <1>2, <1>4 DEF Grown
  <2>2. /\ g \in Seq(Ids \cup {0}) /\ Len(g) = 2 * n
        /\ Contents(g) = Contents(File) /\ Chained(g) /\ C(g) <= C(File) + k - 1
    BY <1>1, <2>1, RehashKeeps
  <2>3. Loaded(File, used) /\ HasRoom(File)
    BY <1>1, <2>1 DEF SetInv, Running, Table
  <2>4. C(g) \in Nat /\ C(File) \in Nat /\ C(File) < n
    BY <1>1, <2>2, <2>3, FilledCount
  <2>5. C(File) <= used + n - k
    BY <2>3 DEF Loaded
  <2> HIDE DEF C, n, k
  <2>6. C(g) + 1 < Len(g)
    BY <1>0, <1>1, <2>1, <2>2, <2>4
  <2>7. C(g) <= used + Len(g) - k /\ 2 * (C(g) - used) < Len(g)
    BY <1>0, <1>1, <1>2, <2>1, <2>2, <2>4, <2>5
  <2>8. C(g) < Len(g) /\ Len(g) >= kInitialSlots /\ Len(g) # 0
    BY <1>0, <1>1, <2>1, <2>2, <2>4, <2>6
  <2>9. HasRoom(g)
    BY <2>2, <2>8, FilledCount DEF C
  <2>10. g # <<>>
    BY <2>8, EmptySeq
  <2> QED BY <2>2, <2>6, <2>7, <2>8, <2>9, <2>10 DEF Loaded, Roomy, Table, C, k
<1> QED BY <1>3, <1>4

\* grow(), first half: readers and the writer still see the old file.
LEMMA GrowWriteInv == SetInv /\ growWrite => SetInv' /\ Contents(File)' = Contents(File)
<1> SUFFICES ASSUME SetInv, growWrite PROVE SetInv' /\ Contents(File)' = Contents(File)
  OBVIOUS
<1> DEFINE g == Grown
           N == Len(inodes)
<1>1. /\ writer.at = "insert" /\ used # -1 /\ inodes' = Append(inodes, g)
      /\ writer' = [writer EXCEPT !.at = "rename"]
      /\ UNCHANGED <<path, process, nslots, used, reader, acked>>
  BY DEF growWrite, Grown
<1>2. writer # Idle /\ writer \in Writing
  BY <1>1, Kinds DEF SetInv
<1>3. writer' \in Writing /\ writer'.at = "rename" /\ writer' # Idle
  <2>1. writer' \in Writing /\ writer'.at = "rename"
    BY <1>1, <1>2 DEF Writing
  <2> QED BY <2>1 DEF Idle
<1>4. /\ g \in Seq(Ids \cup {0}) /\ g # <<>> /\ Table(g)
      /\ Loaded(g, used) /\ Roomy(g) /\ Contents(g) = Contents(File)
  BY <1>1, <1>2, GrownTable
<1> HIDE DEF g
<1>5. inodes \in Seq(Seq(Ids \cup {0})) /\ path \in 0..N /\ N \in Nat
  BY DEF SetInv, SetTypeOK
<1>6. path # 0 /\ path = N
  BY <1>1, <1>2 DEF SetInv, Running, PathGood
<1>7. /\ inodes' \in Seq(Seq(Ids \cup {0})) /\ Len(inodes') = N + 1
      /\ inodes'[N + 1] = g /\ \A i \in 1..N : inodes'[i] = inodes[i]
  BY <1>1, <1>4, <1>5
<1>8. File' = File /\ Newest' = g
  BY <1>1, <1>5, <1>6, <1>7 DEF File, Newest
<1>9. \A i \in 1..Len(inodes') : i \in 1..N \/ i = N + 1
  BY <1>5, <1>7
<1>10. SetTypeOK'
  <2>1. path' \in 0..Len(inodes')
    BY <1>1, <1>5, <1>7
  <2> QED BY <1>1, <1>3, <1>7, <2>1 DEF SetInv, SetTypeOK
<1>11. FilesGood'
  BY <1>4, <1>7, <1>9 DEF SetInv, FilesGood
<1>12. PathGood'
  <2>1. \A i \in 1..Len(inodes') : Contents(inodes'[i]) \subseteq Contents(File)
    BY <1>4, <1>7, <1>9 DEF SetInv, PathGood
  <2>2. path' = Len(inodes') - 1 /\ path' # 0 /\ Len(inodes') # 0
    BY <1>1, <1>5, <1>6, <1>7
  <2>3. acked \subseteq Contents(File)
    BY DEF SetInv, PathGood
  <2> QED BY <1>1, <1>3, <1>4, <1>8, <2>1, <2>2, <2>3 DEF PathGood
<1>13. Running'
  BY <1>1, <1>2, <1>3, <1>6, <1>8 DEF SetInv, Running
<1>14. ReadersRight'
  BY <1>1, <1>5, <1>7, <1>8, ReadersKept DEF SetInv
<1> QED BY <1>8, <1>10, <1>11, <1>12, <1>13, <1>14 DEF SetInv

\* grow(), second half: the new table takes the place of the old one, whose readers
\* keep it.
LEMMA GrowRenameInv == SetInv /\ growRename => SetInv' /\ Contents(File)' = Contents(File)
<1> SUFFICES ASSUME SetInv, growRename PROVE SetInv' /\ Contents(File)' = Contents(File)
  OBVIOUS
<1> DEFINE N == Len(inodes)
<1>1. /\ writer.at = "rename" /\ path' = N /\ nslots' = Len(Newest)
      /\ writer' = [writer EXCEPT !.at = "grown"]
      /\ UNCHANGED <<inodes, process, used, reader, acked>>
  BY DEF growRename, Newest
<1>2. writer # Idle /\ writer \in Writing
  BY <1>1, Kinds DEF SetInv
<1>3. writer' \in Writing /\ writer'.at = "grown" /\ writer' # Idle
  <2>1. writer' \in Writing /\ writer'.at = "grown"
    BY <1>1, <1>2 DEF Writing
  <2> QED BY <2>1 DEF Idle
<1>4. /\ path # 0 /\ path = N - 1 /\ used # -1 /\ Newest # <<>>
      /\ Loaded(Newest, used) /\ Roomy(Newest) /\ Contents(Newest) = Contents(File)
      /\ \A i \in 1..N : Contents(inodes[i]) \subseteq Contents(File)
      /\ acked \subseteq Contents(File)
  BY <1>1 DEF SetInv, PathGood
<1>5. inodes \in Seq(Seq(Ids \cup {0})) /\ path \in 0..N /\ N \in Nat
  BY DEF SetInv, SetTypeOK
<1>6. N \in 1..N /\ N # 0
  BY <1>4, <1>5
<1>7. File' = Newest /\ Newest' = Newest /\ Newest \in Seq(Ids \cup {0}) /\ Len(Newest) \in Nat
  BY <1>1, <1>5, <1>6 DEF File, Newest
<1>8. SetTypeOK'
  BY <1>1, <1>3, <1>6, <1>7 DEF SetInv, SetTypeOK
<1>9. FilesGood'
  BY <1>1 DEF SetInv, FilesGood
<1>10. PathGood'
  BY <1>1, <1>3, <1>4, <1>6, <1>7 DEF PathGood
<1>11. Running'
  <2>1. process = "up"
    BY <1>2 DEF SetInv, Running
  <2> QED BY <1>1, <1>3, <1>4, <1>6, <1>7, <2>1 DEF Running
<1>12. ReadersRight'
  BY <1>1, <1>4, <1>5, <1>7, ReadersKept DEF SetInv
<1> QED BY <1>4, <1>7, <1>8, <1>9, <1>10, <1>11, <1>12 DEF SetInv

\* insert() finds its id or an empty slot, and leaves another empty one.
LEMMA InsertInv ==
  ASSUME SetInv, NEW x \in Ids, insert(x)
  PROVE  /\ SetInv'
         /\ \/ Contents(File)' = Contents(File)
            \/ x \notin Contents(File) /\ Contents(File)' = Contents(File) \cup {x}
<1> DEFINE f == File
           N == Len(inodes)
           j == lookup(f, x)
           C == Cardinality(Filled(f))
<1>1. /\ writer.at \in {"insert", "grown"} /\ x \in writer.ids
      /\ writer.at = "insert" => used # -1 /\ ~Full
      /\ UNCHANGED <<path, process, nslots, reader>>
  BY DEF insert
<1>2. writer # Idle /\ writer \in Writing /\ writer.at # "rename"
  BY <1>1, Kinds DEF SetInv
<1>3. /\ f \in Seq(Ids \cup {0}) /\ Len(f) \in Nat /\ N \in Nat
      /\ f = <<>> <=> Len(f) = 0
      /\ f = <<>> \/ Table(f)
  BY FileFacts
<1>4. /\ inodes \in Seq(Seq(Ids \cup {0})) /\ path \in 0..N /\ used \in Nat \cup {-1}
      /\ nslots = Len(f) /\ path # 0 /\ path = N
      /\ \A i \in 1..N : Contents(inodes[i]) \subseteq Contents(f)
      /\ acked \subseteq Contents(f) /\ acked \subseteq Ids
  BY <1>2 DEF SetInv, SetTypeOK, Running, PathGood
<1>5. path \in 1..N /\ f = inodes[path]
  BY <1>3, <1>4 DEF File
<1>6. used \in Nat /\ f # <<>> /\ Loaded(f, used)
  <2>1. CASE writer.at = "grown"
    BY <1>4, <2>1 DEF SetInv, Running
  <2>2. CASE writer.at = "insert"
    <3>1. used \in Nat /\ ~(2 * (used + 1) > Len(f))
      BY <1>1, <1>4, <2>2 DEF Full
    <3>2. f # <<>>
      BY <1>3, <3>1
    <3> QED BY <3>1, <3>2 DEF SetInv, Running
  <2> QED BY <1>1, <2>1, <2>2
<1>7. Table(f) /\ Chained(f) /\ HasRoom(f) /\ Len(f) # 0
  BY <1>3, <1>6 DEF Table
<1>8. C \in Nat /\ C + 1 < Len(f)
  <2>1. C \in Nat
    BY <1>3, FilledCount
  <2>2. CASE writer.at = "grown"
    BY <2>1, <2>2 DEF SetInv, Running, Roomy
  <2>3. CASE writer.at = "insert"
    <3>1. ~(2 * (used + 1) > Len(f)) /\ 2 * (C - used) < Len(f)
      BY <1>1, <1>4, <1>6, <2>3 DEF Full, Loaded
    <3> HIDE DEF C
    <3> QED BY <1>3, <1>6, <2>1, <3>1
  <2> QED BY <1>1, <2>1, <2>2, <2>3
<1>9. /\ j \in 1..Len(f) /\ f[j] \in {0, x}
      /\ f[j] = x <=> x \in Contents(f)
      /\ \E i \in 1..Len(f) : /\ j = Probes(Len(f), x)[i]
                              /\ \A k \in 1..(i - 1) : Probe(f, x, k) # 0
  BY <1>3, <1>7, LookupEnds
<1>10. /\ writer' = IF writer.ids = {x} THEN Idle
                    ELSE [at |-> "insert", ids |-> writer.ids \ {x}]
       /\ IF f[j] = x THEN UNCHANGED <<inodes, used>>
          ELSE /\ inodes' = [inodes EXCEPT ![path] = [@ EXCEPT ![j] = x]]
               /\ used' = used + 1
       /\ acked' = IF writer'.at = "raised" THEN acked ELSE acked \cup {x}
  <2>1. j # 0
    BY <1>3, <1>9
  <2> QED BY <2>1 DEF insert
<1>11. writer' \in {Idle} \cup Writing /\ writer'.at \in {"idle", "insert"}
  BY <1>2, <1>10 DEF Writing, Idle
<1>12. acked' = acked \cup {x} /\ acked' \subseteq Ids
  BY <1>4, <1>10, <1>11
<1> HIDE DEF j, f, C
<1>13. CASE f[j] = x
  <2>1. UNCHANGED <<inodes, used>> /\ x \in Contents(f)
    BY <1>9, <1>10, <1>13
  <2>2. File' = f /\ Newest' = Newest
    BY <1>1, <2>1 DEF File, Newest, f
  <2>3. SetTypeOK'
    BY <1>1, <1>11, <1>12, <2>1 DEF SetInv, SetTypeOK
  <2>4. FilesGood'
    BY <2>1 DEF SetInv, FilesGood
  <2>5. PathGood'
    BY <1>1, <1>3, <1>4, <1>11, <1>12, <2>1, <2>2 DEF PathGood
  <2>6. Running'
    <3>1. process = "up"
      BY <1>2 DEF SetInv, Running
    <3> QED BY <1>1, <1>4, <1>6, <1>11, <2>1, <2>2, <3>1 DEF Running
  <2>7. ReadersRight'
    BY <1>1, <1>3, <2>1, <2>2, ReadersKept DEF SetInv, f
  <2> QED BY <2>2, <2>3, <2>4, <2>5, <2>6, <2>7 DEF SetInv, f
<1>14. CASE f[j] # x
  <2>1. x \notin Contents(f) /\ f[j] = 0 /\ used' = used + 1
    BY <1>9, <1>10, <1>14
  <2>2. PICK i \in 1..Len(f) : j = Probes(Len(f), x)[i] /\ \A k \in 1..(i - 1) : Probe(f, x, k) # 0
    BY <1>9
  <2> DEFINE g == Placed(f, x, i)
  <2>3. g = [f EXCEPT ![j] = x] /\ Probe(f, x, i) = 0
    BY <2>1, <2>2 DEF Placed, Probe
  <2>4. Adds(f, x, g)
    BY <1>3, <2>2, <2>3, Place
  <2>5. /\ g \in Seq(Ids \cup {0}) /\ Len(g) = Len(f) /\ Chained(g)
        /\ \A k \in 1..Len(f) : f[k] # 0 => g[k] = f[k]
        /\ Contents(g) = Contents(f) \cup {x}
        /\ Cardinality(Filled(g)) = C + 1
    BY <1>7, <2>4 DEF Adds, C
  <2> HIDE DEF g
  <2>6. inodes' = [inodes EXCEPT ![path] = g]
    BY <1>5, <1>10, <1>14, <2>3
  <2>7. /\ inodes' \in Seq(Seq(Ids \cup {0})) /\ Len(inodes') = N
        /\ \A m \in 1..N : inodes'[m] = IF m = path THEN g ELSE inodes[m]
    BY <1>4, <1>5, <2>5, <2>6
  <2>8. File' = g
    BY <1>1, <1>4, <1>5, <2>7 DEF File
  <2>9. Table(g) /\ Loaded(g, used') /\ g # <<>>
    <3>1. HasRoom(g)
      BY <1>3, <1>8, <2>5, FilledCount
    <3>2. Loaded(g, used')
      BY <1>3, <1>6, <1>8, <2>1, <2>5, HashSetAssumption DEF Loaded, C
    <3>3. g # <<>>
      BY <1>7, <2>5, EmptySeq
    <3> QED BY <1>7, <2>5, <3>1, <3>2, <3>3 DEF Table
  <2>10. SetTypeOK'
    BY <1>1, <1>4, <1>6, <1>11, <1>12, <2>1, <2>7 DEF SetInv, SetTypeOK
  <2>11. FilesGood'
    BY <2>7, <2>9 DEF SetInv, FilesGood
  <2>12. PathGood'
    BY <1>1, <1>4, <1>11, <1>12, <2>5, <2>7, <2>8 DEF PathGood
  <2>13. Running'
    <3>1. process = "up"
      BY <1>2 DEF SetInv, Running
    <3> QED BY <1>1, <1>4, <1>11, <2>5, <2>8, <2>9, <3>1 DEF Running
  <2>14. ReadersRight'
    <3>1. \A m \in 1..N :
            /\ Len(inodes'[m]) = Len(inodes[m])
            /\ \A k \in 1..Len(inodes[m]) : inodes[m][k] # 0 => inodes'[m][k] = inodes[m][k]
            /\ Contents(inodes[m]) \subseteq Contents(inodes'[m])
      BY <1>5, <2>5, <2>7
    <3>2. Contents(File) \subseteq Contents(File)'
      BY <2>5, <2>8 DEF f
    <3>3. Len(inodes) <= Len(inodes') /\ Len(inodes') \in Nat /\ reader' = reader
      BY <1>1, <1>3, <2>7
    <3>4. SetTypeOK /\ ReadersRight
      BY DEF SetInv
    <3> QED BY <3>1, <3>2, <3>3, <3>4, ReadersKept
  <2> QED BY <2>1, <2>5, <2>8, <2>10, <2>11, <2>12, <2>13, <2>14 DEF SetInv, f
<1> QED BY <1>13, <1>14

\* A step of a reader changes nothing else.
LEMMA ReaderStep ==
  ASSUME SetInv, NEW r \in Readers, NEW t,
         UNCHANGED <<inodes, path, process, nslots, used, writer, acked>>,
         process = "up", reader' = [reader EXCEPT ![r] = t],
         \/ t \in Probing /\ ProbingRight(t)
         \/ t \in Answered /\ AnsweredRight(t)
  PROVE  SetInv' /\ Contents(File)' = Contents(File)
<1>1. File' = File /\ Newest' = Newest /\ \A i : Inode(i)' = Inode(i)
  BY DEF File, Newest, Inode
<1>2. reader \in [Readers -> {Idle} \cup Probing \cup Answered]
  BY DEF SetInv, SetTypeOK
<1>3. /\ reader' \in [Readers -> {Idle} \cup Probing \cup Answered]
      /\ reader'[r] = t /\ \A q \in Readers : q # r => reader'[q] = reader[q]
  BY <1>2
<1>4. SetTypeOK'
  BY <1>3 DEF SetInv, SetTypeOK
<1>5. FilesGood'
  BY DEF SetInv, FilesGood
<1>6. PathGood'
  BY <1>1 DEF SetInv, PathGood
<1>7. Running'
  BY <1>1 DEF SetInv, Running
<1>8. ReadersRight'
  <2> SUFFICES ASSUME NEW q \in Readers
               PROVE  /\ reader'[q].at = "probe" => ProbingRight(reader[q])'
                      /\ reader'[q].at = "answered" => AnsweredRight(reader[q])'
    BY DEF ReadersRight
  <2>1. CASE q # r
    <3>1. reader'[q] = reader[q]
      BY <1>3, <2>1
    <3>2. /\ reader[q].at = "probe" => ProbingRight(reader[q])
          /\ reader[q].at = "answered" => AnsweredRight(reader[q])
      BY DEF SetInv, ReadersRight
    <3>3. ProbingRight(reader[q]) => ProbingRight(reader[q])'
      BY <3>1 DEF ProbingRight, Inode
    <3>4. AnsweredRight(reader[q]) => AnsweredRight(reader[q])'
      BY <1>1, <3>1 DEF AnsweredRight
    <3> QED BY <3>1, <3>2, <3>3, <3>4
  <2>2. CASE q = r
    <3>1. reader'[q] = t
      BY <1>3, <2>2
    <3>2. /\ t.at = "probe" => ProbingRight(t)
          /\ t.at = "answered" => AnsweredRight(t)
      BY DEF Answered, Probing
    <3>3. ProbingRight(t) => ProbingRight(reader[q])'
      BY <3>1 DEF ProbingRight, Inode
    <3>4. AnsweredRight(t) => AnsweredRight(reader[q])'
      BY <1>1, <3>1 DEF AnsweredRight
    <3> QED BY <3>1, <3>2, <3>3, <3>4
  <2> QED BY <2>1, <2>2
<1> QED BY <1>1, <1>4, <1>5, <1>6, <1>7, <1>8 DEF SetInv

\* hasRecordID() takes the file and the number of its slots together.
LEMMA HasInv ==
  ASSUME SetInv, NEW r \in Readers, NEW x \in Ids, hasRecordID(r, x)
  PROVE  SetInv' /\ Contents(File)' = Contents(File)
<1> DEFINE t == [at |-> "probe", id |-> x, file |-> path,
                 n |-> nslots, i |-> 1, before |-> x \in acked]
<1>1. /\ process = "up" /\ reader' = [reader EXCEPT ![r] = t]
      /\ UNCHANGED <<inodes, path, process, nslots, used, writer, acked>>
  BY DEF hasRecordID
<1>2. /\ nslots = Len(File) /\ nslots \in Nat /\ path \in 0..Len(inodes) /\ path \in Nat
      /\ acked \subseteq Contents(File)
  BY <1>1 DEF SetInv, SetTypeOK, Running, PathGood
<1>3. File = Inode(path)
  BY FileFacts
<1>4. t \in Probing
  BY <1>2 DEF Probing
<1>5. /\ t.file = path /\ t.n = nslots /\ t.i = 1 /\ t.id = x
      /\ t.before => x \in acked
  OBVIOUS
<1> HIDE DEF t
<1>6. ProbingRight(t)
  BY <1>2, <1>3, <1>5 DEF ProbingRight
<1> QED BY <1>1, <1>4, <1>6, ReaderStep

\* A batch read by a reader ends where the file or the batch ends, whichever is first.
LEMMA BatchEnds ==
  ASSUME NEW n \in Nat \ {0}, NEW x \in Ids, NEW i \in 1..n
  PROVE  \E k \in i..n : \A m \in i..n : m <= k <=>
           Probes(n, x)[m] \in Probes(n, x)[i]..(Probes(n, x)[i] + kProbeIOBatchSize - 1)
<1> DEFINE p == Probes(n, x)
           B == kProbeIOBatchSize
<1>1. B \in Nat \ {0}
  BY HashSetAssumption
<1>2. PICK h \in 0..(n - 1) :
        \A m \in 1..n : p[m] = IF h + m <= n THEN h + m ELSE h + m - n
  BY ProbeOrder
<1> HIDE DEF p, B
<1>3. \A m \in i..n : m \in 1..n
  OBVIOUS
<1>4. \A m \in i..n : p[m] = IF h + m <= n THEN h + m ELSE h + m - n
  BY <1>2, <1>3
<1>5. i \in i..n
  OBVIOUS
<1>6. p[i] = IF h + i <= n THEN h + i ELSE h + i - n
  BY <1>4, <1>5
<1> DEFINE wrap == IF h + i <= n THEN n - h ELSE n
           full == i + B - 1
           k == IF wrap <= full THEN (IF wrap <= n THEN wrap ELSE n)
                ELSE (IF full <= n THEN full ELSE n)
<1>7. k \in i..n
  BY <1>1
<1>8. ASSUME NEW m \in i..n PROVE m <= k <=> p[m] \in p[i]..(p[i] + B - 1)
  <2>1. CASE h + i <= n
    BY <1>1, <1>4, <1>6, <2>1
  <2>2. CASE ~(h + i <= n)
    BY <1>1, <1>4, <1>6, <2>2
  <2> QED BY <2>1, <2>2
<1> QED BY <1>7, <1>8 DEF p, B

\* lookup() of a reader: an id that was in its file when it began is there, and one of
\* its probes is empty, so that it answers and answers right.
LEMMA ProbeInv ==
  ASSUME SetInv, NEW r \in Readers, probe(r)
  PROVE  SetInv' /\ Contents(File)' = Contents(File)
<1> DEFINE s == reader[r]
           f == Inode(s.file)
           p == IF s.n = 0 THEN <<>> ELSE Probes(s.n, s.id)
           last == CHOOSE k \in s.i..s.n :
                     \A m \in s.i..s.n : m <= k <=>
                       p[m] \in p[s.i]..(p[s.i] + kProbeIOBatchSize - 1)
           at(k) == IF p[k] <= Len(f) THEN f[p[k]] ELSE 0
           hits == {k \in s.i..last : at(k) \in {0, s.id}}
           first == CHOOSE k \in hits : \A m \in hits : k <= m
           says(b) == [at |-> "answered", id |-> s.id, found |-> b, before |-> s.before]
           t == IF s.n = 0 THEN says(FALSE)
                ELSE IF hits # {} THEN says(at(first) = s.id)
                ELSE IF last = s.n THEN [at |-> "raised"]
                ELSE [s EXCEPT !.i = last + 1]
<1>1. /\ s.at = "probe" /\ reader' = [reader EXCEPT ![r] = t]
      /\ UNCHANGED <<inodes, path, process, nslots, used, writer, acked>>
  BY DEF probe, Inode
<1>2. s \in Probing
  BY <1>1, Kinds DEF SetInv
<1>3. process = "up"
  <2>1. process # "up" => s = Idle
    BY DEF SetInv, Running
  <2>2. s # Idle
    <3>1. s.at = "probe" /\ Idle.at = "idle"
      BY <1>1 DEF Idle
    <3> HIDE DEF s
    <3> QED BY ONLY <3>1
  <2> QED BY <2>1, <2>2
<1>4. /\ s.id \in Ids /\ s.file \in Nat /\ s.n \in Nat /\ s.i \in Nat /\ s.before \in BOOLEAN
  BY <1>2 DEF Probing
<1>5. /\ s.file \in 0..Len(inodes) /\ s.n = Len(f) /\ (s.n # 0 => s.i \in 1..s.n)
      /\ \A k \in 1..(s.i - 1) : k \in 1..s.n /\ Probe(f, s.id, k) \notin {0, s.id}
      /\ s.before => s.id \in Contents(f)
  BY <1>1 DEF SetInv, ReadersRight, ProbingRight
<1>6. f \in Seq(Ids \cup {0}) /\ (f = <<>> \/ Table(f)) /\ Contents(f) \subseteq Contents(File)
  <2>1. CASE s.file = 0
    BY <2>1, NewFile DEF Inode
  <2>2. CASE s.file # 0
    <3>1. s.file \in 1..Len(inodes) /\ f = inodes[s.file]
      BY <1>4, <1>5, <2>2 DEF Inode
    <3> QED BY <3>1 DEF SetInv, SetTypeOK, FilesGood, PathGood
  <2> QED BY <2>1, <2>2
<1> DEFINE Right == \/ t \in Probing /\ ProbingRight(t)
                    \/ t \in Answered /\ AnsweredRight(t)
<1>7. ASSUME NEW b \in BOOLEAN, s.before => b, b => s.id \in Contents(f), t = says(b)
      PROVE  Right
  <2>1. /\ says(b) \in Answered /\ says(b).id = s.id
        /\ says(b).found = b /\ says(b).before = s.before
    BY <1>4 DEF Answered
  <2> HIDE DEF s, f, t, says
  <2>2. AnsweredRight(says(b))
    BY <1>6, <1>7, <2>1 DEF AnsweredRight
  <2> QED BY <1>7, <2>1, <2>2
<1>8. CASE s.n = 0
  <2>1. f = <<>>
    BY <1>5, <1>6, <1>8, EmptySeq
  <2>2. s.before => FALSE
    BY <1>5, <2>1, NewFile
  <2>3. t = says(FALSE)
    BY <1>8
  <2> QED BY <1>1, <1>3, <1>7, <2>2, <2>3, ReaderStep
<1>9. CASE s.n # 0
  <2>1. /\ s.n \in Nat \ {0} /\ s.i \in 1..s.n /\ p = Probes(s.n, s.id)
        /\ f # <<>> /\ Chained(f) /\ HasRoom(f)
    <3>1. s.n \in Nat \ {0} /\ s.i \in 1..s.n /\ p = Probes(s.n, s.id)
      BY <1>4, <1>5, <1>9
    <3>2. f # <<>>
      BY <1>5, <1>9, EmptySeq
    <3> QED BY <1>6, <3>1, <3>2 DEF Table
  <2>2. p \in [1..s.n -> 1..s.n]
    BY <1>4, <2>1, ProbeOrder
  <2>3. ASSUME NEW k \in 1..s.n PROVE at(k) = Probe(f, s.id, k)
    <3> HIDE DEF p, f, s
    <3>1. p[k] \in 1..s.n
      BY <2>2
    <3>2. at(k) = f[p[k]]
      BY <1>4, <1>5, <3>1
    <3> QED BY <1>5, <2>1, <3>2 DEF Probe
  <2>4. last \in s.i..s.n
    <3>1. \E k \in s.i..s.n : \A m \in s.i..s.n : m <= k <=>
            p[m] \in p[s.i]..(p[s.i] + kProbeIOBatchSize - 1)
      BY <1>4, <2>1, BatchEnds
    <3> HIDE DEF p, s
    <3> QED BY <3>1
  <2> HIDE DEF p, last, f, s
  <2>5. last \in 1..s.n /\ \A k \in s.i..last : k \in 1..s.n
    BY <1>4, <2>1, <2>4
  <2>6. \A k : k \in hits <=> k \in s.i..last /\ Probe(f, s.id, k) \in {0, s.id}
    BY <2>3, <2>5
  <2>7. CASE hits # {}
    <3>1. hits \in SUBSET Nat
      BY <1>4, <2>4, <2>5
    <3>2. first \in hits /\ \A m \in hits : first <= m
      BY <2>7, <3>1, LeastNatural
    <3>3. t = says(at(first) = s.id)
      BY <1>9, <2>7
    <3> HIDE DEF hits, first
    <3>4. first \in s.i..last /\ first \in 1..s.n /\ Probe(f, s.id, first) \in {0, s.id}
      BY <2>5, <2>6, <3>2
    <3>5. ASSUME NEW k \in 1..(first - 1) PROVE Probe(f, s.id, k) \notin {0, s.id}
      <4>1. CASE k < s.i
        <5>1. k \in 1..(s.i - 1)
          BY <1>4, <2>5, <3>4, <4>1
        <5> QED BY <1>5, <5>1
      <4>2. CASE ~(k < s.i)
        <5>1. k \in s.i..last /\ ~(first <= k)
          BY <1>4, <2>4, <2>5, <3>4, <4>2
        <5> QED BY <2>6, <3>2, <5>1
      <4> QED BY <4>1, <4>2
    <3>6. ASSUME s.id \in Contents(f) PROVE Probe(f, s.id, first) = s.id
      <4>1. PICK i \in 1..s.n : Reached(f, s.id, i)
        BY <1>5, <2>1, <3>6 DEF Chained
      <4>2. Probe(f, s.id, i) = s.id /\ \A k \in 1..(i - 1) : Probe(f, s.id, k) # 0
        BY <4>1 DEF Reached
      <4>3. ~(i < first)
        <5> SUFFICES ASSUME i < first PROVE FALSE
          OBVIOUS
        <5>1. i \in 1..(first - 1)
          BY <2>1, <3>4
        <5> QED BY <3>5, <4>2, <5>1
      <4>4. i = first \/ first \in 1..(i - 1)
        BY <2>1, <3>4, <4>3
      <4> QED BY <3>4, <4>2, <4>4
    <3>7. ASSUME Probe(f, s.id, first) = s.id PROVE s.id \in Contents(f)
      <4>1. p[first] \in 1..Len(f) /\ f[p[first]] = s.id
        BY <1>5, <2>1, <2>2, <3>4, <3>7 DEF Probe
      <4>2. s.id # 0
        BY <1>4, HashSetAssumption
      <4> QED BY <4>1, <4>2 DEF Contents
    <3>8. (at(first) = s.id) <=> s.id \in Contents(f)
      BY <2>3, <3>4, <3>6, <3>7
    <3> HIDE DEF at, t, says
    <3>9. (at(first) = s.id) \in BOOLEAN
      OBVIOUS
    <3>10. Right
      BY <1>5, <1>7, <3>3, <3>8, <3>9
    <3> QED BY <1>1, <1>3, <3>10, ReaderStep
  <2>8. CASE hits = {}
    <3>1. \A k \in 1..last : Probe(f, s.id, k) \notin {0, s.id}
      <4> SUFFICES ASSUME NEW k \in 1..last PROVE Probe(f, s.id, k) \notin {0, s.id}
        OBVIOUS
      <4>1. k \in 1..(s.i - 1) \/ k \in s.i..last
        BY <1>4, <2>5
      <4> QED BY <1>5, <2>6, <2>8, <4>1
    <3>2. last # s.n
      <4> SUFFICES ASSUME last = s.n PROVE FALSE
        OBVIOUS
      <4>1. PICK j \in 1..s.n : f[j] = 0
        BY <1>5, <2>1 DEF HasRoom
      <4>2. PICK i \in 1..s.n : Probes(s.n, s.id)[i] = j
        BY <1>4, <2>1, ProbeOnto
      <4>3. Probe(f, s.id, i) = 0
        BY <1>5, <4>1, <4>2 DEF Probe
      <4> QED BY <3>1, <4>3
    <3>3. t = [s EXCEPT !.i = last + 1]
      BY <1>9, <2>8, <3>2
    <3>4. last + 1 \in 1..s.n /\ last \in Nat /\ (last + 1) - 1 = last
      BY <1>4, <2>1, <2>5, <3>2
    <3> HIDE DEF t
    <3>5. /\ t \in Probing /\ t.i = last + 1 /\ t.n = s.n /\ t.id = s.id /\ t.file = s.file
          /\ t.before = s.before
      BY <1>2, <3>3, <3>4 DEF Probing
    <3>6. \A k \in 1..(t.i - 1) : k \in 1..t.n /\ Probe(Inode(t.file), t.id, k) \notin {0, t.id}
      <4>1. \A k \in 1..last : k \in 1..s.n
        BY <2>1, <2>5
      <4> QED BY <3>1, <3>4, <3>5, <4>1 DEF f
    <3>7. ProbingRight(t)
      BY <1>5, <3>4, <3>5, <3>6 DEF ProbingRight, f
    <3> QED BY <1>1, <1>3, <3>5, <3>7, ReaderStep
  <2> QED BY <2>7, <2>8
<1> QED BY <1>8, <1>9

\* Every step keeps the invariant, and adds at most one id to the file.
LEMMA SetStep ==
  ASSUME SetInv, [SetNext]_setVars
  PROVE  /\ SetInv'
         /\ \/ Contents(File)' = Contents(File)
            \/ \E x \in Ids : x \notin Contents(File) /\ Contents(File)' = Contents(File) \cup {x}
<1>1. CASE open
  BY <1>1, OpenInv
<1>2. CASE crash
  BY <1>2, CrashInv
<1>3. CASE countUsed
  BY <1>3, CountInv
<1>4. CASE growWrite
  BY <1>4, GrowWriteInv
<1>5. CASE growRename
  BY <1>5, GrowRenameInv
<1>6. ASSUME NEW ids \in SUBSET Ids, addRecordIDs(ids)
      PROVE  SetInv' /\ Contents(File)' = Contents(File)
  BY <1>6, AddInv
<1>7. ASSUME NEW x \in Ids, insert(x)
      PROVE  /\ SetInv'
             /\ \/ Contents(File)' = Contents(File)
                \/ x \notin Contents(File) /\ Contents(File)' = Contents(File) \cup {x}
  BY <1>7, InsertInv
<1>8. ASSUME NEW r \in Readers, probe(r) PROVE SetInv' /\ Contents(File)' = Contents(File)
  BY <1>8, ProbeInv
<1>9. ASSUME NEW r \in Readers, NEW x \in Ids, hasRecordID(r, x)
      PROVE  SetInv' /\ Contents(File)' = Contents(File)
  BY <1>9, HasInv
<1>10. CASE UNCHANGED setVars
  <2>1. UNCHANGED <<inodes, path, process, nslots, used, writer, reader, acked>>
    BY <1>10 DEF setVars
  <2>2. File' = File /\ Newest' = Newest /\ \A i : Inode(i)' = Inode(i)
    BY <2>1 DEF File, Newest, Inode
  <2>3. SetTypeOK'
    BY <2>1 DEF SetInv, SetTypeOK
  <2>4. FilesGood' /\ PathGood' /\ Running'
    BY <2>1, <2>2 DEF SetInv, FilesGood, PathGood, Running
  <2>5. ReadersRight'
    BY <2>1, <2>2 DEF SetInv, ReadersRight, ProbingRight, AnsweredRight, Inode
  <2> QED BY <2>2, <2>3, <2>4, <2>5 DEF SetInv
<1> QED BY <1>1, <1>2, <1>3, <1>4, <1>5, <1>6, <1>7, <1>8, <1>9, <1>10 DEF SetNext

\* The inductive invariant of the specification.
LEMMA SetInvariant == SetSpec => []SetInv
<1>1. SetInit => SetInv
  BY SetInitInv
<1>2. SetInv /\ [SetNext]_setVars => SetInv'
  BY SetStep
<1> QED BY <1>1, <1>2, PTL DEF SetSpec

\* No acknowledged id is lost, however the file grows and the process crashes: lookups in
\* the file at fpath_ find it, readers that race a writer and its grow() answer right, and
\* neither ever ends in "set is full", though nslots_used_ does not count doubled ids.
THEOREM RecordsKeptCorrect == SetSpec => []RecordsKept
<1>1. SetInv => RecordsKept
  <2> SUFFICES ASSUME SetInv PROVE RecordsKept
    OBVIOUS
  <2>1. /\ File \in Seq(Ids \cup {0}) /\ (File = <<>> \/ Table(File))
        /\ Len(File) = 0 \/ Len(File) >= kFetchIOBatchSize
    BY FileFacts
  <2>2. AckedAreFound
    <3> SUFFICES ASSUME NEW x \in acked PROVE File # <<>> /\ File[lookup(File, x)] = x
      BY DEF AckedAreFound
    <3>1. x \in Ids /\ x \in Contents(File)
      BY DEF SetInv, SetTypeOK, PathGood
    <3>2. File # <<>>
      BY <3>1, NewFile
    <3>3. Chained(File) /\ HasRoom(File)
      BY <2>1, <3>2 DEF Table
    <3>4. File[lookup(File, x)] = x
      BY <2>1, <3>1, <3>3, LookupEnds
    <3> QED BY <3>2, <3>4
  <2>3. ReadersAgree
    BY Kinds DEF SetInv, ReadersAgree, ReadersRight, AnsweredRight
  <2>4. fetchRecordIDs = Contents(File)
    BY <2>1, ScanSees DEF fetchRecordIDs
  <2>5. writer.at # "raised"
    BY Kinds DEF SetInv
  <2> QED BY <2>2, <2>3, <2>4, <2>5 DEF RecordsKept
<1> QED BY <1>1, SetInvariant, PTL

\* The file implements a set that only grows, one id at a time: growing, renaming,
\* crashing and reopening leave its contents alone.
THEOREM HashSetIsASet == SetSpec => IsASet
<1>1. SetInit => Abstract!Init
  BY SetInitInv DEF Abstract!Init
<1>2. SetInv /\ [SetNext]_setVars => [Abstract!Next]_(Contents(File))
  BY SetStep DEF Abstract!Next, Abstract!Add
<1> QED BY <1>1, <1>2, SetInvariant, PTL DEF SetSpec, IsASet, Abstract!Spec

-----------------------------------------------------------------------------
(* Files: a path that several processes make, and updates under a lock.    *)

Locked == {"read", "open", "write", "unlock"}
Steps == {"mkdir_p", "exists", "mkdir", "raised", "lock", "done", "crashed"} \cup Locked

FilesTypeOK ==
  /\ step \in [Procs -> Steps] /\ cur \in [Procs -> Nat] /\ seen \in [Procs -> Nat]
  /\ holder \in Procs \cup {NoProc} /\ wrote \in SUBSET Procs
  /\ content \in {{}} \cup {{n} : n \in Nat}

\* The components before the one a process is at exist.
Prefixes ==
  \A p \in Procs :
    /\ step[p] = "mkdir_p" => cur[p] = 1
    /\ step[p] \in {"exists", "mkdir"} => cur[p] \in 1..Depth /\ 1..(cur[p] - 1) \subseteq dirs

\* While the path is incomplete, some process is about to make the next component or to look
\* for it, unless one has crashed: mkdir() raises only in a process another one has overtaken.
Frontier ==
  \/ Depth \in dirs
  \/ \E p \in Procs : \/ step[p] \in {"mkdir_p", "exists", "crashed"}
                      \/ step[p] = "mkdir" /\ cur[p] \notin dirs

PathMade ==
  /\ \E n \in 0..Depth : dirs = 1..n
  /\ Prefixes /\ Frontier
  /\ \A p \in Procs : step[p] \in Locked \cup {"lock", "done"} => Depth \in dirs

\* The process between lock() and unlock holds the lock, and what it has read is the number
\* of the processes that wrote.
Exclusive ==
  /\ \A p \in Procs : step[p] \in Locked <=> holder = p
  /\ \A p \in Procs : step[p] \notin {"unlock", "done", "crashed"} => p \notin wrote
  /\ \A p \in Procs : step[p] \in {"open", "write"} => seen[p] = Cardinality(wrote)
  /\ \A p \in Procs : step[p] = "write" => content = {}

FilesInv == FilesTypeOK /\ PathMade /\ Exclusive /\ NoLostUpdate

\* The first process to come finds a prefix of the path, and the file empty.
LEMMA FilesInitInv == FilesInit => FilesInv
<1> SUFFICES ASSUME FilesInit PROVE FilesInv
  OBVIOUS
<1> USE FilesAssumption DEF FilesInit
<1>1. FilesTypeOK
  BY DEF FilesTypeOK, Steps, Locked
<1>2. PathMade
  <2>1. \E n \in 0..Depth : dirs = 1..n
    OBVIOUS
  <2> QED BY <2>1 DEF PathMade, Prefixes, Frontier, Locked
<1>3. Exclusive /\ NoLostUpdate
  BY DEF Exclusive, NoLostUpdate, Locked
<1> QED BY <1>1, <1>2, <1>3 DEF FilesInv

\* A step of mkdir_p() touches neither the lock nor the file.
LEMMA OutsideLock ==
  ASSUME FilesTypeOK, Exclusive, NoLostUpdate, UNCHANGED <<content, holder, seen, wrote>>,
         NEW p \in Procs, NEW a, step[p] \in {"mkdir_p", "exists", "mkdir"},
         a \in {"exists", "mkdir", "raised", "lock"}, step' = [step EXCEPT ![p] = a]
  PROVE  Exclusive' /\ NoLostUpdate'
<1>1. \A q \in Procs : step'[q] = IF q = p THEN a ELSE step[q]
  BY DEF FilesTypeOK
<1>2. Exclusive'
  BY <1>1 DEF Exclusive, Locked
<1>3. NoLostUpdate'
  BY <1>1 DEF NoLostUpdate
<1> QED BY <1>2, <1>3

\* A step under the lock, or towards it, leaves the path alone.
LEMMA OutsidePath ==
  ASSUME FilesTypeOK, PathMade, UNCHANGED <<dirs, cur>>,
         NEW p \in Procs, NEW a, step[p] \in Locked \cup {"lock"},
         a \in Locked \cup {"raised", "done", "crashed"}, step' = [step EXCEPT ![p] = a]
  PROVE  PathMade'
<1>1. \A q \in Procs : step'[q] = IF q = p THEN a ELSE step[q]
  BY DEF FilesTypeOK
<1> QED BY <1>1 DEF PathMade, Prefixes, Frontier, Locked

\* Every process keeps the invariant with every step, and so does its crash.
LEMMA FilesStep == FilesInv /\ FilesNext => FilesInv'
<1> SUFFICES ASSUME FilesInv, NEW p \in Procs,
                    \/ Mkdir_p(p) \/ Exists(p) \/ Mkdir(p) \/ Lock(p) \/ Read(p)
                    \/ OpenTruncate(p) \/ Write(p) \/ Unlock(p) \/ Crash(p)
             PROVE  FilesInv'
  BY DEF FilesNext
<1> USE FilesAssumption
<1>0. FilesTypeOK /\ PathMade /\ Exclusive /\ NoLostUpdate
  BY DEF FilesInv
<1>1. FilesTypeOK'
  <2>1. content # {} => (CHOOSE n \in content : TRUE) \in Nat
    BY <1>0 DEF FilesTypeOK
  <2>2. step' \in [Procs -> Steps]
    BY <1>0 DEF FilesTypeOK, Steps, Locked, Mkdir_p, Exists, Mkdir, Lock, Read, OpenTruncate,
       Write, Unlock, Crash, At
  <2>3. cur' \in [Procs -> Nat] /\ seen' \in [Procs -> Nat]
    BY <1>0, <2>1 DEF FilesTypeOK, Mkdir_p, Exists, Mkdir, Lock, Read, OpenTruncate, Write,
       Unlock, Crash
  <2>4. holder' \in Procs \cup {NoProc} /\ wrote' \in SUBSET Procs
    BY <1>0 DEF FilesTypeOK, Mkdir_p, Exists, Mkdir, Lock, Read, OpenTruncate, Write, Unlock,
       Crash
  <2>5. content' \in {{}} \cup {{n} : n \in Nat}
    <3>1. seen[p] + 1 \in Nat
      BY <1>0 DEF FilesTypeOK
    <3> QED BY <1>0, <3>1 DEF FilesTypeOK, Mkdir_p, Exists, Mkdir, Lock, Read, OpenTruncate,
                Write, Unlock, Crash
  <2> QED BY <2>2, <2>3, <2>4, <2>5 DEF FilesTypeOK
<1>2. IsFiniteSet(wrote) /\ Cardinality(wrote) \in Nat
  BY <1>0, FS_Subset, FS_CardinalityType DEF FilesTypeOK
<1>3. CASE Mkdir_p(p)
  <2>1. /\ step[p] = "mkdir_p" /\ UNCHANGED <<dirs, content, holder, cur, seen, wrote>>
        /\ \/ step' = [step EXCEPT ![p] = "lock"] /\ Depth \in dirs
           \/ step' = [step EXCEPT ![p] = "exists"]
    BY <1>3 DEF Mkdir_p, At
  <2>2. Exclusive' /\ NoLostUpdate'
    BY <1>0, <2>1, OutsideLock
  <2>3. \A q \in Procs : q # p => step'[q] = step[q]
    BY <1>0, <2>1 DEF FilesTypeOK
  <2>4. Prefixes'
    <3>1. cur[p] = 1 /\ 1..(1 - 1) = {} /\ 1 \in 1..Depth
      BY <1>0, <2>1 DEF PathMade, Prefixes
    <3>2. step'[p] \in {"lock", "exists"}
      BY <1>0, <2>1 DEF FilesTypeOK
    <3> QED BY <1>0, <2>1, <2>3, <3>1, <3>2 DEF PathMade, Prefixes
  <2>5. Frontier'
    BY <1>0, <2>1 DEF FilesTypeOK, PathMade, Frontier
  <2>6. PathMade'
    BY <1>0, <2>1, <2>4, <2>5 DEF FilesTypeOK, PathMade, Locked
  <2> QED BY <1>1, <2>2, <2>6 DEF FilesInv
<1>4. CASE Exists(p)
  <2>1. /\ step[p] = "exists" /\ UNCHANGED <<dirs, content, holder, seen, wrote>>
        /\ \/ /\ cur[p] < Depth /\ cur[p] \in dirs /\ cur' = [cur EXCEPT ![p] = cur[p] + 1]
              /\ step' = step
           \/ /\ ~(cur[p] < Depth /\ cur[p] \in dirs) /\ cur' = cur
              /\ step' = [step EXCEPT ![p] = "mkdir"]
    BY <1>4 DEF Exists, At
  <2>2. Exclusive' /\ NoLostUpdate'
    <3>1. CASE step' = step
      BY <1>0, <2>1, <3>1 DEF Exclusive, NoLostUpdate
    <3> QED BY <1>0, <2>1, <3>1, OutsideLock
  <2>3. cur[p] \in 1..Depth /\ 1..(cur[p] - 1) \subseteq dirs
    BY <1>0, <2>1 DEF PathMade, Prefixes
  <2>4. Prefixes'
    <3>1. cur[p] \in dirs => 1..cur[p] \subseteq dirs
      BY <2>3
    <3>2. CASE step' = step
      <4>1. cur[p] + 1 \in 1..Depth /\ 1..(cur[p] + 1 - 1) \subseteq dirs
        BY <1>0, <2>1, <2>3, <3>1, <3>2 DEF FilesTypeOK
      <4> QED BY <1>0, <2>1, <3>2, <4>1 DEF FilesTypeOK, PathMade, Prefixes
    <3> QED BY <1>0, <2>1, <2>3, <3>2 DEF FilesTypeOK, PathMade, Prefixes
  <2>5. Frontier'
    <3>1. CASE step' = step
      BY <1>0, <2>1, <3>1 DEF PathMade, Frontier
    <3>2. CASE step' = [step EXCEPT ![p] = "mkdir"] /\ cur[p] = Depth
      BY <1>0, <2>1, <3>2 DEF FilesTypeOK, Frontier
    <3>3. CASE step' = [step EXCEPT ![p] = "mkdir"] /\ cur[p] \notin dirs
      BY <1>0, <2>1, <3>3 DEF FilesTypeOK, Frontier
    <3> QED BY <2>1, <2>3, <3>1, <3>2, <3>3
  <2> QED BY <1>0, <1>1, <2>1, <2>2, <2>4, <2>5 DEF FilesInv, FilesTypeOK, PathMade, Locked
<1>5. CASE Mkdir(p)
  <2>1. /\ step[p] = "mkdir" /\ UNCHANGED <<content, holder, seen, wrote>>
        /\ \/ /\ cur[p] \in dirs /\ step' = [step EXCEPT ![p] = "raised"]
              /\ UNCHANGED <<dirs, cur>>
           \/ /\ cur[p] \notin dirs /\ dirs' = dirs \cup {cur[p]}
              /\ cur' = [cur EXCEPT ![p] = cur[p] + 1]
              /\ step' = [step EXCEPT ![p] = IF cur[p] = Depth THEN "lock" ELSE "exists"]
    BY <1>5 DEF Mkdir, At
  <2>2. Exclusive' /\ NoLostUpdate'
    BY <1>0, <2>1, OutsideLock
  <2>3. cur[p] \in 1..Depth /\ 1..(cur[p] - 1) \subseteq dirs
    BY <1>0, <2>1 DEF PathMade, Prefixes
  <2>4. CASE cur[p] \in dirs
    <3>1. UNCHANGED <<dirs, cur>> /\ \A q \in Procs : step'[q] = IF q = p THEN "raised" ELSE step[q]
      BY <1>0, <2>1, <2>4 DEF FilesTypeOK
    <3>2. Prefixes'
      BY <1>0, <3>1 DEF PathMade, Prefixes
    <3>3. Frontier'
      <4>1. CASE Depth \in dirs
        BY <3>1, <4>1 DEF Frontier
      <4>2. CASE Depth \notin dirs
        <5>1. PICK q \in Procs : \/ step[q] \in {"mkdir_p", "exists", "crashed"}
                                 \/ step[q] = "mkdir" /\ cur[q] \notin dirs
          BY <1>0, <4>2 DEF PathMade, Frontier
        <5>2. q # p
          BY <2>1, <2>4, <5>1
        <5> QED BY <3>1, <5>1, <5>2 DEF Frontier
      <4> QED BY <4>1, <4>2
    <3>4. PathMade'
      BY <1>0, <3>1, <3>2, <3>3 DEF PathMade, Locked
    <3> QED BY <1>1, <2>2, <3>4 DEF FilesInv
  <2>5. CASE cur[p] \notin dirs
    <3>1. PICK n \in 0..Depth : dirs = 1..n
      BY <1>0 DEF PathMade
    <3>2. n = cur[p] - 1
      <4>1. cur[p] \in Nat /\ n \in Nat /\ ~(1 <= cur[p] /\ cur[p] <= n) /\ 1 <= cur[p]
        BY <2>3, <2>5, <3>1
      <4>2. cur[p] - 1 >= 1 => cur[p] - 1 \in 1..(cur[p] - 1)
        BY <4>1
      <4>3. cur[p] - 1 >= 1 => cur[p] - 1 <= n
        BY <2>3, <3>1, <4>2
      <4> QED BY <4>1, <4>3
    <3>3. dirs' = 1..cur[p]
      <4>1. dirs' = (1..n) \cup {n + 1} /\ n \in Nat /\ cur[p] = n + 1
        BY <2>1, <2>3, <2>5, <3>1, <3>2
      <4>2. (1..n) \cup {n + 1} = 1..(n + 1)
        BY <4>1
      <4> QED BY <4>1, <4>2
    <3>4. Prefixes'
      <4>1. \A q \in Procs : q # p => step'[q] = step[q] /\ cur'[q] = cur[q]
        BY <1>0, <2>1, <2>5 DEF FilesTypeOK
      <4>2. cur'[p] = cur[p] + 1 /\ step'[p] \in {"lock", "exists"}
            /\ (step'[p] = "exists" => cur[p] < Depth)
        BY <1>0, <2>1, <2>3, <2>5 DEF FilesTypeOK
      <4>3. ASSUME NEW q \in Procs
            PROVE  /\ step'[q] = "mkdir_p" => cur'[q] = 1
                   /\ step'[q] \in {"exists", "mkdir"} =>
                        cur'[q] \in 1..Depth /\ 1..(cur'[q] - 1) \subseteq dirs'
        <5>1. CASE q = p
          BY <2>3, <3>3, <4>2, <5>1
        <5>2. CASE q # p
          BY <1>0, <2>1, <4>1, <5>2 DEF PathMade, Prefixes
        <5> QED BY <5>1, <5>2
      <4> QED BY <4>3 DEF Prefixes
    <3>5. Frontier'
      <4>1. CASE cur[p] = Depth
        BY <2>3, <3>3, <4>1 DEF Frontier
      <4>2. CASE cur[p] # Depth
        BY <1>0, <2>1, <2>5, <4>2 DEF FilesTypeOK, Frontier
      <4> QED BY <4>1, <4>2
    <3>6. \A q \in Procs : step'[q] \in Locked \cup {"lock", "done"} => Depth \in dirs'
      BY <1>0, <2>1, <2>3, <2>5, <3>3 DEF FilesTypeOK, PathMade, Locked
    <3> QED BY <1>1, <2>2, <2>3, <3>3, <3>4, <3>5, <3>6 DEF FilesInv, PathMade
  <2> QED BY <1>1, <2>2, <2>4, <2>5 DEF FilesInv
<1>6. CASE Lock(p)
  <2>1. PathMade'
    BY <1>0, <1>6, OutsidePath DEF Lock, At, Locked
  <2>2. Exclusive' /\ NoLostUpdate'
    BY <1>0, <1>6 DEF Lock, At, FilesTypeOK, Exclusive, NoLostUpdate, Locked
  <2> QED BY <1>1, <2>1, <2>2 DEF FilesInv
<1>7. CASE Read(p)
  <2>1. PathMade'
    BY <1>0, <1>7, OutsidePath DEF Read, At, Locked
  <2>2. \A q \in Procs : step[q] # "write"
    BY <1>0, <1>7 DEF Read, At, Exclusive, Locked
  <2>3. (IF content = {} THEN 0 ELSE CHOOSE n \in content : TRUE) = Cardinality(wrote)
    <3>1. CASE content = {}
      BY <1>0, <2>2, <3>1, FS_EmptySet DEF NoLostUpdate
    <3>2. CASE content # {}
      <4>1. content = {Cardinality(wrote)}
        BY <1>0, <3>2 DEF NoLostUpdate
      <4> QED BY <3>2, <4>1
    <3> QED BY <3>1, <3>2
  <2>4. seen' = [seen EXCEPT ![p] = Cardinality(wrote)]
    BY <1>7, <2>3 DEF Read
  <2>5. Exclusive' /\ NoLostUpdate'
    BY <1>0, <1>7, <2>2, <2>4 DEF Read, At, FilesTypeOK, Exclusive, NoLostUpdate, Locked
  <2> QED BY <1>1, <2>1, <2>5 DEF FilesInv
<1>8. CASE OpenTruncate(p)
  <2>1. PathMade'
    BY <1>0, <1>8, OutsidePath DEF OpenTruncate, At, Locked
  <2>2. Exclusive' /\ NoLostUpdate'
    BY <1>0, <1>8 DEF OpenTruncate, At, FilesTypeOK, Exclusive, NoLostUpdate, Locked
  <2> QED BY <1>1, <2>1, <2>2 DEF FilesInv
<1>9. CASE Write(p)
  <2>1. PathMade'
    BY <1>0, <1>9, OutsidePath DEF Write, At, Locked
  <2>2. Cardinality(wrote \cup {p}) = seen[p] + 1
    BY <1>0, <1>2, <1>9, FS_AddElement DEF Write, At, Exclusive
  <2>3. content' = {Cardinality(wrote')}
    BY <1>9, <2>2 DEF Write
  <2>4. Exclusive' /\ NoLostUpdate'
    BY <1>0, <1>9, <2>3 DEF Write, At, FilesTypeOK, Exclusive, NoLostUpdate, Locked
  <2> QED BY <1>1, <2>1, <2>4 DEF FilesInv
<1>10. CASE Unlock(p)
  <2>1. PathMade'
    BY <1>0, <1>10, OutsidePath DEF Unlock, At, Locked
  <2>2. Exclusive' /\ NoLostUpdate'
    BY <1>0, <1>10 DEF Unlock, At, FilesTypeOK, Exclusive, NoLostUpdate, Locked
  <2> QED BY <1>1, <2>1, <2>2 DEF FilesInv
<1>11. CASE Crash(p)
  <2>1. PathMade'
    BY <1>0, <1>11 DEF Crash, FilesTypeOK, PathMade, Prefixes, Frontier, Locked
  <2>2. CASE step[p] = "write"
    <3>1. content = {} /\ wrote' = {}
      BY <1>0, <1>11, <2>2 DEF Crash, Exclusive
    <3>2. Exclusive' /\ NoLostUpdate'
      BY <1>0, <1>11, <2>2, <3>1 DEF Crash, FilesTypeOK, Exclusive, NoLostUpdate, Locked
    <3> QED BY <1>1, <2>1, <3>2 DEF FilesInv
  <2>3. CASE step[p] # "write"
    <3>1. Exclusive' /\ NoLostUpdate'
      BY <1>0, <1>11, <2>3 DEF Crash, FilesTypeOK, Exclusive, NoLostUpdate, Locked
    <3> QED BY <1>1, <2>1, <3>1 DEF FilesInv
  <2> QED BY <2>2, <2>3
<1> QED BY <1>3, <1>4, <1>5, <1>6, <1>7, <1>8, <1>9, <1>10, <1>11

\* Any processes that make a path of any depth and then update a file in it under a
\* FileLock, and may crash between any two system calls: the path gets made, by one of them
\* at least unless one crashed, and no update is lost.
THEOREM FilesSafeCorrect == FilesSpec => []FilesSafe
<1>1. FilesInv /\ [FilesNext]_fileVars => FilesInv'
  <2>1. FilesInv /\ UNCHANGED fileVars => FilesInv'
    BY DEF FilesInv, fileVars, FilesTypeOK, PathMade, Prefixes, Frontier, Exclusive, NoLostUpdate
  <2> QED BY <2>1, FilesStep
<1>2. FilesInv => FilesSafe
  BY DEF FilesInv, FilesSafe, PathMade, Frontier, MkdirCompletes, Locked
<1> QED BY FilesInitInv, <1>1, <1>2, PTL DEF FilesSpec

-----------------------------------------------------------------------------
(* Handles: the descriptors of File, the streams and a copy.               *)

\* The descriptors of the copy.
Copiers == {cp.in, cp.out} \ {-1}

HandlesTypeOK ==
  /\ inode \in Seq(Seq(Nat))
  /\ disk \in [Names -> 0..Len(inode)]
  /\ DOMAIN table \subseteq Fds
  /\ \A d \in DOMAIN table : table[d].file \in 1..Len(inode) /\ table[d].pos \in 1..MaxFd
  /\ offs \in [1..MaxFd -> Nat]
  /\ owner \in [Owners -> [fd : Fds \cup {-1}, close : BOOLEAN]]
  /\ cp \in [at : {"idle", "opened", "copy", "raised", "done"}, in : Fds \cup {-1},
             out : Fds \cup {-1}, src : Seq(Nat), base : Seq(Nat), chunk : Seq(Nat),
             clean : BOOLEAN]

\* An open descriptor is the copy's, the caller's of releaseFD(), or that of one object that
\* closes it; the other objects have a descriptor the caller kept, or none.
Owned ==
  /\ ~double
  /\ \A o \in Owners : owner[o].close =>
       owner[o].fd \in DOMAIN table /\ owner[o].fd \notin loose \cup Copiers
  /\ \A o, p \in Owners :
       owner[o].close /\ owner[p].close /\ owner[o].fd = owner[p].fd => o = p
  /\ \A o \in Owners : ~owner[o].close => owner[o].fd \in loose \cup {-1}
  /\ loose \subseteq DOMAIN table /\ Copiers \subseteq DOMAIN table
  /\ loose \cap Copiers = {}
  /\ \A d \in DOMAIN table :
       d \in loose \cup Copiers \/ \E o \in Owners : owner[o].close /\ owner[o].fd = d

\* What the copy has open at each of its steps: two files, and offsets nobody shares.
Opens ==
  /\ cp.at \in {"idle", "raised", "done"} => cp.in = -1 /\ cp.out = -1
  /\ cp.at \in {"idle", "opened"} => cp.chunk = <<>>
  /\ cp.at = "opened" => cp.in # -1 /\ cp.out = -1
  /\ cp.at = "copy" => /\ cp.in # -1 /\ cp.out # -1 /\ cp.in # cp.out
                       /\ table[cp.in].file # table[cp.out].file
  /\ \A c \in Copiers, d \in DOMAIN table : d # c => table[d].pos # table[c].pos

\* What the copy has read and written: the target is what it was and a prefix of the source,
\* the chunk the next piece, and the offsets are at their ends.
Progress ==
  LET src == inode[table[cp.in].file]
      dst == inode[table[cp.out].file]
      at == offs[table[cp.in].pos]
      done == at - Len(cp.chunk)
  IN /\ cp.at = "opened" => src = cp.src /\ at = 0
     /\ cp.at = "copy" =>
          /\ src = cp.src /\ at <= Len(cp.src) /\ done \in Nat
          /\ cp.chunk = SubSeq(cp.src, done + 1, at)
          /\ dst = cp.base \o SubSeq(cp.src, 1, done)
          /\ offs[table[cp.out].pos] = Len(cp.base) + done
     /\ cp.at = "done" => cp.chunk = cp.base \o cp.src

Copying == Opens /\ (cp.clean => Progress)

-----------------------------------------------------------------------------
\* open(2) and dup(2) find the lowest free descriptor, and a new open file has its own offset.
LEMMA FreeFd ==
  ASSUME HandlesTypeOK, CanOpen
  PROVE  /\ Lowest(DOMAIN table) \in Fds \ DOMAIN table
         /\ FreePos \in (1..MaxFd) \ Used(table)
<1> USE HandlesAssumption
<1>1. DOMAIN table \subseteq Fds /\ Used(table) \subseteq 1..MaxFd
  BY DEF HandlesTypeOK, Used
<1>2. /\ IsFiniteSet(Fds) /\ Cardinality(Fds) = MaxFd
      /\ IsFiniteSet(1..MaxFd) /\ Cardinality(1..MaxFd) = MaxFd
  BY FS_Interval DEF Fds
<1>3. IsFiniteSet(DOMAIN table) /\ IsFiniteSet(Used(table))
  BY <1>1, <1>2, FS_Subset
<1>4. Cardinality(Used(table)) <= Cardinality(DOMAIN table)
  <2> DEFINE f == [d \in DOMAIN table |-> table[d].pos]
  <2>1. f \in Surjection(DOMAIN table, Used(table))
    BY DEF Surjection, Used
  <2> QED BY <1>3, <2>1, FS_Surjection
<1>5. Cardinality(Used(table)) \in Nat /\ Cardinality(DOMAIN table) \in Nat
  BY <1>3, FS_CardinalityType
<1>6. Fds \ DOMAIN table # {}
  <2>1. DOMAIN table # Fds
    BY <1>2, <1>5 DEF CanOpen
  <2> QED BY <1>1, <2>1
<1>7. (1..MaxFd) \ Used(table) # {}
  <2>1. Used(table) # 1..MaxFd
    BY <1>2, <1>4, <1>5 DEF CanOpen
  <2> QED BY <1>1, <2>1
<1>8. \E n \in Fds : n \notin DOMAIN table /\ \A m \in Fds \ DOMAIN table : n <= m
  <2>1. Fds \ DOMAIN table \in SUBSET Nat
    BY DEF Fds
  <2> QED BY <1>6, <2>1, LeastNatural
<1>9. \E n \in 1..MaxFd : n \notin Used(table) /\ \A m \in (1..MaxFd) \ Used(table) : n <= m
  <2>1. (1..MaxFd) \ Used(table) \in SUBSET Nat
    OBVIOUS
  <2> QED BY <1>7, <2>1, LeastNatural
<1>10. Lowest(DOMAIN table) \in Fds \ DOMAIN table
  BY <1>8 DEF Lowest
<1>11. FreePos \in (1..MaxFd) \ Used(table)
  BY <1>9 DEF FreePos
<1> QED BY <1>10, <1>11

\* What a write leaves in a file: as long as it reaches, with the bytes in their place.
LEMMA SplicedIs ==
  ASSUME NEW s \in Seq(Nat), NEW at \in Nat, NEW b \in Seq(Nat)
  PROVE  Spliced(s, at, b) \in Seq(Nat)
<1> DEFINE n == IF Len(s) > at + Len(b) THEN Len(s) ELSE at + Len(b)
<1>1. n \in Nat
  OBVIOUS
<1>2. ASSUME NEW i \in 1..n
      PROVE (IF i > at /\ i <= at + Len(b) THEN b[i - at] ELSE IF i <= Len(s) THEN s[i] ELSE 0) \in Nat
  <2>1. CASE i > at /\ i <= at + Len(b)
    <3>1. i - at \in 1..Len(b)
      BY <2>1
    <3> QED BY <2>1, <3>1
  <2> QED BY <2>1
<1> QED BY <1>1, <1>2 DEF Spliced

\* One sequence after another.
LEMMA ConcatIs ==
  ASSUME NEW s \in Seq(Nat), NEW b \in Seq(Nat)
  PROVE  \E t \in Seq(Nat) :
           /\ t = s \o b /\ Len(t) = Len(s) + Len(b)
           /\ \A i \in 1..(Len(s) + Len(b)) : t[i] = IF i <= Len(s) THEN s[i] ELSE b[i - Len(s)]
<1>1. /\ s \o b \in Seq(Nat) /\ Len(s \o b) = Len(s) + Len(b)
      /\ \A i \in 1..(Len(s) + Len(b)) :
           (s \o b)[i] = IF i <= Len(s) THEN s[i] ELSE b[i - Len(s)]
  OBVIOUS
<1> QED BY <1>1

\* A write at the end of a file appends.
LEMMA SplicedEnd ==
  ASSUME NEW s \in Seq(Nat), NEW b \in Seq(Nat)
  PROVE  Spliced(s, Len(s), b) = s \o b
<1>1. (IF Len(s) > Len(s) + Len(b) THEN Len(s) ELSE Len(s) + Len(b)) = Len(s) + Len(b)
  OBVIOUS
<1>2. Spliced(s, Len(s), b) =
        [i \in 1..(Len(s) + Len(b)) |-> IF i <= Len(s) THEN s[i] ELSE b[i - Len(s)]]
  BY <1>1 DEF Spliced
<1>3. PICK t \in Seq(Nat) :
        /\ t = s \o b /\ Len(t) = Len(s) + Len(b)
        /\ \A i \in 1..(Len(s) + Len(b)) : t[i] = IF i <= Len(s) THEN s[i] ELSE b[i - Len(s)]
  BY ConcatIs
<1>4. t = [i \in 1..Len(t) |-> t[i]]
  OBVIOUS
<1> QED BY <1>2, <1>3, <1>4

\* Truncating leaves a sequence of bytes.
LEMMA TruncatedIs ==
  ASSUME NEW s \in Seq(Nat), NEW n \in Nat
  PROVE  SubSeq(Spliced(s, n, <<>>), 1, n) \in Seq(Nat)
<1>1. Spliced(s, n, <<>>) \in Seq(Nat)
  <2>1. <<>> \in Seq(Nat)
    OBVIOUS
  <2> QED BY <2>1, SplicedIs
<1>2. Len(Spliced(s, n, <<>>)) >= n
  <2>1. DOMAIN Spliced(s, n, <<>>) = 1..(IF Len(s) > n THEN Len(s) ELSE n)
    BY DEF Spliced
  <2> QED BY <1>1, <2>1
<1> QED BY <1>1, <1>2

\* What open(2) does to the descriptors, offsets, files and names.
OpensAs(r, name, trunc, end) ==
  /\ r.inode \in Seq(Seq(Nat)) /\ Len(inode) <= Len(r.inode)
  /\ r.disk \in [Names -> 0..Len(r.inode)] /\ r.disk[name] \in 1..Len(r.inode)
  /\ r.fd \in Fds \ DOMAIN table /\ FreePos \in (1..MaxFd) \ Used(table)
  /\ r.table = [d \in DOMAIN table \cup {r.fd} |->
                  IF d = r.fd THEN [file |-> r.disk[name], pos |-> FreePos] ELSE table[d]]
  /\ r.offs = [offs EXCEPT ![FreePos] = IF end THEN Len(r.inode[r.disk[name]]) ELSE 0]
  /\ \A i \in 1..Len(inode) : r.inode[i] = inode[i] \/ (trunc /\ disk[name] = i)
  /\ IF disk[name] # 0 THEN r.disk[name] = disk[name]
     ELSE r.disk[name] = Len(inode) + 1 /\ r.inode[r.disk[name]] = <<>>

\* It finds a free descriptor and, for a file that is created, a new inode.
LEMMA OpenedIs ==
  ASSUME HandlesTypeOK, CanOpen, NEW name \in Names, NEW create, NEW excl,
         NEW trunc \in BOOLEAN, NEW end \in BOOLEAN,
         NEW r, r = Opened(name, create, excl, trunc, end)
  PROVE  OpensAs(r, name, trunc, end)
<1> DEFINE ino == IF disk[name] # 0 THEN disk[name] ELSE Len(inode) + 1
           files == IF disk[name] = 0 THEN Append(inode, <<>>)
                    ELSE IF trunc THEN [inode EXCEPT ![ino] = <<>>] ELSE inode
<1>1. Lowest(DOMAIN table) \in Fds \ DOMAIN table /\ FreePos \in (1..MaxFd) \ Used(table)
  BY FreeFd
<1>2. /\ r.fd = Lowest(DOMAIN table) /\ r.inode = files /\ r.disk = [disk EXCEPT ![name] = ino]
      /\ r.table = [d \in DOMAIN table \cup {r.fd} |->
                      IF d = r.fd THEN [file |-> ino, pos |-> FreePos] ELSE table[d]]
      /\ r.offs = [offs EXCEPT ![FreePos] = IF end THEN Len(files[ino]) ELSE 0]
  <2>1. r.fd = Lowest(DOMAIN table)
    BY DEF Opened
  <2>2. r.inode = files
    BY DEF Opened, Empty
  <2>3. r.disk = [disk EXCEPT ![name] = ino]
    BY DEF Opened, Empty
  <2>4. r.table = [d \in DOMAIN table \cup {Lowest(DOMAIN table)} |->
                     IF d = Lowest(DOMAIN table) THEN [file |-> ino, pos |-> FreePos] ELSE table[d]]
    BY DEF Opened, Empty
  <2>5. r.offs = [offs EXCEPT ![FreePos] = IF end THEN Len(files[ino]) ELSE 0]
    <3>1. CASE disk[name] = 0
      BY <3>1 DEF Opened, Empty
    <3>2. CASE disk[name] # 0 /\ trunc
      BY <3>2 DEF Opened, Empty
    <3>3. CASE disk[name] # 0 /\ ~trunc
      BY <3>3 DEF Opened, Empty
    <3> QED BY <3>1, <3>2, <3>3
  <2> QED BY <2>1, <2>2, <2>3, <2>4, <2>5
<1>3. /\ inode \in Seq(Seq(Nat)) /\ Len(inode) \in Nat /\ disk[name] \in 0..Len(inode)
      /\ disk \in [Names -> 0..Len(inode)] /\ <<>> \in Seq(Nat)
  BY DEF HandlesTypeOK
<1>4. /\ files \in Seq(Seq(Nat)) /\ Len(inode) <= Len(files) /\ ino \in 1..Len(files)
      /\ \A i \in 1..Len(inode) : files[i] = inode[i] \/ (trunc /\ disk[name] = i)
      /\ disk[name] = 0 => files[ino] = <<>>
  <2>1. CASE disk[name] = 0
    BY <1>3, <2>1
  <2>2. CASE disk[name] # 0 /\ trunc
    BY <1>3, <2>2
  <2>3. CASE disk[name] # 0 /\ ~trunc
    BY <1>3, <2>3
  <2> QED BY <2>1, <2>2, <2>3
<1>5. [disk EXCEPT ![name] = ino] \in [Names -> 0..Len(files)]
  <2>1. \A n \in Names : disk[n] \in 0..Len(files)
    BY <1>3, <1>4
  <2>2. ino \in 0..Len(files)
    BY <1>4
  <2> QED BY <1>3, <2>1, <2>2
<1>6. [disk EXCEPT ![name] = ino][name] = ino
  BY <1>3
<1> HIDE DEF ino, files
<1>7. IF disk[name] # 0 THEN ino = disk[name] ELSE ino = Len(inode) + 1 /\ files[ino] = <<>>
  BY <1>4 DEF ino
<1>8. r.disk[name] = ino
  BY <1>2, <1>6
<1> QED BY <1>1, <1>2, <1>4, <1>5, <1>7, <1>8 DEF OpensAs

\* Another user of the copy's files marks it.
LEMMA SpoilIs ==
  ASSUME HandlesTypeOK, Opens, NEW i, Spoil(i)
  PROVE  /\ cp' = cp \/ cp' = [cp EXCEPT !.clean = FALSE]
         /\ cp'.clean => cp' = cp /\ \A c \in Copiers : table[c].file # i
<1>1. cp.in = -1 => cp.out = -1
  BY DEF Opens, HandlesTypeOK
<1>2. CASE cp.in # -1 /\ i \in {table[cp.in].file} \cup (IF cp.out = -1 THEN {} ELSE {table[cp.out].file})
  BY <1>2 DEF Spoil, HandlesTypeOK
<1>3. CASE ~(cp.in # -1 /\ i \in {table[cp.in].file} \cup (IF cp.out = -1 THEN {} ELSE {table[cp.out].file}))
  BY <1>1, <1>3 DEF Spoil, Copiers
<1> QED BY <1>2, <1>3

\* Whoever leaves the descriptors, offsets and files of the copy alone leaves the copy alone.
LEMMA CopyStays ==
  ASSUME HandlesTypeOK, Owned, Copying,
         cp' = cp \/ cp' = [cp EXCEPT !.clean = FALSE],
         \A c \in Copiers :
           /\ c \in DOMAIN table' /\ table'[c] = table[c]
           /\ offs'[table[c].pos] = offs[table[c].pos]
           /\ cp'.clean => inode'[table[c].file] = inode[table[c].file]
           /\ \A d \in DOMAIN table' : d # c => table'[d].pos # table[c].pos
  PROVE  Copying' /\ Copiers' = Copiers
<1>1. /\ UNCHANGED <<cp.at, cp.in, cp.out, cp.src, cp.base, cp.chunk>>
      /\ cp'.clean => cp.clean
  BY DEF HandlesTypeOK
<1>2. Copiers' = Copiers
  BY <1>1 DEF Copiers
<1>3. Opens'
  BY <1>1, <1>2 DEF Copying, Opens, Copiers
<1>4. cp'.clean => Progress'
  <2>1. CASE cp.at = "opened"
    BY <1>1, <2>1 DEF Copying, Opens, Copiers, Progress
  <2>2. CASE cp.at = "copy"
    <3>1. cp.in \in Copiers /\ cp.out \in Copiers
      BY <2>2 DEF Copying, Opens, Copiers
    <3>2. /\ table'[cp.in] = table[cp.in] /\ table'[cp.out] = table[cp.out]
          /\ offs'[table[cp.in].pos] = offs[table[cp.in].pos]
          /\ offs'[table[cp.out].pos] = offs[table[cp.out].pos]
          /\ cp'.clean => /\ inode'[table[cp.in].file] = inode[table[cp.in].file]
                          /\ inode'[table[cp.out].file] = inode[table[cp.out].file]
      BY <3>1
    <3>3. cp'.clean => Progress
      BY <1>1 DEF Copying
    <3>4. /\ cp'.at = "copy" /\ cp'.chunk = cp.chunk /\ cp'.src = cp.src /\ cp'.base = cp.base
          /\ offs'[table'[cp'.in].pos] = offs[table[cp.in].pos]
          /\ offs'[table'[cp'.out].pos] = offs[table[cp.out].pos]
          /\ cp'.clean => /\ inode'[table'[cp'.in].file] = inode[table[cp.in].file]
                          /\ inode'[table'[cp'.out].file] = inode[table[cp.out].file]
      BY <1>1, <2>2, <3>2
    <3> QED BY <2>2, <3>3, <3>4 DEF Progress
  <2>3. CASE cp.at \notin {"opened", "copy"}
    BY <1>1, <2>3 DEF Copying, Progress
  <2> QED BY <2>1, <2>2, <2>3
<1> QED BY <1>2, <1>3, <1>4 DEF Copying

\* The inductive invariant.
HandlesInv == HandlesTypeOK /\ Owned /\ Copying

\* close(2) of descriptors that are not the copy's.
LEMMA CloseIs ==
  ASSUME HandlesInv, NEW fds \in SUBSET DOMAIN table, Close(fds)
  PROVE  /\ DOMAIN table' = DOMAIN table \ fds
         /\ \A d \in DOMAIN table' : table'[d] = table[d]
         /\ offs' \in [1..MaxFd -> Nat]
         /\ \A d \in DOMAIN table' : offs'[table[d].pos] = offs[table[d].pos]
         /\ inode' = inode /\ cp' = cp /\ fds \cap Copiers = {} => Copying' /\ Copiers' = Copiers
<1>1. DOMAIN table' = DOMAIN table \ fds /\ \A d \in DOMAIN table' : table'[d] = table[d]
  BY DEF Close, Without
<1>2. offs' = [n \in 1..MaxFd |-> IF n \in Used(Without(fds)) THEN offs[n] ELSE 0]
  BY DEF Close
<1>3. offs \in [1..MaxFd -> Nat] /\ \A d \in DOMAIN table : table[d].pos \in 1..MaxFd
  BY DEF HandlesInv, HandlesTypeOK
<1>4. offs' \in [1..MaxFd -> Nat]
  BY <1>2, <1>3
<1>5. ASSUME NEW d \in DOMAIN table' PROVE offs'[table[d].pos] = offs[table[d].pos]
  <2>1. table[d].pos \in Used(Without(fds))
    BY <1>1 DEF Used, Without
  <2> QED BY <1>1, <1>2, <1>3, <2>1
<1>6. ASSUME inode' = inode, cp' = cp, fds \cap Copiers = {} PROVE Copying' /\ Copiers' = Copiers
  <2>1. \A c \in Copiers : c \in DOMAIN table' /\ c \in DOMAIN table
    BY <1>1, <1>6 DEF HandlesInv, Owned
  <2>2. \A c \in Copiers, d \in DOMAIN table : d # c => table[d].pos # table[c].pos
    BY DEF HandlesInv, Copying, Opens
  <2> QED BY <1>1, <1>5, <1>6, <2>1, <2>2, CopyStays DEF HandlesInv
<1> QED BY <1>1, <1>4, <1>5, <1>6

\* The step that gives o a new descriptor fd of the open file e, which is not the copy's.
Given(o, fd, e) ==
  /\ owner[o] = NoFile /\ e.file \in 1..Len(inode') /\ e.pos \in 1..MaxFd
  /\ \A c \in Copiers : e.pos # table[c].pos
  /\ table' = [d \in DOMAIN table \cup {fd} |-> IF d = fd THEN e ELSE table[d]]
  /\ owner' = [owner EXCEPT ![o] = [fd |-> fd, close |-> TRUE]]
  /\ inode' \in Seq(Seq(Nat)) /\ disk' \in [Names -> 0..Len(inode')] /\ Len(inode) <= Len(inode')
  /\ offs' \in [1..MaxFd -> Nat]
  /\ \A c \in Copiers : /\ offs'[table[c].pos] = offs[table[c].pos]
                        /\ cp'.clean => inode'[table[c].file] = inode[table[c].file]
  /\ cp' = cp \/ cp' = [cp EXCEPT !.clean = FALSE]
  /\ UNCHANGED <<loose, double>>

\* Such a descriptor leaves the copy alone, and has an owner.
LEMMA NewOwner ==
  ASSUME HandlesInv, NEW o \in Owners, NEW fd \in Fds \ DOMAIN table, NEW e, Given(o, fd, e)
  PROVE  HandlesInv'
<1> USE DEF Given
<1>1. /\ DOMAIN table' = DOMAIN table \cup {fd} /\ table'[fd] = e
      /\ \A d \in DOMAIN table : table'[d] = table[d] /\ d # fd
  OBVIOUS
<1>2. Copying' /\ Copiers' = Copiers
  <2>1. Copiers \subseteq DOMAIN table
    BY DEF HandlesInv, Owned
  <2>2. \A c \in Copiers, d \in DOMAIN table : d # c => table[d].pos # table[c].pos
    BY DEF HandlesInv, Copying, Opens
  <2>3. \A c \in Copiers, d \in DOMAIN table' : d # c => table'[d].pos # table[c].pos
    BY <1>1, <2>1, <2>2
  <2> QED BY <1>1, <2>1, <2>3, CopyStays DEF HandlesInv
<1>3. HandlesTypeOK'
  <2>1. Len(inode) \in Nat /\ Len(inode') \in Nat
    BY DEF HandlesInv, HandlesTypeOK
  <2>2. \A d \in DOMAIN table' : table'[d].file \in 1..Len(inode') /\ table'[d].pos \in 1..MaxFd
    BY <1>1, <2>1 DEF HandlesInv, HandlesTypeOK
  <2>3. owner' \in [Owners -> [fd : Fds \cup {-1}, close : BOOLEAN]]
    BY DEF HandlesInv, HandlesTypeOK
  <2>4. cp' \in [at : {"idle", "opened", "copy", "raised", "done"}, in : Fds \cup {-1},
                 out : Fds \cup {-1}, src : Seq(Nat), base : Seq(Nat), chunk : Seq(Nat),
                 clean : BOOLEAN]
    BY DEF HandlesInv, HandlesTypeOK
  <2> QED BY <1>1, <2>2, <2>3, <2>4 DEF HandlesInv, HandlesTypeOK
<1>4. Owned'
  <2>1. \A p \in Owners : owner'[p] = IF p = o THEN [fd |-> fd, close |-> TRUE] ELSE owner[p]
    BY DEF HandlesInv, HandlesTypeOK
  <2>2. fd \notin loose /\ fd \notin Copiers /\ \A p \in Owners : owner[p].close => owner[p].fd # fd
    BY DEF HandlesInv, Owned
  <2>3. ~owner[o].close
    BY DEF NoFile
  <2>4. \A d \in DOMAIN table' :
          d \in loose \cup Copiers \/ \E p \in Owners : owner'[p].close /\ owner'[p].fd = d
    <3>1. owner'[o].close /\ owner'[o].fd = fd
      BY <2>1
    <3>2. ASSUME NEW d \in DOMAIN table, d \notin loose \cup Copiers
          PROVE  \E p \in Owners : owner'[p].close /\ owner'[p].fd = d
      <4>1. PICK p \in Owners : owner[p].close /\ owner[p].fd = d
        BY <3>2 DEF HandlesInv, Owned
      <4> QED BY <2>1, <2>3, <4>1
    <3> QED BY <1>1, <3>1, <3>2
  <2>5. \A p, q \in Owners :
          owner'[p].close /\ owner'[q].close /\ owner'[p].fd = owner'[q].fd => p = q
    BY <2>1, <2>2 DEF HandlesInv, Owned
  <2>6. \A p \in Owners :
          /\ owner'[p].close => owner'[p].fd \in DOMAIN table' /\ owner'[p].fd \notin loose \cup Copiers
          /\ ~owner'[p].close => owner'[p].fd \in loose \cup {-1}
    BY <1>1, <2>1, <2>2 DEF HandlesInv, Owned
  <2> QED BY <1>1, <1>2, <2>4, <2>5, <2>6 DEF HandlesInv, Owned
<1> QED BY <1>2, <1>3, <1>4 DEF HandlesInv

\* File::openFile().
LEMMA OpenFileInv ==
  ASSUME HandlesInv, NEW o \in Owners, NEW name \in Names, openFile(o, name)
  PROVE  HandlesInv'
<1>0. HandlesTypeOK /\ Owned /\ Copying /\ Opens
  BY DEF HandlesInv, Copying
<1>1. PICK create, excl, trunc, end, autodelete \in BOOLEAN :
        LET r == Opened(name, create, excl, trunc, end)
        IN /\ (excl => create) /\ (disk[name] = Empty => Len(inode) < MaxFiles) /\ r.ok
           /\ inode' = r.inode /\ table' = r.table /\ offs' = r.offs
           /\ disk' = IF autodelete THEN [r.disk EXCEPT ![name] = Empty] ELSE r.disk
           /\ owner' = [owner EXCEPT ![o] = [fd |-> r.fd, close |-> TRUE]]
           /\ IF trunc /\ disk[name] # Empty THEN Spoil(disk[name]) ELSE UNCHANGED cp
  BY DEF openFile
<1>r. PICK r : r = Opened(name, create, excl, trunc, end)
  OBVIOUS
<1>2. OpensAs(r, name, trunc, end)
  <2>1. CanOpen
    BY DEF openFile
  <2>2. /\ create \in BOOLEAN /\ excl \in BOOLEAN /\ trunc \in BOOLEAN /\ end \in BOOLEAN
    OBVIOUS
  <2> QED BY <1>0, <1>r, <2>1, <2>2, OpenedIs
<1> USE DEF OpensAs
<1>3. /\ inode' = r.inode /\ table' = r.table /\ offs' = r.offs
      /\ disk' = IF autodelete THEN [r.disk EXCEPT ![name] = Empty] ELSE r.disk
      /\ owner' = [owner EXCEPT ![o] = [fd |-> r.fd, close |-> TRUE]]
      /\ IF trunc /\ disk[name] # Empty THEN Spoil(disk[name]) ELSE UNCHANGED cp
      /\ owner[o] = NoFile /\ UNCHANGED <<loose, double>>
  BY <1>1, <1>r DEF openFile
<1>4. /\ cp' = cp \/ cp' = [cp EXCEPT !.clean = FALSE]
      /\ cp'.clean => ~(trunc /\ disk[name] # Empty) \/ \A c \in Copiers : table[c].file # disk[name]
  BY <1>0, <1>3, SpoilIs
<1>5. ASSUME NEW c \in Copiers
      PROVE  /\ c \in DOMAIN table /\ FreePos # table[c].pos
             /\ offs'[table[c].pos] = offs[table[c].pos]
             /\ cp'.clean => inode'[table[c].file] = inode[table[c].file]
  <2>1. c \in DOMAIN table /\ table[c].file \in 1..Len(inode) /\ table[c].pos \in 1..MaxFd
    BY <1>0 DEF Owned, HandlesTypeOK
  <2>2. FreePos # table[c].pos
    BY <1>2, <2>1 DEF Used
  <2>3. offs'[table[c].pos] = offs[table[c].pos]
    BY <1>0, <1>2, <1>3, <2>1, <2>2 DEF HandlesTypeOK
  <2>4. cp'.clean => inode'[table[c].file] = inode[table[c].file]
    <3> SUFFICES ASSUME cp'.clean PROVE r.inode[table[c].file] = inode[table[c].file]
      BY <1>3
    <3>1. r.inode[table[c].file] = inode[table[c].file] \/ (trunc /\ disk[name] = table[c].file)
      BY <1>2, <2>1
    <3>2. disk[name] = table[c].file => disk[name] # Empty
      BY <2>1 DEF Empty
    <3> QED BY <1>4, <3>1, <3>2
  <2> QED BY <2>1, <2>2, <2>3, <2>4
<1>6. /\ inode' \in Seq(Seq(Nat)) /\ Len(inode) <= Len(inode')
      /\ disk' \in [Names -> 0..Len(inode')] /\ offs' \in [1..MaxFd -> Nat]
  <2>1. Len(r.inode[r.disk[name]]) \in Nat /\ 0 \in 0..Len(r.inode)
    BY <1>2
  <2>2. inode' \in Seq(Seq(Nat)) /\ Len(inode) <= Len(inode')
    BY <1>2, <1>3
  <2>3. disk' \in [Names -> 0..Len(inode')]
    BY <1>2, <1>3, <2>1 DEF Empty
  <2>4. offs' \in [1..MaxFd -> Nat]
    BY <1>0, <1>2, <1>3, <2>1 DEF HandlesTypeOK
  <2> QED BY <2>2, <2>3, <2>4
<1>e. PICK e : e = [file |-> r.disk[name], pos |-> FreePos]
  OBVIOUS
<1>7. /\ e.file \in 1..Len(inode') /\ e.pos \in 1..MaxFd
      /\ \A c \in Copiers : e.pos # table[c].pos
      /\ table' = [d \in DOMAIN table \cup {r.fd} |-> IF d = r.fd THEN e ELSE table[d]]
  BY <1>e, <1>2, <1>3, <1>5
<1>8. r.fd \in Fds \ DOMAIN table
  BY <1>2
<1>9. \A c \in Copiers : /\ offs'[table[c].pos] = offs[table[c].pos]
                         /\ cp'.clean => inode'[table[c].file] = inode[table[c].file]
  BY <1>5
<1> HIDE DEF OpensAs
<1>10. PICK fd \in Fds \ DOMAIN table : fd = r.fd
  BY <1>8
<1>11. /\ owner' = [owner EXCEPT ![o] = [fd |-> fd, close |-> TRUE]]
       /\ table' = [d \in DOMAIN table \cup {fd} |-> IF d = fd THEN e ELSE table[d]]
  BY <1>3, <1>7, <1>10
<1>12. /\ owner[o] = NoFile /\ UNCHANGED <<loose, double>>
       /\ cp' = cp \/ cp' = [cp EXCEPT !.clean = FALSE]
       /\ e.file \in 1..Len(inode') /\ e.pos \in 1..MaxFd
       /\ \A c \in Copiers : e.pos # table[c].pos
  BY <1>3, <1>4, <1>7
<1>13. Given(o, fd, e)
  BY <1>6, <1>9, <1>11, <1>12 DEF Given
<1> QED BY <1>13, NewOwner

\* clone(): the copy's descriptors are nobody's to clone.
LEMMA CloneInv ==
  ASSUME HandlesInv, NEW o \in Owners, NEW p \in Owners, clone(o, p)
  PROVE  HandlesInv'
<1>0. HandlesTypeOK /\ Owned /\ Copying /\ Opens
  BY DEF HandlesInv, Copying
<1> DEFINE fd == Lowest(DOMAIN table)
           e == table[owner[p].fd]
<1>1. fd \in Fds \ DOMAIN table
  BY <1>0, FreeFd DEF clone
<1>2. /\ owner[p].fd \in DOMAIN table /\ owner[p].fd \notin Copiers
      /\ e.file \in 1..Len(inode) /\ e.pos \in 1..MaxFd
  BY <1>0 DEF clone, Owned, HandlesTypeOK
<1>3. \A c \in Copiers : e.pos # table[c].pos
  BY <1>0, <1>2 DEF Opens
<1>4. /\ owner[o] = NoFile /\ UNCHANGED <<disk, inode, offs, loose, double, cp>>
      /\ table' = [d \in DOMAIN table \cup {fd} |-> IF d = fd THEN e ELSE table[d]]
      /\ owner' = [owner EXCEPT ![o] = [fd |-> fd, close |-> TRUE]]
  BY DEF clone
<1> HIDE DEF fd, e
<1>5. /\ inode' \in Seq(Seq(Nat)) /\ disk' \in [Names -> 0..Len(inode')]
      /\ Len(inode) <= Len(inode') /\ offs' \in [1..MaxFd -> Nat]
  BY <1>0, <1>4 DEF HandlesTypeOK
<1>6. Given(o, fd, e)
  BY <1>2, <1>3, <1>4, <1>5 DEF Given
<1> QED BY <1>1, <1>6, NewOwner

\* What a destructor or an assignment closes is the object's own.
LEMMA Closes ==
  ASSUME HandlesInv, NEW o \in Owners
  PROVE  LET fds == IF owner[o].close THEN {owner[o].fd} ELSE {}
         IN fds \in SUBSET DOMAIN table /\ fds \cap Copiers = {} /\ fds \cap loose = {}
            /\ fds \subseteq DOMAIN table
BY DEF HandlesInv, Owned

\* ~File and the destructors of the streams.
LEMMA DestroyInv ==
  ASSUME HandlesInv, NEW o \in Owners, destroy(o)
  PROVE  HandlesInv'
<1>0. HandlesTypeOK /\ Owned
  BY DEF HandlesInv
<1> DEFINE fds == IF owner[o].close THEN {owner[o].fd} ELSE {}
<1>1. fds \in SUBSET DOMAIN table /\ fds \cap Copiers = {} /\ fds \cap loose = {}
  BY Closes
<1>2. Close(fds) /\ inode' = inode /\ cp' = cp
  BY DEF destroy
<1>3. /\ DOMAIN table' = DOMAIN table \ fds /\ \A d \in DOMAIN table' : table'[d] = table[d]
      /\ offs' \in [1..MaxFd -> Nat] /\ Copying' /\ Copiers' = Copiers
  <2> HIDE DEF fds
  <2> QED BY <1>1, <1>2, CloseIs
<1>4. /\ \A p \in Owners : owner'[p] = IF p = o THEN NoFile ELSE owner[p]
      /\ UNCHANGED <<disk, inode, loose, cp>>
      /\ owner' \in [Owners -> [fd : Fds \cup {-1}, close : BOOLEAN]]
  BY <1>0 DEF destroy, HandlesTypeOK, NoFile
<1>5. HandlesTypeOK'
  BY <1>0, <1>3, <1>4 DEF HandlesTypeOK
<1>6. ~double'
  BY <1>0, <1>1 DEF destroy, Owned
<1>7. Owned'
  <2>1. \A d \in DOMAIN table' :
          d \in loose \cup Copiers \/ \E p \in Owners : owner'[p].close /\ owner'[p].fd = d
    <3> SUFFICES ASSUME NEW d \in DOMAIN table', d \notin loose \cup Copiers
                 PROVE  \E p \in Owners : owner'[p].close /\ owner'[p].fd = d
      OBVIOUS
    <3>1. PICK p \in Owners : owner[p].close /\ owner[p].fd = d
      BY <1>0, <1>3 DEF Owned
    <3>2. p # o
      BY <1>3, <3>1
    <3> QED BY <1>4, <3>1, <3>2
  <2>2. \A p \in Owners :
          /\ owner'[p].close => owner'[p].fd \in DOMAIN table' /\ owner'[p].fd \notin loose \cup Copiers
          /\ ~owner'[p].close => owner'[p].fd \in loose \cup {-1}
    BY <1>0, <1>3, <1>4 DEF Owned, NoFile
  <2>3. \A p, q \in Owners :
          owner'[p].close /\ owner'[q].close /\ owner'[p].fd = owner'[q].fd => p = q
    BY <1>0, <1>4 DEF Owned, NoFile
  <2>4. loose \subseteq DOMAIN table' /\ Copiers \subseteq DOMAIN table'
    BY <1>0, <1>1, <1>3 DEF Owned
  <2> QED BY <1>0, <1>3, <1>4, <1>6, <2>1, <2>2, <2>3, <2>4 DEF Owned
<1> QED BY <1>3, <1>5, <1>7 DEF HandlesInv

\* File(File&&) and operator=(File&&).
LEMMA MoveInv ==
  ASSUME HandlesInv, NEW o \in Owners, NEW p \in Owners, move(o, p)
  PROVE  HandlesInv'
<1>0. HandlesTypeOK /\ Owned
  BY DEF HandlesInv
<1> DEFINE fds == IF owner[o].close THEN {owner[o].fd} ELSE {}
<1>1. fds \in SUBSET DOMAIN table /\ fds \cap Copiers = {} /\ fds \cap loose = {}
  BY Closes
<1>2. Close(fds) /\ inode' = inode /\ cp' = cp
  BY DEF move
<1>3. /\ DOMAIN table' = DOMAIN table \ fds /\ \A d \in DOMAIN table' : table'[d] = table[d]
      /\ offs' \in [1..MaxFd -> Nat] /\ Copying' /\ Copiers' = Copiers
  <2> HIDE DEF fds
  <2> QED BY <1>1, <1>2, CloseIs
<1>4. /\ o # p /\ owner[p].close /\ UNCHANGED <<disk, inode, loose, cp>>
      /\ \A q \in Owners : owner'[q] = IF q = p THEN NoFile ELSE IF q = o THEN owner[p] ELSE owner[q]
      /\ owner' \in [Owners -> [fd : Fds \cup {-1}, close : BOOLEAN]]
  BY <1>0 DEF move, HandlesTypeOK, NoFile
<1>5. HandlesTypeOK'
  BY <1>0, <1>3, <1>4 DEF HandlesTypeOK
<1>6. ~double'
  BY <1>0, <1>1 DEF move, Owned
<1>7. owner[p].fd \notin fds
  BY <1>0, <1>4 DEF Owned
<1>8. Owned'
  <2>1. \A d \in DOMAIN table' :
          d \in loose \cup Copiers \/ \E q \in Owners : owner'[q].close /\ owner'[q].fd = d
    <3> SUFFICES ASSUME NEW d \in DOMAIN table', d \notin loose \cup Copiers
                 PROVE  \E q \in Owners : owner'[q].close /\ owner'[q].fd = d
      OBVIOUS
    <3>1. PICK q \in Owners : owner[q].close /\ owner[q].fd = d
      BY <1>0, <1>3 DEF Owned
    <3>2. q # o
      BY <1>3, <3>1
    <3>3. CASE q = p
      BY <1>4, <3>1, <3>3
    <3>4. CASE q # p
      BY <1>4, <3>1, <3>2, <3>4
    <3> QED BY <3>3, <3>4
  <2>2. \A q \in Owners :
          /\ owner'[q].close => owner'[q].fd \in DOMAIN table' /\ owner'[q].fd \notin loose \cup Copiers
          /\ ~owner'[q].close => owner'[q].fd \in loose \cup {-1}
    BY <1>0, <1>3, <1>4, <1>7 DEF Owned, NoFile
  <2>3. \A q, r \in Owners :
          owner'[q].close /\ owner'[r].close /\ owner'[q].fd = owner'[r].fd => q = r
    BY <1>0, <1>4 DEF Owned, NoFile
  <2>4. loose \subseteq DOMAIN table' /\ Copiers \subseteq DOMAIN table'
    BY <1>0, <1>1, <1>3 DEF Owned
  <2> QED BY <1>0, <1>3, <1>4, <1>6, <2>1, <2>2, <2>3, <2>4 DEF Owned
<1> QED BY <1>3, <1>5, <1>8 DEF HandlesInv

\* A step that changes only who owns what, or the names of files.
LEMMA SameFiles ==
  ASSUME HandlesInv, UNCHANGED <<inode, table, offs, cp>>, disk' \in [Names -> 0..Len(inode)],
         owner' \in [Owners -> [fd : Fds \cup {-1}, close : BOOLEAN]]
  PROVE  HandlesTypeOK' /\ Copying' /\ Copiers' = Copiers
<1>1. HandlesTypeOK'
  BY DEF HandlesInv, HandlesTypeOK
<1>2. Copying' /\ Copiers' = Copiers
  BY DEF HandlesInv, Copying, Opens, Progress, Copiers
<1> QED BY <1>1, <1>2

\* releaseFD().
LEMMA ReleaseInv ==
  ASSUME HandlesInv, NEW o \in Owners, releaseFD(o)
  PROVE  HandlesInv'
<1>0. HandlesTypeOK /\ Owned
  BY DEF HandlesInv
<1>1. /\ \A p \in Owners : owner'[p] = IF p = o THEN NoFile ELSE owner[p]
      /\ owner' \in [Owners -> [fd : Fds \cup {-1}, close : BOOLEAN]]
      /\ owner[o].close /\ loose' = loose \cup {owner[o].fd} /\ UNCHANGED <<table, double>>
  BY <1>0 DEF releaseFD, HandlesTypeOK, NoFile
<1>2. HandlesTypeOK' /\ Copying' /\ Copiers' = Copiers
  BY <1>0, <1>1, SameFiles DEF releaseFD, HandlesTypeOK
<1>3. Owned'
  <2>1. \A d \in DOMAIN table :
          d \in loose' \cup Copiers \/ \E p \in Owners : owner'[p].close /\ owner'[p].fd = d
    <3> SUFFICES ASSUME NEW d \in DOMAIN table, d \notin loose' \cup Copiers
                 PROVE  \E p \in Owners : owner'[p].close /\ owner'[p].fd = d
      OBVIOUS
    <3>1. PICK p \in Owners : owner[p].close /\ owner[p].fd = d
      BY <1>0, <1>1 DEF Owned
    <3>2. p # o
      BY <1>1, <3>1
    <3> QED BY <1>1, <3>1, <3>2
  <2>2. \A p \in Owners :
          /\ owner'[p].close => owner'[p].fd \in DOMAIN table /\ owner'[p].fd \notin loose' \cup Copiers
          /\ ~owner'[p].close => owner'[p].fd \in loose' \cup {-1}
    BY <1>0, <1>1 DEF Owned, NoFile
  <2> QED BY <1>0, <1>1, <1>2, <2>1, <2>2 DEF Owned, NoFile
<1> QED BY <1>2, <1>3 DEF HandlesInv

\* FileInputStream::fromFileDescriptor.
LEMMA InputInv ==
  ASSUME HandlesInv, NEW o \in Owners, NEW fd \in Fds, inputFromFD(o, fd)
  PROVE  HandlesInv'
<1>0. HandlesTypeOK /\ Owned
  BY DEF HandlesInv
<1>1. PICK c \in BOOLEAN : /\ c => \A p \in Owners : owner[p].fd # fd
                           /\ owner' = [owner EXCEPT ![o] = [fd |-> fd, close |-> c]]
                           /\ loose' = IF c THEN loose \ {fd} ELSE loose
  BY DEF inputFromFD
<1>2. /\ \A p \in Owners : owner'[p] = IF p = o THEN [fd |-> fd, close |-> c] ELSE owner[p]
      /\ owner' \in [Owners -> [fd : Fds \cup {-1}, close : BOOLEAN]]
      /\ owner[o] = NoFile /\ fd \in loose /\ UNCHANGED <<table, double>>
  BY <1>0, <1>1 DEF inputFromFD, HandlesTypeOK
<1>3. HandlesTypeOK' /\ Copying' /\ Copiers' = Copiers
  BY <1>0, <1>2, SameFiles DEF inputFromFD, HandlesTypeOK
<1>4. Owned'
  <2>1. \A d \in DOMAIN table :
          d \in loose' \cup Copiers \/ \E p \in Owners : owner'[p].close /\ owner'[p].fd = d
    <3> SUFFICES ASSUME NEW d \in DOMAIN table, d \notin loose' \cup Copiers
                 PROVE  \E p \in Owners : owner'[p].close /\ owner'[p].fd = d
      OBVIOUS
    <3>1. CASE d \in loose
      <4>1. c /\ d = fd
        BY <1>1, <3>1
      <4> QED BY <1>2, <4>1
    <3>2. CASE d \notin loose
      <4>1. PICK p \in Owners : owner[p].close /\ owner[p].fd = d
        BY <1>0, <3>2 DEF Owned
      <4>2. p # o
        BY <1>2, <4>1 DEF NoFile
      <4> QED BY <1>2, <4>1, <4>2
    <3> QED BY <3>1, <3>2
  <2>2. \A p \in Owners :
          /\ owner'[p].close => owner'[p].fd \in DOMAIN table /\ owner'[p].fd \notin loose' \cup Copiers
          /\ ~owner'[p].close => owner'[p].fd \in loose' \cup {-1}
    BY <1>0, <1>1, <1>2 DEF Owned, NoFile
  <2>3. \A p, q \in Owners :
          owner'[p].close /\ owner'[q].close /\ owner'[p].fd = owner'[q].fd => p = q
    BY <1>0, <1>1, <1>2 DEF Owned, NoFile
  <2> QED BY <1>0, <1>1, <1>2, <1>3, <2>1, <2>2, <2>3 DEF Owned
<1> QED BY <1>3, <1>4 DEF HandlesInv

\* A stream made from a File takes its descriptor over.
LEMMA StreamInv ==
  ASSUME HandlesInv, NEW o \in Owners, NEW p \in Owners, streamFromFile(o, p)
  PROVE  HandlesInv'
<1>0. HandlesTypeOK /\ Owned
  BY DEF HandlesInv
<1>1. /\ \A q \in Owners : owner'[q] = IF q = p THEN NoFile
                                        ELSE IF q = o THEN [fd |-> owner[p].fd, close |-> TRUE] ELSE owner[q]
      /\ owner' \in [Owners -> [fd : Fds \cup {-1}, close : BOOLEAN]]
      /\ o # p /\ owner[o] = NoFile /\ owner[p].close /\ UNCHANGED <<table, loose, double>>
  BY <1>0 DEF streamFromFile, HandlesTypeOK, NoFile
<1>2. HandlesTypeOK' /\ Copying' /\ Copiers' = Copiers
  BY <1>0, <1>1, SameFiles DEF streamFromFile, HandlesTypeOK
<1>3. Owned'
  <2>1. \A d \in DOMAIN table :
          d \in loose \cup Copiers \/ \E q \in Owners : owner'[q].close /\ owner'[q].fd = d
    <3> SUFFICES ASSUME NEW d \in DOMAIN table, d \notin loose \cup Copiers
                 PROVE  \E q \in Owners : owner'[q].close /\ owner'[q].fd = d
      OBVIOUS
    <3>1. PICK q \in Owners : owner[q].close /\ owner[q].fd = d
      BY <1>0 DEF Owned
    <3>2. CASE q = p
      BY <1>1, <3>1, <3>2
    <3>3. CASE q # p
      <4>1. q # o
        BY <1>1, <3>1 DEF NoFile
      <4> QED BY <1>1, <3>1, <3>3, <4>1
    <3> QED BY <3>2, <3>3
  <2>2. \A q \in Owners :
          /\ owner'[q].close => owner'[q].fd \in DOMAIN table /\ owner'[q].fd \notin loose \cup Copiers
          /\ ~owner'[q].close => owner'[q].fd \in loose \cup {-1}
    BY <1>0, <1>1 DEF Owned, NoFile
  <2>3. \A q, r \in Owners :
          owner'[q].close /\ owner'[r].close /\ owner'[q].fd = owner'[r].fd => q = r
    BY <1>0, <1>1 DEF Owned, NoFile
  <2> QED BY <1>0, <1>1, <1>2, <2>1, <2>2, <2>3 DEF Owned
<1> QED BY <1>2, <1>3 DEF HandlesInv

\* The caller of releaseFD() closes the descriptor.
LEMMA CloseLooseInv ==
  ASSUME HandlesInv, NEW fd \in Fds, closeLoose(fd)
  PROVE  HandlesInv'
<1>0. HandlesTypeOK /\ Owned
  BY DEF HandlesInv
<1>1. {fd} \in SUBSET DOMAIN table /\ {fd} \cap Copiers = {}
  BY <1>0 DEF closeLoose, Owned
<1>2. /\ Close({fd}) /\ loose' = loose \ {fd} /\ UNCHANGED <<disk, inode, owner, double, cp>>
      /\ \A o \in Owners : owner[o].fd # fd
  BY DEF closeLoose
<1>3. /\ DOMAIN table' = DOMAIN table \ {fd} /\ \A d \in DOMAIN table' : table'[d] = table[d]
      /\ offs' \in [1..MaxFd -> Nat] /\ Copying' /\ Copiers' = Copiers
  BY <1>1, <1>2, CloseIs
<1>4. HandlesTypeOK'
  BY <1>0, <1>2, <1>3 DEF HandlesTypeOK
<1>5. Owned'
  <2>1. \A d \in DOMAIN table' :
          d \in loose' \cup Copiers \/ \E o \in Owners : owner'[o].close /\ owner'[o].fd = d
    BY <1>0, <1>2, <1>3 DEF Owned
  <2>2. loose' \subseteq DOMAIN table' /\ Copiers \subseteq DOMAIN table'
    BY <1>0, <1>1, <1>2, <1>3 DEF Owned
  <2>3. \A o \in Owners :
          /\ owner[o].close => owner[o].fd \in DOMAIN table' /\ owner[o].fd \notin loose' \cup Copiers
          /\ ~owner[o].close => owner[o].fd \in loose' \cup {-1}
    BY <1>0, <1>2, <1>3 DEF Owned
  <2> QED BY <1>0, <1>2, <1>3, <2>1, <2>2, <2>3 DEF Owned
<1> QED BY <1>3, <1>4, <1>5 DEF HandlesInv

\* Who owns what depends on the objects and the open descriptors only.
LEMMA OwnedStays ==
  ASSUME Owned, UNCHANGED <<owner, loose, double>>, DOMAIN table' = DOMAIN table, Copiers' = Copiers
  PROVE  Owned'
BY DEF Owned

\* Renaming and removing names.
LEMMA NamesInv ==
  ASSUME HandlesInv, NEW n \in Names, NEW m \in Names, rm(n) \/ mv(n, m)
  PROVE  HandlesInv'
<1>0. HandlesTypeOK /\ Owned
  BY DEF HandlesInv
<1>1. /\ UNCHANGED <<inode, table, offs, owner, loose, double, cp>>
      /\ disk' = [disk EXCEPT ![n] = Empty] \/ disk' = [disk EXCEPT ![m] = disk[n], ![n] = Empty]
  BY DEF rm, mv
<1>2. disk' \in [Names -> 0..Len(inode)]
  <2>1. 0 \in 0..Len(inode) /\ disk \in [Names -> 0..Len(inode)]
    BY <1>0 DEF HandlesTypeOK
  <2> QED BY <1>1, <2>1 DEF Empty
<1>3. owner' \in [Owners -> [fd : Fds \cup {-1}, close : BOOLEAN]]
  BY <1>0, <1>1 DEF HandlesTypeOK
<1>4. HandlesTypeOK' /\ Copying' /\ Copiers' = Copiers
  BY <1>1, <1>2, <1>3, SameFiles
<1> QED BY <1>0, <1>1, <1>4, OwnedStays DEF HandlesInv

\* A call on a File or a stream that moves its offset or changes its file: the open file is
\* not one of the copy's, and Spoil marks the copy if the inode is.
LEMMA UserInv ==
  ASSUME HandlesInv, NEW o \in Owners, Usable(o),
         UNCHANGED <<disk, table, owner, loose, double>>,
         inode' \in Seq(Seq(Nat)), Len(inode') = Len(inode), offs' \in [1..MaxFd -> Nat],
         \A n \in 1..MaxFd : n # Of(o).pos => offs'[n] = offs[n],
         \A i \in 1..Len(inode) : i # Of(o).file => inode'[i] = inode[i],
         Spoil(Of(o).file) \/ (inode' = inode /\ cp' = cp)
  PROVE  HandlesInv'
<1>0. HandlesTypeOK /\ Owned /\ Copying /\ Opens
  BY DEF HandlesInv, Copying
<1>1. owner[o].fd \in DOMAIN table /\ owner[o].fd \notin Copiers
  <2>1. -1 \notin DOMAIN table
    BY <1>0, HandlesAssumption DEF HandlesTypeOK, Fds
  <2> QED BY <1>0, <2>1 DEF Usable, Owned
<1>2. /\ cp' = cp \/ cp' = [cp EXCEPT !.clean = FALSE]
      /\ cp'.clean => inode' = inode \/ \A c \in Copiers : table[c].file # Of(o).file
  BY <1>0, SpoilIs
<1>3. ASSUME NEW c \in Copiers
      PROVE  /\ c \in DOMAIN table' /\ table'[c] = table[c]
             /\ offs'[table[c].pos] = offs[table[c].pos]
             /\ cp'.clean => inode'[table[c].file] = inode[table[c].file]
             /\ \A d \in DOMAIN table' : d # c => table'[d].pos # table[c].pos
  <2>1. /\ c \in DOMAIN table /\ table[c].file \in 1..Len(inode) /\ table[c].pos \in 1..MaxFd
    BY <1>0 DEF Owned, HandlesTypeOK
  <2>2. \A d \in DOMAIN table : d # c => table[d].pos # table[c].pos
    BY <1>0 DEF Opens
  <2>3. table[c].pos # Of(o).pos
    BY <1>1, <2>2 DEF Of
  <2> QED BY <1>2, <2>1, <2>2, <2>3
<1>4. Copying' /\ Copiers' = Copiers
  BY <1>0, <1>2, <1>3, CopyStays
<1>5. HandlesTypeOK'
  <2>1. cp' \in [at : {"idle", "opened", "copy", "raised", "done"}, in : Fds \cup {-1},
             out : Fds \cup {-1}, src : Seq(Nat), base : Seq(Nat), chunk : Seq(Nat),
             clean : BOOLEAN]
    BY <1>0, <1>2 DEF HandlesTypeOK
  <2> QED BY <1>0, <2>1 DEF HandlesTypeOK
<1> QED BY <1>0, <1>4, <1>5, OwnedStays DEF HandlesInv

\* seekTo().
LEMMA SeekInv ==
  ASSUME HandlesInv, NEW o \in Owners, NEW n \in Nat, seekTo(o, n)
  PROVE  HandlesInv'
<1>1. /\ inode \in Seq(Seq(Nat)) /\ offs \in [1..MaxFd -> Nat] /\ Usable(o)
      /\ offs' = [offs EXCEPT ![Of(o).pos] = n]
      /\ UNCHANGED <<disk, inode, table, owner, loose, double, cp>>
  BY DEF HandlesInv, HandlesTypeOK, seekTo
<1>2. offs' \in [1..MaxFd -> Nat] /\ \A k \in 1..MaxFd : k # Of(o).pos => offs'[k] = offs[k]
  BY <1>1
<1> QED BY <1>1, <1>2, UserInv

\* write(), pwrite() and truncate(): the file is changed in some way.
LEMMA ChangeInv ==
  ASSUME HandlesInv, NEW o \in Owners, Usable(o), NEW s \in Seq(Nat), NEW k \in Nat,
         inode' = [inode EXCEPT ![Of(o).file] = s],
         offs' = offs \/ offs' = [offs EXCEPT ![Of(o).pos] = k], Spoil(Of(o).file),
         UNCHANGED <<disk, table, owner, loose, double>>
  PROVE  HandlesInv'
<1>1. inode \in Seq(Seq(Nat)) /\ offs \in [1..MaxFd -> Nat]
  BY DEF HandlesInv, HandlesTypeOK
<1>2. offs' \in [1..MaxFd -> Nat] /\ \A n \in 1..MaxFd : n # Of(o).pos => offs'[n] = offs[n]
  BY <1>1
<1>3. /\ inode' \in Seq(Seq(Nat)) /\ Len(inode') = Len(inode)
      /\ \A i \in 1..Len(inode) : i # Of(o).file => inode'[i] = inode[i]
  <2>1. PICK f : f = Of(o).file
    OBVIOUS
  <2>2. inode' = [inode EXCEPT ![f] = s]
    BY <2>1
  <2>3. /\ inode' \in Seq(Seq(Nat)) /\ Len(inode') = Len(inode)
        /\ \A i \in 1..Len(inode) : i # f => inode'[i] = inode[i]
    <3>1. f \in 1..Len(inode)
      BY <2>1 DEF HandlesInv, HandlesTypeOK, Usable, Of
    <3>2. /\ [inode EXCEPT ![f] = s] \in Seq(Seq(Nat)) /\ Len([inode EXCEPT ![f] = s]) = Len(inode)
          /\ \A i \in 1..Len(inode) : [inode EXCEPT ![f] = s][i] = IF i = f THEN s ELSE inode[i]
      BY <1>1, <3>1, ExceptSeq
    <3> QED BY <2>2, <3>2
  <2> QED BY <2>1, <2>3
<1> QED BY <1>2, <1>3, UserInv

\* The three of them, at any position and with any bytes.
LEMMA WriteInv ==
  ASSUME HandlesInv, NEW o \in Owners, NEW b \in Seq(Nat), NEW n \in Nat,
         write(o, b) \/ pwrite(o, n, b) \/ truncate(o, n)
  PROVE  HandlesInv'
<1>1. /\ Usable(o) /\ Spoil(Of(o).file) /\ UNCHANGED <<disk, table, owner, loose, double>>
  BY DEF write, pwrite, truncate
<1>2. /\ Of(o).file \in DOMAIN inode /\ inode[Of(o).file] \in Seq(Nat)
      /\ Of(o).pos \in 1..MaxFd /\ offs[Of(o).pos] \in Nat
  BY <1>1 DEF HandlesInv, HandlesTypeOK, Usable, Of
<1>3. offs[Of(o).pos] + Len(b) \in Nat
  BY <1>2
<1>4. CASE write(o, b)
  <2>1. PICK s \in Seq(Nat) : s = Spliced(inode[Of(o).file], offs[Of(o).pos], b)
    BY <1>2, SplicedIs
  <2>2. PICK k \in Nat : k = offs[Of(o).pos] + Len(b)
    BY <1>3
  <2>3. inode' = [inode EXCEPT ![Of(o).file] = s] /\ offs' = [offs EXCEPT ![Of(o).pos] = k]
    BY <1>4, <2>1, <2>2 DEF write
  <2> QED BY <1>1, <2>3, ChangeInv
<1>5. CASE pwrite(o, n, b)
  <2>1. PICK s \in Seq(Nat) : s = Spliced(inode[Of(o).file], n, b)
    BY <1>2, SplicedIs
  <2>2. inode' = [inode EXCEPT ![Of(o).file] = s] /\ offs' = offs
    BY <1>5, <2>1 DEF pwrite
  <2> QED BY <1>1, <2>2, ChangeInv
<1>6. CASE truncate(o, n)
  <2>1. PICK s \in Seq(Nat) : s = SubSeq(Spliced(inode[Of(o).file], n, <<>>), 1, n)
    BY <1>2, TruncatedIs
  <2>2. inode' = [inode EXCEPT ![Of(o).file] = s] /\ offs' = offs
    BY <1>6, <2>1 DEF truncate
  <2> QED BY <1>1, <2>2, ChangeInv
<1> QED BY <1>4, <1>5, <1>6

\* The descriptors the copy opens are its own.
LEMMA CopierOpens ==
  ASSUME Owned, NEW fd, fd \notin DOMAIN table, DOMAIN table' = DOMAIN table \cup {fd},
         Copiers' = Copiers \cup {fd}, UNCHANGED <<owner, loose, double>>
  PROVE  Owned'
BY DEF Owned

\* Those it closes were its own.
LEMMA CopierCloses ==
  ASSUME Owned, DOMAIN table' = DOMAIN table \ Copiers, Copiers' = {},
         UNCHANGED <<owner, loose, double>>
  PROVE  Owned'
BY DEF Owned

\* cp() and cat() open the source.
LEMMA CopyOpenInInv ==
  ASSUME HandlesInv, NEW src \in Names, copyOpenIn(src)
  PROVE  HandlesInv'
<1>0. HandlesTypeOK /\ Owned /\ Copying /\ Opens
  BY DEF HandlesInv, Copying
<1>r. PICK r : r = Opened(src, FALSE, FALSE, FALSE, FALSE)
  OBVIOUS
<1>1. /\ cp.at = "idle" /\ CanOpen /\ r.ok /\ table' = r.table /\ offs' = r.offs
      /\ cp' = [cp EXCEPT !.at = "opened", !.in = r.fd, !.src = inode[disk[src]]]
      /\ UNCHANGED <<disk, inode, owner, loose, double>>
  BY <1>r DEF copyOpenIn
<1>2. OpensAs(r, src, FALSE, FALSE)
  BY <1>0, <1>1, <1>r, OpenedIs
<1>3. disk[src] # 0 /\ disk[src] \in 1..Len(inode) /\ inode[disk[src]] \in Seq(Nat)
  <2>1. disk[src] # 0
    BY <1>1, <1>r DEF Opened, Empty
  <2> QED BY <1>0, <2>1 DEF HandlesTypeOK
<1>4. /\ r.fd \in Fds \ DOMAIN table /\ FreePos \in (1..MaxFd) \ Used(table)
      /\ table' = [d \in DOMAIN table \cup {r.fd} |->
                     IF d = r.fd THEN [file |-> disk[src], pos |-> FreePos] ELSE table[d]]
      /\ offs' = [offs EXCEPT ![FreePos] = 0]
  BY <1>1, <1>2, <1>3 DEF OpensAs
<1>5. /\ DOMAIN table' = DOMAIN table \cup {r.fd} /\ table'[r.fd] = [file |-> disk[src], pos |-> FreePos]
      /\ \A d \in DOMAIN table : table'[d] = table[d] /\ table[d].pos # FreePos
  BY <1>4 DEF Used
<1>6. /\ cp'.at = "opened" /\ cp'.in = r.fd /\ cp'.src = inode[disk[src]]
      /\ cp.in = -1 /\ cp.out = -1 /\ cp.chunk = <<>> /\ cp'.out = -1 /\ cp'.chunk = <<>> /\ r.fd # -1
  BY <1>0, <1>1, <1>4, HandlesAssumption DEF HandlesTypeOK, Opens, Fds
<1>7. Copiers = {} /\ Copiers' = {r.fd}
  BY <1>6 DEF Copiers
<1>8. Owned'
  BY <1>0, <1>1, <1>4, <1>5, <1>7, CopierOpens
<1>9. HandlesTypeOK'
  <2>1. cp' \in [at : {"idle", "opened", "copy", "raised", "done"}, in : Fds \cup {-1},
             out : Fds \cup {-1}, src : Seq(Nat), base : Seq(Nat), chunk : Seq(Nat),
             clean : BOOLEAN]
    BY <1>0, <1>1, <1>3, <1>4 DEF HandlesTypeOK
  <2>2. \A d \in DOMAIN table' : table'[d].file \in 1..Len(inode) /\ table'[d].pos \in 1..MaxFd
    BY <1>0, <1>3, <1>4, <1>5 DEF HandlesTypeOK
  <2>3. offs' \in [1..MaxFd -> Nat]
    BY <1>0, <1>4 DEF HandlesTypeOK
  <2> QED BY <1>0, <1>1, <1>4, <1>5, <2>1, <2>2, <2>3 DEF HandlesTypeOK
<1>10. Opens'
  BY <1>5, <1>6, <1>7 DEF Opens
<1>11. Progress'
  <2>1. inode'[table'[cp'.in].file] = cp'.src
    BY <1>1, <1>5, <1>6
  <2>2. offs'[table'[cp'.in].pos] = 0
    BY <1>0, <1>4, <1>5, <1>6 DEF HandlesTypeOK
  <2> QED BY <1>6, <2>1, <2>2 DEF Progress
<1> QED BY <1>8, <1>9, <1>10, <1>11 DEF HandlesInv, Copying

\* When the target cannot be opened the source is closed.
LEMMA CopyRaisedInv ==
  ASSUME HandlesInv, cp.at = "opened", Close({cp.in}), cp' = [cp EXCEPT !.at = "raised", !.in = -1],
         UNCHANGED <<disk, inode, owner, loose, double>>
  PROVE  HandlesInv'
<1>0. HandlesTypeOK /\ Owned /\ Copying /\ Opens
  BY DEF HandlesInv, Copying
<1>1. Copiers = {cp.in} /\ {cp.in} \in SUBSET DOMAIN table /\ cp.out = -1
  BY <1>0 DEF Copiers, Opens, Owned
<1>2. /\ DOMAIN table' = DOMAIN table \ {cp.in} /\ \A d \in DOMAIN table' : table'[d] = table[d]
      /\ offs' \in [1..MaxFd -> Nat]
  BY <1>1, CloseIs
<1>3. cp'.at = "raised" /\ cp'.in = -1 /\ cp'.out = -1
  BY <1>0, <1>1 DEF HandlesTypeOK
<1>4. Copiers' = {}
  BY <1>3 DEF Copiers
<1>5. Owned'
  BY <1>0, <1>1, <1>2, <1>4, CopierCloses
<1>6. HandlesTypeOK'
  BY <1>0, <1>2 DEF HandlesTypeOK
<1>7. Copying'
  BY <1>3, <1>4 DEF Copying, Opens, Progress
<1> QED BY <1>5, <1>6, <1>7 DEF HandlesInv

\* cp() creates the target and cat() goes to the end of it.
LEMMA CopyOpenOutInv ==
  ASSUME HandlesInv, NEW dst \in Names, NEW cat \in BOOLEAN, copyOpenOut(dst, cat)
  PROVE  HandlesInv'
<1>0. HandlesTypeOK /\ Owned /\ Copying /\ Opens
  BY DEF HandlesInv, Copying
<1>r. PICK r : r = Opened(dst, ~cat, ~cat, FALSE, cat)
  OBVIOUS
<1>1. /\ cp.at = "opened" /\ CanOpen /\ disk[dst] # table[cp.in].file
      /\ UNCHANGED <<owner, loose, double>>
      /\ IF r.ok
         THEN /\ inode' = r.inode /\ table' = r.table /\ offs' = r.offs /\ disk' = r.disk
              /\ cp' = [cp EXCEPT !.at = "copy", !.out = r.fd, !.base = r.inode[r.disk[dst]]]
         ELSE /\ Close({cp.in}) /\ cp' = [cp EXCEPT !.at = "raised", !.in = -1]
              /\ UNCHANGED <<disk, inode>>
  BY <1>r DEF copyOpenOut
<1>2. CASE ~r.ok
  BY <1>1, <1>2, CopyRaisedInv
<1>3. CASE r.ok
  <2>1. OpensAs(r, dst, FALSE, cat)
    BY <1>0, <1>1, <1>r, OpenedIs
  <2>2. cat <=> disk[dst] # 0
    <3>1. r.ok <=> ((disk[dst] # 0 /\ ~(~cat /\ ~cat)) \/ (~(disk[dst] # 0) /\ ~cat))
      BY <1>r DEF Opened, Empty
    <3> QED BY <1>3, <3>1
  <2> DEFINE new == r.disk[dst]
  <2>3. /\ r.fd \in Fds \ DOMAIN table /\ FreePos \in (1..MaxFd) \ Used(table)
        /\ inode' \in Seq(Seq(Nat)) /\ Len(inode) <= Len(inode')
        /\ disk' \in [Names -> 0..Len(inode')] /\ new \in 1..Len(inode')
        /\ table' = [d \in DOMAIN table \cup {r.fd} |->
                       IF d = r.fd THEN [file |-> new, pos |-> FreePos] ELSE table[d]]
        /\ offs' = [offs EXCEPT ![FreePos] = IF cat THEN Len(inode'[new]) ELSE 0]
        /\ \A i \in 1..Len(inode) : inode'[i] = inode[i]
    BY <1>1, <1>3, <2>1 DEF OpensAs
  <2>4. /\ disk[dst] # 0 => new = disk[dst]
        /\ disk[dst] = 0 => new = Len(inode) + 1 /\ inode'[new] = <<>>
    BY <1>1, <1>3, <2>1 DEF OpensAs
  <2>5. cp' = [cp EXCEPT !.at = "copy", !.out = r.fd, !.base = inode'[new]] /\ inode'[new] \in Seq(Nat)
    <3>1. inode'[new] \in Seq(Nat)
      <4> HIDE DEF new
      <4> QED BY <2>3
    <3>2. r.inode[r.disk[dst]] = inode'[new]
      BY <1>1, <1>3
    <3>3. cp' = [cp EXCEPT !.at = "copy", !.out = r.fd, !.base = r.inode[r.disk[dst]]]
      BY <1>1, <1>3
    <3> QED BY <3>1, <3>2, <3>3
  <2> HIDE DEF new
  <2>6. /\ DOMAIN table' = DOMAIN table \cup {r.fd} /\ table'[r.fd] = [file |-> new, pos |-> FreePos]
        /\ \A d \in DOMAIN table : table'[d] = table[d] /\ table[d].pos # FreePos
    BY <2>3 DEF Used
  <2>7. cp.in # -1 /\ cp.out = -1 /\ cp.in \in DOMAIN table /\ cp.chunk = <<>>
    BY <1>0, <1>1 DEF Opens, Owned, Copiers
  <2>8. /\ cp'.at = "copy" /\ cp'.out = r.fd /\ cp'.base = inode'[new] /\ cp'.in = cp.in
        /\ cp'.chunk = <<>> /\ cp'.src = cp.src /\ cp'.clean = cp.clean /\ r.fd # -1
    <3>1. r.fd # -1
      BY <2>3, HandlesAssumption DEF Fds
    <3>2. PICK b : b = inode'[new]
      OBVIOUS
    <3>3. cp' = [cp EXCEPT !.at = "copy", !.out = r.fd, !.base = b]
      BY <2>5, <3>2
    <3>4. /\ cp'.at = "copy" /\ cp'.out = r.fd /\ cp'.base = b /\ cp'.in = cp.in
          /\ cp'.chunk = cp.chunk /\ cp'.src = cp.src /\ cp'.clean = cp.clean
      BY <1>0, <3>3 DEF HandlesTypeOK
    <3> QED BY <2>7, <3>1, <3>2, <3>4
  <2>9. Copiers = {cp.in} /\ Copiers' = {cp.in} \cup {r.fd}
    BY <2>7, <2>8 DEF Copiers
  <2>10. Owned'
    BY <1>0, <1>1, <2>3, <2>6, <2>9, CopierOpens
  <2>11. HandlesTypeOK'
    <3>1. cp' \in [at : {"idle", "opened", "copy", "raised", "done"}, in : Fds \cup {-1},
               out : Fds \cup {-1}, src : Seq(Nat), base : Seq(Nat), chunk : Seq(Nat),
               clean : BOOLEAN]
      BY <1>0, <2>3, <2>5 DEF HandlesTypeOK
    <3>2. \A d \in DOMAIN table' : table'[d].file \in 1..Len(inode') /\ table'[d].pos \in 1..MaxFd
      <4>1. \A d \in DOMAIN table : table[d].file \in 1..Len(inode') /\ table[d].pos \in 1..MaxFd
        BY <1>0, <2>3 DEF HandlesTypeOK
      <4> QED BY <2>3, <2>6, <4>1
    <3>3. offs' \in [1..MaxFd -> Nat]
      <4>1. (IF cat THEN Len(inode'[new]) ELSE 0) \in Nat
        BY <2>5
      <4> QED BY <1>0, <2>3, <4>1 DEF HandlesTypeOK
    <3> QED BY <1>0, <1>1, <2>3, <2>6, <3>1, <3>2, <3>3 DEF HandlesTypeOK
  <2>12. table[cp.in].file \in 1..Len(inode) /\ table[cp.in].file # new
    BY <1>0, <1>1, <2>4, <2>7 DEF HandlesTypeOK
  <2>13. Opens'
    <3>1. \A c \in Copiers', d \in DOMAIN table' : d # c => table'[d].pos # table'[c].pos
      BY <1>0, <2>6, <2>7, <2>9 DEF Opens
    <3> QED BY <2>6, <2>7, <2>8, <2>12, <3>1, <2>3 DEF Opens
  <2>14. ASSUME cp'.clean PROVE Progress'
    <3>1. inode[table[cp.in].file] = cp.src /\ offs[table[cp.in].pos] = 0
      BY <1>0, <1>1, <2>8, <2>14 DEF Copying, Progress
    <3>2. inode'[table'[cp'.in].file] = cp'.src
      BY <2>3, <2>6, <2>7, <2>8, <2>12, <3>1
    <3>3. offs'[table'[cp'.in].pos] = 0
      BY <1>0, <2>3, <2>6, <2>7, <2>8, <3>1 DEF HandlesTypeOK
    <3>4. /\ inode'[table'[cp'.out].file] = cp'.base
          /\ offs'[table'[cp'.out].pos] = Len(cp'.base)
      <4>1. offs'[FreePos] = IF cat THEN Len(inode'[new]) ELSE 0
        BY <1>0, <2>3 DEF HandlesTypeOK
      <4>2. ~cat => Len(inode'[new]) = 0
        BY <2>2, <2>4
      <4> QED BY <2>6, <2>8, <4>1, <4>2
    <3>5. /\ cp'.src \in Seq(Nat) /\ cp'.base \in Seq(Nat) /\ Len(cp'.chunk) = 0
          /\ cp'.chunk = <<>>
      BY <2>8, <2>11 DEF HandlesTypeOK
    <3>6. /\ SubSeq(cp'.src, 0 + 1, 0) = <<>> /\ SubSeq(cp'.src, 1, 0) = <<>>
          /\ cp'.base \o <<>> = cp'.base /\ 0 <= Len(cp'.src) /\ Len(cp'.base) + 0 = Len(cp'.base)
      BY <3>5
    <3> QED BY <2>8, <3>2, <3>3, <3>4, <3>5, <3>6 DEF Progress
  <2> QED BY <2>10, <2>11, <2>13, <2>14 DEF HandlesInv, Copying
<1> QED BY <1>2, <1>3

\* A read(2) stops at the end of the file or of the buffer, and reads nothing only there.
LEMMA ChunkIs ==
  ASSUME NEW s \in Seq(Nat), NEW at \in Nat, NEW n \in Nat \ {0}
  PROVE  \E c \in Seq(Nat) :
           /\ c = SubSeq(s, at + 1, Least(at + n, Len(s)))
           /\ at <= Len(s) =>
                /\ c = <<>> => at = Len(s)
                /\ at + Len(c) <= Len(s) /\ c = SubSeq(s, at + 1, at + Len(c))
<1>1. PICK m \in Nat : m = Least(at + n, Len(s)) /\ m <= Len(s) /\ (m = Len(s) \/ m >= at + 1)
  BY DEF Least
<1>2. /\ SubSeq(s, at + 1, m) \in Seq(Nat)
      /\ at <= Len(s) => at <= m /\ at + Len(SubSeq(s, at + 1, m)) = m
  BY <1>1
<1>3. PICK c \in Seq(Nat) : c = SubSeq(s, at + 1, m)
  BY <1>2
<1>4. at <= Len(s) => at <= m /\ at + Len(c) = m
  BY <1>2, <1>3
<1>5. c = SubSeq(s, at + 1, Least(at + n, Len(s)))
  BY <1>1, <1>3
<1>6. ASSUME at <= Len(s), c = <<>> PROVE at = Len(s)
  <2>1. Len(c) = 0
    BY <1>6
  <2>2. at = m
    BY <1>4, <1>6, <2>1
  <2> QED BY <1>1, <2>2
<1>7. ASSUME at <= Len(s) PROVE at + Len(c) <= Len(s) /\ c = SubSeq(s, at + 1, at + Len(c))
  <2>1. at + Len(c) = m
    BY <1>4, <1>7
  <2> QED BY <1>1, <1>3, <2>1
<1> QED BY <1>5, <1>6, <1>7

\* A piece of a sequence.
LEMMA PieceIs ==
  ASSUME NEW s \in Seq(Nat), NEW d \in Nat, NEW e \in Nat, d <= e, e <= Len(s)
  PROVE  \E b \in Seq(Nat) : /\ b = SubSeq(s, d + 1, e) /\ Len(b) = e - d
                             /\ \A i \in 1..(e - d) : b[i] = s[d + i]
<1>1. SubSeq(s, d + 1, e) \in Seq(Nat) /\ Len(SubSeq(s, d + 1, e)) = e - d
  OBVIOUS
<1>2. \A i \in 1..(e - d) : SubSeq(s, d + 1, e)[i] = s[d + i]
  OBVIOUS
<1> QED BY <1>1, <1>2

\* Two consecutive pieces of a sequence.
LEMMA Pieces ==
  ASSUME NEW s \in Seq(Nat), NEW d \in Nat, NEW e \in Nat, d <= e, e <= Len(s)
  PROVE  SubSeq(s, 1, d) \o SubSeq(s, d + 1, e) = SubSeq(s, 1, e)
<1>1. PICK a \in Seq(Nat) : /\ a = SubSeq(s, 0 + 1, d) /\ Len(a) = d - 0
                            /\ \A i \in 1..(d - 0) : a[i] = s[0 + i]
  <2>1. 0 \in Nat /\ 0 <= d /\ d <= Len(s)
    OBVIOUS
  <2> QED BY <2>1, PieceIs
<1>2. PICK b \in Seq(Nat) : /\ b = SubSeq(s, d + 1, e) /\ Len(b) = e - d
                            /\ \A i \in 1..(e - d) : b[i] = s[d + i]
  BY PieceIs
<1>3. PICK u \in Seq(Nat) : /\ u = SubSeq(s, 0 + 1, e) /\ Len(u) = e - 0
                            /\ \A i \in 1..(e - 0) : u[i] = s[0 + i]
  <2>1. 0 \in Nat /\ 0 <= e
    OBVIOUS
  <2> QED BY <2>1, PieceIs
<1>4. PICK t \in Seq(Nat) :
        /\ t = a \o b /\ Len(t) = Len(a) + Len(b)
        /\ \A i \in 1..(Len(a) + Len(b)) : t[i] = IF i <= Len(a) THEN a[i] ELSE b[i - Len(a)]
  BY ConcatIs
<1>5. /\ Len(a) = d /\ \A i \in 1..d : a[i] = s[i]
      /\ Len(b) = e - d /\ Len(u) = e /\ \A i \in 1..e : u[i] = s[i]
  <2>1. Len(a) = d /\ \A i \in 1..d : a[i] = s[i]
    <3>1. d - 0 = d /\ \A i \in 1..d : 0 + i = i
      OBVIOUS
    <3> QED BY <1>1, <3>1
  <2>2. Len(b) = e - d
    BY <1>2
  <2>3. Len(u) = e /\ \A i \in 1..e : u[i] = s[i]
    <3>1. e - 0 = e /\ \A i \in 1..e : 0 + i = i
      OBVIOUS
    <3> QED BY <1>3, <3>1
  <2> QED BY <2>1, <2>2, <2>3
<1>6. Len(t) = d + (e - d)
  <2>1. Len(t) = Len(a) + Len(b)
    BY <1>4
  <2> QED BY <1>5, <2>1
<1>7. \A i \in 1..e : t[i] = IF i <= d THEN a[i] ELSE b[i - d]
  <2>1. \A i \in 1..(Len(a) + Len(b)) : t[i] = IF i <= Len(a) THEN a[i] ELSE b[i - Len(a)]
    BY <1>4
  <2>2. Len(a) + Len(b) = e
    BY <1>5
  <2> QED BY <1>5, <2>1, <2>2
<1>8. ASSUME NEW i \in 1..e PROVE t[i] = u[i]
  <2>1. CASE i <= d
    <3>1. i \in 1..d
      BY <2>1
    <3> QED BY <1>5, <1>7, <2>1, <3>1
  <2>2. CASE ~(i <= d)
    <3>1. i - d \in 1..(e - d) /\ d + (i - d) = i
      BY <2>2
    <3>2. b[i - d] = s[i]
      BY <1>2, <3>1
    <3> QED BY <1>5, <1>7, <2>2, <3>2
  <2> QED BY <2>1, <2>2
<1>9. t = u
  <2>1. Len(t) = Len(u) /\ \A i \in 1..Len(t) : t[i] = u[i]
    BY <1>5, <1>6, <1>8
  <2> QED BY <2>1, SeqEqual
<1>10. 0 + 1 = 1
  OBVIOUS
<1> QED BY <1>1, <1>2, <1>3, <1>4, <1>9, <1>10

\* Concatenation is associative.
LEMMA Reassociated ==
  ASSUME NEW r \in Seq(Nat), NEW s \in Seq(Nat), NEW t \in Seq(Nat)
  PROVE  (r \o s) \o t = r \o (s \o t)
<1>1. PICK u \in Seq(Nat) :
        /\ u = r \o s /\ Len(u) = Len(r) + Len(s)
        /\ \A i \in 1..(Len(r) + Len(s)) : u[i] = IF i <= Len(r) THEN r[i] ELSE s[i - Len(r)]
  BY ConcatIs
<1>2. PICK v \in Seq(Nat) :
        /\ v = s \o t /\ Len(v) = Len(s) + Len(t)
        /\ \A i \in 1..(Len(s) + Len(t)) : v[i] = IF i <= Len(s) THEN s[i] ELSE t[i - Len(s)]
  BY ConcatIs
<1>3. PICK x \in Seq(Nat) :
        /\ x = u \o t /\ Len(x) = Len(u) + Len(t)
        /\ \A i \in 1..(Len(u) + Len(t)) : x[i] = IF i <= Len(u) THEN u[i] ELSE t[i - Len(u)]
  BY ConcatIs
<1>4. PICK y \in Seq(Nat) :
        /\ y = r \o v /\ Len(y) = Len(r) + Len(v)
        /\ \A i \in 1..(Len(r) + Len(v)) : y[i] = IF i <= Len(r) THEN r[i] ELSE v[i - Len(r)]
  BY ConcatIs
<1>5. PICK k \in Nat, m \in Nat, n \in Nat : k = Len(r) /\ m = Len(s) /\ n = Len(t)
  OBVIOUS
<1>6. /\ Len(u) = k + m /\ Len(v) = m + n
      /\ \A i \in 1..(k + m) : u[i] = IF i <= k THEN r[i] ELSE s[i - k]
      /\ \A i \in 1..(m + n) : v[i] = IF i <= m THEN s[i] ELSE t[i - m]
  BY <1>1, <1>2, <1>5
<1>7. /\ Len(x) = (k + m) + n /\ Len(y) = k + (m + n)
      /\ \A i \in 1..((k + m) + n) : x[i] = IF i <= k + m THEN u[i] ELSE t[i - (k + m)]
      /\ \A i \in 1..(k + (m + n)) : y[i] = IF i <= k THEN r[i] ELSE v[i - k]
  BY <1>3, <1>4, <1>5, <1>6
<1>8. ASSUME NEW i \in 1..((k + m) + n) PROVE x[i] = y[i]
  <2>1. i \in 1..(k + (m + n))
    OBVIOUS
  <2>2. CASE i <= k
    <3>1. i \in 1..(k + m) /\ i <= k + m
      BY <2>2
    <3> QED BY <1>6, <1>7, <2>1, <2>2, <3>1
  <2>3. CASE ~(i <= k) /\ i <= k + m
    <3>1. i \in 1..(k + m) /\ i - k \in 1..(m + n) /\ i - k <= m
      BY <2>3
    <3>2. x[i] = u[i] /\ u[i] = s[i - k]
      BY <1>6, <1>7, <2>3, <3>1
    <3>3. y[i] = v[i - k] /\ v[i - k] = s[i - k]
      BY <1>6, <1>7, <2>1, <2>3, <3>1
    <3> QED BY <3>2, <3>3
  <2>4. CASE ~(i <= k + m)
    <3>1. ~(i <= k) /\ i - k \in 1..(m + n) /\ ~(i - k <= m) /\ (i - k) - m = i - (k + m)
      BY <2>4
    <3>2. x[i] = t[i - (k + m)]
      BY <1>7, <2>4
    <3>3. y[i] = v[i - k] /\ v[i - k] = t[(i - k) - m]
      BY <1>6, <1>7, <2>1, <3>1
    <3> QED BY <3>1, <3>2, <3>3
  <2> QED BY <2>2, <2>3, <2>4
<1>9. x = y
  <2>1. (k + m) + n = k + (m + n)
    OBVIOUS
  <2>2. Len(x) = Len(y) /\ \A i \in 1..Len(x) : x[i] = y[i]
    BY <1>7, <1>8, <2>1
  <2> QED BY <2>2, SeqEqual
<1> QED BY <1>1, <1>2, <1>3, <1>4, <1>9

\* Appending the next piece to what was written.
LEMMA Appended ==
  ASSUME NEW s \in Seq(Nat), NEW base \in Seq(Nat), NEW d \in Nat, NEW e \in Nat, d <= e, e <= Len(s)
  PROVE  /\ Len(base \o SubSeq(s, 1, d)) = Len(base) + d
         /\ (base \o SubSeq(s, 1, d)) \o SubSeq(s, d + 1, e) = base \o SubSeq(s, 1, e)
<1>1. PICK a \in Seq(Nat) : a = SubSeq(s, 1, d) /\ Len(a) = d
  <2>1. SubSeq(s, 1, d) \in Seq(Nat) /\ Len(SubSeq(s, 1, d)) = d
    OBVIOUS
  <2> QED BY <2>1
<1>2. PICK c \in Seq(Nat) : c = SubSeq(s, d + 1, e)
  BY PieceIs
<1>3. a \o c = SubSeq(s, 1, e)
  BY <1>1, <1>2, Pieces
<1>4. (base \o a) \o c = base \o (a \o c)
  BY Reassociated
<1>5. Len(base \o a) = Len(base) + Len(a)
  OBVIOUS
<1> QED BY <1>1, <1>2, <1>3, <1>4, <1>5

\* A read(2) of the copy, the last one included.
LEMMA CopyReadInv ==
  ASSUME HandlesInv, copyRead
  PROVE  HandlesInv'
<1>0. HandlesTypeOK /\ Owned /\ Copying /\ Opens
  BY DEF HandlesInv, Copying
<1>1. /\ cp.at = "copy" /\ cp.chunk = <<>> /\ UNCHANGED <<disk, inode, owner, loose, double>>
  BY DEF copyRead
<1>2. /\ cp.in # -1 /\ cp.out # -1 /\ cp.in # cp.out /\ Copiers = {cp.in, cp.out}
      /\ cp.in \in DOMAIN table /\ cp.out \in DOMAIN table
  BY <1>0, <1>1 DEF Opens, Owned, Copiers
<1>3. PICK s \in Seq(Nat) : s = inode[table[cp.in].file]
  BY <1>0, <1>2 DEF HandlesTypeOK
<1>4. PICK at \in Nat : at = offs[table[cp.in].pos]
  BY <1>0, <1>2 DEF HandlesTypeOK
<1>5. PICK n \in 1..BufSize :
        LET c == SubSeq(s, at + 1, Least(at + n, Len(s)))
        IN IF c = <<>> THEN /\ Close({cp.in, cp.out})
                            /\ cp' = [cp EXCEPT !.at = "done", !.chunk = inode[table[cp.out].file],
                                                !.in = -1, !.out = -1]
           ELSE /\ offs' = [offs EXCEPT ![table[cp.in].pos] = at + Len(c)]
                /\ cp' = [cp EXCEPT !.chunk = c]
                /\ UNCHANGED table
  BY <1>3, <1>4 DEF copyRead, Chunk
<1>6. PICK c \in Seq(Nat) :
           /\ c = SubSeq(s, at + 1, Least(at + n, Len(s)))
           /\ at <= Len(s) =>
                /\ c = <<>> => at = Len(s)
                /\ at + Len(c) <= Len(s) /\ c = SubSeq(s, at + 1, at + Len(c))
  <2>1. n \in Nat \ {0}
    BY HandlesAssumption
  <2> QED BY <2>1, ChunkIs
<1>7. cp.clean => Progress
  BY <1>0 DEF Copying
<1>8. Len(cp.chunk) = 0 /\ at - 0 = at
  BY <1>1
<1>9. ASSUME cp.clean
      PROVE  /\ s = cp.src /\ at <= Len(s) /\ cp.src \in Seq(Nat) /\ cp.base \in Seq(Nat)
             /\ inode[table[cp.out].file] = cp.base \o SubSeq(s, 1, at)
             /\ offs[table[cp.out].pos] = Len(cp.base) + at
  BY <1>0, <1>1, <1>3, <1>4, <1>7, <1>8, <1>9 DEF Progress, HandlesTypeOK
<1>10. CASE c = <<>>
  <2>1. PICK b \in Seq(Nat) : b = inode[table[cp.out].file]
    BY <1>0, <1>2 DEF HandlesTypeOK
  <2>2. /\ Close({cp.in, cp.out})
        /\ cp' = [cp EXCEPT !.at = "done", !.chunk = b, !.in = -1, !.out = -1]
    BY <1>5, <1>6, <1>10, <2>1
  <2>3. /\ DOMAIN table' = DOMAIN table \ {cp.in, cp.out} /\ \A d \in DOMAIN table' : table'[d] = table[d]
        /\ offs' \in [1..MaxFd -> Nat]
    <3>1. {cp.in, cp.out} \in SUBSET DOMAIN table
      BY <1>2
    <3> QED BY <2>2, <3>1, CloseIs
  <2>4. /\ cp'.at = "done" /\ cp'.in = -1 /\ cp'.out = -1 /\ cp'.chunk = b
        /\ cp'.src = cp.src /\ cp'.base = cp.base /\ cp'.clean = cp.clean
    BY <1>0, <2>2 DEF HandlesTypeOK
  <2>5. Copiers' = {}
    BY <2>4 DEF Copiers
  <2>6. Owned'
    BY <1>0, <1>1, <1>2, <2>3, <2>5, CopierCloses
  <2>7. HandlesTypeOK'
    <3>1. cp' \in [at : {"idle", "opened", "copy", "raised", "done"}, in : Fds \cup {-1},
               out : Fds \cup {-1}, src : Seq(Nat), base : Seq(Nat), chunk : Seq(Nat),
               clean : BOOLEAN]
      BY <1>0, <2>2 DEF HandlesTypeOK
    <3> QED BY <1>0, <1>1, <2>3, <3>1 DEF HandlesTypeOK
  <2>8. ASSUME cp.clean PROVE b = cp.base \o cp.src
    <3>1. at = Len(s)
      BY <1>6, <1>9, <1>10, <2>8
    <3>2. SubSeq(s, 1, Len(s)) = s
      OBVIOUS
    <3> QED BY <1>9, <2>1, <2>8, <3>1, <3>2
  <2>9. Copying'
    BY <2>4, <2>5, <2>8 DEF Copying, Opens, Progress
  <2> QED BY <2>6, <2>7, <2>9 DEF HandlesInv
<1>11. CASE c # <<>>
  <2>1. /\ offs' = [offs EXCEPT ![table[cp.in].pos] = at + Len(c)]
        /\ cp' = [cp EXCEPT !.chunk = c] /\ UNCHANGED table
    BY <1>5, <1>6, <1>11
  <2>2. /\ cp'.at = cp.at /\ cp'.in = cp.in /\ cp'.out = cp.out /\ cp'.chunk = c
        /\ cp'.src = cp.src /\ cp'.base = cp.base /\ cp'.clean = cp.clean
    BY <1>0, <2>1 DEF HandlesTypeOK
  <2>3. Copiers' = Copiers
    BY <2>2 DEF Copiers
  <2>4. Owned'
    BY <1>0, <1>1, <2>1, <2>3, OwnedStays
  <2>5. at + Len(c) \in Nat
    OBVIOUS
  <2>6. HandlesTypeOK'
    <3>1. cp' \in [at : {"idle", "opened", "copy", "raised", "done"}, in : Fds \cup {-1},
               out : Fds \cup {-1}, src : Seq(Nat), base : Seq(Nat), chunk : Seq(Nat),
               clean : BOOLEAN]
      BY <1>0, <2>1 DEF HandlesTypeOK
    <3>2. offs' \in [1..MaxFd -> Nat]
      BY <1>0, <2>1, <2>5 DEF HandlesTypeOK
    <3> QED BY <1>0, <1>1, <2>1, <3>1, <3>2 DEF HandlesTypeOK
  <2>7. Opens'
    BY <1>0, <1>1, <1>2, <2>1, <2>2, <2>3 DEF Opens
  <2>8. ASSUME cp.clean PROVE Progress'
    <3>1. table[cp.out].pos # table[cp.in].pos
      BY <1>0, <1>2 DEF Opens
    <3>2. /\ offs'[table'[cp'.in].pos] = at + Len(c)
          /\ offs'[table'[cp'.out].pos] = offs[table[cp.out].pos]
      BY <1>0, <1>2, <2>1, <2>2, <3>1 DEF HandlesTypeOK
    <3>3. /\ inode'[table'[cp'.in].file] = s
          /\ inode'[table'[cp'.out].file] = inode[table[cp.out].file]
      BY <1>1, <1>3, <2>1, <2>2
    <3>4. (at + Len(c)) - Len(c) = at
      OBVIOUS
    <3>5. at + Len(c) <= Len(s) /\ c = SubSeq(s, at + 1, at + Len(c))
      BY <1>6, <1>9, <2>8
    <3>6. /\ cp'.at = "copy" /\ cp'.chunk = c /\ cp'.src = s /\ cp'.base = cp.base
          /\ inode[table[cp.out].file] = cp.base \o SubSeq(s, 1, at)
          /\ offs[table[cp.out].pos] = Len(cp.base) + at
      BY <1>1, <1>9, <2>2, <2>8
    <3> QED BY <3>2, <3>3, <3>4, <3>5, <3>6 DEF Progress
  <2> QED BY <2>2, <2>4, <2>6, <2>7, <2>8 DEF HandlesInv, Copying
<1> QED BY <1>10, <1>11

\* A write(2) of the copy: what was read, at the end of what was written.
LEMMA CopyWriteInv ==
  ASSUME HandlesInv, copyWrite
  PROVE  HandlesInv'
<1>0. HandlesTypeOK /\ Owned /\ Copying /\ Opens
  BY DEF HandlesInv, Copying
<1>1. cp.at = "copy" /\ UNCHANGED <<disk, table, owner, loose, double>>
  BY DEF copyWrite
<1>2. /\ cp.in # -1 /\ cp.out # -1 /\ cp.in # cp.out /\ Copiers = {cp.in, cp.out}
      /\ cp.in \in DOMAIN table /\ cp.out \in DOMAIN table
      /\ table[cp.in].file # table[cp.out].file
  BY <1>0, <1>1 DEF Opens, Owned, Copiers
<1>3. PICK f \in 1..Len(inode) : f = table[cp.out].file
  BY <1>0, <1>2 DEF HandlesTypeOK
<1>4. PICK p \in 1..MaxFd : p = table[cp.out].pos
  BY <1>0, <1>2 DEF HandlesTypeOK
<1>5. PICK b \in Seq(Nat) : b = inode[f]
  BY <1>0 DEF HandlesTypeOK
<1>6. PICK k \in Nat : k = offs[p]
  BY <1>0 DEF HandlesTypeOK
<1>7. PICK c \in Seq(Nat) : c = cp.chunk
  BY <1>0 DEF HandlesTypeOK
<1>8. PICK w \in Seq(Nat) : w = Spliced(b, k, c)
  BY SplicedIs
<1>9. inode' = [inode EXCEPT ![f] = w] /\ offs' = [offs EXCEPT ![p] = k + Len(c)]
      /\ cp' = [cp EXCEPT !.chunk = <<>>]
  BY <1>3, <1>4, <1>5, <1>6, <1>7, <1>8 DEF copyWrite
<1>10. /\ inode' \in Seq(Seq(Nat)) /\ Len(inode') = Len(inode)
       /\ \A i \in 1..Len(inode) : inode'[i] = IF i = f THEN w ELSE inode[i]
  <2>1. inode \in Seq(Seq(Nat))
    BY <1>0 DEF HandlesTypeOK
  <2>2. /\ [inode EXCEPT ![f] = w] \in Seq(Seq(Nat)) /\ Len([inode EXCEPT ![f] = w]) = Len(inode)
        /\ \A i \in 1..Len(inode) : [inode EXCEPT ![f] = w][i] = IF i = f THEN w ELSE inode[i]
    BY <2>1, ExceptSeq
  <2> QED BY <1>9, <2>2
<1>11. /\ cp'.at = cp.at /\ cp'.in = cp.in /\ cp'.out = cp.out /\ cp'.chunk = <<>>
       /\ cp'.src = cp.src /\ cp'.base = cp.base /\ cp'.clean = cp.clean
  BY <1>0, <1>9 DEF HandlesTypeOK
<1>12. Copiers' = Copiers
  BY <1>11 DEF Copiers
<1>13. Owned'
  BY <1>0, <1>1, <1>12, OwnedStays
<1>14. HandlesTypeOK'
  <2>1. cp' \in [at : {"idle", "opened", "copy", "raised", "done"}, in : Fds \cup {-1},
             out : Fds \cup {-1}, src : Seq(Nat), base : Seq(Nat), chunk : Seq(Nat),
             clean : BOOLEAN]
    <3>1. <<>> \in Seq(Nat)
      OBVIOUS
    <3> QED BY <1>0, <1>9, <3>1 DEF HandlesTypeOK
  <2>2. offs' \in [1..MaxFd -> Nat]
    <3>1. k + Len(c) \in Nat
      OBVIOUS
    <3> QED BY <1>0, <1>9, <3>1 DEF HandlesTypeOK
  <2> QED BY <1>0, <1>1, <1>10, <2>1, <2>2 DEF HandlesTypeOK
<1>15. Opens'
  BY <1>0, <1>1, <1>2, <1>11, <1>12 DEF Opens
<1>16. ASSUME cp.clean PROVE Progress'
  <2>1. PICK s \in Seq(Nat) : s = cp.src
    BY <1>0 DEF HandlesTypeOK
  <2>2. PICK base \in Seq(Nat) : base = cp.base
    BY <1>0 DEF HandlesTypeOK
  <2>3. PICK at \in Nat : at = offs[table[cp.in].pos]
    BY <1>0, <1>2 DEF HandlesTypeOK
  <2>4. /\ inode[table[cp.in].file] = s /\ at <= Len(s) /\ at - Len(c) \in Nat
        /\ c = SubSeq(s, (at - Len(c)) + 1, at) /\ b = base \o SubSeq(s, 1, at - Len(c))
        /\ k = Len(base) + (at - Len(c))
    BY <1>0, <1>1, <1>3, <1>4, <1>5, <1>6, <1>7, <1>16, <2>1, <2>2, <2>3 DEF Copying, Progress
  <2>5. PICK done \in Nat : done = at - Len(c)
    BY <2>4
  <2>6. done <= at /\ done + Len(c) = at /\ at <= Len(s) /\ done <= Len(s)
    <3>1. at <= Len(s)
      BY <2>4
    <3>2. done <= at /\ done + Len(c) = at
      BY <2>5
    <3> QED BY <3>1, <3>2
  <2>7. /\ c = SubSeq(s, done + 1, at) /\ b = base \o SubSeq(s, 1, done) /\ k = Len(base) + done
    BY <2>4, <2>5
  <2>8. /\ Len(base \o SubSeq(s, 1, done)) = Len(base) + done
        /\ (base \o SubSeq(s, 1, done)) \o SubSeq(s, done + 1, at) = base \o SubSeq(s, 1, at)
    <3>1. done <= at /\ at <= Len(s)
      BY <2>6
    <3> QED BY <3>1, Appended, ZenonT(30)
  <2>9. Len(b) = k /\ b \o c = base \o SubSeq(s, 1, at)
    BY <2>7, <2>8
  <2>10. w = b \o c
    <3>1. w = Spliced(b, Len(b), c)
      BY <1>8, <2>9
    <3> QED BY <3>1, SplicedEnd
  <2>11. w = base \o SubSeq(s, 1, at)
    BY <2>9, <2>10
  <2>12. inode'[table'[cp'.in].file] = s /\ inode'[table'[cp'.out].file] = w
    BY <1>0, <1>1, <1>2, <1>3, <1>10, <1>11, <2>4 DEF HandlesTypeOK
  <2>13. offs'[table'[cp'.in].pos] = at /\ offs'[table'[cp'.out].pos] = k + Len(c)
    <3>1. table[cp.out].pos # table[cp.in].pos
      BY <1>0, <1>2 DEF Opens
    <3> QED BY <1>0, <1>1, <1>2, <1>4, <1>9, <1>11, <2>3, <3>1 DEF HandlesTypeOK
  <2>14. k + Len(c) = Len(base) + at
    <3>1. PICK m \in Nat, n \in Nat : m = Len(base) /\ n = Len(c)
      OBVIOUS
    <3>2. k = m + done /\ done + n = at
      BY <2>6, <2>7, <3>1
    <3>3. k + n = m + at
      BY <3>2
    <3> QED BY <3>1, <3>3
  <2>15. /\ Len(<<>>) = 0 /\ at - 0 = at /\ SubSeq(s, at + 1, at) = <<>> /\ at <= Len(s)
    BY <2>4
  <2>16. cp'.at = "copy" /\ cp'.chunk = <<>> /\ cp'.src = s /\ cp'.base = base
    BY <1>1, <1>11, <2>1, <2>2
  <2> QED BY <2>11, <2>12, <2>13, <2>14, <2>15, <2>16 DEF Progress
<1> QED BY <1>11, <1>13, <1>14, <1>15, <1>16 DEF HandlesInv, Copying

\* No descriptor is open at first, and the copy has not begun.
LEMMA HandlesInitInv == HandlesInit => HandlesInv
<1> SUFFICES ASSUME HandlesInit PROVE HandlesInv
  OBVIOUS
<1>1. /\ inode = <<<<1, 2, 3>>>> /\ table = <<>> /\ offs = [n \in 1..MaxFd |-> 0]
      /\ owner = [o \in Owners |-> NoFile] /\ loose = {} /\ double = FALSE
      /\ cp = [at |-> "idle", in |-> -1, out |-> -1, src |-> <<>>, base |-> <<>>,
               chunk |-> <<>>, clean |-> TRUE]
      /\ disk \in [Names -> 0..1]
  BY DEF HandlesInit
<1>2. inode \in Seq(Seq(Nat)) /\ Len(inode) = 1
  <2>1. <<1, 2, 3>> \in Seq(Nat)
    OBVIOUS
  <2> QED BY <1>1, <2>1
<1>3. DOMAIN table = {} /\ Copiers = {}
  BY <1>1 DEF Copiers
<1>4. HandlesTypeOK
  <2>1. cp \in [at : {"idle", "opened", "copy", "raised", "done"}, in : Fds \cup {-1},
             out : Fds \cup {-1}, src : Seq(Nat), base : Seq(Nat), chunk : Seq(Nat),
             clean : BOOLEAN]
    BY <1>1
  <2>2. offs \in [1..MaxFd -> Nat] /\ owner \in [Owners -> [fd : Fds \cup {-1}, close : BOOLEAN]]
    BY <1>1 DEF NoFile
  <2> QED BY <1>1, <1>2, <1>3, <2>1, <2>2 DEF HandlesTypeOK
<1>5. Owned
  BY <1>1, <1>3 DEF Owned, NoFile
<1>6. Copying
  BY <1>1, <1>3 DEF Copying, Opens, Progress
<1> QED BY <1>4, <1>5, <1>6 DEF HandlesInv

\* Every step keeps the invariant.
LEMMA HandlesStep == HandlesInv /\ [HandlesNext]_handleVars => HandlesInv'
<1> SUFFICES ASSUME HandlesInv, [HandlesNext]_handleVars PROVE HandlesInv'
  OBVIOUS
<1>1. CASE UNCHANGED handleVars
  <2>1. UNCHANGED <<disk, inode, table, offs, owner, loose, double, cp>>
    BY <1>1 DEF handleVars
  <2>2. /\ disk' \in [Names -> 0..Len(inode)]
        /\ owner' \in [Owners -> [fd : Fds \cup {-1}, close : BOOLEAN]]
    BY <2>1 DEF HandlesInv, HandlesTypeOK
  <2>3. HandlesTypeOK' /\ Copying' /\ Copiers' = Copiers
    BY <2>1, <2>2, SameFiles
  <2> QED BY <2>1, <2>3, OwnedStays DEF HandlesInv
<1>2. ASSUME NEW o \in Owners, NEW name \in Names, openFile(o, name) PROVE HandlesInv'
  BY <1>2, OpenFileInv
<1>3. ASSUME NEW o \in Owners, destroy(o) PROVE HandlesInv'
  BY <1>3, DestroyInv
<1>4. ASSUME NEW o \in Owners, releaseFD(o) PROVE HandlesInv'
  BY <1>4, ReleaseInv
<1>5. ASSUME NEW o \in Owners, seekTo(o, 1) PROVE HandlesInv'
  BY <1>5, SeekInv
<1>6. ASSUME NEW o \in Owners, write(o, << 4 >>) \/ pwrite(o, 1, << 5 >>) \/ truncate(o, 1)
      PROVE  HandlesInv'
  <2>1. << 4 >> \in Seq(Nat) /\ << 5 >> \in Seq(Nat) /\ 1 \in Nat
    OBVIOUS
  <2>2. CASE write(o, << 4 >>)
    BY <2>1, <2>2, WriteInv
  <2>3. CASE pwrite(o, 1, << 5 >>)
    BY <2>1, <2>3, WriteInv
  <2>4. CASE truncate(o, 1)
    BY <2>1, <2>4, WriteInv
  <2> QED BY <1>6, <2>2, <2>3, <2>4
<1>7. ASSUME NEW o \in Owners, NEW p \in Owners, move(o, p) PROVE HandlesInv'
  BY <1>7, MoveInv
<1>8. ASSUME NEW o \in Owners, NEW p \in Owners, clone(o, p) PROVE HandlesInv'
  BY <1>8, CloneInv
<1>9. ASSUME NEW o \in Owners, NEW p \in Owners, streamFromFile(o, p) PROVE HandlesInv'
  BY <1>9, StreamInv
<1>10. ASSUME NEW o \in Owners, NEW fd \in Fds, inputFromFD(o, fd) PROVE HandlesInv'
  BY <1>10, InputInv
<1>11. ASSUME NEW fd \in Fds, closeLoose(fd) PROVE HandlesInv'
  BY <1>11, CloseLooseInv
<1>12. ASSUME NEW n \in Names, rm(n) PROVE HandlesInv'
  BY <1>12, NamesInv
<1>13. ASSUME NEW n \in Names, NEW m \in Names, mv(n, m) PROVE HandlesInv'
  BY <1>13, NamesInv
<1>14. ASSUME NEW n \in Names, copyOpenIn(n) PROVE HandlesInv'
  BY <1>14, CopyOpenInInv
<1>15. ASSUME NEW n \in Names, NEW cat \in BOOLEAN, copyOpenOut(n, cat) PROVE HandlesInv'
  BY <1>15, CopyOpenOutInv
<1>16. CASE copyRead
  BY <1>16, CopyReadInv
<1>17. CASE copyWrite
  BY <1>17, CopyWriteInv
<1> QED BY <1>1, <1>2, <1>3, <1>4, <1>5, <1>6, <1>7, <1>8, <1>9, <1>10, <1>11, <1>12, <1>13,
           <1>14, <1>15, <1>16, <1>17 DEF HandlesNext

\* From the invariant: one of the objects, callers and copies will close an open descriptor.
LEMMA OneCloser == HandlesInv => OwnedOnce
<1> SUFFICES ASSUME HandlesInv, NEW fd \in Fds
             PROVE  Closers(fd) = IF fd \in DOMAIN table THEN 1 ELSE 0
  BY DEF OwnedOnce, HandlesInv, Owned
<1>0. HandlesTypeOK /\ Owned
  BY DEF HandlesInv
<1> DEFINE own == {o \in Owners : owner[o].close /\ owner[o].fd = fd}
           given == IF fd \in loose THEN 1 ELSE 0
           copied == IF fd \in {cp.in, cp.out} THEN 1 ELSE 0
<1>1. Closers(fd) = Cardinality(own) + given + copied
  BY DEF Closers
<1>2. fd \in {cp.in, cp.out} <=> fd \in Copiers
  BY HandlesAssumption DEF Copiers, Fds
<1>3. Cardinality({}) = 0
  BY FS_EmptySet
<1>4. CASE fd \notin DOMAIN table
  <2>1. /\ \A o \in Owners : ~(owner[o].close /\ owner[o].fd = fd)
        /\ fd \notin loose /\ fd \notin Copiers
    BY <1>0, <1>4 DEF Owned
  <2>2. own = {} /\ given = 0 /\ copied = 0
    BY <1>2, <2>1
  <2> HIDE DEF own, given, copied
  <2> QED BY <1>1, <1>3, <1>4, <2>2
<1>5. CASE fd \in DOMAIN table /\ fd \in loose
  <2>1. /\ \A o \in Owners : ~(owner[o].close /\ owner[o].fd = fd)
        /\ fd \notin Copiers
    BY <1>0, <1>5 DEF Owned
  <2>2. own = {} /\ given = 1 /\ copied = 0
    BY <1>2, <1>5, <2>1
  <2> HIDE DEF own, given, copied
  <2> QED BY <1>1, <1>3, <1>5, <2>2
<1>6. CASE fd \in DOMAIN table /\ fd \in Copiers
  <2>1. /\ \A o \in Owners : ~(owner[o].close /\ owner[o].fd = fd)
        /\ fd \notin loose
    BY <1>0, <1>6 DEF Owned
  <2>2. own = {} /\ given = 0 /\ copied = 1
    BY <1>2, <1>6, <2>1
  <2> HIDE DEF own, given, copied
  <2> QED BY <1>1, <1>3, <1>6, <2>2
<1>7. CASE fd \in DOMAIN table /\ fd \notin loose \cup Copiers
  <2>1. PICK o \in Owners : owner[o].close /\ owner[o].fd = fd
    BY <1>0, <1>7 DEF Owned
  <2>2. own = {o} /\ given = 0 /\ copied = 0
    <3>1. \A p \in Owners : owner[p].close /\ owner[p].fd = fd <=> p = o
      BY <1>0, <2>1 DEF Owned
    <3> QED BY <1>2, <1>7, <3>1
  <2>3. Cardinality({o}) = 1
    BY FS_Singleton
  <2> HIDE DEF own, given, copied
  <2> QED BY <1>1, <1>7, <2>2, <2>3
<1> QED BY <1>4, <1>5, <1>6, <1>7

\* HandlesSafe, for every number of objects, names, descriptors and calls and every size of
\* cp()'s buffer: every descriptor of File, the file streams and FileUtil is closed once, by
\* whoever owns it, and a copy nobody interfered with has the bytes of its source.
THEOREM HandlesSafeCorrect == HandlesSpec => []HandlesSafe
<1>1. HandlesInv => HandlesSafe
  <2>1. HandlesInv => CopyExact
    BY DEF HandlesInv, Copying, Progress, CopyExact
  <2> QED BY <2>1, OneCloser DEF HandlesSafe
<1> QED BY <1>1, HandlesInitInv, HandlesStep, PTL DEF HandlesSpec
=============================================================================
