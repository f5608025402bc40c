---------------------------- MODULE PageManager ----------------------------
(***************************************************************************)
(* stx::io::PageManager, io/pagemanager.cc: hands out byte ranges of a     *)
(* file, from a first-fit free list or from the end of the file.           *)
(* allocPage() and freePage() each run under mutex_ from their first to    *)
(* their last access, so each is one step.                                 *)
(***************************************************************************)
EXTENDS Naturals, Sequences

CONSTANTS
  Holders,     \* users of the manager, each with at most one page
  Sizes,       \* the sizes they ask for
  block_size_,
  InitialEnd,  \* end_pos as passed to the constructor
  MaxEnd,      \* bound on end_pos_
  None

ASSUME PageManagerAssumption ==
  /\ Sizes \subseteq Nat
  /\ block_size_ \in Nat \ {0}
  /\ InitialEnd \in Nat
  /\ MaxEnd \in Nat

VARIABLES
  end_pos_,
  freelist_, \* sequence of pages
  live,      \* the page each holder has, or None
  asked      \* history: the size each holder last asked for

pageVars == <<end_pos_, freelist_, live, asked>>

Page == [offset : Nat, size : Nat]
ASSUME NoneIsNoPage == None \notin Page

TypeOK ==
  /\ end_pos_ \in Nat
  /\ freelist_ \in Seq(Page)
  /\ live \in [Holders -> Page \cup {None}]
  /\ asked \in [Holders -> Nat]

Init ==
  /\ end_pos_ = InitialEnd
  /\ freelist_ = <<>>
  /\ live = [h \in Holders |-> None]
  /\ asked = [h \in Holders |-> 0]

\* Mutant: rounds down.
align_down(n) == (n \div block_size_) * block_size_

\* The request size aligned to the next larger block boundary.
align(n) == ((n + block_size_ - 1) \div block_size_) * block_size_

\* freelist_.erase(iter)
eraseAt(s, i) == [j \in 1..(Len(s) - 1) |-> IF j < i THEN s[j] ELSE s[j + 1]]

\* findFreePage() stops at entry i: the first that is large enough.
FirstFit(n, i) ==
  /\ i \in 1..Len(freelist_)
  /\ freelist_[i].size >= n
  /\ \A j \in 1..(i - 1) : freelist_[j].size < n

\* Mutant: findFreePage() does not erase the entry it returns.
reusePage_keeps(h, n) ==
  \E i \in 1..Len(freelist_) :
    /\ FirstFit(n, i)
    /\ live' = [live EXCEPT ![h] = freelist_[i]]
    /\ UNCHANGED <<freelist_, end_pos_>>

\* Mutant: the entry is trimmed to the size that was asked for.
reusePage_trims(h, n) ==
  \E i \in 1..Len(freelist_) :
    /\ FirstFit(n, i)
    /\ live' = [live EXCEPT ![h] = [offset |-> freelist_[i].offset, size |-> n]]
    /\ freelist_' = eraseAt(freelist_, i)
    /\ UNCHANGED end_pos_

\* allocPage() when findFreePage() finds a page: all of it, however large.
reusePage(h, n) ==
  \E i \in 1..Len(freelist_) :
    /\ FirstFit(n, i)
    /\ live' = [live EXCEPT ![h] = freelist_[i]]
    /\ freelist_' = eraseAt(freelist_, i)
    /\ UNCHANGED end_pos_

\* allocPage() when it does not.
extendFile(h, n) ==
  /\ \A i \in 1..Len(freelist_) : freelist_[i].size < n
  /\ end_pos_ + n <= MaxEnd
  /\ live' = [live EXCEPT ![h] = [offset |-> end_pos_, size |-> n]]
  /\ end_pos_' = end_pos_ + n
  /\ UNCHANGED freelist_

allocPage(h, min_size) ==
  /\ live[h] = None
  /\ asked' = [asked EXCEPT ![h] = min_size]
  /\ reusePage(h, align(min_size)) \/ extendFile(h, align(min_size))

\* freePage(): called by the holder of the page, who has no page afterwards.
freePage(h) ==
  /\ live[h] # None
  /\ freelist_' = Append(freelist_, live[h])
  /\ live' = [live EXCEPT ![h] = None]
  /\ UNCHANGED <<end_pos_, asked>>

Next ==
  \E h \in Holders :
    \/ \E n \in Sizes : allocPage(h, n)
    \/ freePage(h)

Spec == Init /\ [][Next]_pageVars

-----------------------------------------------------------------------------
(***************************************************************************)
(* Properties                                                              *)
(***************************************************************************)

\* Two pages share no byte.
Apart(p, q) ==
  \/ p.size = 0 \/ q.size = 0
  \/ p.offset + p.size <= q.offset
  \/ q.offset + q.size <= p.offset

\* However pages are freed and reused, no byte of the file is in two pages that
\* are in use, in two entries of the free list, or in one of each.
NoOverlap ==
  /\ \A g, h \in Holders :
       g # h /\ live[g] # None /\ live[h] # None => Apart(live[g], live[h])
  /\ \A i, j \in 1..Len(freelist_) : i # j => Apart(freelist_[i], freelist_[j])
  /\ \A h \in Holders, i \in 1..Len(freelist_) :
       live[h] # None => Apart(live[h], freelist_[i])

\* Every page lies between the initial end of the file and end_pos_.
Inside(p) == InitialEnd <= p.offset /\ p.offset + p.size <= end_pos_
PagesInside ==
  /\ InitialEnd <= end_pos_
  /\ \A h \in Holders : live[h] # None => Inside(live[h])
  /\ \A i \in 1..Len(freelist_) : Inside(freelist_[i])

Covers(p, b) == p.offset <= b /\ b < p.offset + p.size

\* No byte is leaked: each one below end_pos_ that the manager has handed out is
\* in use or can be found in the free list.
NoLeak ==
  \A b \in InitialEnd..(end_pos_ - 1) :
    \/ \E h \in Holders : live[h] # None /\ Covers(live[h], b)
    \/ \E i \in 1..Len(freelist_) : Covers(freelist_[i], b)

\* The pages in use and the free ones divide what the manager has handed out: no two
\* overlap and no byte is in none of them, after any order of allocations and frees.
PagesPartition == NoOverlap /\ NoLeak

\* A holder's page is at least as large as what it asked for, and a whole number
\* of blocks.
PageFits ==
  \A h \in Holders :
    live[h] # None => /\ live[h].size >= asked[h]
                      /\ live[h].size % block_size_ = 0
=============================================================================
