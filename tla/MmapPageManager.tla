-------------------------- MODULE MmapPageManager --------------------------
(***************************************************************************)
(* stx::io::MmapPageManager, io/pagemanager.cc: the pages of PageManager,  *)
(* mapped into memory.  getPage() grows the file and replaces the mapping  *)
(* when the page lies beyond them; a PageRef keeps the mapping it was made *)
(* from.  getPageImpl() holds mmap_mutex_, by lock() and unlock() and not  *)
(* by a guard; shrinkFile() takes no lock.                                 *)
(***************************************************************************)
EXTENDS PageManager

CONSTANTS
  MmapBlock,        \* sys_page_size_ * kMmapSizeMultiplier
  ConcurrentShrink, \* may shrinkFile() run while a getPage() does?
  IOMayFail         \* may truncate(), open() or mmap() fail?

ASSUME MmapAssumption ==
  /\ MmapBlock \in Nat \ {0}
  /\ ConcurrentShrink \in BOOLEAN
  /\ IOMayFail \in BOOLEAN

VARIABLES
  used_bytes_,
  file_size_,
  fileLen,     \* the length of the file itself
  mapping,     \* current_mapping_->size, or None
  mmap_mutex_, \* the holder inside getPageImpl(), or None
  pc,          \* where each holder is
  ref,         \* the PageRef each holder has: its page and the mapping's size
  shrinking,   \* where shrinkFile() is: "no", the size it read, "store"
  failed       \* an I/O call has raised inside getPageImpl()

mmapVars == <<used_bytes_, file_size_, fileLen, mapping, mmap_mutex_, pc, ref,
              shrinking, failed>>
vars == <<pageVars, mmapVars>>

PageRef == [page : Page, mapped : Nat]
last_byte(p) == p.offset + p.size

\* pc: "idle"; "call" (wants mmap_mutex_); "map" (the file is large enough, the
\* mapping comes next).
MmapTypeOK ==
  /\ used_bytes_ \in Nat /\ file_size_ \in Nat /\ fileLen \in Nat
  /\ mapping \in Nat \cup {None}
  /\ mmap_mutex_ \in Holders \cup {None}
  /\ pc \in [Holders -> {"idle", "call", "map"}]
  /\ ref \in [Holders -> PageRef \cup {None}]
  /\ shrinking \in [at : {"no", "truncate", "store"}, size : Nat]
  /\ failed \in BOOLEAN

NotShrinking == [at |-> "no", size |-> 0]

MmapInit ==
  /\ Init
  /\ used_bytes_ = InitialEnd
  /\ file_size_ = InitialEnd
  /\ fileLen = InitialEnd
  /\ mapping = None
  /\ mmap_mutex_ = None
  /\ pc = [h \in Holders |-> "idle"]
  /\ ref = [h \in Holders |-> None]
  /\ shrinking = NotShrinking
  /\ failed = FALSE

\* allocPage() and freePage() are inherited; a holder drops its PageRef before it
\* frees the page.
alloc(h) ==
  /\ pc[h] = "idle"
  /\ \E n \in Sizes : allocPage(h, n)
  /\ UNCHANGED mmapVars

free(h) ==
  /\ pc[h] = "idle" /\ ref[h] = None
  /\ freePage(h)
  /\ UNCHANGED mmapVars

\* getPage() is called, with or without kNoPadding: it blocks on mmap_mutex_.
getPage(h) ==
  /\ pc[h] = "idle"
  /\ live[h] # None /\ ref[h] = None
  /\ ConcurrentShrink \/ shrinking = NotShrinking
  /\ pc' = [pc EXCEPT ![h] = "call"]
  /\ UNCHANGED <<pageVars, used_bytes_, file_size_, fileLen, mapping, mmap_mutex_,
                 ref, shrinking, failed>>

\* The new size of the file for a page that ends at n.
new_size(n, allow_padding) ==
  IF allow_padding THEN ((n \div MmapBlock) + 1) * MmapBlock ELSE n

\* Mutant: used_bytes_ counts the page's size, not its end.
growFile_usedSize(h, allow_padding) ==
  /\ pc[h] = "call"
  /\ mmap_mutex_ = None
  /\ mmap_mutex_' = h
  /\ LET p == live[h]
         size == new_size(last_byte(p), allow_padding)
     IN  /\ used_bytes_' = IF p.size > used_bytes_ THEN p.size ELSE used_bytes_
         /\ IF last_byte(p) > file_size_
            THEN file_size_' = size /\ fileLen' = size
            ELSE UNCHANGED <<file_size_, fileLen>>
  /\ pc' = [pc EXCEPT ![h] = "map"]
  /\ UNCHANGED <<pageVars, mapping, ref, shrinking, failed>>

\* getPageImpl() up to truncate() and the assignment of file_size_.
growFile(h, allow_padding) ==
  /\ pc[h] = "call"
  /\ mmap_mutex_ = None
  /\ mmap_mutex_' = h
  /\ LET last == last_byte(live[h])
         size == new_size(last, allow_padding)
     IN  /\ used_bytes_' = IF last > used_bytes_ THEN last ELSE used_bytes_
         /\ IF last > file_size_
            THEN file_size_' = size /\ fileLen' = size
            ELSE UNCHANGED <<file_size_, fileLen>>
  /\ pc' = [pc EXCEPT ![h] = "map"]
  /\ UNCHANGED <<pageVars, mapping, ref, shrinking, failed>>

\* getMmappedFile() has to replace the mapping for a page that ends at n.
NeedsMapping(n) == IF mapping = None THEN TRUE ELSE n > mapping

\* Mutant: a page that ends just beyond the mapping does not replace it.
mapPage_offByOne(h) ==
  /\ pc[h] = "map"
  /\ mapping' = IF NeedsMapping(last_byte(live[h]) - 1) THEN fileLen ELSE mapping
  /\ ref' = [ref EXCEPT ![h] = [page |-> live[h], mapped |-> mapping']]
  /\ mmap_mutex_' = None
  /\ pc' = [pc EXCEPT ![h] = "idle"]
  /\ UNCHANGED <<pageVars, used_bytes_, file_size_, fileLen, shrinking, failed>>

\* Mutant: no unlock.
mapPage_noUnlock(h) ==
  /\ pc[h] = "map"
  /\ mapping' = IF NeedsMapping(last_byte(live[h])) THEN fileLen ELSE mapping
  /\ ref' = [ref EXCEPT ![h] = [page |-> live[h], mapped |-> mapping']]
  /\ pc' = [pc EXCEPT ![h] = "idle"]
  /\ UNCHANGED <<pageVars, used_bytes_, file_size_, fileLen, mmap_mutex_, shrinking,
                 failed>>

\* getMmappedFile() maps the file at its present length if the mapping is too
\* small; then the PageRef is made and the mutex released.
mapPage(h) ==
  /\ pc[h] = "map"
  /\ mapping' = IF NeedsMapping(last_byte(live[h])) THEN fileLen ELSE mapping
  /\ ref' = [ref EXCEPT ![h] = [page |-> live[h], mapped |-> mapping']]
  /\ mmap_mutex_' = None
  /\ pc' = [pc EXCEPT ![h] = "idle"]
  /\ UNCHANGED <<pageVars, used_bytes_, file_size_, fileLen, shrinking, failed>>

\* truncate() raises, with used_bytes_ already assigned: nobody unlocks the mutex.
growFileFails(h) ==
  /\ IOMayFail
  /\ pc[h] = "call"
  /\ mmap_mutex_ = None
  /\ last_byte(live[h]) > file_size_
  /\ mmap_mutex_' = h
  /\ used_bytes_' = IF last_byte(live[h]) > used_bytes_ THEN last_byte(live[h])
                    ELSE used_bytes_
  /\ pc' = [pc EXCEPT ![h] = "idle"]
  /\ failed' = TRUE
  /\ UNCHANGED <<pageVars, file_size_, fileLen, mapping, ref, shrinking>>

\* openFile() or mmap() raises: nobody unlocks the mutex.
mapPageFails(h) ==
  /\ IOMayFail
  /\ pc[h] = "map"
  /\ NeedsMapping(last_byte(live[h]))
  /\ pc' = [pc EXCEPT ![h] = "idle"]
  /\ failed' = TRUE
  /\ UNCHANGED <<pageVars, used_bytes_, file_size_, fileLen, mapping, mmap_mutex_,
                 ref, shrinking>>

\* The holder drops its PageRef; the mapping goes with its last user.
dropRef(h) ==
  /\ pc[h] = "idle"
  /\ ref[h] # None
  /\ ref' = [ref EXCEPT ![h] = None]
  /\ UNCHANGED <<pageVars, used_bytes_, file_size_, fileLen, mapping, mmap_mutex_, pc,
                 shrinking, failed>>

\* shrinkFile(): reads used_bytes_, truncates, and assigns used_bytes_ as it is
\* then to file_size_.
shrinkFile ==
  /\ \/ /\ shrinking.at = "no"
        /\ ConcurrentShrink \/ \A h \in Holders : pc[h] = "idle"
        /\ shrinking' = [at |-> "truncate", size |-> used_bytes_]
        /\ UNCHANGED <<fileLen, file_size_>>
     \/ /\ shrinking.at = "truncate"
        /\ fileLen' = shrinking.size
        /\ shrinking' = [at |-> "store", size |-> 0]
        /\ UNCHANGED file_size_
     \/ /\ shrinking.at = "store"
        /\ file_size_' = used_bytes_
        /\ shrinking' = NotShrinking
        /\ UNCHANGED fileLen
  /\ UNCHANGED <<pageVars, used_bytes_, mapping, mmap_mutex_, pc, ref, failed>>

MmapNext ==
  \/ \E h \in Holders :
       \/ alloc(h) \/ free(h) \/ getPage(h)
       \/ \E allow_padding \in BOOLEAN : growFile(h, allow_padding)
       \/ mapPage(h) \/ growFileFails(h) \/ mapPageFails(h) \/ dropRef(h)
  \/ shrinkFile

MmapSpec == MmapInit /\ [][MmapNext]_vars

\* A holder that has called getPage() goes on when it can get the mutex.
MmapFairSpec ==
  /\ MmapSpec
  /\ \A h \in Holders :
       SF_vars(\E p \in BOOLEAN : growFile(h, p)) /\ WF_vars(mapPage(h))

-----------------------------------------------------------------------------
(***************************************************************************)
(* Properties                                                              *)
(***************************************************************************)

\* A PageRef's mapping spans its page.
MappingSpans == \A h \in Holders : ref[h] # None => last_byte(ref[h].page) <= ref[h].mapped

\* Every byte of a page that somebody has mapped is backed by the file, whatever
\* other pages were mapped and however often the file was shrunk since: reading
\* it cannot raise SIGBUS.
MappedPagesBacked ==
  \A h \in Holders : ref[h] # None => last_byte(ref[h].page) <= fileLen

\* A page is what was asked for, its mapping spans it and the file backs it, for as long
\* as it is held.
PagesMapped == PageFits /\ MappingSpans /\ MappedPagesBacked

\* A getPage() that waits for the mutex returns, unless an earlier one left it
\* locked because an I/O call raised.
GetPageReturns ==
  \A h \in Holders : []<>(pc[h] = "idle" \/ failed)
=============================================================================
