--------------------------- MODULE PersistentHashSet ---------------------------
(***************************************************************************)
(* PersistentHashSet: an open-addressing hash table in a file.  A writer   *)
(* (addRecordID or addRecordIDs, under write_mutex_) inserts in place and  *)
(* grows the table into a new file that replaces the old one by a rename;  *)
(* readers take nslots_ and a file handle under read_mutex_ and probe the  *)
(* file they opened without a lock, a batch of slots at a time.  The       *)
(* process may crash at any point; what was written to a file survives.    *)
(* A file is a sequence of slots, 0 being an empty one; a file that was    *)
(* only created has no header and is <<>>.                                 *)
(***************************************************************************)
EXTENDS Integers, Sequences, FiniteSets

CONSTANTS
  Ids,                  \* record ids, as integers
  Hash,                 \* their FNV hash
  Readers,
  kInitialSlots, kFetchIOBatchSize, kProbeIOBatchSize

\* An empty slot is no record id, and a fetch batch is not larger than a table, which
\* has room for an id and an empty slot.
ASSUME HashSetAssumption ==
  /\ 0 \notin Ids
  /\ Hash \in [Ids -> Nat]
  /\ kInitialSlots \in Nat \ {0, 1}
  /\ kFetchIOBatchSize \in 1..kInitialSlots
  /\ kProbeIOBatchSize \in Nat \ {0}

VARIABLES
  inodes,       \* the files since the last crash; the last is the newest
  path,         \* the inode fpath_ names, 0 when there is no such file
  process,      \* "down", "up", "unusable" (the constructor raises)
  nslots, used, \* nslots_ and nslots_used_ (-1: not counted yet)
  writer,       \* the write in progress
  reader,       \* the lookups in progress
  acked         \* ids whose insertion was reported

setVars == <<inodes, path, process, nslots, used, writer, reader, acked>>

Idle == [at |-> "idle"]

SetInit ==
  /\ inodes = <<>> /\ path = 0 /\ process = "down"
  /\ nslots = 0 /\ used = -1
  /\ writer = Idle /\ reader = [r \in Readers |-> Idle]
  /\ acked = {}

\* scan(): every batch is read into the same buffer and all of the buffer is
\* looked at, so behind a short last batch the slots of the one before come again.
\* Its callback is called for the places of the buffers that are not empty.
Scanned(f) == ((Len(f) + kFetchIOBatchSize - 1) \div kFetchIOBatchSize) * kFetchIOBatchSize
Slot(f, j) == IF j <= Len(f) THEN f[j] ELSE f[j - kFetchIOBatchSize]
scan(f) == {j \in 1..Scanned(f) : Slot(f, j) # 0}

\* The slots of an id in probe order.
Probes(n, x) == [i \in 1..n |-> ((Hash[x] + i - 1) % n) + 1]

\* lookup(): the first probe that holds the id or is empty; 0 when there is none.
lookup(f, x) ==
  LET p == Probes(Len(f), x)
      hits == {i \in 1..Len(f) : f[p[i]] \in {0, x}}
  IN IF hits = {} THEN 0 ELSE p[CHOOSE i \in hits : \A j \in hits : i <= j]

\* Mutant: growing keeps the slot numbers.
rehash_inPlace(f) ==
  [j \in 1..(2 * Len(f)) |-> IF j <= Len(f) THEN f[j] ELSE 0]

\* Mutant: an id whose first slot is taken is dropped.
put_lossy(g, x) ==
  LET j == (Hash[x] % Len(g)) + 1
  IN IF g[j] = 0 THEN [g EXCEPT ![j] = x] ELSE g

\* grow()'s callback: the id goes to its first empty slot.
put(g, x) ==
  LET p == Probes(Len(g), x)
      empty == {i \in 1..Len(g) : g[p[i]] = 0}
  IN IF empty = {} THEN g
     ELSE [g EXCEPT ![p[CHOOSE i \in empty : \A j \in empty : i <= j]] = x]

\* grow(): everything scanned goes to a table twice the size, an id that was scanned
\* twice to two slots.  Element m is the new table after m slots of the buffers.
Rehashing(f) ==
  LET table[m \in 0..Scanned(f)] ==
        IF m = 0 THEN [j \in 1..(2 * Len(f)) |-> 0]
        ELSE IF Slot(f, m) = 0 THEN table[m - 1]
        ELSE put(table[m - 1], Slot(f, m))
  IN table
rehash(f) == Rehashing(f)[Scanned(f)]

Contents(f) == {f[j] : j \in 1..Len(f)} \ {0}
File == IF path = 0 THEN <<>> ELSE inodes[path]

-----------------------------------------------------------------------------

\* The constructor: a file that exists must have a header.
open ==
  /\ process = "down"
  /\ process' = IF path # 0 /\ File = <<>> THEN "unusable" ELSE "up"
  /\ nslots' = Len(File) /\ used' = -1
  /\ UNCHANGED <<inodes, path, writer, reader, acked>>

\* The process dies: everything in memory is gone, and of the files only the one
\* that fpath_ names matters (grow() truncates the file with the tilde).
crash ==
  /\ process = "up" /\ process' = "down"
  /\ nslots' = 0 /\ used' = -1
  /\ writer' = Idle /\ reader' = [r \in Readers |-> Idle]
  /\ IF path = 0 THEN UNCHANGED <<inodes, path>>
     ELSE inodes' = <<File>> /\ path' = 1
  /\ UNCHANGED acked

\* addRecordID() and addRecordIDs(): take the mutex, open or create the file.
addRecordIDs(ids) ==
  /\ process = "up" /\ writer = Idle
  /\ IF path = 0 THEN inodes' = <<<<>>>> /\ path' = 1 ELSE UNCHANGED <<inodes, path>>
  /\ writer' = [at |-> "insert", ids |-> ids]
  /\ UNCHANGED <<process, nslots, used, reader, acked>>

\* insert() counts the slots on its first call.
countUsed ==
  /\ writer.at = "insert" /\ used = -1
  /\ used' = Cardinality(scan(File))
  /\ UNCHANGED <<inodes, path, process, nslots, writer, reader, acked>>

Full == 2 * (used + 1) > nslots

\* grow(), first half: the new table is written to the file with the tilde.
growWrite ==
  /\ writer.at = "insert" /\ used # -1 /\ Full
  /\ inodes' = Append(inodes, IF nslots = 0 THEN [j \in 1..kInitialSlots |-> 0]
                              ELSE rehash(File))
  /\ writer' = [writer EXCEPT !.at = "rename"]
  /\ UNCHANGED <<path, process, nslots, used, reader, acked>>

\* Mutant: nslots_ is set outside the mutex, before the rename.
growRename_early ==
  /\ writer.at = "rename"
  /\ \/ /\ nslots # Len(inodes[Len(inodes)])
        /\ nslots' = Len(inodes[Len(inodes)]) /\ UNCHANGED <<path, writer>>
     \/ /\ nslots = Len(inodes[Len(inodes)])
        /\ path' = Len(inodes) /\ writer' = [writer EXCEPT !.at = "grown"]
        /\ UNCHANGED nslots
  /\ UNCHANGED <<inodes, process, used, reader, acked>>

\* grow(), second half: mv and nslots_ under read_mutex_.
growRename ==
  /\ writer.at = "rename"
  /\ path' = Len(inodes) /\ nslots' = Len(inodes[Len(inodes)])
  /\ writer' = [writer EXCEPT !.at = "grown"]
  /\ UNCHANGED <<inodes, process, used, reader, acked>>

\* insert() of one id, once the table was not full or has grown: found, or written to
\* the slot where its lookup ended.
insert(x) ==
  /\ \/ writer.at = "insert" /\ used # -1 /\ ~Full
     \/ writer.at = "grown"
  /\ x \in writer.ids
  /\ LET j == lookup(File, x)
     IN IF j = 0
        THEN writer' = [at |-> "raised"] /\ UNCHANGED <<inodes, used>>
        ELSE /\ writer' = IF writer.ids = {x} THEN Idle
                          ELSE [at |-> "insert", ids |-> writer.ids \ {x}]
             /\ IF File[j] = x THEN UNCHANGED <<inodes, used>>
                ELSE /\ inodes' = [inodes EXCEPT ![path] = [@ EXCEPT ![j] = x]]
                     /\ used' = used + 1
  /\ acked' = IF writer'.at = "raised" THEN acked ELSE acked \cup {x}
  /\ UNCHANGED <<path, process, nslots, reader>>

\* hasRecordID(): nslots_ and the file handle, under read_mutex_.
hasRecordID(r, x) ==
  /\ process = "up" /\ reader[r].at \in {"idle", "answered"}
  /\ reader' = [reader EXCEPT ![r] = [at |-> "probe", id |-> x, file |-> path,
                                      n |-> nslots, i |-> 1, before |-> x \in acked]]
  /\ UNCHANGED <<inodes, path, process, nslots, used, writer, acked>>

\* One read of its lookup(): a batch of consecutive slots, as far as the file goes.
probe(r) ==
  /\ reader[r].at = "probe"
  /\ LET s == reader[r]
         f == IF s.file = 0 THEN <<>> ELSE inodes[s.file]
         p == IF s.n = 0 THEN <<>> ELSE Probes(s.n, s.id)
         last == CHOOSE k \in s.i..s.n :
                   \A m \in s.i..s.n : m <= k <=>
                     p[m] \in p[s.i]..(p[s.i] + kProbeIOBatchSize - 1)
         at(k) == IF p[k] <= Len(f) THEN f[p[k]] ELSE 0
         hits == {k \in s.i..last : at(k) \in {0, s.id}}
         first == CHOOSE k \in hits : \A m \in hits : k <= m
         says(b) == [at |-> "answered", id |-> s.id, found |-> b, before |-> s.before]
     IN reader' = [reader EXCEPT ![r] =
                     IF s.n = 0 THEN says(FALSE)
                     ELSE IF hits # {} THEN says(at(first) = s.id)
                     ELSE IF last = s.n THEN [at |-> "raised"]
                     ELSE [s EXCEPT !.i = last + 1]]
  /\ UNCHANGED <<inodes, path, process, nslots, used, writer, acked>>

\* fetchRecordIDs() returns the scanned ids of the file it opened.
fetchRecordIDs == {Slot(File, j) : j \in scan(File)}

SetNext ==
  \/ open \/ crash \/ countUsed \/ growWrite \/ growRename
  \/ \E ids \in SUBSET Ids : ids # {} /\ addRecordIDs(ids)
  \/ \E x \in Ids : insert(x)
  \/ \E r \in Readers : probe(r) \/ \E x \in Ids : hasRecordID(r, x)

SetSpec == SetInit /\ [][SetNext]_setVars

-----------------------------------------------------------------------------
\* Every id whose insertion was reported is found by a lookup in the file that
\* the path names, before and after growth, across crashes and restarts.
AckedAreFound == \A x \in acked : File # <<>> /\ File[lookup(File, x)] = x

\* A lookup that races a writer answers for a moment of its own duration: an id
\* reported before it began is found, one it finds was inserted, and it never
\* ends in "set is full".
ReadersAgree ==
  \A r \in Readers :
    /\ reader[r].at # "raised"
    /\ reader[r].at = "answered" =>
         /\ reader[r].before => reader[r].found
         /\ reader[r].found => reader[r].id \in Contents(File)

\* Every id whose insertion was reported stays in the file, whatever crashes, and is
\* found by those who look for it; fetchRecordIDs() returns what is in the file, and no
\* insertion ends in "set is full", although nslots_used_ does not count the ids that
\* growing has doubled.
RecordsKept ==
  /\ AckedAreFound /\ ReadersAgree
  /\ fetchRecordIDs = Contents(File)
  /\ writer.at # "raised"

\* The file implements a set that only grows, one id at a time.
Abstract == INSTANCE RecordSet WITH members <- Contents(File)
IsASet == Abstract!Spec
=============================================================================
