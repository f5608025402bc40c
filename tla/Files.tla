--------------------------------- MODULE Files ---------------------------------
(***************************************************************************)
(* File, FileUtil and FileLock as several processes use them on one        *)
(* directory: each makes the directory with mkdir_p(), takes the FileLock  *)
(* in it, replaces a number kept in a file there by the next one with      *)
(* FileUtil::read and FileUtil::write, and destroys the lock.  Every       *)
(* system call is a step; a process may crash between any two.             *)
(***************************************************************************)
EXTENDS Integers, FiniteSets

CONSTANTS
  Procs,
  Depth,       \* the number of components of the path
  NoProc

ASSUME FilesAssumption ==
  /\ IsFiniteSet(Procs) /\ Procs # {} /\ NoProc \notin Procs
  /\ Depth \in Nat \ {0}

VARIABLES
  dirs,        \* how many leading components of the path exist, as a set of numbers
  content,     \* of the file: {} while it is absent or empty, {n} else
  holder,      \* whose flock() the kernel granted
  step,        \* what each process does next
  cur,         \* mkdir_p()'s component
  seen,        \* the number read
  wrote        \* history: the processes whose number is in the file

fileVars == <<dirs, content, holder, step, cur, seen, wrote>>

FilesInit ==
  /\ dirs \in {1..n : n \in 0..Depth}
  /\ content = {}
  /\ holder = NoProc
  /\ step = [p \in Procs |-> "mkdir_p"]
  /\ cur = [p \in Procs |-> 1]
  /\ seen = [p \in Procs |-> 0]
  /\ wrote = {}

At(p, a, b) == step[p] = a /\ step' = [step EXCEPT ![p] = b]

-----------------------------------------------------------------------------
\* FileUtil::mkdir_p: nothing to do when the whole path exists.
Mkdir_p(p) ==
  /\ At(p, "mkdir_p", IF Depth \in dirs THEN "lock" ELSE "exists")
  /\ UNCHANGED <<dirs, content, holder, cur, seen, wrote>>

\* FileUtil::exists for the next leading part of the path; the last one is not tested again.
Exists(p) ==
  /\ IF cur[p] < Depth /\ cur[p] \in dirs
     THEN step[p] = "exists" /\ cur' = [cur EXCEPT ![p] = @ + 1] /\ UNCHANGED step
     ELSE At(p, "exists", "mkdir") /\ UNCHANGED cur
  /\ UNCHANGED <<dirs, content, holder, seen, wrote>>

\* Mutant: an existing directory is no error, and the last component is left out.
Mkdir_last(p) ==
  /\ At(p, "mkdir", IF cur[p] = Depth - 1 \/ cur[p] = Depth THEN "lock" ELSE "exists")
  /\ dirs' = dirs \cup {cur[p]}
  /\ cur' = [cur EXCEPT ![p] = @ + 1]
  /\ UNCHANGED <<content, holder, seen, wrote>>

\* FileUtil::mkdir raises when another process was faster.
Mkdir(p) ==
  /\ \/ /\ cur[p] \in dirs
        /\ At(p, "mkdir", "raised")
        /\ UNCHANGED <<dirs, cur>>
     \/ /\ cur[p] \notin dirs
        /\ At(p, "mkdir", IF cur[p] = Depth THEN "lock" ELSE "exists")
        /\ dirs' = dirs \cup {cur[p]}
        /\ cur' = [cur EXCEPT ![p] = @ + 1]
  /\ UNCHANGED <<content, holder, seen, wrote>>

-----------------------------------------------------------------------------
\* Mutant: the result of flock() is not tested.
Lock_unchecked(p) ==
  /\ At(p, "lock", "read")
  /\ holder' = IF holder = NoProc THEN p ELSE holder
  /\ UNCHANGED <<dirs, content, cur, seen, wrote>>

\* FileLock::lock: waits or raises, as its caller wants, while another one holds it.
Lock(p) ==
  /\ \/ /\ holder = NoProc
        /\ At(p, "lock", "read")
        /\ holder' = p
     \/ /\ holder # NoProc
        /\ At(p, "lock", "raised")
        /\ UNCHANGED holder
  /\ UNCHANGED <<dirs, content, cur, seen, wrote>>

\* FileUtil::read.
Read(p) ==
  /\ At(p, "read", "open")
  /\ seen' = [seen EXCEPT ![p] = IF content = {} THEN 0 ELSE CHOOSE n \in content : TRUE]
  /\ UNCHANGED <<dirs, content, holder, cur, wrote>>

\* FileUtil::write: File::openFile with O_TRUNCATE, then File::write.
OpenTruncate(p) ==
  /\ At(p, "open", "write")
  /\ content' = {}
  /\ UNCHANGED <<dirs, holder, cur, seen, wrote>>

Write(p) ==
  /\ At(p, "write", "unlock")
  /\ content' = {seen[p] + 1}
  /\ wrote' = wrote \cup {p}
  /\ UNCHANGED <<dirs, holder, cur, seen>>

\* ~FileLock unlocks and closes the file.
Unlock(p) ==
  /\ At(p, "unlock", "done")
  /\ holder' = IF holder = p THEN NoProc ELSE holder
  /\ UNCHANGED <<dirs, content, cur, seen, wrote>>

\* The kernel drops the lock; a file that was truncated stays empty.
Crash(p) ==
  /\ step[p] \notin {"done", "raised", "crashed"}
  /\ step' = [step EXCEPT ![p] = "crashed"]
  /\ holder' = IF holder = p THEN NoProc ELSE holder
  /\ wrote' = IF step[p] = "write" THEN {} ELSE wrote
  /\ UNCHANGED <<dirs, content, cur, seen>>

FilesNext ==
  \E p \in Procs :
    \/ Mkdir_p(p) \/ Exists(p) \/ Mkdir(p)
    \/ Lock(p) \/ Read(p) \/ OpenTruncate(p) \/ Write(p) \/ Unlock(p)
    \/ Crash(p)

FilesSpec == FilesInit /\ [][FilesNext]_fileVars

-----------------------------------------------------------------------------
\* Processes that make the same path at once may see each other's directories and
\* raise, but one of them gets to the end: when none crashed and none is still in
\* mkdir_p(), the whole path exists, and nobody gets past it before.
MkdirCompletes ==
  /\ \E n \in 0..Depth : dirs = 1..n
  /\ (\A p \in Procs : step[p] \notin {"mkdir_p", "exists", "mkdir", "crashed"}) => Depth \in dirs
  /\ \A p \in Procs : step[p] \in {"lock", "read", "open", "write", "unlock", "done"} => Depth \in dirs

\* The FileLock makes read-and-write atomic: the number in the file counts every
\* process that wrote since the file was last lost to a crash, and a crash elsewhere
\* loses nothing.
NoLostUpdate ==
  /\ content # {} => content = {Cardinality(wrote)}
  /\ (content = {} /\ wrote # {}) => \E p \in Procs : step[p] = "write"

\* Processes that make a path or update a file together make all of it and lose no
\* update.
FilesSafe == MkdirCompletes /\ NoLostUpdate
=============================================================================
