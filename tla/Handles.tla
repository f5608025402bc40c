--------------------------------- MODULE Handles --------------------------------
(***************************************************************************)
(* File objects and file streams as owners of descriptors, while           *)
(* FileUtil::cp or FileUtil::cat copies one file to another, a read(2) and *)
(* a write(2) at a time, and the names are renamed and removed under it.   *)
(* The kernel is explicit: descriptors refer to open files, which a clone  *)
(* shares with its original, and open files to inodes.                     *)
(***************************************************************************)
EXTENDS Integers, Sequences, FiniteSets

CONSTANTS
  Owners,         \* File objects and the streams made from them
  Names,
  BufSize,        \* 4096 in the code: what cp() and cat() read at once
  MaxFd,          \* bounds on the open descriptors,
  MaxFiles,       \* the inodes
  MaxChanges      \* and the calls besides the copy that open, change, rename or remove a file

ASSUME HandlesAssumption ==
  /\ BufSize \in Nat \ {0} /\ MaxFd \in Nat /\ MaxFiles \in Nat /\ MaxChanges \in Nat

VARIABLES
  disk,           \* [Names -> inode], 0 where there is no such file
  inode,          \* a sequence of file contents
  table,          \* [descriptor -> [file, pos]]: the inode and the index of the offset in offs
  offs,           \* [1..MaxFd -> offset] of the open files, 0 where there is none
  owner,          \* [Owners -> [fd, close]]: -1 when there is none
  loose,          \* descriptors releaseFD() handed to its caller
  double,         \* history: a descriptor was closed twice
  cp,             \* the copy: see HandlesInit
  changes

handleVars == <<disk, inode, table, offs, owner, loose, double, cp, changes>>

NoFile == [fd |-> -1, close |-> FALSE]
Empty == 0        \* the inode of no file
Fds == 0..(MaxFd - 1)

HandlesInit ==
  /\ disk \in {d \in [Names -> 0..1] : Cardinality({n \in Names : d[n] = 1}) = 1}
  /\ inode = <<<<1, 2, 3>>>>
  /\ table = <<>> /\ offs = [n \in 1..MaxFd |-> 0]
  /\ owner = [o \in Owners |-> NoFile] /\ loose = {} /\ double = FALSE
  /\ cp = [at |-> "idle", in |-> -1, out |-> -1, src |-> <<>>, base |-> <<>>, chunk |-> <<>>, clean |-> TRUE]
  /\ changes = 0

Least(a, b) == IF a < b THEN a ELSE b
Chunk(i, from, n) == SubSeq(inode[i], from + 1, Least(from + n, Len(inode[i])))
Spliced(s, at, b) ==
  [i \in 1..(IF Len(s) > at + Len(b) THEN Len(s) ELSE at + Len(b)) |->
     IF i > at /\ i <= at + Len(b) THEN b[i - at] ELSE IF i <= Len(s) THEN s[i] ELSE 0]
Lowest(fds) == CHOOSE n \in Fds : n \notin fds /\ \A m \in Fds \ fds : n <= m

\* Another user of the files the copy is working on spoils what can be said of it.
Spoil(i) ==
  cp' = IF cp.in # -1 /\ i \in {table[cp.in].file} \cup (IF cp.out = -1 THEN {} ELSE {table[cp.out].file})
        THEN [cp EXCEPT !.clean = FALSE] ELSE cp

-----------------------------------------------------------------------------
(* The kernel.                                                             *)

Used(fds) == {fds[d].pos : d \in DOMAIN fds}
FreePos == CHOOSE n \in 1..MaxFd : n \notin Used(table) /\ \A m \in (1..MaxFd) \ Used(table) : n <= m

\* The descriptor, table, offsets, inodes and names after open(2).  trunc empties the
\* file, end is openFile()'s lseek() to the end for O_APPEND.
Opened(name, create, excl, trunc, end) ==
  LET exists == disk[name] # Empty
      ino == IF exists THEN disk[name] ELSE Len(inode) + 1
      files == IF ~exists THEN Append(inode, <<>>) ELSE IF trunc THEN [inode EXCEPT ![ino] = <<>>] ELSE inode
      fd == Lowest(DOMAIN table)
      pos == FreePos
      ok == (exists /\ ~(create /\ excl)) \/ (~exists /\ create)
  IN [ok |-> ok, fd |-> fd, inode |-> files, disk |-> [disk EXCEPT ![name] = ino],
      table |-> [d \in DOMAIN table \cup {fd} |->
                  IF d = fd THEN [file |-> ino, pos |-> pos] ELSE table[d]],
      offs |-> [offs EXCEPT ![pos] = IF end THEN Len(files[ino]) ELSE 0]]

\* The bound on what happens besides the copy.
Another == changes < MaxChanges /\ changes' = changes + 1
CanOpen == Cardinality(DOMAIN table) < MaxFd

\* close(2) of some descriptors; the last one of an open file ends it.
Without(fds) == [d \in DOMAIN table \ fds |-> table[d]]
Close(fds) ==
  /\ table' = Without(fds)
  /\ offs' = [n \in 1..MaxFd |-> IF n \in Used(Without(fds)) THEN offs[n] ELSE 0]

-----------------------------------------------------------------------------
(* File.                                                                   *)

\* File::openFile with O_READ | O_WRITE and the flags the callers use.  O_AUTODELETE
\* removes the name at once.
openFile(o, name) ==
  /\ owner[o] = NoFile /\ CanOpen /\ Another
  /\ \E create, excl, trunc, end, autodelete \in BOOLEAN :
       LET r == Opened(name, create, excl, trunc, end)
       IN /\ (excl => create) /\ (disk[name] = Empty => Len(inode) < MaxFiles) /\ r.ok
          /\ inode' = r.inode /\ table' = r.table /\ offs' = r.offs
          /\ disk' = IF autodelete THEN [r.disk EXCEPT ![name] = Empty] ELSE r.disk
          /\ owner' = [owner EXCEPT ![o] = [fd |-> r.fd, close |-> TRUE]]
          /\ IF trunc /\ disk[name] # Empty THEN Spoil(disk[name]) ELSE UNCHANGED cp
  /\ UNCHANGED <<loose, double>>

\* ~File, ~FileInputStream and ~FileOutputStream.
destroy(o) ==
  /\ owner[o] # NoFile
  /\ LET fds == IF owner[o].close THEN {owner[o].fd} ELSE {}
     IN /\ Close(fds)
        /\ double' = (double \/ ~(fds \subseteq DOMAIN table))
  /\ owner' = [owner EXCEPT ![o] = NoFile]
  /\ UNCHANGED <<disk, inode, loose, cp, changes>>

\* Mutant: the source keeps its descriptor.
move_shared(o, p) ==
  /\ o # p /\ owner[p].close
  /\ LET fds == IF owner[o].close THEN {owner[o].fd} ELSE {}
     IN /\ Close(fds)
        /\ double' = (double \/ ~(fds \subseteq DOMAIN table))
  /\ owner' = [owner EXCEPT ![o] = owner[p]]
  /\ UNCHANGED <<disk, inode, loose, cp, changes>>

\* File(File&&) and operator=(File&&), of another object, which closes what the target had.
move(o, p) ==
  /\ o # p /\ owner[p].close
  /\ LET fds == IF owner[o].close THEN {owner[o].fd} ELSE {}
     IN /\ Close(fds)
        /\ double' = (double \/ ~(fds \subseteq DOMAIN table))
  /\ owner' = [owner EXCEPT ![o] = owner[p], ![p] = NoFile]
  /\ UNCHANGED <<disk, inode, loose, cp, changes>>

releaseFD(o) ==
  /\ owner[o].close
  /\ loose' = loose \cup {owner[o].fd}
  /\ owner' = [owner EXCEPT ![o] = NoFile]
  /\ UNCHANGED <<disk, inode, table, offs, double, cp, changes>>

\* FileInputStream::fromFileDescriptor, for a descriptor the caller keeps or hands over.
inputFromFD(o, fd) ==
  /\ owner[o] = NoFile /\ fd \in loose
  /\ \E close_on_destroy \in {c \in BOOLEAN : c => \A p \in Owners : owner[p].fd # fd} :
       /\ owner' = [owner EXCEPT ![o] = [fd |-> fd, close |-> close_on_destroy]]
       /\ loose' = IF close_on_destroy THEN loose \ {fd} ELSE loose
  /\ UNCHANGED <<disk, inode, table, offs, double, cp, changes>>

\* FileOutputStream::fromFile and FileInputStream::fromFile: the stream closes it.
streamFromFile(o, p) ==
  /\ o # p /\ owner[o] = NoFile /\ owner[p].close
  /\ owner' = [owner EXCEPT ![o] = [fd |-> owner[p].fd, close |-> TRUE], ![p] = NoFile]
  /\ UNCHANGED <<disk, inode, table, offs, loose, double, cp, changes>>

\* The caller closes a descriptor no stream still borrows.
closeLoose(fd) ==
  /\ fd \in loose /\ \A o \in Owners : owner[o].fd # fd
  /\ Close({fd}) /\ loose' = loose \ {fd}
  /\ UNCHANGED <<disk, inode, owner, double, cp, changes>>

\* A call on a descriptor that is not open raises.
Usable(o) == owner[o].fd \in DOMAIN table

\* dup(2): the offset is shared.
clone(o, p) ==
  /\ owner[o] = NoFile /\ owner[p].close /\ Usable(p) /\ CanOpen /\ Another
  /\ LET fd == Lowest(DOMAIN table)
     IN /\ table' = [d \in DOMAIN table \cup {fd} |-> IF d = fd THEN table[owner[p].fd] ELSE table[d]]
        /\ owner' = [owner EXCEPT ![o] = [fd |-> fd, close |-> TRUE]]
  /\ UNCHANGED <<disk, inode, offs, loose, double, cp>>

Of(o) == table[owner[o].fd]

seekTo(o, pos) ==
  /\ Usable(o) /\ Another
  /\ offs' = [offs EXCEPT ![Of(o).pos] = pos]
  /\ UNCHANGED <<disk, inode, table, owner, loose, double, cp>>

\* write(2) at the offset, all of it.
write(o, b) ==
  /\ Usable(o) /\ Another
  /\ inode' = [inode EXCEPT ![Of(o).file] = Spliced(@, offs[Of(o).pos], b)]
  /\ offs' = [offs EXCEPT ![Of(o).pos] = @ + Len(b)]
  /\ Spoil(Of(o).file)
  /\ UNCHANGED <<disk, table, owner, loose, double>>

pwrite(o, pos, b) ==
  /\ Usable(o) /\ Another
  /\ inode' = [inode EXCEPT ![Of(o).file] = Spliced(@, pos, b)]
  /\ Spoil(Of(o).file)
  /\ UNCHANGED <<disk, table, offs, owner, loose, double>>

truncate(o, n) ==
  /\ Usable(o) /\ Another
  /\ inode' = [inode EXCEPT ![Of(o).file] = SubSeq(Spliced(@, n, <<>>), 1, n)]
  /\ Spoil(Of(o).file)
  /\ UNCHANGED <<disk, table, offs, owner, loose, double>>

-----------------------------------------------------------------------------
(* FileUtil.                                                               *)

mv(src, dst) ==
  /\ disk[src] # Empty /\ src # dst /\ Another
  /\ disk' = [disk EXCEPT ![dst] = disk[src], ![src] = Empty]
  /\ UNCHANGED <<inode, table, offs, owner, loose, double, cp>>

rm(name) ==
  /\ disk[name] # Empty /\ Another
  /\ disk' = [disk EXCEPT ![name] = Empty]
  /\ UNCHANGED <<inode, table, offs, owner, loose, double, cp>>

\* cp() and cat() open the source, ...
copyOpenIn(src) ==
  /\ cp.at = "idle" /\ CanOpen
  /\ LET r == Opened(src, FALSE, FALSE, FALSE, FALSE)
     IN /\ r.ok
        /\ table' = r.table /\ offs' = r.offs
        /\ cp' = [cp EXCEPT !.at = "opened", !.in = r.fd, !.src = inode[disk[src]]]
  /\ UNCHANGED <<disk, inode, owner, loose, double, changes>>

\* ... then the target, which cp() creates and cat() appends to.  If that fails, the
\* source is closed by its destructor.  A file is not copied to itself: cat() would read
\* what it writes and never end.
copyOpenOut(dst, cat) ==
  /\ cp.at = "opened" /\ CanOpen /\ disk[dst] # table[cp.in].file
  /\ LET r == Opened(dst, ~cat, ~cat, FALSE, cat)
     IN IF r.ok
        THEN /\ disk[dst] = Empty => Len(inode) < MaxFiles
             /\ inode' = r.inode /\ table' = r.table /\ offs' = r.offs /\ disk' = r.disk
             /\ cp' = [cp EXCEPT !.at = "copy", !.out = r.fd, !.base = r.inode[r.disk[dst]]]
        ELSE /\ Close({cp.in})
             /\ cp' = [cp EXCEPT !.at = "raised", !.in = -1]
             /\ UNCHANGED <<disk, inode>>
  /\ UNCHANGED <<owner, loose, double, changes>>

\* Mutant: the whole buffer is written, not what was read.
copyRead_whole ==
  /\ cp.at = "copy" /\ cp.chunk = <<>>
  /\ \E n \in 1..BufSize :
       LET at == offs[table[cp.in].pos]
           c == Chunk(table[cp.in].file, at, n)
       IN IF c = <<>> THEN /\ Close({cp.in, cp.out})
                           /\ cp' = [cp EXCEPT !.at = "done", !.chunk = inode[table[cp.out].file],
                                               !.in = -1, !.out = -1]
          ELSE /\ offs' = [offs EXCEPT ![table[cp.in].pos] = at + Len(c)]
               /\ cp' = [cp EXCEPT !.chunk = [i \in 1..BufSize |-> IF i <= Len(c) THEN c[i] ELSE 0]]
               /\ UNCHANGED table
  /\ UNCHANGED <<disk, inode, owner, loose, double, changes>>

\* A read(2), which may be short; at the end of the file the two Files are destroyed.
copyRead ==
  /\ cp.at = "copy" /\ cp.chunk = <<>>
  /\ \E n \in 1..BufSize :
       LET at == offs[table[cp.in].pos]
           c == Chunk(table[cp.in].file, at, n)
       IN IF c = <<>> THEN /\ Close({cp.in, cp.out})
                           /\ cp' = [cp EXCEPT !.at = "done", !.chunk = inode[table[cp.out].file],
                                               !.in = -1, !.out = -1]
          ELSE /\ offs' = [offs EXCEPT ![table[cp.in].pos] = at + Len(c)]
               /\ cp' = [cp EXCEPT !.chunk = c]
               /\ UNCHANGED table
  /\ UNCHANGED <<disk, inode, owner, loose, double, changes>>

copyWrite ==
  /\ cp.at = "copy" /\ cp.chunk # <<>>
  /\ inode' = [inode EXCEPT ![table[cp.out].file] = Spliced(@, offs[table[cp.out].pos], cp.chunk)]
  /\ offs' = [offs EXCEPT ![table[cp.out].pos] = @ + Len(cp.chunk)]
  /\ cp' = [cp EXCEPT !.chunk = <<>>]
  /\ UNCHANGED <<disk, table, owner, loose, double, changes>>

HandlesNext ==
  \/ \E o \in Owners :
       \/ \E name \in Names : openFile(o, name)
       \/ destroy(o) \/ releaseFD(o) \/ seekTo(o, 1) \/ write(o, <<4>>) \/ pwrite(o, 1, <<5>>) \/ truncate(o, 1)
       \/ \E p \in Owners : move(o, p) \/ clone(o, p) \/ streamFromFile(o, p)
       \/ \E fd \in Fds : inputFromFD(o, fd)
  \/ \E fd \in Fds : closeLoose(fd)
  \/ \E n \in Names : rm(n) \/ copyOpenIn(n) \/ \E m \in Names : mv(n, m)
  \/ \E n \in Names, cat \in BOOLEAN : copyOpenOut(n, cat)
  \/ copyRead \/ copyWrite

HandlesSpec == HandlesInit /\ [][HandlesNext]_handleVars

-----------------------------------------------------------------------------
\* How many will close fd.
Closers(fd) ==
  Cardinality({o \in Owners : owner[o].close /\ owner[o].fd = fd})
    + (IF fd \in loose THEN 1 ELSE 0) + (IF fd \in {cp.in, cp.out} THEN 1 ELSE 0)

\* An open descriptor has exactly one File, stream, copy or caller that will close it,
\* whatever was moved, cloned, released and handed to a stream, and none is closed twice.
OwnedOnce ==
  /\ ~double
  /\ \A fd \in Fds : Closers(fd) = IF fd \in DOMAIN table THEN 1 ELSE 0

\* A finished cp() or cat() has appended the source, as it was, to the target, as it was,
\* although either was renamed or removed meanwhile and reads came short, unless someone
\* wrote to one of the two.
CopyExact == cp.at = "done" /\ cp.clean => cp.chunk = cp.base \o cp.src

\* Every descriptor is closed once, by its owner, and a copy has the bytes of its source
\* although files are renamed and removed meanwhile.
HandlesSafe == OwnedOnce /\ CopyExact
=============================================================================
