-------------------------------- MODULE Streams --------------------------------
(***************************************************************************)
(* Streams: rows are written by BinaryCSVOutputStream or CSVOutputStream   *)
(* to a BufferedOutputStream over a file, and read back either row by row  *)
(* or by a sequence of raw reads.  A FileInputStream reads ahead in chunks *)
(* and has to keep its file offset, its buffer and its position together;  *)
(* the string, buffer, memory and VFS streams have only a cursor.  read(2) *)
(* may return less than it was asked for; write(2) to a file is complete.  *)
(* A byte is a number.                                                     *)
(***************************************************************************)
EXTENDS Integers, Sequences, SequencesExt

CONSTANTS
  VarBase,       \* 128 in the code: the values of a varint byte's payload
  Inputs,        \* [format, rows, cap, sink, raw]: the rows, the output buffer's capacity and
                 \* what is below it, and whether raw reads follow
  ChunkSize,     \* sizeof(buf_) of a FileInputStream
  Calls,         \* raw reads: [op, n]
  MaxCalls       \* how many of them a behaviour makes

VARIABLES
  input,
  st             \* see Init

vars == <<input, st>>

column_separator == 20
row_separator == 21
quote_char == 22
Raise == <<23>>       \* no byte: the call raised

Drop(s, n) == SubSeq(s, n + 1, Len(s))
Take(s, n) == SubSeq(s, 1, n)
Least(a, b) == IF a < b THEN a ELSE b

-----------------------------------------------------------------------------
(* Writing.                                                                *)

RECURSIVE appendVarUInt(_)
appendVarUInt(n) ==
  IF n < VarBase THEN <<n>> ELSE <<VarBase + (n % VarBase)>> \o appendVarUInt(n \div VarBase)

\* write() of the stream below: a file, a string or a Buffer.
fileWrite(file, data) == file \o data
stringWrite(str, data) == str \o data
bufferWrite(buf, data) == buf \o data
below(o, data) ==
  CASE o.sink = "file" -> fileWrite(o.file, data)
    [] o.sink = "string" -> stringWrite(o.file, data)
    [] o.sink = "buffer" -> bufferWrite(o.file, data)

\* Mutant: what was used to fill the buffer is written again.
write_again(o, data) ==
  LET room == o.cap - Len(o.buf)
  IN IF Len(data) <= room THEN [o EXCEPT !.buf = @ \o data]
     ELSE [o EXCEPT !.file = below(o, o.buf \o Take(data, room)), !.buf = data]

\* BufferedOutputStream::write: fill the buffer and flush it, write whole buffers
\* past it, and keep the rest, which is at least one byte.
write(o, data) ==
  LET room == o.cap - Len(o.buf)
      direct == ((Len(data) - room - 1) \div o.cap) * o.cap
  IN IF Len(data) <= room THEN [o EXCEPT !.buf = @ \o data]
     ELSE [o EXCEPT !.file = below(o, o.buf \o Take(data, room + direct)),
                    !.buf = Drop(data, room + direct)]

flush(o) == [o EXCEPT !.file = below(o, o.buf), !.buf = <<>>]

\* appendLenencString(): its writes.
appendLenencString(string) == <<appendVarUInt(Len(string)), string>>

\* appendRow(): the writes it makes.
appendRowBinary(row) ==
  <<appendVarUInt(Len(row))>>
  \o FlattenSeq([i \in DOMAIN row |-> appendLenencString(row[i])])
appendRowCSV(row) ==
  <<FlattenSeq([i \in DOMAIN row |-> IF i > 1 THEN <<column_separator>> \o row[i] ELSE row[i]])
    \o <<row_separator>>>>
appendRow(format, row) == IF format = "binary" THEN appendRowBinary(row) ELSE appendRowCSV(row)

-----------------------------------------------------------------------------
(* FileInputStream, as the set of its outcomes.  r is [buf, off, data]: the *)
(* unread part of buf_, the file's offset, and what the call delivered or   *)
(* returned.                                                                *)

readNextChunk(file, r) ==
  {[r EXCEPT !.buf = SubSeq(file, r.off + 1, r.off + n), !.off = @ + n] :
     n \in IF r.off >= Len(file) THEN {0} ELSE 1..Least(ChunkSize, Len(file) - r.off)}

filled(file, r) == IF r.buf = <<>> THEN readNextChunk(file, r) ELSE {r}

RECURSIVE readNextBytes(_, _, _)
readNextBytes(file, r, n) ==
  IF n = 0 THEN {r}
  ELSE UNION {LET k == Least(Len(c.buf), n)
              IN IF k = 0 THEN {c}
                 ELSE readNextBytes(file, [c EXCEPT !.buf = Drop(@, k), !.data = @ \o Take(c.buf, k)], n - k) :
              c \in filled(file, r)}

\* readLine(), by readNextByte().
RECURSIVE readLine(_, _)
readLine(file, r) ==
  UNION {IF c.data = r.data \/ Last(c.data) = row_separator THEN {c} ELSE readLine(file, c) :
         c \in readNextBytes(file, r, 1)}

\* Mutant: the buffered bytes are dropped and skipped once more.
skipNextBytes_twice(r, n) ==
  IF n <= Len(r.buf) THEN [r EXCEPT !.buf = Drop(@, n), !.data = <<n>>]
  ELSE [r EXCEPT !.buf = <<>>, !.off = @ + n, !.data = <<n>>]

\* Mutant: only what was in the buffer is counted.
skipNextBytes_counts(r, n) ==
  IF n <= Len(r.buf) THEN [r EXCEPT !.buf = Drop(@, n), !.data = <<n>>]
  ELSE [r EXCEPT !.buf = <<>>, !.off = @ + n - Len(r.buf), !.data = <<n - Len(r.buf)>>]

\* Returns n even if the file ends before.
skipNextBytes(r, n) ==
  IF n <= Len(r.buf) THEN [r EXCEPT !.buf = Drop(@, n), !.data = <<n>>]
  ELSE [r EXCEPT !.buf = <<>>, !.off = @ + n - Len(r.buf), !.data = <<n>>]

\* lseek() takes any offset, one behind the end of the file too.
seekTo(r, offset) == [r EXCEPT !.buf = <<>>, !.off = offset]

eof(file, r) == {[c EXCEPT !.data = <<IF c.buf = <<>> THEN 1 ELSE 0>>] : c \in filled(file, r)}

\* A reader of a value of n bytes raises if fewer are left, which are gone then.
Whole(data, n) == IF Len(data) = n THEN data ELSE Raise
readUInt(file, r, n) == {[c EXCEPT !.data = Whole(@, n)] : c \in readNextBytes(file, r, n)}
readString(file, r, n) == {[c EXCEPT !.data = Whole(@, n)] : c \in readNextBytes(file, r, n)}
readUntilEOF(file, r) == readNextBytes(file, r, Len(file))

fileStream(file, r0, call) ==
  LET r == [r0 EXCEPT !.data = <<>>]
  IN CASE call.op = "read" -> readNextBytes(file, r, call.n)
       [] call.op = "uint" -> readUInt(file, r, call.n)
       [] call.op = "string" -> readString(file, r, call.n)
       [] call.op = "all"  -> readUntilEOF(file, r)
       [] call.op = "line" -> readLine(file, r)
       [] call.op = "skip" -> {skipNextBytes(r, call.n)}
       [] call.op = "seek" -> {seekTo(r, call.n)}
       [] call.op = "eof"  -> eof(file, r)

\* openFile() reads the first chunk; the other ways to make a stream do not.
Fresh == [buf |-> <<>>, off |-> 0, data |-> <<>>]
openFile(file) == readNextChunk(file, Fresh)
fromFileDescriptor(file) == {Fresh}

-----------------------------------------------------------------------------
(* StringInputStream, BufferInputStream, MemoryInputStream and             *)
(* VFSFileInputStream: [cur, data].                                        *)

memReadNextBytes(file, cur, n) ==
  LET k == Least(n, Len(file) - cur) IN [cur |-> cur + k, data |-> SubSeq(file, cur + 1, cur + k)]

\* Returns how many bytes were left to be skipped.
memSkipNextBytes(file, cur, n) ==
  LET nskipped == IF cur + n > Len(file) THEN Len(file) - cur ELSE n
  IN [cur |-> cur + nskipped, data |-> <<nskipped>>]

memSeekTo(file, offset) == IF offset < Len(file) THEN offset ELSE Len(file)

memEof(file, cur) == cur >= Len(file)

memReadLine(file, cur) ==
  LET ends == {i \in (cur + 1)..Len(file) : file[i] = row_separator}
      k == IF ends = {} THEN Len(file) ELSE CHOOSE i \in ends : \A j \in ends : i <= j
  IN memReadNextBytes(file, cur, k - cur)

memReadWhole(file, cur, n) ==
  LET r == memReadNextBytes(file, cur, n) IN [r EXCEPT !.data = Whole(@, n)]

memStream(file, cur, call) ==
  CASE call.op = "read" -> memReadNextBytes(file, cur, call.n)
    [] call.op \in {"uint", "string"} -> memReadWhole(file, cur, call.n)
    [] call.op = "all"  -> memReadNextBytes(file, cur, Len(file))
    [] call.op = "line" -> memReadLine(file, cur)
    [] call.op = "skip" -> memSkipNextBytes(file, cur, call.n)
    [] call.op = "seek" -> [cur |-> memSeekTo(file, call.n), data |-> <<>>]
    [] call.op = "eof"  -> [cur |-> cur, data |-> <<IF memEof(file, cur) THEN 1 ELSE 0>>]

StringInputStream(str_, cur_, call) == memStream(str_, cur_, call)
BufferInputStream(buf_, cur_, call) == memStream(buf_, cur_, call)
MemoryInputStream(data_, cur_, call) == memStream(data_, cur_, call)
VFSFileInputStream(file_, cur_, call) == memStream(file_, cur_, call)

-----------------------------------------------------------------------------
(* Rows, read from the bytes left.                                         *)

RECURSIVE readVarUInt(_)
readVarUInt(b) ==
  IF Head(b) < VarBase THEN [val |-> Head(b), rest |-> Tail(b)]
  ELSE LET r == readVarUInt(Tail(b)) IN [r EXCEPT !.val = VarBase * @ + Head(b) - VarBase]

RECURSIVE readStrings(_, _, _)
readStrings(b, n, row) ==
  LET len == readVarUInt(b)
  IN IF n = 0 THEN [ok |-> TRUE, row |-> row, rest |-> b]
     ELSE readStrings(Drop(len.rest, len.val), n - 1, Append(row, Take(len.rest, len.val)))

readNextRowBinary(b) ==
  LET n == readVarUInt(b)
  IN IF b = <<>> THEN [ok |-> FALSE, row |-> <<>>, rest |-> b] ELSE readStrings(n.rest, n.val, <<>>)

\* DefaultCSVInputStream::readNextRow: a row that the end of the stream ends is not
\* reported, and a quote character only toggles the quoting.
RECURSIVE readColumns(_, _, _, _)
readColumns(b, row, column, quoted) ==
  CASE b = <<>> -> [ok |-> FALSE, row |-> Append(row, column), rest |-> b]
    [] b # <<>> /\ ~quoted /\ Head(b) = column_separator ->
         readColumns(Tail(b), Append(row, column), <<>>, FALSE)
    [] b # <<>> /\ ~quoted /\ Head(b) = row_separator ->
         [ok |-> TRUE, row |-> Append(row, column), rest |-> Tail(b)]
    [] b # <<>> /\ Head(b) = quote_char -> readColumns(Tail(b), row, column, ~quoted)
    [] OTHER -> readColumns(Tail(b), row, Append(column, Head(b)), quoted)

readNextRow(format, b) ==
  IF format = "binary" THEN readNextRowBinary(b) ELSE readColumns(b, <<>>, <<>>, FALSE)

-----------------------------------------------------------------------------
Init ==
  /\ input \in Inputs
  /\ st = [at |-> "write", todo |-> input.rows,
           out |-> [sink |-> input.sink, cap |-> input.cap, buf |-> <<>>, file |-> <<>>],
           in |-> Fresh,
           mem |-> [cur |-> 0, data |-> <<>>], rows |-> <<>>, calls |-> 0, op |-> "none"]

WriteRow ==
  /\ st.at = "write" /\ st.todo # <<>>
  /\ st' = [st EXCEPT !.todo = Tail(@),
                      !.out = FoldLeft(write, @, appendRow(input.format, Head(st.todo)))]
  /\ UNCHANGED input

\* ~BufferedOutputStream, and an input stream on the file.
CloseAndOpen ==
  /\ st.at = "write" /\ st.todo = <<>>
  /\ LET out == flush(st.out)
     IN \E r \in openFile(out.file) \cup fromFileDescriptor(out.file) :
          st' = [st EXCEPT !.at = "read", !.out = out, !.in = r]
  /\ UNCHANGED input

ReadRow ==
  /\ st.at = "read" /\ ~input.raw
  /\ LET r == readNextRow(input.format, Drop(st.out.file, st.mem.cur))
     IN st' = IF r.ok THEN [st EXCEPT !.rows = Append(@, r.row), !.mem.cur = Len(st.out.file) - Len(r.rest)]
              ELSE [st EXCEPT !.at = "end"]
  /\ UNCHANGED input

\* The same call on a FileInputStream and on one of the others.
RawRead ==
  /\ st.at = "read" /\ input.raw /\ st.calls < MaxCalls
  /\ \E call \in Calls :
       \E r \in fileStream(st.out.file, st.in, call),
          m \in {StringInputStream(st.out.file, st.mem.cur, call),
                 BufferInputStream(st.out.file, st.mem.cur, call),
                 MemoryInputStream(st.out.file, st.mem.cur, call),
                 VFSFileInputStream(st.out.file, st.mem.cur, call)} :
         st' = [st EXCEPT !.in = r, !.mem = m, !.calls = @ + 1, !.op = call.op]
  /\ UNCHANGED input

Next == WriteRow \/ CloseAndOpen \/ ReadRow \/ RawRead

Spec == Init /\ [][Next]_vars

-----------------------------------------------------------------------------
\* What was written is in the file and the buffer, in order and once, and the rows
\* read back are the rows written, whatever the buffer's capacity.
RowsSurvive ==
  LET written == Take(input.rows, Len(input.rows) - Len(st.todo))
      bytes == FlattenSeq([i \in DOMAIN written |-> FlattenSeq(appendRow(input.format, written[i]))])
  IN /\ st.out.file \o st.out.buf = bytes
     /\ IsPrefix(st.rows, input.rows)
     /\ st.at = "end" => st.rows = input.rows

\* Every kind of input stream answers the same calls with the same bytes and counts:
\* however read(2) cuts the file, a FileInputStream delivers the bytes at its position
\* after any mixture of reads, skips and seeks, past the end of the file too, where none
\* of them raises.  They differ in one thing: a skip that meets the end of the file
\* returns what was left to skip, but all that was asked for in a FileInputStream.
StreamsAgree ==
  \/ st.in.data = st.mem.data
  \/ /\ st.op = "skip" /\ memEof(st.out.file, st.mem.cur)
     /\ Len(st.in.data) = 1 /\ Len(st.mem.data) = 1 /\ st.in.data[1] > st.mem.data[1]
=============================================================================
