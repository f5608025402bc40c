----------------------------- MODULE BinaryMessage ------------------------------
(***************************************************************************)
(* BinaryMessageWriter, which grows its memory as values are appended and  *)
(* overwrites fixed-size ones in place, and BinaryMessageReader, which     *)
(* reads the message back, or as much of it as has arrived.  A value is    *)
(* [kind, v], v the characters of a string or one number; a byte of a      *)
(* varint carries a digit to the base VarBase and the flag.                *)
(*                                                                         *)
(* And BitPackEncoder, which packs numbers a block at a time into a        *)
(* buffer, as many bits each as the largest number needs, with             *)
(* BitPackDecoder, which unpacks a block when it has delivered the one     *)
(* before.  The packing of a block is simdcomp's: it returns the numbers   *)
(* of the block if each fits.  Next is the messages', BitsNext the packed  *)
(* numbers': they share no state.                                          *)
(***************************************************************************)
EXTENDS Integers, Sequences, SequencesExt

CONSTANTS
  Sizes,          \* the sizes a writer starts with; not 0, from which append() never grows
  Values,         \* what is appended: [kind, v]
  VarBase,        \* 128 in the code
  MaxVar,         \* the largest varint of the model
  MaxValues,      \* a bound on the values of a message
  Block,          \* 128 in the code: the numbers of a packed block
  MaxVals,        \* the largest numbers an encoder may be made for
  MaxCount        \* bound on the numbers encoded

VARIABLES
  w,              \* the writer: [owned, size, cap, bytes]; cap is what is really allocated
  values,         \* history: the values of the message
  at,             \* history: the offset of each
  r,              \* the reader: [pos, size], size -1 before there is one
  got,            \* what it has returned
  enc,            \* BitPackEncoder: [maxbits, inbuf, buf]: buf is a sequence of packed blocks
  dec,            \* BitPackDecoder: [pos, outbuf, outbuf_pos]
  mode,           \* "write" or "read"
  max_val,
  wrote, unpacked \* history: the numbers encoded and decoded

vars == <<w, values, at, r, got>>

Init ==
  /\ \E n \in Sizes, o \in BOOLEAN : w = [owned |-> o, size |-> n, cap |-> n, bytes |-> <<>>]
  /\ values = <<>> /\ at = <<>> /\ r = [pos |-> 0, size |-> -1] /\ got = <<>>

-----------------------------------------------------------------------------
(* BinaryMessageWriter.                                                    *)

Width == [u8 |-> 1, u16 |-> 2, u32 |-> 4]
Fixed(val) == val.kind \in DOMAIN Width

appendUInt(kind, v) == [i \in 1..Width[kind] |-> v]
appendVarUInt[n \in 0..MaxVar] ==
  IF n < VarBase THEN <<n>> ELSE <<VarBase + (n % VarBase)>> \o appendVarUInt[n \div VarBase]
appendLenencString(s) == appendVarUInt[Len(s)] \o s
Encoded(val) ==
  CASE Fixed(val) -> appendUInt(val.kind, val.v[1])
    [] val.kind = "var" -> appendVarUInt[val.v[1]]
    [] val.kind = "str" -> appendLenencString(val.v)

\* append() doubles until the bytes fit.  size_ keeps its first value, so that a message
\* that has outgrown it is reallocated by every append().
resize_once(need) == IF need > w.size THEN w.size * 2 ELSE w.size
resize(need) ==
  LET fit == {n \in {w.size * 2^i : i \in 0..5} : n >= need}
  IN CHOOSE n \in fit : \A m \in fit : n <= m
\* Writing the two parts of a lenenc string is two append()s: the first may fit alone.
append(val) ==
  /\ r.size = -1 /\ Len(values) < MaxValues
  /\ LET all == w.bytes \o Encoded(val)
         part == w.bytes \o (IF val.kind = "str" THEN appendVarUInt[Len(val.v)] ELSE <<>>)
         fits(n) == w.owned \/ n <= w.size
     IN IF fits(Len(all))
        THEN /\ w' = [w EXCEPT !.bytes = all,
                               !.cap = IF resize(Len(all)) > w.size THEN resize(Len(all)) ELSE @]
             /\ values' = Append(values, val) /\ at' = Append(at, Len(w.bytes))
        ELSE fits(Len(part)) /\ w' = [w EXCEPT !.bytes = part] /\ part # w.bytes /\ UNCHANGED <<values, at>>
  /\ UNCHANGED <<r, got>>

\* update...(): a fixed-size value in its place.  The test is against the first size.
update(i, v) ==
  /\ r.size = -1 /\ i \in DOMAIN values /\ Fixed(values[i]) /\ v # values[i].v
  /\ at[i] + Width[values[i].kind] <= w.size
  /\ w' = [w EXCEPT !.bytes =
             [n \in DOMAIN @ |-> IF n > at[i] /\ n <= at[i] + Width[values[i].kind] THEN v[1] ELSE @[n]]]
  /\ values' = [values EXCEPT ![i].v = v] /\ UNCHANGED <<at, r, got>>

clear ==
  /\ r.size = -1 /\ w.bytes # <<>>
  /\ w' = [w EXCEPT !.bytes = <<>>] /\ values' = <<>> /\ at' = <<>> /\ UNCHANGED <<r, got>>

-----------------------------------------------------------------------------
(* BinaryMessageReader.                                                    *)

\* A reader gets the message, or the beginning of it.
BinaryMessageReader ==
  /\ r.size = -1 /\ values # <<>> /\ \E n \in 1..Len(w.bytes) : r' = [pos |-> 0, size |-> n]
  /\ UNCHANGED <<w, values, at, got>>

remaining == r.size - r.pos
Byte(i) == w.bytes[i + 1]
Took(n, val) == r' = [r EXCEPT !.pos = @ + n] /\ got' = Append(got, val) /\ UNCHANGED <<w, values, at>>
NextKind == values[Len(got) + 1].kind
Reading == r.size # -1 /\ Len(got) < Len(values)

\* The varint at pos: its length and value, 0 when the message ends before it does.
Ends(pos) == {n \in 1..3 : pos + n <= r.size /\ Byte(pos + n - 1) < VarBase
                           /\ \A m \in 1..(n - 1) : Byte(pos + m - 1) >= VarBase}
VarAt(pos) ==
  IF Ends(pos) = {} THEN [n |-> 0, val |-> 0]
  ELSE LET n == CHOOSE k \in Ends(pos) : TRUE
           digit(i) == Byte(pos + i - 1) % VarBase
       IN [n |-> n, val |-> digit(1) + (IF n > 1 THEN VarBase * digit(2) ELSE 0)
                                     + (IF n > 2 THEN VarBase * VarBase * digit(3) ELSE 0)]

\* readUInt...() raise where the message ends first; that moves nothing.
readUInt ==
  /\ Reading /\ NextKind \in DOMAIN Width /\ r.pos + Width[NextKind] <= r.size
  /\ Took(Width[NextKind], [kind |-> NextKind, v |-> <<Byte(r.pos)>>])
\* maybeReadUInt...() and maybeReadDouble() want a byte more than they read: they never
\* return the last value of a message, and move nothing when they return false.
maybeReadUInt ==
  /\ Reading /\ NextKind \in DOMAIN Width /\ remaining > Width[NextKind]
  /\ Took(Width[NextKind], [kind |-> NextKind, v |-> <<Byte(r.pos)>>])

\* readVarUInt() raises and maybeReadVarUInt() returns false at the end of the message;
\* both have then moved there.
readVarUInt ==
  /\ Reading /\ NextKind = "var"
  /\ LET x == VarAt(r.pos) IN
     IF x.n > 0 THEN Took(x.n, [kind |-> "var", v |-> <<x.val>>])
     ELSE r.pos < r.size /\ r' = [r EXCEPT !.pos = r.size] /\ UNCHANGED <<w, values, at, got>>

\* maybeReadLenencString() goes back when the string is not there yet, not when its
\* length is not.
StrAt(len) == SubSeq(w.bytes, r.pos + len.n + 1, r.pos + len.n + len.val)
maybeReadLenencString ==
  /\ Reading /\ NextKind = "str"
  /\ LET len == VarAt(r.pos) IN
     IF len.n = 0
     THEN r.pos < r.size /\ r' = [r EXCEPT !.pos = r.size] /\ UNCHANGED <<w, values, at, got>>
     ELSE /\ len.val <= r.size - (r.pos + len.n)
          /\ Took(len.n + len.val, [kind |-> "str", v |-> StrAt(len)])

\* rewind(): the message is read again.
rewind ==
  /\ r.size # -1 /\ r.pos > 0 /\ r' = [r EXCEPT !.pos = 0] /\ got' = <<>>
  /\ UNCHANGED <<w, values, at>>

Next ==
  \/ \E val \in Values : append(val) \/ \E i \in 1..MaxValues : Fixed(val) /\ update(i, val.v)
  \/ clear \/ BinaryMessageReader \/ readUInt \/ maybeReadUInt \/ readVarUInt
  \/ maybeReadLenencString \/ rewind

Spec == Init /\ [][Next]_vars

-----------------------------------------------------------------------------
(* BitPackEncoder and BitPackDecoder.                                      *)

\* simdcomp: the bits of a number; numbers that fit come back from a block.
RECURSIVE bits(_)
bits(n) == IF n = 0 THEN 0 ELSE 1 + bits(n \div 2)
simdpack(inbuf, maxbits) == [i \in DOMAIN inbuf |-> inbuf[i] % (2 ^ maxbits)]
simdunpack(packed) == packed

BitsInit ==
  /\ max_val \in MaxVals
  /\ enc = [maxbits |-> IF max_val > 0 THEN bits(max_val) ELSE 0, inbuf |-> <<>>, buf |-> <<>>]
  /\ dec = [pos |-> 1, outbuf |-> <<>>, outbuf_pos |-> Block + 1]
  /\ mode = "write" /\ wrote = <<>> /\ unpacked = <<>>

\* flush() fills the block with zeros.
flushed(e) ==
  IF e.inbuf = <<>> THEN e
  ELSE LET block == [i \in 1..Block |-> IF i <= Len(e.inbuf) THEN e.inbuf[i] ELSE 0]
       IN [e EXCEPT !.buf = Append(@, simdpack(block, e.maxbits)), !.inbuf = <<>>]

\* Nothing is stored when the largest number is zero.
encoded(e, value) ==
  LET in == Append(e.inbuf, value)
  IN IF e.maxbits = 0 THEN e
     ELSE IF Len(in) = Block THEN flushed([e EXCEPT !.inbuf = in]) ELSE [e EXCEPT !.inbuf = in]

encode(value) ==
  /\ mode = "write" /\ Len(wrote) < MaxCount
  /\ enc' = encoded(enc, value)
  /\ wrote' = Append(wrote, value)
  /\ UNCHANGED <<dec, mode, max_val, unpacked>>

\* The caller flushes and hands data() and size() to a decoder.
flush ==
  /\ mode = "write"
  /\ enc' = flushed(enc) /\ mode' = "read"
  /\ UNCHANGED <<dec, max_val, wrote, unpacked>>

\* The end of the data is not tested; -1 is what lies behind it.
fetch(d) ==
  [pos |-> d.pos + 1, outbuf_pos |-> 1,
   outbuf |-> IF d.pos \in DOMAIN enc.buf THEN simdunpack(enc.buf[d.pos]) ELSE [i \in 1..Block |-> -1]]

\* Mutant: a block's last number is not delivered.
fetched_early(d) == IF d.outbuf_pos >= Block THEN fetch(d) ELSE d

\* next() and peek() fetch when the block is used up; nobody reads more than was written.
fetched(d) == IF d.outbuf_pos = Block + 1 THEN fetch(d) ELSE d

next ==
  /\ mode = "read" /\ Len(unpacked) < Len(wrote)
  /\ IF enc.maxbits = 0 THEN unpacked' = Append(unpacked, 0) /\ UNCHANGED dec
     ELSE LET d == fetched(dec)
          IN /\ unpacked' = Append(unpacked, d.outbuf[d.outbuf_pos])
             /\ dec' = [d EXCEPT !.outbuf_pos = @ + 1]
  /\ UNCHANGED <<enc, mode, max_val, wrote>>

peek ==
  /\ mode = "read" /\ Len(unpacked) < Len(wrote) /\ enc.maxbits > 0
  /\ dec' = fetched(dec)
  /\ UNCHANGED <<enc, mode, max_val, wrote, unpacked>>

BitsNext == (\E value \in 0..max_val : encode(value)) \/ flush \/ next \/ peek

-----------------------------------------------------------------------------

\* Every byte belongs to a value.
Whole ==
  /\ at # <<>> => at[1] = 0
  /\ \A i \in DOMAIN values :
       at[i] + Len(Encoded(values[i])) = IF i = Len(at) THEN Len(w.bytes) ELSE at[i + 1]

\* A message reads back as what was appended and updated, in order and up to where it was
\* cut: no value is made of bytes that are not its own, whether the reader met the end of
\* the message, gave up or began again.  (A value refused for want of space may leave its
\* length behind, and then nothing can be said.)  The bytes are always within what is
\* allocated, although size_ no longer says how much that is.
MessageReadsBack ==
  /\ Len(w.bytes) <= w.cap
  /\ Whole => \A i \in DOMAIN got : got[i] = values[i]
  /\ r.size # -1 => r.pos <= r.size

\* The numbers come back in order over any number of blocks, the last of them not full,
\* however next() and peek() are mixed, if none is larger than the encoder was made for.
NumbersSurvive == IsPrefix(unpacked, wrote)
=================================================================================
