------------------------------- MODULE Protobuf -------------------------------
(***************************************************************************)
(* Messages in protobuf's wire format, their schemas and DynamicMessage.   *)
(* A message is written with one schema and read with another one, from    *)
(* which fields were removed or to which some were added since; a schema   *)
(* is itself written to bytes and to JSON; a DynamicMessage goes through   *)
(* JSON.  A byte of a varint carries Log(VarBase) bits and the flag.  A    *)
(* message is a sequence of [id, type, v]; v is the characters of a        *)
(* string, the children of an object, or one number.                       *)
(*                                                                         *)
(* And the storage of a MessageObject, which keeps a vector, a string or a *)
(* number in one piece of untyped memory and constructs and destroys it by *)
(* hand, by the object's type.  Objects are made, copied, assigned and     *)
(* destroyed in any order.  A vector or a string owns a block of memory; a *)
(* block's content is a token.  Next is the messages', StorageNext the     *)
(* storage's: they share no state.                                         *)
(***************************************************************************)
EXTENDS Integers, Sequences, SequencesExt, FiniteSets

CONSTANTS
  VarBase,      \* 128 in the code: the values of a varint byte's payload
  Word32,       \* 2^32 in the code
  Max64,        \* the largest uint64_t
  bound_milli,  \* Human::parseTime: below it a number is seconds
  bound_micro,  \* ... below it milliseconds, above it microseconds
  WireInputs,   \* [op, msg, schema, reader, cut] to go over the wire
  JSONInputs,   \* [op, msg, schema] to go through JSON
  Objects,      \* MessageObjects
  Tokens        \* contents of vectors and strings, and numbers

VARIABLES
  input,
  st,           \* [at, bytes, msg]
  obj,          \* [Objects -> [type, block, val]]; type "gone" is no object
  blocks,       \* the live blocks: a function to their contents
  bad,          \* history: storage was used or destroyed that was not there
  meant         \* history: the value each object stands for

vars == <<input, st>>

Bad == [ok |-> FALSE, val |-> 0, rest |-> <<>>]
Good(val, rest) == [ok |-> TRUE, val |-> val, rest |-> rest]

-----------------------------------------------------------------------------
(* BinaryMessageWriter and BinaryMessageReader.                            *)

RECURSIVE appendVarUInt(_)
appendVarUInt(n) ==
  IF n < VarBase THEN <<n>> ELSE <<VarBase + (n % VarBase)>> \o appendVarUInt(n \div VarBase)

appendLenencString(s) == appendVarUInt(Len(s)) \o s

\* IEEE754::toBytes: eight bytes, which tell the values apart.
appendDouble(d) == [i \in 1..8 |-> d]

\* Reading past the end raises (the bounds are checked unless NDEBUG is defined).
RECURSIVE readVarUInt(_)
readVarUInt(b) ==
  IF b = <<>> THEN Bad
  ELSE IF Head(b) < VarBase THEN Good(Head(b), Tail(b))
  ELSE LET r == readVarUInt(Tail(b)) IN [r EXCEPT !.val = VarBase * @ + Head(b) - VarBase]

read(b, n) == IF n > Len(b) THEN Bad ELSE Good(SubSeq(b, 1, n), SubSeq(b, n + 1, Len(b)))

readLenencString(b) == LET n == readVarUInt(b) IN IF n.ok THEN read(n.rest, n.val) ELSE Bad

-----------------------------------------------------------------------------
(* MessageSchema and MessageObject.                                        *)

FieldType == [OBJECT |-> 0, BOOLEAN |-> 1, UINT32 |-> 2, STRING |-> 3,
              UINT64 |-> 4, DOUBLE |-> 5, DATETIME |-> 6]
NoSchema == [name |-> <<>>, fields |-> <<>>]

\* The name of a type, and the type of a name in any case; another name raises.
fieldTypeToString(type) == <<FieldType[type]>>
fieldTypeFromString(str) == CHOOSE t \in DOMAIN FieldType : fieldTypeToString(t) = str

hasField(s, id) == \E i \in DOMAIN s.fields : s.fields[i].id = id
fieldSchema(s, id) == SelectSeq(s.fields, LAMBDA f : f.id = id)[1]
addField(s, f) == [s EXCEPT !.fields = Append(@, f)]
removeField(s, id) == [s EXCEPT !.fields = SelectSeq(@, LAMBDA f : f.id # id)]

\* fieldId(), by name.
fieldId(s, name) == SelectSeq(s.fields, LAMBDA f : f.name = name)[1].id
hasFieldNamed(s, name) == \E i \in DOMAIN s.fields : s.fields[i].name = name

\* fromProtobuf(): a descriptor's field has a sequence maxval, empty when the option is
\* absent, and the values of its enum; an enum is stored as a UINT32.
RECURSIVE fromProtobuf(_)
fromProtobuf(dsc) ==
  LET field(d) ==
        LET limit(default) == IF d.maxval = <<>> THEN default ELSE d.maxval[1]
            top == Max({0} \cup d.values)
            f(type, size, hint, sub) ==
              [id |-> d.number, name |-> d.name, type |-> type, type_size |-> size, repeated |-> d.repeated,
               optional |-> d.optional, encoding |-> hint, schema |-> sub]
        IN CASE d.type = "BOOL" -> f("BOOLEAN", 0, d.encoding, NoSchema)
             [] d.type = "STRING" -> f("STRING", limit(Word32 - 1), d.encoding, NoSchema)
             [] d.type = "UINT64" -> f("UINT64", limit(Max64), d.encoding, NoSchema)
             [] d.type = "UINT32" -> f("UINT32", limit(Word32 - 1), d.encoding, NoSchema)
             [] d.type = "DOUBLE" -> f("DOUBLE", 0, d.encoding, NoSchema)
             [] d.type = "ENUM" -> f("UINT32", top, IF top < 250 THEN 1 ELSE 2, NoSchema)
             [] d.type = "MESSAGE" -> f("OBJECT", 0, 0, fromProtobuf(d.message))
  IN FoldLeft(addField, [name |-> dsc.name, fields |-> <<>>],
              [i \in DOMAIN dsc.fields |-> field(dsc.fields[i])])

\* MessageSchemaRepository: a sequence of schemas.  A name that is registered keeps its
\* first schema, and hides what the descriptor pool has under it.
registerSchema(schemas, s) ==
  IF \E i \in DOMAIN schemas : schemas[i].name = s.name THEN schemas ELSE Append(schemas, s)
getSchema(schemas, pool, name) ==
  LET found == SelectSeq(schemas, LAMBDA s : s.name = name)
      desc == SelectSeq(pool, LAMBDA d : d.name = name)
  IN IF found # <<>> THEN found[1] ELSE fromProtobuf(desc[1])

RECURSIVE maxFieldId(_)
maxFieldId(s) ==
  Max({0} \cup {s.fields[i].id : i \in DOMAIN s.fields}
      \cup {maxFieldId(s.fields[i].schema) : i \in DOMAIN s.fields})

\* columns(): the leaves of a schema under their dotted names.
RECURSIVE columns(_)
columns(s) ==
  FlattenSeq([i \in DOMAIN s.fields |->
    LET f == s.fields[i]
        below == columns(f.schema)
    IN IF f.type = "OBJECT" THEN [j \in DOMAIN below |-> <<<<f.name>> \o below[j][1], below[j][2]>>]
       ELSE <<<<<<f.name>>, f>>>>])

\* The constructors of MessageObject.
Value(id, type, v) == [id |-> id, type |-> type, v |-> v]

\* getObjects(), fieldCount() and getObject() of the children of an object.
getObjects(m, id) == SelectSeq(m, LAMBDA o : o.id = id)
fieldCount(m, id) == Cardinality({i \in DOMAIN m : m[i].id = id})
getObject(m, id) == m[CHOOSE i \in DOMAIN m : m[i].id = id /\ \A j \in 1..(i - 1) : m[j].id # id]

\* The as...() conversions: what a value reads as, <<>> where asX() raises.
as(o, type) ==
  CASE type = "UINT32" /\ o.type \in {"UINT32", "UINT64"} -> <<o.v[1] % Word32>>
    [] type \in {"UINT64", "DATETIME"} /\ o.type \in {"UINT32", "UINT64", "DATETIME"} -> o.v
    [] type = "BOOLEAN" /\ o.type \in {"BOOLEAN", "UINT32"} -> <<IF o.v[1] > 0 THEN 1 ELSE 0>>
    [] type \in {"STRING", "OBJECT", "DOUBLE"} /\ o.type = type -> o.v
    [] OTHER -> <<>>

\* getUInt32() ... getBool(): of the first child with the id, a time only as one.
getAs(m, id, type) ==
  LET o == getObject(m, id)
  IN IF type = "DATETIME" /\ o.type # "DATETIME" THEN <<>> ELSE as(o, type)

-----------------------------------------------------------------------------
(* MessageEncoder and MessageDecoder.                                      *)

WireType(type) ==
  CASE type \in {"OBJECT", "STRING"} -> 2 [] type = "DOUBLE" -> 1 [] OTHER -> 0

RECURSIVE encodeObject(_, _)
encodeObject(o, s) ==
  LET f == fieldSchema(s, o.id)
      body == FlattenSeq([i \in DOMAIN o.v |-> encodeObject(o.v[i], f.schema)])
      key == appendVarUInt(8 * o.id + WireType(f.type))
  IN key \o CASE f.type = "OBJECT" -> appendVarUInt(Len(body)) \o body
              [] f.type = "STRING" -> appendLenencString(as(o, "STRING"))
              [] f.type = "DOUBLE" -> appendDouble(as(o, "DOUBLE")[1])
              [] OTHER -> appendVarUInt(as(o, f.type)[1])

encode(m, s) == FlattenSeq([i \in DOMAIN m |-> encodeObject(m[i], s)])

\* Mutant: a skipped double is four bytes.
skipUnknown_short(b, wire) ==
  CASE wire = 0 -> readVarUInt(b)
    [] wire = 2 -> readLenencString(b)
    [] wire \in {1, 5} -> read(b, 4)
    [] OTHER -> Bad

\* What the decoder skips for a field its schema does not have.
skipUnknown(b, wire) ==
  CASE wire = 0 -> readVarUInt(b)
    [] wire = 2 -> readLenencString(b)
    [] wire = 5 -> read(b, 4)
    [] wire = 1 -> read(b, 8)
    [] OTHER -> Bad

\* decode(): decodeField() is one turn of its loop; the value is the children added,
\* those added before it raised included.  An object is added when its length is read,
\* and filled afterwards.
RECURSIVE decodeField(_, _), decode(_, _)
decodeField(b, s) ==
  LET key == readVarUInt(b)
      id == key.val \div 8
      f == fieldSchema(s, id)
      added(r, v) == [r EXCEPT !.val = IF r.ok THEN <<Value(id, f.type, v)>> ELSE <<>>]
      r == CASE f.type = "STRING" -> readLenencString(key.rest)
             [] f.type = "DOUBLE" -> read(key.rest, 8)
             [] OTHER -> readVarUInt(key.rest)
      body == read(r.rest, r.val)
      inner == IF body.ok THEN decode(body.val, f.schema) ELSE [Bad EXCEPT !.val = <<>>]
  IN CASE ~key.ok -> [key EXCEPT !.val = <<>>]
       [] key.ok /\ ~hasField(s, id) -> [skipUnknown(key.rest, key.val % 8) EXCEPT !.val = <<>>]
       [] OTHER ->
            CASE f.type = "OBJECT" ->
                   IF r.ok THEN [added(r, inner.val) EXCEPT !.ok = body.ok /\ inner.ok, !.rest = body.rest]
                   ELSE added(r, <<>>)
              [] f.type = "STRING" -> added(r, r.val)
              [] f.type = "DOUBLE" -> added(r, <<r.val[1]>>)
              [] f.type = "UINT32" -> added(r, <<r.val % Word32>>)
              [] f.type = "BOOLEAN" -> added(r, <<IF r.val = 1 THEN 1 ELSE 0>>)
              [] OTHER -> added(r, <<r.val>>)
decode(b, s) ==
  LET r == decodeField(b, s)
      more == decode(r.rest, s)
  IN IF b = <<>> THEN Good(<<>>, <<>>)
     ELSE IF ~r.ok THEN r ELSE [more EXCEPT !.val = r.val \o @]

-----------------------------------------------------------------------------
(* A schema as bytes.                                                      *)

RECURSIVE encodeSchema(_)
encodeSchema(s) ==
  <<1>> \o appendLenencString(s.name) \o appendVarUInt(Len(s.fields))
  \o FlattenSeq([i \in DOMAIN s.fields |->
       LET f == s.fields[i]
       IN appendVarUInt(f.id) \o appendLenencString(f.name) \o <<FieldType[f.type]>>
          \o appendVarUInt(f.type_size) \o <<f.repeated, f.optional, f.encoding>>
          \o (IF f.type = "OBJECT" THEN encodeSchema(f.schema) ELSE <<>>)])

RECURSIVE decodeFields(_, _, _), decodeSchema(_)
decodeFields(b, n, s) ==
  LET id == readVarUInt(b)
      name == readLenencString(id.rest)
      size == readVarUInt(Tail(name.rest))
      type == CHOOSE t \in DOMAIN FieldType : FieldType[t] = Head(name.rest)
      flags == SubSeq(size.rest, 1, 3)
      rest == SubSeq(size.rest, 4, Len(size.rest))
      sub == IF type = "OBJECT" THEN decodeSchema(rest) ELSE Good(NoSchema, rest)
  IN IF n = 0 THEN Good(s, b)
     ELSE decodeFields(sub.rest, n - 1,
            addField(s, [id |-> id.val, name |-> name.val, type |-> type, type_size |-> size.val,
                         repeated |-> flags[1], optional |-> flags[2], encoding |-> flags[3],
                         schema |-> sub.val]))
decodeSchema(b) ==
  LET name == readLenencString(Tail(b))
      n == readVarUInt(name.rest)
  IN decodeFields(n.rest, n.val, [name |-> name.val, fields |-> <<>>])

-----------------------------------------------------------------------------
(* JSON.  A value is [t, c], its token type and its characters or parts;   *)
(* the parts of an object are its keys and values, in one sequence.  An    *)
(* integer is written as its digits and read back by stoull().             *)

RECURSIVE digits(_)
digits(n) == IF n < 10 THEN <<n>> ELSE Append(digits(n \div 10), n % 10)
stoull(s) == FoldLeft(LAMBDA acc, d : 10 * acc + d, 0, s)

Text(t, c) == [t |-> t, c |-> c]
Integer(n) == Text("number", digits(n))
Bool(b) == Text(IF b > 0 THEN "true" ELSE "false", <<>>)

Key(name) == Text("string", name)
Members(pairs) == FlattenSeq([i \in DOMAIN pairs |-> <<Key(pairs[i][1]), pairs[i][2]>>])

\* objectLookup(): what follows the key, the closing token when there is none.  The values
\* are taken for keys if two follow each other, and the scan goes into one with parts.
Close == Text("}", <<>>)
RECURSIVE scanKeys(_, _)
scanKeys(tokens, key) ==
  LET t == Head(tokens)
      rest == (IF t.t \in {"{", "["} THEN Append(t.c, Close) ELSE <<>>) \o Tail(tokens)
  IN IF tokens = <<>> \/ rest = <<>> THEN Close
     ELSE IF t = Key(key) THEN Head(rest) ELSE scanKeys(Tail(rest), key)
objectLookup(v, key) == scanKeys(Append(v.c, Close), key)

RECURSIVE schemaToJSON(_)
schemaToJSON(s) ==
  Text("{", Members(<<<<"name", Text("string", s.name)>>,
    <<"columns", Text("[", [i \in DOMAIN s.fields |->
       LET f == s.fields[i]
       IN Text("{", Members(<<<<"id", Integer(f.id)>>, <<"name", Text("string", f.name)>>,
            <<"type", Text("string", fieldTypeToString(f.type))>>, <<"type_size", Integer(f.type_size)>>,
            <<"optional", Bool(f.optional)>>, <<"repeated", Bool(f.repeated)>>,
            <<"encoding_hint", Text("string", <<0>>)>>>>
            \o (IF f.type = "OBJECT" THEN <<<<"schema", schemaToJSON(f.schema)>>>> ELSE <<>>)))])>>>>))

\* The encoding is not read, and an object's type_size is 0.
RECURSIVE schemaFromJSON(_)
schemaFromJSON(v) ==
  LET cols == objectLookup(v, "columns").c
      flag(col, key) == IF objectLookup(col, key).t = "true" THEN 1 ELSE 0
      column(col) ==
        LET type == fieldTypeFromString(objectLookup(col, "type").c)
        IN [id |-> stoull(objectLookup(col, "id").c), name |-> objectLookup(col, "name").c,
            type |-> type,
            type_size |-> IF type = "OBJECT" THEN 0 ELSE stoull(objectLookup(col, "type_size").c),
            repeated |-> flag(col, "repeated"), optional |-> flag(col, "optional"), encoding |-> 0,
            schema |-> IF type = "OBJECT" THEN schemaFromJSON(objectLookup(col, "schema")) ELSE NoSchema]
  IN FoldLeft(LAMBDA s, col : addField(s, column(col)),
              [name |-> objectLookup(v, "name").c, fields |-> <<>>], cols)

\* JSONEncoder::encode: the fields in the schema's order, under their names; all values
\* of a field that is not repeated follow its name; addFloat() writes null for a zero.
RECURSIVE encodeJSON(_, _)
encodeJSON(m, s) ==
  LET value(o, f) ==
        CASE f.type = "OBJECT" -> encodeJSON(o.v, f.schema)
          [] f.type = "BOOLEAN" -> Bool(as(o, "BOOLEAN")[1])
          [] f.type = "STRING" -> Text("string", o.v)
          [] f.type = "DOUBLE" -> IF o.v[1] = 0 THEN Text("null", <<>>) ELSE Integer(o.v[1])
          [] OTHER -> Integer(as(o, f.type)[1])
      entry(f) ==
        LET os == SelectSeq(m, LAMBDA o : o.id = f.id)
            vs == [i \in DOMAIN os |-> value(os[i], f)]
        IN IF os = <<>> THEN <<>>
           ELSE <<Key(f.name)>> \o IF f.repeated = 1 THEN <<Text("[", vs)>> ELSE vs
  IN Text("{", FlattenSeq([i \in DOMAIN s.fields |-> entry(s.fields[i])]))

\* Mutant: a number is seconds or milliseconds.
parseTime_millis(ts) == IF ts < bound_milli THEN <<ts * 1000 * 1000>> ELSE <<ts * 1000>>

\* Human::parseTime of digits; a number at a bound is no timestamp.
parseTime(ts) ==
  CASE ts < bound_milli -> <<ts * 1000 * 1000>>
    [] ts > bound_milli /\ ts < bound_micro -> <<ts * 1000>>
    [] ts > bound_micro -> <<ts>>
    [] OTHER -> <<>>

\* DynamicMessage::addField: false, and nothing added, for text that is no such value.
addFieldText(m, f, text) ==
  LET v == CASE f.type = "STRING" -> text.c
             [] f.type = "BOOLEAN" /\ text.t \in {"true", "false"} -> <<IF text.t = "true" THEN 1 ELSE 0>>
             [] f.type \in {"UINT64", "DOUBLE"} /\ text.t = "number" -> <<stoull(text.c)>>
             [] f.type = "UINT32" /\ text.t = "number" -> <<stoull(text.c) % Word32>>
             [] f.type = "DATETIME" /\ text.t = "number" -> parseTime(stoull(text.c))
             [] OTHER -> <<>>
  IN IF f.type # "STRING" /\ v = <<>> THEN m
     ELSE Append(m, Value(f.id, f.type, v))

\* DynamicMessage::fromJSON: in an array, true and false pass on their data, which is empty;
\* behind an object both switches fall through to addField() with its empty data.
RECURSIVE fromJSON(_, _)
fromJSON(s, v) ==
  LET data(e) == IF e.t \in {"true", "false", "{"} THEN Text("string", <<>>) ELSE e
      addObject(m, f, e) ==
        IF f.type # "OBJECT" THEN m
        ELSE Append(m, Value(f.id, "OBJECT", fromJSON(f.schema, e)))
      element(m, f, e) ==
        CASE e.t = "{" -> addFieldText(addObject(m, f, e), f, data(e))
          [] e.t \in {"string", "number", "true", "false"} -> addFieldText(m, f, data(e))
          [] OTHER -> m
      field(m, f) ==
        LET e == objectLookup(v, f.name)
        IN CASE e.t = "[" -> FoldLeft(LAMBDA acc, x : element(acc, f, x), m, e.c)
             [] e.t = "{" -> element(m, f, e)
             [] e.t \in {"string", "number", "true", "false"} -> addFieldText(m, f, e)
             [] OTHER -> m
  IN FoldLeft(field, <<>>, s.fields)

\* addUInt32Field() ... addStringField(): a value of the type the schema has for the name;
\* nothing is added, and false returned, for another name or type.
addTyped(m, s, name, type, v) ==
  IF hasFieldNamed(s, name) /\ fieldSchema(s, fieldId(s, name)).type = type
  THEN Append(m, Value(fieldId(s, name), type, v)) ELSE m

\* addObject(): its function fills a message of the field's schema.
RECURSIVE addObject(_, _, _, _), build(_, _)
addObject(m, s, name, os) ==
  IF hasFieldNamed(s, name) /\ fieldSchema(s, fieldId(s, name)).type = "OBJECT"
  THEN Append(m, Value(fieldId(s, name), "OBJECT", build(fieldSchema(s, fieldId(s, name)).schema, os))) ELSE m

\* A DynamicMessage made by calls of these, one for each value.
build(s, os) ==
  FoldLeft(LAMBDA m, o : IF ~hasField(s, o.id) THEN m
                         ELSE IF o.type = "OBJECT" THEN addObject(m, s, fieldSchema(s, o.id).name, o.v)
                         ELSE addTyped(m, s, fieldSchema(s, o.id).name, o.type, o.v), <<>>, os)

\* DynamicMessage::getField: the first one counts.
getField(m, s, id) ==
  LET f == fieldSchema(s, id)
  IN IF ~hasField(s, id) \/ fieldCount(m, id) = 0 \/ f.type = "OBJECT" THEN <<>>
     ELSE <<getAs(m, id, f.type)>>

-----------------------------------------------------------------------------
Init ==
  /\ input \in WireInputs \cup JSONInputs
  /\ st = [at |-> "start", bytes |-> <<>>, msg |-> <<>>]

\* MessageEncoder::encode; the reader may get less than was written.
Encode ==
  /\ st.at = "start" /\ input.op = "wire"
  /\ LET b == encode(input.msg, input.schema)
     IN st' = [st EXCEPT !.at = "decode", !.bytes = SubSeq(b, 1, Len(b) - input.cut)]
  /\ UNCHANGED input

\* One turn of the loop of MessageDecoder::decode.
DecodeField ==
  /\ st.at = "decode" /\ st.bytes # <<>>
  /\ LET r == decodeField(st.bytes, input.reader)
     IN st' = [st EXCEPT !.at = IF r.ok THEN @ ELSE "raised", !.bytes = r.rest, !.msg = @ \o r.val]
  /\ UNCHANGED input

\* toJSON() and fromJSON() of a DynamicMessage, which is built field by field.
ThroughJSON ==
  /\ st.at = "start" /\ input.op = "json"
  /\ st' = [st EXCEPT !.at = "read", 
                      !.msg = fromJSON(input.schema, encodeJSON(build(input.schema, input.msg), input.schema))]
  /\ UNCHANGED input

Next == Encode \/ DecodeField \/ ThroughJSON

Spec == Init /\ [][Next]_vars

-----------------------------------------------------------------------------
(* The storage of a MessageObject.                                         *)

Types == {"OBJECT", "STRING", "UINT32", "UINT64", "DATETIME", "DOUBLE", "BOOLEAN"}
Owning == {"OBJECT", "STRING"}
Gone == [type |-> "gone", block |-> 0, val |-> 0]
Alive(o) == obj[o].type # "gone"
Ids == 1..(Cardinality(Objects) + 1)

StorageInit ==
  /\ obj = [o \in Objects |-> Gone]
  /\ blocks = <<>> /\ bad = FALSE
  /\ meant = [o \in Objects |-> 0]

With(h, b, t) == [x \in DOMAIN h \cup {b} |-> IF x = b THEN t ELSE h[x]]
Without(h, b) == [x \in DOMAIN h \ {b} |-> h[x]]
Fresh(h) == CHOOSE b \in Ids : b \notin DOMAIN h

\* Placement new of a value of a type over memory h: the object and the memory after it.
placed(h, type, t) ==
  IF type \in Owning
  THEN [o |-> [type |-> type, block |-> Fresh(h), val |-> 0], h |-> With(h, Fresh(h), t)]
  ELSE [o |-> [type |-> type, block |-> 0, val |-> IF type = "BOOLEAN" THEN (IF t > 0 THEN 1 ELSE 0) ELSE t],
        h |-> h]

\* What an object reads as: asObject() ... asUnixTime() of its own type.
reads(o) ==
  IF obj[o].type \notin Owning THEN obj[o].val
  ELSE IF obj[o].block \in DOMAIN blocks THEN blocks[obj[o].block] ELSE 0

\* The destructor call the type asks for: the memory after it.
destroyed(o) == IF obj[o].type \in Owning THEN Without(blocks, obj[o].block) ELSE blocks
Missing(o) == obj[o].type \in Owning /\ obj[o].block \notin DOMAIN blocks

construct(o, type, t) ==
  /\ ~Alive(o)
  /\ LET r == placed(blocks, type, t)
     IN obj' = [obj EXCEPT ![o] = r.o] /\ blocks' = r.h
  /\ meant' = [meant EXCEPT ![o] = IF type = "BOOLEAN" /\ t > 0 THEN 1 ELSE t]
  /\ UNCHANGED bad

copy(o, p) ==
  /\ ~Alive(o) /\ Alive(p)
  /\ LET r == placed(blocks, obj[p].type, reads(p))
     IN obj' = [obj EXCEPT ![o] = r.o] /\ blocks' = r.h
  /\ bad' = (bad \/ Missing(p))
  /\ meant' = [meant EXCEPT ![o] = meant[p]]

\* Mutant: the type is assigned before the old value is destroyed.
assign_typeFirst(o, p) ==
  /\ Alive(o) /\ Alive(p) /\ o # p
  /\ LET h == IF obj[p].type \in Owning THEN Without(blocks, obj[o].block) ELSE blocks
         r == placed(h, obj[p].type, reads(p))
     IN obj' = [obj EXCEPT ![o] = r.o] /\ blocks' = r.h
  /\ bad' = (bad \/ (obj[p].type \in Owning /\ obj[o].block \notin DOMAIN blocks) \/ Missing(p))
  /\ meant' = [meant EXCEPT ![o] = meant[p]]

\* operator=: the old value is destroyed by the old type, the new one constructed by the
\* new type.  An object is not assigned to itself or to one that holds it: what is copied
\* would be gone.
assign(o, p) ==
  /\ Alive(o) /\ Alive(p) /\ o # p
  /\ LET r == placed(destroyed(o), obj[p].type, reads(p))
     IN obj' = [obj EXCEPT ![o] = r.o] /\ blocks' = r.h
  /\ bad' = (bad \/ Missing(o) \/ Missing(p))
  /\ meant' = [meant EXCEPT ![o] = meant[p]]

destroy(o) ==
  /\ Alive(o)
  /\ blocks' = destroyed(o)
  /\ bad' = (bad \/ Missing(o))
  /\ obj' = [obj EXCEPT ![o] = Gone]
  /\ meant' = [meant EXCEPT ![o] = 0]

StorageNext ==
  \E o \in Objects :
    \/ \E type \in Types, t \in Tokens : construct(o, type, t)
    \/ \E p \in Objects : copy(o, p) \/ assign(o, p)
    \/ destroy(o)

-----------------------------------------------------------------------------
\* What a reader with another schema has to see of a message: the fields it knows,
\* with the type they have in its schema.
RECURSIVE Seen(_, _, _)
Seen(m, s, reader) ==
  LET known == SelectSeq(m, LAMBDA o : hasField(reader, o.id))
      seen(o) ==
        LET f == fieldSchema(s, o.id)
            g == fieldSchema(reader, o.id)
        IN [id |-> o.id, type |-> g.type,
            v |-> CASE f.type = "OBJECT" -> Seen(o.v, f.schema, g.schema)
                    [] f.type = "UINT32" \/ g.type = "UINT32" -> <<o.v[1] % Word32>>
                    [] OTHER -> o.v]
  IN [i \in DOMAIN known |-> seen(known[i])]

\* The n-th value of a message without its children, behind the ones before it.
EmptiedAt(m, n) == Append(SubSeq(m, 1, n - 1), [m[n] EXCEPT !.v = <<>>])

\* A message reaches a reader with a newer or an older schema with exactly the
\* fields that reader knows, however deep they are; a buffer that was cut off yields
\* whole leading fields, and decode() raises unless it was cut between two fields.  When
\* it raises, the message holds whole leading fields and at most one object without its
\* children, the one the buffer ends in.  A schema survives its own encoding, its names and
\* columns survive JSON, and a repository keeps the first schema of a name.
WireRoundTrip ==
  input.op = "wire" =>
    LET whole == Seen(input.msg, input.schema, input.reader)
        hints(s) == [i \in DOMAIN columns(s) |-> <<columns(s)[i][1], [columns(s)[i][2] EXCEPT !.encoding = 0]>>]
    IN /\ \/ IsPrefix(st.msg, whole)
          \/ /\ st.at = "raised" /\ Len(st.msg) \in DOMAIN whole
             /\ whole[Len(st.msg)].type = "OBJECT" /\ st.msg = EmptiedAt(whole, Len(st.msg))
       /\ st.at = "raised" => input.cut > 0
       /\ st.at = "decode" /\ st.bytes = <<>> =>
            \E n \in 0..Len(input.msg) :
              LET sent == SubSeq(input.msg, 1, n)
              IN /\ Len(encode(sent, input.schema)) = Max({0, Len(encode(input.msg, input.schema)) - input.cut})
                 /\ st.msg = Seen(sent, input.schema, input.reader)
       /\ st.at = "start" =>
            /\ decodeSchema(encodeSchema(input.schema)).val = input.schema
            /\ hints(schemaFromJSON(schemaToJSON(input.schema))) = hints(input.schema)
            /\ getSchema(registerSchema(registerSchema(<<>>, input.schema), input.reader), <<>>, input.schema.name)
                 = input.schema

\* Values that fromJSON() does not give back: a boolean in an array, a zero double, a
\* time before bound_micro, and several values of a field that is not repeated.
RECURSIVE Plain(_, _)
Plain(m, s) ==
  \A i \in DOMAIN m :
    LET f == fieldSchema(s, m[i].id)
    IN (f.repeated = 1 \/ fieldCount(m, f.id) = 1) /\
       CASE f.type = "OBJECT" -> Plain(m[i].v, f.schema)
         [] f.type = "BOOLEAN" -> f.repeated = 0
         [] f.type = "DOUBLE" -> m[i].v[1] # 0
         [] f.type = "DATETIME" -> m[i].v[1] > bound_micro
         [] OTHER -> TRUE

\* A message with its fields in the order of the schema, at every level.
RECURSIVE InOrder(_, _)
InOrder(m, s) ==
  FlattenSeq([i \in DOMAIN s.fields |->
    LET f == s.fields[i]
        os == SelectSeq(m, LAMBDA o : o.id = f.id)
    IN [j \in DOMAIN os |-> IF f.type = "OBJECT" THEN [os[j] EXCEPT !.v = InOrder(@, f.schema)] ELSE os[j]]])

\* A DynamicMessage that went through JSON holds the same values, nested and
\* repeated ones included, in the order of its schema, and answers getField() as before.
DynamicRoundTrip ==
  (input.op = "json" /\ st.at = "read" /\ Plain(input.msg, input.schema)) =>
    /\ st.msg = InOrder(input.msg, input.schema)
    /\ \A i \in DOMAIN input.schema.fields :
         LET id == input.schema.fields[i].id
         IN /\ getField(st.msg, input.schema, id) = getField(input.msg, input.schema, id)
            /\ Len(getObjects(st.msg, id)) = fieldCount(input.msg, id)

\* Whatever types an object held before, it reads as the value last given to it; its
\* memory is its own, and memory no object owns was released, once.
StorageOwned ==
  /\ ~bad
  /\ DOMAIN blocks = {obj[o].block : o \in {p \in Objects : obj[p].type \in Owning}}
  /\ \A o, p \in Objects : o # p /\ obj[o].block # 0 => obj[o].block # obj[p].block
  /\ \A o \in Objects : reads(o) = meant[o]
=============================================================================
