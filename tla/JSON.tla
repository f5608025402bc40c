--------------------------------- MODULE JSON ---------------------------------
(***************************************************************************)
(* The JSON library: toJSON turns a value into tokens, JSONOutputStream    *)
(* writes them, JSONInputStream and parseJSON read them back into a flat   *)
(* list of tokens in which the first token of a container knows its size,  *)
(* and objectLookup, arrayLookup and fromJSON find their way by those      *)
(* sizes.  FlatJSONReader lists the leaves of a document with their paths; *)
(* JSONRPCHTTPAdapter answers requests.  Text is a sequence of characters; *)
(* a keyword is one character here.  A value is [t, c]: its type, and its  *)
(* characters, its elements or its pairs of key and value.                 *)
(***************************************************************************)
EXTENDS Integers, Sequences, SequencesExt, FiniteSets

CONSTANTS
  Values,      \* values to be written and read back
  Requests,    \* texts posted to the JSON-RPC adapter, as values
  Calls        \* [method, arg]: calls made by a client, with the argument a

VARIABLES
  input,       \* [op, value]: "text" for a value, "rpc" for a request, "call" for a call
  st           \* the output stream and the parser, see Init

vars == <<input, st>>

Number == {"0", "1", "2", "3", "4", "5", "6", "7", "8", "9", "-"}
Token(type, data) == [type |-> type, data |-> data, size |-> 1]

-----------------------------------------------------------------------------
(* Writing.                                                                *)

\* toJSON(): a container's tokens are those of its parts in its brackets; every
\* token is emplaced with size 1.
RECURSIVE toJSON(_)
toJSON(v) ==
  CASE v.t = "array"  -> <<Token("[", <<>>)>>
                         \o FlattenSeq([i \in 1..Len(v.c) |-> toJSON(v.c[i])])
                         \o <<Token("]", <<>>)>>
    [] v.t = "object" -> <<Token("{", <<>>)>>
                         \o FlattenSeq([i \in 1..Len(v.c) |->
                              <<Token("string", v.c[i][1])>> \o toJSON(v.c[i][2])])
                         \o <<Token("}", <<>>)>>
    [] OTHER          -> <<Token(v.t, v.c)>>

\* escapeString(): two escapes have a letter of their own here, the line end for
\* those that have one in the code and "NUL" for those written as \u and four digits.
escapeString(s) ==
  FlattenSeq([i \in 1..Len(s) |->
    CASE s[i] = "\"" -> <<"\\", "\"">>
      [] s[i] = "\\" -> <<"\\", "\\">>
      [] s[i] = "LF" -> <<"\\", "n">>
      [] s[i] = "NUL" -> <<"\\", "u", "0", "0", "0", "0">>
      [] OTHER -> <<s[i]>>])

addString(s) == <<"\"">> \o escapeString(s) \o <<"\"">>

\* emplace_back(): the separator depends on how many tokens the open container
\* has; a number is written as a string.
emplace_back(o, tok) ==
  LET n == Len(o.stack)
      counted(s) == IF s = <<>> THEN s ELSE [s EXCEPT ![Len(s)].count = @ + 1]
      separator ==
        IF n = 0 \/ o.stack[n].count = 0 THEN <<>>
        ELSE IF o.stack[n].type = "{" /\ o.stack[n].count % 2 = 1 THEN <<":">> ELSE <<",">>
  IN CASE tok.type \in {"]", "}"} ->
            [text |-> Append(o.text, tok.type),
             stack |-> counted(IF n = 0 THEN <<>> ELSE Front(o.stack))]
       [] tok.type \in {"[", "{"} ->
            [text |-> o.text \o separator \o <<tok.type>>,
             stack |-> Append(o.stack, [type |-> tok.type, count |-> 0])]
       [] tok.type \in {"string", "number"} ->
            [text |-> o.text \o separator \o addString(tok.data), stack |-> counted(o.stack)]
       [] OTHER ->
            [text |-> o.text \o separator \o <<tok.type>>, stack |-> counted(o.stack)]

-----------------------------------------------------------------------------
(* Reading.  The text left starts with the character at the cursor.        *)

\* readString(), from the opening quote on; \u and its digits are dropped.
RECURSIVE readString(_, _)
readString(s, acc) ==
  LET r == Tail(s)
      c == IF r = <<>> THEN "" ELSE Head(r)
      e == IF Len(r) < 2 THEN "" ELSE r[2]
  IN CASE c = "" -> [rest |-> r, tok |-> Token("raise", acc)]
       [] c = "\"" -> [rest |-> Tail(r), tok |-> Token("string", acc)]
       [] c = "\\" /\ e \in {"\"", "\\", "/"} -> readString(Tail(r), Append(acc, e))
       [] c = "\\" /\ e = "n" -> readString(Tail(r), Append(acc, "LF"))
       [] c = "\\" /\ e = "u" -> readString(SubSeq(r, 6, Len(r)), acc)
       [] c = "\\" /\ e \notin {"\"", "\\", "/", "n", "u"} ->
            [rest |-> r, tok |-> Token("raise", acc)]
       [] OTHER -> readString(r, Append(acc, c))

\* readNumber(): the digits up to the first other character, spaces left out.
readNumber(s) ==
  LET ends == {i \in 1..Len(s) : s[i] \notin Number \cup {" "}}
      n == IF ends = {} THEN Len(s) ELSE Min(ends) - 1
  IN [rest |-> SubSeq(s, n + 1, Len(s)),
      tok |-> Token("number", SelectSeq(SubSeq(s, 1, n), LAMBDA c : c # " "))]

\* readNextToken(): a colon or a comma separates like a space.
RECURSIVE readNextToken(_)
readNextToken(s) ==
  LET c == IF s = <<>> THEN "" ELSE Head(s)
  IN CASE c = "" -> [rest |-> s, tok |-> Token("end", <<>>)]
       [] c \in {":", ",", " "} -> readNextToken(Tail(s))
       [] c \in {"{", "}", "[", "]", "true", "false", "null"} ->
            [rest |-> Tail(s), tok |-> Token(c, <<>>)]
       [] c = "\"" -> readString(s, <<>>)
       [] c \in Number -> readNumber(s)
       [] OTHER -> [rest |-> s, tok |-> Token("raise", <<>>)]

\* Mutant: the closing token is not part of the container.
parseStep_short(p) ==
  LET r == readNextToken(p.rest)
      obj == Append(p.obj, r.tok)
  IN CASE r.tok.type = "end" -> [p EXCEPT !.rest = <<>>, !.at = "done"]
       [] r.tok.type = "raise" -> [p EXCEPT !.at = "raised"]
       [] r.tok.type \in {"[", "{"} ->
            [p EXCEPT !.rest = r.rest, !.obj = obj, !.stack = Append(@, Len(obj))]
       [] r.tok.type \in {"]", "}"} ->
            [p EXCEPT !.rest = r.rest, !.stack = Front(@),
                      !.obj = [obj EXCEPT ![Last(p.stack)].size = Len(p.obj) - Last(p.stack) + 1]]
       [] OTHER -> [p EXCEPT !.rest = r.rest, !.obj = obj]

\* One turn of the loop of parseJSON(): brackets are matched by depth alone.
parseStep(p) ==
  LET r == readNextToken(p.rest)
      obj == Append(p.obj, r.tok)
  IN CASE r.tok.type = "end" -> [p EXCEPT !.at = IF p.stack = <<>> THEN "done" ELSE "raised"]
       [] r.tok.type = "raise" -> [p EXCEPT !.at = "raised"]
       [] r.tok.type \in {"[", "{"} ->
            [p EXCEPT !.rest = r.rest, !.obj = obj, !.stack = Append(@, Len(obj))]
       [] r.tok.type \in {"]", "}"} /\ p.stack = <<>> -> [p EXCEPT !.at = "raised"]
       [] r.tok.type \in {"]", "}"} /\ p.stack # <<>> ->
            [p EXCEPT !.rest = r.rest, !.stack = Front(@),
                      !.obj = [obj EXCEPT ![Last(p.stack)].size = Len(obj) - Last(p.stack) + 1]]
       [] OTHER -> [p EXCEPT !.rest = r.rest, !.obj = obj]

\* The JSONInputStream starts with a space at its cursor.
Parser(text) == [at |-> "parse", rest |-> <<" ">> \o text, obj |-> <<>>, stack |-> <<>>]

RECURSIVE parseAll(_)
parseAll(p) == IF p.at = "parse" THEN parseAll(parseStep(p)) ELSE p
parseJSON(text) == parseAll(Parser(text))

\* fromJSON<std::string> of one token: a keyword is its own text, a bracket raises.
IsText(tok) == tok.type \notin {"{", "["}
textOf(tok) == IF tok.type \in {"string", "number"} THEN tok.data ELSE <<tok.type>>

\* objectLookup(): the position of the value of a key in the object at b, 0 for
\* the end iterator; -1 when there is no object at b.
RECURSIVE scanKeys(_, _, _, _)
scanKeys(obj, b, oend, key) ==
  IF b > Len(obj) THEN 0
  ELSE IF obj[b].type = "string" /\ obj[b].data = key THEN b + 1
  ELSE IF b + 1 = oend \/ b = Len(obj) THEN 0 ELSE scanKeys(obj, b + 1 + obj[b + 1].size, oend, key)

objectLookup(obj, b, key) ==
  IF obj[b].type # "{" THEN -1
  ELSE IF b + obj[b].size > Len(obj) + 1 THEN 0
  ELSE scanKeys(obj, b + 1, b + obj[b].size, key)

\* The positions of the elements of the array at b, as arrayLength() and
\* arrayLookup() step over them.
RECURSIVE elements(_, _, _)
elements(obj, b, aend) == IF b < aend THEN <<b>> \o elements(obj, b + obj[b].size, aend) ELSE <<>>

arrayLookup(obj, b, index) ==
  LET at == elements(obj, b + 1, b + obj[b].size - 1)
  IN IF obj[b].type # "[" \/ index >= Len(at) THEN -1 ELSE at[index + 1]

\* fromJSON() for the type that v has: the tokens at b as such a value; an object
\* is read property by property through the reflection of its class.
RECURSIVE fromJSON(_, _, _)
fromJSON(obj, b, v) ==
  CASE v.t = "object" ->
         [t |-> "object",
          c |-> [i \in 1..Len(v.c) |->
                   LET p == objectLookup(obj, b, v.c[i][1])
                   IN IF p > 0 THEN <<v.c[i][1], fromJSON(obj, p, v.c[i][2])>>
                      ELSE <<v.c[i][1], [t |-> "raise", c |-> <<>>]>>]]
    [] v.t = "array" ->
         [t |-> "array",
          c |-> [i \in 1..Len(elements(obj, b + 1, b + obj[b].size - 1)) |->
                   fromJSON(obj, arrayLookup(obj, b, i - 1), v.c[IF i <= Len(v.c) THEN i ELSE 1])]]
    [] v.t = "number" ->
         IF obj[b].type \in {"string", "number"} THEN [t |-> "number", c |-> obj[b].data]
         ELSE [t |-> "raise", c |-> <<>>]
    [] OTHER -> [t |-> obj[b].type, c |-> obj[b].data]

-----------------------------------------------------------------------------
(* Reading one property.  A reader gives Some(v), None, or raises; a bool  *)
(* is the text of its keyword.                                             *)

Some(v) == [is |-> "some", v |-> v]
None == [is |-> "none", v |-> <<>>]
Raise == [is |-> "raise", v |-> <<>>]

\* stoi(), stoul(), stoull() and stod(): the number a text begins with; an unsigned
\* type keeps a negative one modulo its width, so its text still tells it.
stoul(s) ==
  LET sign == IF s # <<>> /\ s[1] = "-" THEN 1 ELSE 0
      ends == {i \in (sign + 1)..Len(s) : s[i] \notin Number \ {"-"}}
      n == IF ends = {} THEN Len(s) ELSE Min(ends) - 1
  IN IF n = sign THEN Raise ELSE Some(SubSeq(s, 1, n))

IsNumeric(tok) == tok.type \in {"string", "number"}
fromJSONInt(tok) == IF IsNumeric(tok) THEN stoul(tok.data) ELSE Raise
fromJSONUInt(tok) == IF IsNumeric(tok) THEN stoul(tok.data) ELSE Raise
fromJSONUInt64(tok) == IF IsNumeric(tok) THEN stoul(tok.data) ELSE Raise
fromJSONBool(tok) == IF tok.type \in {"true", "false"} THEN Some(<<tok.type>>) ELSE Raise
fromJSONTime(tok) == fromJSONUInt64(tok)
fromJSONObject(obj, b) ==
  IF b + obj[b].size > Len(obj) + 1 THEN Raise ELSE Some(SubSeq(obj, b, b + obj[b].size - 1))

\* fromJSON<HashMap<String, String>>: only texts and nulls are taken as values.
RECURSIVE fromPairs(_, _, _)
fromPairs(obj, b, map) ==
  IF b > Len(obj) \/ obj[b].type = "}" THEN Some(map)
  ELSE IF obj[b].type = "string" /\ obj[b + 1].type \in {"string", "null"}
       THEN fromPairs(obj, b + 2, (obj[b].data :> obj[b + 1].data) @@ map)
       ELSE Raise
fromJSONMap(obj, b) ==
  IF b + obj[b].size > Len(obj) + 1 \/ obj[b].type # "{" THEN Raise ELSE fromPairs(obj, b + 1, <<>>)

\* JSONInputProxy::getProperty and getOptionalProperty, of the text type.
getProperty(obj, b, key) ==
  LET p == objectLookup(obj, b, key)
  IN IF p <= 0 \/ ~IsText(obj[p]) THEN Raise ELSE Some(textOf(obj[p]))
getOptionalProperty(obj, b, key) ==
  IF objectLookup(obj, b, key) = 0 THEN None ELSE getProperty(obj, b, key)

\* JSONUtil's getters: what the key's token gives if its type is one of types.
Looked(obj, p, types) ==
  IF p = -1 THEN Raise ELSE IF p = 0 \/ obj[p].type \notin types THEN None ELSE Some(obj[p].data)
objectGetString(obj, b, key) == Looked(obj, objectLookup(obj, b, key), {"string"})
objectGetUInt64(obj, b, key) ==
  LET l == Looked(obj, objectLookup(obj, b, key), {"string", "number"})
  IN IF l.is = "some" THEN stoul(l.v) ELSE l
objectGetFloat(obj, b, key) ==
  LET l == Looked(obj, objectLookup(obj, b, key), {"string", "number"})
  IN IF l.is = "some" THEN stoul(l.v) ELSE l
objectGetBool(obj, b, key) ==
  LET p == objectLookup(obj, b, key)
      text == IF p > 0 THEN textOf(obj[p]) ELSE <<>>
  IN IF p = -1 THEN Raise
     ELSE CASE p > 0 /\ text \in {<<"true">>, <<"TRUE">>} -> Some(<<"true">>)
            [] p > 0 /\ text \in {<<"false">>, <<"FALSE">>} -> Some(<<"false">>)
            [] OTHER -> None
arrayLength(obj, b) == Len(elements(obj, b + 1, b + obj[b].size - 1))
arrayGetString(obj, b, index) == Looked(obj, arrayLookup(obj, b, index), {"string"})

-----------------------------------------------------------------------------
(* FlatJSONReader and JSONDocument.                                        *)

\* JSONPointer: escape(), push() and pop(), which goes back to the last slash.
escape(s) ==
  FlattenSeq([i \in 1..Len(s) |-> CASE s[i] = "~" -> <<"~", "0">>
                                    [] s[i] = "/" -> <<"~", "1">> [] OTHER -> <<s[i]>>])
push(path, s) == path \o <<"/">> \o escape(s)
pop(path) == SubSeq(path, 1, Max({i \in 1..Len(path) : path[i] = "/"}) - 1)

\* readObject() and readArray() from the token behind the opening one: the token
\* they end at, the path they leave behind and the leaves they reported.
RECURSIVE readFlat(_, _, _, _)
readFlat(obj, b, r, index) ==
  LET inArray == index >= 0
      key == IF inArray THEN <<ToString(index)>> ELSE obj[b].data
      in == push(r.path, key)
      e == IF inArray THEN b ELSE b + 1
      inner == readFlat(obj, e + 1, [r EXCEPT !.path = in], IF obj[e].type = "[" THEN 0 ELSE -1)
      q == IF obj[e].type \in {"[", "{"} THEN inner
           ELSE [end |-> e, path |-> in, leaves |-> Append(r.leaves, <<in, IF inArray THEN textOf(obj[e]) ELSE obj[e].data>>)]
  IN IF obj[b].type = "}" THEN [r EXCEPT !.end = b]
     ELSE IF obj[b].type = "]" THEN [r EXCEPT !.end = b, !.path = in]
     ELSE readFlat(obj, q.end + 1, [q EXCEPT !.path = pop(@)], IF inArray THEN index + 1 ELSE -1)

\* FlatJSONReader::read: the root is an object or an array.
read(obj) ==
  IF obj[1].type \notin {"[", "{"} THEN Raise
  ELSE Some(readFlat(obj, 2, [end |-> 1, path |-> <<>>, leaves |-> <<>>],
                     IF obj[1].type = "[" THEN 0 ELSE -1).leaves)

\* JSONDocument's data_, which holds nothing when the constructor raises.
flatten(obj) == read(obj).v

\* getMaybe() takes the first pair of a path; get() and getAs() raise without one.
getMaybe(data, path) ==
  LET at == {i \in 1..Len(data) : data[i][1] = path}
  IN IF at = {} THEN None ELSE Some(data[Min(at)][2])
getMaybeAs(data, path) ==
  LET m == getMaybe(data, path) IN IF m.is = "some" THEN stoul(m.v) ELSE m
get(data, path) == IF getMaybe(data, path) = None THEN Raise ELSE getMaybe(data, path)
getAs(data, path) == IF getMaybeAs(data, path) = None THEN Raise ELSE getMaybeAs(data, path)

\* forEach(): the paths one level below a path.
children(data, path) ==
  LET prefix == Append(path, "/")
      cut(p) == SubSeq(p, 1, Min({i \in (Len(prefix) + 1)..Len(p) : p[i] = "/"} \cup {Len(p) + 1}) - 1)
  IN {cut(data[i][1]) : i \in {j \in 1..Len(data) : IsPrefix(prefix, data[j][1])}}

\* The paths of the leaves of a value.
RECURSIVE Leaves(_, _)
Leaves(v, path) ==
  CASE v.t = "array" ->
         FlattenSeq([i \in 1..Len(v.c) |-> Leaves(v.c[i], push(path, <<ToString(i - 1)>>))])
    [] v.t = "object" ->
         FlattenSeq([i \in 1..Len(v.c) |-> Leaves(v.c[i][2], push(path, v.c[i][1]))])
    [] OTHER -> <<path>>

-----------------------------------------------------------------------------
(* JSON-RPC.  The one registered method, "m", has one argument, "a", which *)
(* it returns.                                                             *)

field(k) == addString(<<k>>) \o <<":", " ">>

\* JSONRPCResponse::error and success; id is <<>> until setID().
answerHead == <<"{">> \o field("jsonrpc") \o addString(<<"2.0">>) \o <<",">>
answerID(id) == field("id") \o (IF id = <<>> THEN <<"null">> ELSE addString(id))
\* Mutant: the error object is not closed.
error_open(id, code) ==
  answerHead \o field("error") \o <<"{">> \o field("code") \o <<code, ",">> \o field("message")
  \o addString(<<"msg">>) \o <<",">> \o answerID(id) \o <<"}">>

error(id, code) ==
  answerHead \o field("error") \o <<"{">> \o field("code") \o <<code, ",">> \o field("message")
  \o addString(<<"msg">>) \o <<"}", ",">> \o answerID(id) \o <<"}">>
success(id, result) ==
  answerHead \o answerID(id) \o <<",">> \o field("result")
  \o FoldLeft(emplace_back, [text |-> <<>>, stack |-> <<>>], result).text \o <<"}">>

\* JSONRPCRequest::JSONRPCRequest: not ok unless version, method and params are there.
JSONRPCRequest(obj) ==
  LET at(k) == objectLookup(obj, 1, <<k>>)
      text(k) == IF at(k) > 0 THEN textOf(obj[at(k)]) ELSE <<>>
  IN IF \/ obj = <<>> \/ obj[1].type # "{"
        \/ at("jsonrpc") <= 0 \/ at("method") <= 0 \/ at("params") <= 0
        \/ ~IsText(obj[at("method")]) \/ (at("id") > 0 /\ ~IsText(obj[at("id")]))
     THEN [ok |-> FALSE, id |-> <<>>]
     ELSE [ok |-> text("jsonrpc") = <<"2.0">>, id |-> text("id"),
           method |-> text("method"), params |-> at("params")]

\* JSONRPCRequest::getArg.
getArg(obj, params, index, name) ==
  CASE obj[params].type = "{" -> objectLookup(obj, params, name)
    [] obj[params].type = "[" -> arrayLookup(obj, params, index)
    [] OTHER -> -1

\* JSONRPC::dispatch, and the method registered as "m": a missing argument raises.
dispatch(obj, req) ==
  LET arg == getArg(obj, req.params, 0, <<"a">>)
  IN IF req.method # <<"m">> THEN error(req.id, "2")
     ELSE IF arg <= 0 THEN error(req.id, "1")
     ELSE success(req.id, SubSeq(obj, arg, arg + obj[arg].size - 1))

\* JSONRPCHTTPAdapter::handleHTTPRequest for a POST to its path.
handleHTTPRequest(text) ==
  LET p == parseJSON(text)
      req == JSONRPCRequest(p.obj)
  IN IF p.at = "raised" \/ ~req.ok THEN error(<<>>, "1") ELSE dispatch(p.obj, req)

\* JSONRPCCodec, the client's side: encodeRPCRequest() of a call of method with the
\* arguments v; decodeRPCResponse() raises what the error says.
encodeRPCRequest(method, v) ==
  <<Token("{", <<>>), Token("string", <<"jsonrpc">>), Token("string", <<"2.0">>),
    Token("string", <<"method">>), Token("string", method),
    Token("string", <<"id">>), Token("string", <<"0">>), Token("string", <<"params">>)>>
  \o toJSON(v) \o <<Token("}", <<>>)>>

decodeRPCResponse(obj, v) ==
  LET err == objectLookup(obj, 1, <<"error">>)
  IN IF err > 0 THEN [t |-> "raise", c |-> Looked(obj, objectLookup(obj, err, <<"message">>), {"string"}).v]
     ELSE fromJSON(obj, objectLookup(obj, 1, <<"result">>), v)

-----------------------------------------------------------------------------
Init ==
  /\ input \in [op : {"text"}, value : Values] \cup [op : {"rpc"}, value : Requests]
              \cup [op : {"call"}, value : Calls]
  /\ st = [at |-> "write",
           todo |-> IF input.op = "call"
                    THEN encodeRPCRequest(input.value.method, [t |-> "object", c |-> <<<<<<"a">>, input.value.arg>>>>])
                    ELSE toJSON(input.value),
           out |-> [text |-> <<>>, stack |-> <<>>]]

\* JSONOutputStream::emplace_back of the next token.
WriteToken ==
  /\ st.at = "write" /\ st.todo # <<>>
  /\ st' = [st EXCEPT !.todo = Tail(@), !.out = emplace_back(@, Head(st.todo))]
  /\ UNCHANGED input

\* parseJSON() reads the text just written, or the answer to it.
StartReading ==
  /\ st.at = "write" /\ st.todo = <<>>
  /\ st' = Parser(IF input.op # "text" THEN handleHTTPRequest(st.out.text) ELSE st.out.text)
  /\ UNCHANGED input

ReadToken ==
  /\ st.at = "parse"
  /\ st' = parseStep(st)
  /\ UNCHANGED input

Next == WriteToken \/ StartReading \/ ReadToken

Spec == Init /\ [][Next]_vars

-----------------------------------------------------------------------------
\* A member read by each reader that can take it: the map, the properties and the
\* getters give its text, a document gives it under its path, and the numeric and
\* the Boolean readers take exactly the texts that are one.
MemberReads(obj, m) ==
  LET v == m[2]
      p == objectLookup(obj, 1, m[1])
      text == IF v.t \in {"string", "number"} THEN v.c ELSE <<v.t>>
      isText == v.t \in {"string", "number"}
      number == IF isText THEN stoul(v.c) ELSE Raise
      data == flatten(obj)
  IN /\ getProperty(obj, 1, m[1]) = Some(text)
     /\ getOptionalProperty(obj, 1, m[1]) = Some(text)
     /\ fromJSONObject(obj, p) = Some(<<obj[p]>>)
     /\ objectGetString(obj, 1, m[1]) = (IF isText THEN Some(text) ELSE None)
     /\ objectGetBool(obj, 1, m[1]) = (IF v.t = "true" THEN Some(text) ELSE None)
     /\ fromJSONBool(obj[p]) = (IF v.t = "true" THEN Some(text) ELSE Raise)
     /\ \A n \in {objectGetUInt64(obj, 1, m[1]), objectGetFloat(obj, 1, m[1])} :
          n = (IF isText THEN number ELSE None)
     /\ \A n \in {fromJSONInt(obj[p]), fromJSONUInt(obj[p]), fromJSONTime(obj[p]), getAs(data, push(<<>>, m[1]))} :
          n = number
     /\ get(data, push(<<>>, m[1])) = Some(IF isText THEN text ELSE <<>>)

\* What is left of a value: the characters that are written as \u are dropped when read.
RECURSIVE Kept(_)
Kept(v) ==
  LET drop(s) == SelectSeq(s, LAMBDA c : c # "NUL")
  IN [v EXCEPT !.c = CASE v.t = "array" -> [i \in DOMAIN @ |-> Kept(@[i])]
                       [] v.t = "object" -> [i \in DOMAIN @ |-> <<drop(@[i][1]), Kept(@[i][2])>>]
                       [] OTHER -> drop(@)]

\* A value that toJSONString() wrote is read back by parseJSON() and fromJSON() as
\* the same value without its control characters (those that have no letter of their
\* own after a backslash), whatever its nesting, however its keys and strings repeat the
\* syntax, and although numbers travel as strings; every reader of an object without
\* containers finds its members and no other key, and every reader of an array its
\* elements.
JSONRoundTrip ==
  LET v == Kept(input.value)
      keys == {v.c[i][1] : i \in DOMAIN v.c}
      shallow == v.t = "object" /\ \A i \in DOMAIN v.c : v.c[i][2].t \notin {"array", "object"}
      texts == \A i \in DOMAIN v.c : v.c[i][2].t # "true"
  IN input.op = "text" =>
       /\ st.at # "raised"
       /\ st.at = "done" =>
            /\ fromJSON(st.obj, 1, v) = v
            /\ v.t = "array" =>
                 /\ arrayLength(st.obj, 1) = Len(v.c)
                 /\ \A i \in DOMAIN v.c :
                      v.c[i].t = "string" => arrayGetString(st.obj, 1, i - 1) = Some(v.c[i].c)
            /\ shallow =>
                 /\ children(flatten(st.obj), <<>>) = {push(<<>>, k) : k \in keys}
                 /\ \A i \in DOMAIN v.c : MemberReads(st.obj, v.c[i])
                 /\ getOptionalProperty(st.obj, 1, <<"absent">>) = None
                 /\ fromJSONMap(st.obj, 1) =
                      IF texts THEN Some([k \in keys |-> objectGetString(st.obj, 1, k).v]) ELSE Raise

\* Every request gets one well-formed answer with the version, and either the
\* result of its argument and its id, or an error; a client's call of a method that
\* is there decodes to its argument, without control characters, any other raises with the message.
RPCAnswered ==
  /\ input.op = "rpc" =>
       /\ st.at # "raised"
       /\ st.at = "done" =>
            LET has(k) == objectLookup(st.obj, 1, <<k>>) > 0
                asked == JSONRPCRequest(parseJSON(FoldLeft(emplace_back,
                           [text |-> <<>>, stack |-> <<>>], toJSON(input.value)).text).obj)
            IN /\ st.obj[1].size = Len(st.obj)
               /\ has("jsonrpc") /\ has("id") /\ has("result") # has("error")
               /\ has("result") => st.obj[objectLookup(st.obj, 1, <<"id">>)].data = asked.id
  /\ input.op = "call" /\ st.at \in {"done", "raised"} =>
       /\ st.at = "done"
       /\ decodeRPCResponse(st.obj, input.value.arg) =
            IF input.value.method = <<"m">> THEN Kept(input.value.arg) ELSE [t |-> "raise", c |-> <<"msg">>]

\* FlatJSONReader reports every leaf of a document, in order, under its path.
FlatPaths ==
  input.op = "text" /\ st.at = "done" /\ st.obj[1].type \in {"[", "{"} =>
    LET found == flatten(st.obj)
    IN [i \in 1..Len(found) |-> found[i][1]] = Leaves(Kept(input.value), <<>>)
=============================================================================
