------------------------------- MODULE HTTPWire -------------------------------
(***************************************************************************)
(* HTTP messages on the wire: HTTPGenerator and HTTPSSEStream write them,  *)
(* the bytes arrive in segments of any size, HTTPParser and HTTPSSEParser  *)
(* read them back, one message after the other on one connection.  A byte  *)
(* is a string: " ", "CR", "LF", ":", a digit, a letter; a word whose      *)
(* spelling the code compares (a method, a version, a header name) is one  *)
(* such byte.                                                              *)
(***************************************************************************)
EXTENDS Integers, Sequences, SequencesExt, FiniteSets

CONSTANTS
  Conversations,   \* sequences of messages that follow each other on a connection
  kMaxMethodSize, kMaxURISize, kMaxVersionSize, kMaxHeaderSize

VARIABLES
  todo,     \* the messages of the connection, the first being sent
  wire,     \* its bytes that have not arrived
  open,     \* the connection has not ended
  parser,   \* the HTTPParser of the receiver
  sse       \* the HTTPSSEParser behind it

vars == <<todo, wire, open, parser, sse>>

Methods == {"CONNECT", "DELETE", "GET", "HEAD", "OPTIONS", "POST", "PUT", "TRACE"}
Digits == <<"1", "2", "3", "4", "5", "6", "7", "8", "9">>
Lower == [h \in {"Content-Length", "Connection", "Host", "Cookie"} |->
            CASE h = "Content-Length" -> "content-length" [] h = "Connection" -> "connection"
              [] h = "Host" -> "host" [] h = "Cookie" -> "cookie"]

\* A decimal number as text and back; anything else is not a number.
Decimal(n) == IF n = 0 THEN <<"0">> ELSE <<Digits[n]>>
IsDecimal(s) == Len(s) = 1 /\ \E n \in 0..9 : Decimal(n) = s
ToNumber(s) == CHOOSE n \in 0..9 : Decimal(n) = s

-----------------------------------------------------------------------------
(* HTTPMessage: headers are pairs of a lower-case key and a value.         *)

lowerCase(k) == IF k \in DOMAIN Lower THEN Lower[k] ELSE k
hasHeader(hs, k) == \E i \in 1..Len(hs) : hs[i][1] = lowerCase(k)
getHeader(hs, k) ==
  IF hasHeader(hs, k) THEN hs[SelectInSeq(hs, LAMBDA h : h[1] = lowerCase(k))][2] ELSE <<>>
addHeader(hs, k, v) == Append(hs, <<lowerCase(k), v>>)
setHeader(hs, k, v) ==
  IF hasHeader(hs, k)
  THEN ReplaceAt(hs, SelectInSeq(hs, LAMBDA h : h[1] = lowerCase(k)), <<lowerCase(k), v>>)
  ELSE addHeader(hs, k, v)

\* HTTPRequest::mkGet and mkPost.
mkRequest(method, uri, host, headers, body) ==
  [kind |-> "request", method |-> method, uri |-> uri, version |-> "HTTP/1.1",
   headers |-> FoldLeft(LAMBDA hs, h : setHeader(hs, h[1], h[2]),
                        addHeader(<<>>, "Host", host), headers),
   body |-> body]

\* HTTPRequest::keepalive.
keepalive(req) ==
  \/ getHeader(req.headers, "Connection") = <<"keep-alive">>
  \/ /\ getHeader(req.headers, "Connection") # <<"close">>
     /\ req.version = "HTTP/1.1"

\* HTTPResponse::populateFromRequest, then a status and a body of known length.
mkResponse(req, code, name, body) ==
  [kind |-> "response", version |-> req.version, code |-> code, name |-> name,
   headers |->
     LET hs == IF req.version # "HTTP/1.0" THEN <<>>
               ELSE addHeader(<<>>, "Connection",
                              IF keepalive(req) THEN <<"keep-alive">> ELSE <<"close">>)
     IN addHeader(hs, "Content-Length", Decimal(Len(body))),
   body |-> body]

\* HTTPSSEStream: the head that start() sends, and the events; event is <<>>
\* for an event without a type.
sendEvent(data, event) ==
  (IF event = <<>> THEN <<>> ELSE <<"event: ">> \o event \o <<"LF">>)
  \o <<"data: ">> \o data \o <<"LF", "LF">>

mkEventStream(req, events) ==
  [kind |-> "response", version |-> req.version, code |-> 2, name |-> <<"OK">>,
   headers |-> setHeader(IF req.version # "HTTP/1.0" THEN <<>>
                         ELSE addHeader(<<>>, "Connection", <<"close">>),
                         "Connection", <<"close">>),
   body |-> FlattenSeq([i \in 1..Len(events) |-> sendEvent(events[i].data, events[i].event)]),
   events |-> events]

\* HTTPGenerator::generate.
generate(m) ==
  LET eol == <<"CR", "LF">>
      lines(hs) == FlattenSeq([i \in 1..Len(hs) |->
                                 <<hs[i][1], ":", " ">> \o hs[i][2] \o eol])
  IN IF m.kind = "request"
     THEN <<m.method, " ">> \o m.uri \o <<" ", m.version>> \o eol \o lines(m.headers)
          \o (IF m.body # <<>> /\ ~hasHeader(m.headers, "Content-Length")
              THEN <<"Content-Length", ":", " ">> \o Decimal(Len(m.body)) \o eol ELSE <<>>)
          \o eol \o m.body
     ELSE <<m.version, " ">> \o Decimal(m.code) \o <<" ">> \o m.name \o eol
          \o lines(m.headers) \o eol \o m.body

-----------------------------------------------------------------------------
(* HTTPParser.  expected = -1 stands for a body that ends with the         *)
(* connection; out is what the callbacks stored in the message.            *)

\* Mutant: reset() keeps the count of body bytes.
reset_keepsCount(p, expect) ==
  [mode |-> p.mode, state |-> IF p.mode = "request" THEN "S_REQ_METHOD" ELSE "S_RES_VERSION",
   buf |-> <<>>, read |-> p.read, expected |-> 0, expect |-> expect, raised |-> FALSE,
   out |-> [version |-> "", headers |-> <<>>, body |-> <<>>], complete |-> FALSE]

\* The state after construction and after reset(); ignoreBody() for the answer
\* to a HEAD request clears expect.
reset(p, expect) ==
  [mode |-> p.mode, state |-> IF p.mode = "request" THEN "S_REQ_METHOD" ELSE "S_RES_VERSION",
   buf |-> <<>>, read |-> 0, expected |-> 0, expect |-> expect, raised |-> FALSE,
   out |-> [version |-> "", headers |-> <<>>, body |-> <<>>], complete |-> FALSE]

Raise(p) == [p EXCEPT !.raised = TRUE]
Put(p, k, v) == [p EXCEPT !.out = (k :> v) @@ @]

\* readUntil(): the bytes before the delimiter, or all there are, join buf_.
readUntil(p, seg, c) ==
  LET i == IF Contains(seg, c) THEN SelectInSeq(seg, LAMBDA b : b = c) ELSE Len(seg) + 1
  IN [p |-> [p EXCEPT !.buf = @ \o SubSeq(seg, 1, i - 1)],
      rest |-> SubSeq(seg, i, Len(seg)), hit |-> i <= Len(seg)]

\* The shape all field parsers share: take the field when it is complete; the
\* limit is only tested when it is not.
Field(p, seg, c, max, Take(_)) ==
  LET r == readUntil(p, seg, c)
  IN IF r.hit THEN [p |-> [Take(r.p) EXCEPT !.buf = <<>>], rest |-> Tail(r.rest)]
     ELSE [p |-> IF Len(r.p.buf) > max THEN Raise(r.p) ELSE r.p, rest |-> <<>>]

\* BufferUtil::stripTrailingBytes(&buf_, '\r').
strip(s) ==
  SubSeq(s, 1, Max({0} \cup {i \in 1..Len(s) : s[i] # "CR"}))

parseMethod(p, seg) ==
  Field(p, seg, " ", kMaxMethodSize, LAMBDA q :
    IF Len(q.buf) = 1 /\ q.buf[1] \in Methods
    THEN [Put(q, "method", q.buf[1]) EXCEPT !.state = "S_REQ_URI"] ELSE Raise(q))

parseURI(p, seg) ==
  Field(p, seg, " ", kMaxURISize, LAMBDA q :
    [Put(q, "uri", q.buf) EXCEPT !.state = "S_REQ_VERSION"])

parseRequestVersion(p, seg) ==
  Field(p, seg, "LF", kMaxVersionSize, LAMBDA q :
    [Put(q, "version", strip(q.buf)[1]) EXCEPT !.state = "S_HEADER"])

parseResponseVersion(p, seg) ==
  Field(p, seg, " ", kMaxVersionSize, LAMBDA q :
    [Put(q, "version", q.buf[1]) EXCEPT
       !.state = "S_RES_STATUS_CODE",
       !.expected = IF q.buf = <<"HTTP/1.0">> THEN -1 ELSE @])

parseResponseStatusCode(p, seg) ==
  Field(p, seg, " ", kMaxURISize, LAMBDA q :
    IF IsDecimal(q.buf)
    THEN [Put(q, "code", ToNumber(q.buf)) EXCEPT !.state = "S_RES_STATUS_NAME"] ELSE Raise(q))

parseResponseStatusName(p, seg) ==
  Field(p, seg, "LF", kMaxVersionSize, LAMBDA q :
    [Put(q, "name", strip(q.buf)) EXCEPT !.state = "S_HEADER"])

\* processHeader(): the two headers that say where the body ends.
processHeader(p, key, val) ==
  LET k == lowerCase(key)
      q == IF p.expect /\ k = "content-length" /\ IsDecimal(val)
           THEN [p EXCEPT !.expected = ToNumber(val)]
           ELSE IF p.expect /\ p.mode = "response" /\ k = "connection" /\ val = <<"close">>
           THEN [p EXCEPT !.expected = -1] ELSE p
  IN IF p.expect /\ k = "content-length" /\ ~IsDecimal(val) THEN Raise(p)
     ELSE [q EXCEPT !.out.headers = addHeader(@, key, val)]

\* parseHeader(): a header line, or the empty line behind the last one.
parseHeader(p, seg) ==
  Field(p, seg, "LF", kMaxHeaderSize, LAMBDA q :
    LET line == strip(q.buf)
        colon == SelectInSeq(line, LAMBDA b : b = ":")
        val == SubSeq(line, colon + 1, Len(line))
        value == SubSeq(val, Min({i \in 1..Len(val) : val[i] # " "} \cup {Len(val) + 1}), Len(val))
    IN IF line = <<>>
       THEN [q EXCEPT !.complete = TRUE,
                      !.state = IF q.expected = 0 THEN "S_DONE" ELSE "S_BODY"]
       ELSE IF colon = 0 THEN Raise(q)
       ELSE processHeader(q, line[1], value))

\* readBody(): all that is left of the segment is body.
readBody(p, seg) ==
  [p |-> [p EXCEPT !.read = @ + Len(seg),
                   !.state = IF p.read + Len(seg) = p.expected THEN "S_DONE" ELSE @,
                   !.out.body = @ \o seg],
   rest |-> <<>>]

\* One turn of the loop of parse().
step(p, seg) ==
  CASE p.state = "S_REQ_METHOD"      -> parseMethod(p, seg)
    [] p.state = "S_REQ_URI"         -> parseURI(p, seg)
    [] p.state = "S_REQ_VERSION"     -> parseRequestVersion(p, seg)
    [] p.state = "S_RES_VERSION"     -> parseResponseVersion(p, seg)
    [] p.state = "S_RES_STATUS_CODE" -> parseResponseStatusCode(p, seg)
    [] p.state = "S_RES_STATUS_NAME" -> parseResponseStatusName(p, seg)
    [] p.state = "S_HEADER"          -> parseHeader(p, seg)
    [] p.state = "S_DONE" /\ p.mode = "request" -> [p |-> Raise(p), rest |-> <<>>]
    [] OTHER                         -> readBody(p, seg)

RECURSIVE parse(_, _)
parse(p, seg) ==
  IF seg = <<>> \/ p.raised THEN p ELSE LET r == step(p, seg) IN parse(r.p, r.rest)

\* eof(): a body that is short of its length is an error, nothing else is.
eof(p) ==
  IF p.state = "S_DONE" THEN p
  ELSE IF p.expected # -1 /\ p.read < p.expected THEN Raise(p)
  ELSE [p EXCEPT !.state = "S_DONE"]

-----------------------------------------------------------------------------
(* HTTPSSEParser: buf is what it keeps between segments.                   *)

\* Where the first event of s from position i on ends: behind two line ends in a
\* row, "CR" "LF" being one; 0 when s ends first.
RECURSIVE EventEnd(_, _, _)
EventEnd(s, i, state) ==
  IF state = 2 THEN i - 1
  ELSE IF i > Len(s) THEN 0
  ELSE IF s[i] = "LF" THEN EventEnd(s, i + 1, state + 1)
  ELSE IF s[i] = "CR"
       THEN EventEnd(s, IF i < Len(s) /\ s[i + 1] = "LF" THEN i + 2 ELSE i + 1, state + 1)
  ELSE EventEnd(s, i + 1, 0)

\* parseEvent(): the last data line and the last event line count.
parseEvent(s) ==
  LET ends == {0} \cup {i \in 1..Len(s) : s[i] \in {"CR", "LF"}}
      line(i) == SubSeq(s, i + 1, Min({j \in ends : j > i} \cup {Len(s) + 1}) - 1)
      field(tag) == LET at == {i \in ends : line(i) # <<>> /\ line(i)[1] = tag}
                    IN IF at = {} THEN <<>> ELSE Tail(line(Max(at)))
  IN [data |-> field("data: "), event |-> field("event: ")]

\* Mutant: an incomplete event is dropped with the segment.
parseEvents_drops(q) ==
  LET e == EventEnd(q.buf, 1, 0)
  IN [buf |-> IF e = 0 THEN <<>> ELSE SubSeq(q.buf, e + 1, Len(q.buf)),
      events |-> IF e = 0 THEN q.events ELSE Append(q.events, parseEvent(SubSeq(q.buf, 1, e)))]

\* parse(): every complete event of the buffer; one without data is dropped.
RECURSIVE parseEvents(_)
parseEvents(q) ==
  LET e == EventEnd(q.buf, 1, 0)
      ev == parseEvent(SubSeq(q.buf, 1, e))
  IN IF e = 0 THEN q
     ELSE parseEvents([buf |-> SubSeq(q.buf, e + 1, Len(q.buf)),
                       events |-> IF ev.data = <<>> THEN q.events ELSE Append(q.events, ev)])

-----------------------------------------------------------------------------
\* A response to a HEAD request announces a body that does not come.
Expect(m) == "head" \notin DOMAIN m
Fresh(m) == reset([mode |-> m.kind, read |-> 0], Expect(m))

Init ==
  /\ todo \in Conversations
  /\ wire = generate(Head(todo))
  /\ open = TRUE
  /\ parser = Fresh(Head(todo))
  /\ sse = [buf |-> <<>>, events |-> <<>>]

\* A segment of n bytes arrives; for an event stream,
\* HTTPSSEResponseHandler::onBodyChunk passes the bytes of the body on.
Arrive(n) ==
  /\ open /\ ~parser.raised
  /\ parser' = parse(parser, SubSeq(wire, 1, n))
  /\ wire' = SubSeq(wire, n + 1, Len(wire))
  /\ sse' = IF "events" \notin DOMAIN Head(todo) THEN sse
            ELSE parseEvents([sse EXCEPT !.buf = @ \o SubSeq(parser'.out.body,
                                Len(parser.out.body) + 1, Len(parser'.out.body))])
  /\ UNCHANGED <<todo, open>>

\* The connection ends, with bytes still missing or not.
End ==
  /\ open /\ ~parser.raised
  /\ open' = FALSE
  /\ parser' = eof(parser)
  /\ UNCHANGED <<todo, wire, sse>>

\* The next message of a connection that is kept alive.
NextMessage ==
  /\ open /\ wire = <<>> /\ parser.state = "S_DONE" /\ Len(todo) > 1
  /\ todo' = Tail(todo)
  /\ wire' = generate(todo[2])
  /\ parser' = reset(parser, Expect(todo[2]))
  /\ UNCHANGED <<open, sse>>

Next == (\E n \in 1..Len(wire) : Arrive(n)) \/ End \/ NextMessage

Spec == Init /\ [][Next]_vars

-----------------------------------------------------------------------------
\* What the receiver stores for a message: the header that the generator adds is
\* among its headers.
Received(m) ==
  [f \in {"version", "headers", "body"} \cup
         (IF m.kind = "request" THEN {"method", "uri"} ELSE {"code", "name"}) |->
     IF f = "headers" /\ m.kind = "request" /\ m.body # <<>> /\ ~hasHeader(m.headers, "Content-Length")
     THEN addHeader(m.headers, "Content-Length", Decimal(Len(m.body))) ELSE m[f]]

\* However a message is cut into segments, the parser never raises on it, is not
\* done before its last byte, and then holds exactly the message that was sent;
\* this holds again for each message of a connection that is kept alive.  When
\* the connection ends inside a body of known length, the parser raises.
MessagesSurvive ==
  LET delimited == parser.complete /\ parser.expected # -1
  IN /\ parser.raised => ~open /\ wire # <<>>
     /\ wire = <<>> => /\ parser.out = Received(Head(todo))
                       /\ parser.state = "S_DONE" \/ (open /\ ~delimited)
     /\ wire # <<>> /\ open => parser.state # "S_DONE"
     /\ wire # <<>> /\ ~open /\ delimited => parser.raised

\* The events a client sees are the events that were sent, in order, and all of
\* them once all bytes are there.
EventsSurvive ==
  "events" \in DOMAIN Head(todo) =>
    /\ IsPrefix(sse.events, Head(todo).events)
    /\ wire = <<>> => sse.events = Head(todo).events
=============================================================================
