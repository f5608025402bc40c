------------------------------- MODULE MCLibrary -------------------------------
(***************************************************************************)
(* Model checking of the parts of the library whose properties are of      *)
(* safety: the wakeup event, its formats and texts, its memory and         *)
(* references, its sockets and clients, and the executors that need no     *)
(* fairness.  They share no state: a behaviour is one of one of them, its  *)
(* part, and the others stay as they are.  The modules of the event, the   *)
(* references, the client and the sockets are extended, the others are     *)
(* instances.  The first definitions say what each part is given.          *)
(***************************************************************************)
EXTENDS Wakeup, RefCount, HTTPClient, Net

VARIABLES
  part,
  input, st,
  todo, wire, open, parser, sse,
  obj, heap, freed, text,
  enc, dec, mode, max_val, wrote, unpacked,
  w, values, at, r, got,
  message_obj, blocks, bad, meant,
  load, now, tasks_, timers_, watchers_, firstWatcher_, lastWatcher_, counts, pipe, hung, loop,
  when, called, cancelled, rejected, ran,
  value, stats_, mutex_, running_, agent, last_values_, joined, net, work, stats_got, stats_lost,
  kind, active_, pool_mutex, pendingTasks_, activeTasks_, active, pool_pc, current, job,
  pool_cancelled, caller, done, raised, stopper,
  executor, threads_, call, thread, detached, joiner, joining, due, recursive_, simple_running,
  deferred_, stack, simple_called, started

\* Protobuf: a schema, a later version with more fields and a cropped one, and messages.
Schemas == INSTANCE Protobuf WITH
  VarBase <- 16, Word32 <- 64, Max64 <- 1000, bound_milli <- 100, bound_micro <- 10000,
  WireInputs <- {}, JSONInputs <- {}, Objects <- {}, Tokens <- {}, obj <- message_obj
F(id, type, repeated) ==
  [id |-> id, name |-> <<id>>, type |-> type, type_size |-> 3 * id, repeated |-> repeated,
   optional |-> id % 2, encoding |-> id % 3, schema |-> Schemas!NoSchema]
S(fields) == [name |-> <<3>>, fields |-> fields]

V(id, type, n) == Schemas!Value(id, type, <<n>>)

D(number, type, repeated) ==
  [number |-> number, name |-> <<number>>, type |-> type, repeated |-> repeated, optional |-> number % 2,
   encoding |-> number % 3, maxval |-> IF number = 1 THEN <<9>> ELSE <<>>, values |-> {1, 4},
   message |-> Schemas!NoSchema]
InnerProto == S(<<D(1, "STRING", 1), D(2, "DOUBLE", 0), D(3, "ENUM", 0)>>)
OldProto ==
  S(<<D(1, "UINT32", 0), D(2, "STRING", 1), [D(3, "MESSAGE", 1) EXCEPT !.message = InnerProto], D(9, "BOOL", 0)>>)
Inner == Schemas!fromProtobuf(InnerProto)
Old == Schemas!addField(Schemas!getSchema(<<>>, <<OldProto>>, <<3>>), F(10, "DATETIME", 1))
Evolve(s) == Schemas!addField(s, F(Schemas!maxFieldId(s) + 1, "UINT64", 0))
New == [Evolve(Old) EXCEPT !.fields[3].schema = Evolve(Inner), !.fields[1].type = "UINT64"]
Cropped == Schemas!removeField([Old EXCEPT !.fields[3].schema = Schemas!removeField(Inner, 2)], 2)

Inners == {<<>>, <<V(2, "DOUBLE", 7)>>, <<V(3, "UINT32", 20), V(1, "STRING", 9), V(1, "STRING", 10)>>,
           <<V(3, "UINT64", 200), V(2, "DOUBLE", 1)>>}
Child(v) == [id |-> 3, type |-> "OBJECT", v |-> v]
Tops == {V(1, "UINT32", 9), V(1, "UINT64", 70), V(2, "STRING", 10), [V(2, "STRING", 0) EXCEPT !.v = <<>>],
         V(9, "BOOLEAN", 1), V(9, "BOOLEAN", 0), V(10, "DATETIME", 12000)}
        \cup {Child(v) : v \in Inners}
NewMessages == {<<V(11, "UINT64", 500), o>> : o \in Tops}
               \cup {<<Child(Append(v, V(4, "UINT64", 99))), V(2, "STRING", 15)>> : v \in Inners}
OldMessages == {<<a, b>> : a, b \in Tops} \cup {<<>>}

WireInputs ==
  [op : {"wire"}, msg : OldMessages, schema : {Old}, reader : {Old, New, Cropped}, cut : {0, 1, 4}]
  \cup [op : {"wire"}, msg : NewMessages, schema : {New}, reader : {Old, New}, cut : {0, 3}]
JSONInputs ==
  [op : {"json"}, schema : {[Old EXCEPT !.fields[1].repeated = 1]},
   msg : {m \in OldMessages : \A i \in DOMAIN m : m[i] # V(1, "UINT64", 70)
                              /\ (m[i].id = 3 => \A j \in DOMAIN m[i].v : m[i].v[j].type # "UINT64")}]

\* Timers that are set in the other order than they are due, watches that share a
\* descriptor, and one of a descriptor that is too high.
Timers == {"t1", "t2"}
Delay == [t \in Timers |-> IF t = "t1" THEN 2 ELSE 1]
Watches == {"r1", "r2", "r3", "r4", "r5"}
Watch == [x \in Watches |-> CASE x = "r1" -> [fd |-> 4, mode |-> "readable", tmo |-> 1]
                              [] x = "r2" -> [fd |-> 7, mode |-> "writable", tmo |-> 1]
                              [] x = "r3" -> [fd |-> 8, mode |-> "readable", tmo |-> 0]
                              [] x = "r4" -> [fd |-> 4, mode |-> "writable", tmo |-> 0]
                              [] OTHER -> [fd |-> 9, mode |-> "writable", tmo |-> 1]]
Loads == {{"a", "r1", "t1"}, {"r1", "r2", "r3"}, {"t1", "t2", "a"}, {"a", "b"}, {"r1", "r4", "r5"}}

\* A task beside a watcher, a watcher with the wakeup that is to end it, and two timers.
Jobs == {"i", "j"}
Kinds == {[j \in Jobs |-> IF j = "i" THEN k[1] ELSE k[2]] :
            k \in {<<"task", "writer">>, <<"reader", "wakeup">>, <<"after", "at">>}}

\* HTTP: requests and responses that follow each other, with and without a body, and event
\* streams, for a client of HTTP/1.0 and one of HTTP/1.1.
HTTP == INSTANCE HTTPWire WITH
  Conversations <- {}, kMaxMethodSize <- 1, kMaxURISize <- 3, kMaxVersionSize <- 3,
  kMaxHeaderSize <- 8
OldGet == [HTTP!mkRequest("GET", <<"u">>, <<"h">>, <<>>, <<>>) EXCEPT !.version = "HTTP/1.0"]
Get == HTTP!mkRequest("GET", <<"/", "u">>, <<"h", ":", "8">>, <<<<"Cookie", <<"x", " ">>>>>>, <<>>)
Post == HTTP!mkRequest("POST", <<"u">>, <<"h">>, <<<<"Host", <<"g">>>>>>, <<"LF", "b", "CR">>)
Answer(to) == HTTP!mkResponse(to, 2, <<"O", "K">>, <<"b", "LF">>)
Empty(to) == HTTP!mkResponse(to, 4, <<"N">>, <<>>)
ToHead == [f \in DOMAIN Answer(Get) \cup {"head"} |->
             IF f = "head" THEN TRUE ELSE IF f = "body" THEN <<>> ELSE Answer(Get)[f]]

Conversations ==
  {<<Post, Get, Post>>, <<Answer(Get), Empty(Get), ToHead, Answer(Get)>>, <<Answer(OldGet)>>,
   <<HTTP!mkEventStream(Get, <<[data |-> <<"x", " ">>, event |-> <<>>],
                          [data |-> <<"y">>, event |-> <<"e">>]>>)>>,
   <<HTTP!mkEventStream(OldGet, <<[data |-> <<"y">>, event |-> <<"e">>]>>)>>}

\* JSON: documents up to two levels deep, with characters that have a meaning in JSON, and
\* JSON-RPC requests of which some miss a member or have it elsewhere.
Str(s) == [t |-> "string", c |-> s]
Num(s) == [t |-> "number", c |-> s]
Arr(s) == [t |-> "array", c |-> s]
Obj(s) == [t |-> "object", c |-> s]
Lit(k) == [t |-> k, c |-> <<>>]

Scalars ==
  {Str(s) : s \in {<<>>, <<"a">>, <<"\"", "}">>, <<"\\", "\"">>, <<"LF", "\\">>, <<"1">>, <<"NUL", "a">>}}
  \cup {Num(<<"1">>), Num(<<"-", "2">>), Lit("true"), Lit("null")}
Flat == {Arr(<<>>), Obj(<<>>), Obj(<<<<<<"NUL", "a">>, Str(<<"b">>)>>>>)} \cup {Arr(<<v, x>>) : v, x \in {Str(<<"a">>), Num(<<"1">>), Lit("false")}}
        \cup {Obj(<<<<<<"a">>, v>>, <<<<"b">>, x>>>>) : v, x \in Scalars}
Nested == {Obj(<<<<<<"b">>, v>>, <<<<"a", "/">>, x>>, <<<<"c">>, Str(<<"b">>)>>>>) : v, x \in
             {Arr(<<>>), Obj(<<>>), Arr(<<Arr(<<>>), Num(<<"1">>)>>), Num(<<"1">>),
              Obj(<<<<<<"c">>, Str(<<"a", "/">>)>>>>), Obj(<<<<<<"c">>, Arr(<<Str(<<"c">>)>>)>>>>)}}
          \cup {Arr(<<v, x>>) : v, x \in {Arr(<<>>), Arr(<<Str(<<"]">>)>>), Arr(<<Str(<<"a">>), Str(<<"b">>)>>)}}
JSONValues == Scalars \cup Flat \cup Nested

Request(version, id, method, params) ==
  Obj(<<<<<<"jsonrpc">>, Str(<<version>>)>>, <<<<"id">>, id>>, <<<<"method">>, Str(<<method>>)>>,
        <<<<"params">>, params>>>>)
JSONRequests ==
  {Request(v, i, m, p) : v \in {"1.0", "2.0"}, i \in {Str(<<"1">>), Num(<<"2">>), Str(<<"\"">>), Arr(<<>>)}, m \in {"m", "x"},
     p \in {Arr(<<>>), Arr(<<Str(<<"}">>)>>), Obj(<<<<<<"a">>, Obj(<<<<<<"id">>, Lit("null")>>>>)>>>>),
            Obj(<<<<<<"id">>, Num(<<"1">>)>>>>), Lit("true")}}
  \cup {Obj(<<>>), Arr(<<>>), Str(<<>>), Obj(<<<<<<"params">>, Obj(<<<<<<"method">>, Str(<<"m">>)>>>>)>>>>)}
JSONCalls == [method : {<<"m">>, <<"x">>}, arg : Scalars \cup Nested]

\* Numbers of every width, of one and of several varint bytes, and strings.
BinaryValues == {[kind |-> "u8", v |-> <<0>>], [kind |-> "u16", v |-> <<1>>], [kind |-> "u32", v |-> <<2>>],
             [kind |-> "var", v |-> <<2>>], [kind |-> "var", v |-> <<5>>], [kind |-> "str", v |-> <<>>],
             [kind |-> "str", v |-> <<3, 0>>]}

\* Tables of rows, and what is called on a stream.
Tables == {<<>>, <<<<<<1>>>>>>, <<<<<<>>>>>>, <<<<<<1, 2, 3, 4, 5>>, <<>>>>, <<<<6>>, <<7, 8>>, <<9>>>>>>,
             <<<<<<1>>, <<2>>>>, <<<<3, 4, 5, 6, 7, 8, 9>>>>, <<<<>>>>>>}
StreamInputs == [format : {"binary", "csv"}, rows : Tables, cap : {1, 3, 16}, sink : {"file", "string", "buffer"}, raw : {FALSE}]
            \cup [format : {"csv"}, rows : Tables, cap : {3}, sink : {"file"}, raw : {TRUE}]
StreamCalls == [op : {"read", "skip"}, n : {1, 2, 5}] \cup [op : {"seek"}, n : {0, 3, 30}]
           \cup [op : {"line", "eof", "all"}, n : {0}] \cup [op : {"uint", "string"}, n : {1, 2, 4}]

\* Texts with the characters that their formats give a meaning.
Op(op, vs) == [op : {op}, value : vs]

URIs == [scheme : {<<>>, <<"h", "t">>}, userinfo : {<<>>, <<"u">>}, host : {<<>>, <<"a", "b">>},
         port : {0, 80}, path : {<<>>, <<"/">>, <<"/", "p", ":", "@">>}, query : {<<>>, <<"k", "=", "/">>},
         fragment : {<<>>, <<"f", "?">>}]
SomeURIs == {u \in URIs : u.host = <<>> => u.userinfo = <<>> /\ u.port = 0}

Words == {<<"a">>, <<"=">>, <<"&", "b">>, <<"%", "2", "5">>, <<"+", " ">>, <<"$", "1">>, <<";", "c">>}
Pairs == {<<<<k, v>>>> : k \in Words, v \in Words \cup {<<>>}}
Lists == {<<>>} \cup Pairs \cup {p \o <<<<k, v>>>> : p \in Pairs, k \in {<<"a">>, <<"$", "0">>}, v \in {<<>>, <<" ">>}}

Samples == {<<k, l, v>> : k \in {<<"a">>, <<"a", ".", "b">>},
                                  l \in {<<>>, <<<<<<"k">>, <<"v">>>>>>, <<<<<<"k">>, <<"=", "[">>>>, <<<<"l">>, <<"w">>>>>>},
                                  v \in {<<"1">>, <<"-", "2">>}}
Packets == {<<x>> : x \in Samples} \cup {<<x, y>> : x, y \in Samples}

Bytes == {0, 77, 255}
Codepoints == {1, 127, 128, 2047, 2048, 65535, 65536, 1114111, 2097151, 2097152}
TextInputs ==
  Op("uri", SomeURIs) \cup Op("path", {u \in SomeURIs : u.path # <<>>})
  \cup Op("query", Lists) \cup Op("cookies", Lists)
  \cup Op("statsd", Packets)
  \cup Op("split", {<<a, b, c>> : a, b, c \in {<<>>, <<"a">>, <<"a", "b">>}} \cup {<<<<>>>>})
  \cup Op("base64", UNION {[1..n -> Bytes] : n \in 0..4} \cup {<<1, 2, 3, 4, 5, 6, 7, 8>>})
  \cup Op("utf8", {<<a, b>> : a, b \in Codepoints \cup {0, 2 ^ 24 - 1, 2 ^ 24, 2 ^ 26 - 1, 2 ^ 26, 2147483647}})
  \cup Op("utf8first", {<<a, b>> : a \in Codepoints \cup {2 ^ 24, 2 ^ 26}, b \in Codepoints})
  \cup Op("utf8last", {<<a, b>> : a \in Codepoints, b \in Codepoints \cup {2 ^ 24, 2 ^ 26}})
  \cup [op : {"secure"}, value : [data : {<<7>>, <<1, 2>>, <<0, 255, 3>>}, created_at : {5, 9}],
        change : {"nothing", "data", "time", "no number", "other key", "no digest", "trailing",
                  "too short", "too long", "encrypted"}, now : {3, 9, 12}, expire_after : {0, 4}]

\* Flags that share letters, and command lines with values that look like flags.
Flag(long, short, type, required, default) ==
  [longopt |-> long, shortopt |-> short, type |-> type, required |-> required, default |-> default]

Definitions ==
  {<<>>, <<Flag(<<3>>, <<3>>, "string", FALSE, <<>>), Flag(<<3, 4>>, <<4>>, "integer", FALSE, <<10>>)>>,
   <<Flag(<<4, 4>>, <<>>, "switch", FALSE, <<>>), Flag(<<3>>, <<4, 3>>, "string", TRUE, <<>>),
     Flag(<<5>>, <<3>>, "integer", FALSE, <<>>)>>}

Items ==
  [kind : {"word"}, flag : {0}, value : {<<>>, <<3>>, <<10>>}]
  \cup [kind : {"long"}, flag : 1..3, value : {<<11, 12>>, <<1, 3>>, <<1, 1, 3>>}]
  \cup [kind : {"short"}, flag : 1..3, value : {<<1, 3>>}]
  \cup [kind : {"longEq", "shortEq"}, flag : 1..3, value : {<<>>, <<13>>}]

\* Days before the ends of months, leap days and centuries; times in their zones; cells.
Start(y, m, d, n) == [year |-> y, month |-> m, day |-> d, days |-> n]
Starts == {Start(1970, 1, 1, 0), Start(1972, 2, 27, 787), Start(1999, 12, 25, 10950),
             Start(2000, 2, 27, 11014), Start(2099, 12, 25, 47475)}

At(t, ms) == [text |-> t, ms |-> ms]
Times ==
  {At(<<"T", "0", "0", ":", "0", "0", ":", "0", "0", "Z">>, 0),
   At(<<"T", "2", "3", ":", "5", "9", ":", "5", "9", ".", "9", "9", "9", "-", "0", "1", ":", "3", "0">>,
      91799999),
   At(<<"t", "0", "0", ":", "3", "0", ":", "1", "0", ".", "5", "+", "0", "1", ":", "0", "0">>, 0 - 1789500),
   At(<<" ", "2", "3", ":", "5", "9", ":", "5", "9">>, 86399000),
   At(<<"T", "2", "4", ":", "0", "0", ":", "0", "0", "z">>, 86400000)}

CSVCells == {<<"1">>, <<"-", "2">>, <<"n", "u", "l", "l">>, <<"n", "o">>, <<"2", "0", "1", "5", "-", "0", "1">>,
             <<>>, <<"x">>, <<"0xC3">>, <<"n", "o", "w">>, <<"-", "1", "d">>, <<"1", ".", "5">>}

\* Addresses without a port, with one, and malformed.
SomeAddrs == {<<1>>, <<1, 80>>, <<1, 2, 3>>}

Wire == INSTANCE HTTPWire WITH
  Conversations <- Conversations, kMaxMethodSize <- 1, kMaxURISize <- 3, kMaxVersionSize <- 3,
  kMaxHeaderSize <- 8
Buffers == INSTANCE Buffer WITH
  Objects <- {"b1", "b2"}, Chunks <- {<<>>, <<1>>, <<2, 1>>}, MaxLen <- 2
Binary == INSTANCE BinaryMessage WITH
  Sizes <- {1, 3}, Values <- BinaryValues, VarBase <- 2, MaxVar <- 6, MaxValues <- 3,
  Block <- 2, MaxVals <- {0, 1, 2}, MaxCount <- 5
Posix == INSTANCE PosixScheduler WITH
  Tasks <- {"a", "b"}, Slots <- 9, PipeFd <- 5, Idle <- 2, MaxTime <- 2
Statsd == INSTANCE Stats WITH
  Paths <- {"a", "c"}, Delta <- {"a"}, MaxValue <- 2, MaxPackets <- 2, LineSize <- 3,
  kMaxPacketSize <- 9, got <- stats_got, lost <- stats_lost
Pool == INSTANCE ThreadPool WITH
  Workers <- {"w1", "w2"}, Callers <- {"p"}, Nobody <- "nobody", mutex_ <- pool_mutex,
  pc <- pool_pc, cancelled <- pool_cancelled
Simple == INSTANCE Executors WITH
  Tasks <- {"a", "b", "c", "d"}, Named <- {"a"}, running_ <- simple_running, called <- simple_called
JSON == INSTANCE JSON WITH
  Values <- JSONValues, Requests <- JSONRequests, Calls <- JSONCalls
Protobuf == INSTANCE Protobuf WITH
  VarBase <- 16, Word32 <- 64, Max64 <- 1000, bound_milli <- 100, bound_micro <- 10000,
  WireInputs <- WireInputs, JSONInputs <- JSONInputs, Objects <- {"o1", "o2", "o3"},
  Tokens <- {0, 1, 2}, obj <- message_obj
Streams == INSTANCE Streams WITH
  VarBase <- 4, ChunkSize <- 3, MaxCalls <- 4, Inputs <- StreamInputs, Calls <- StreamCalls
Text == INSTANCE Text WITH
  Inputs <- TextInputs
Time == INSTANCE Time WITH
  Starts <- Starts, Times <- Times, MaxDays <- 430, Values <- CSVCells, MaxValues <- 4

wireVars ==
  <<todo, wire, open, parser, sse>>
bufferVars ==
  <<obj, heap, freed, text>>
bitsVars ==
  <<enc, dec, mode, max_val, wrote, unpacked>>
binaryVars ==
  <<w, values, at, r, got>>
messageVars ==
  <<message_obj, blocks, bad, meant>>
posixVars ==
  <<load, now, tasks_, timers_, watchers_, firstWatcher_, lastWatcher_, counts, pipe, hung, loop,
    when, called, cancelled, rejected, ran>>
statsVars ==
  <<value, stats_, mutex_, running_, agent, last_values_, joined, net, work, stats_got, stats_lost>>
poolVars ==
  <<kind, active_, pool_mutex, pendingTasks_, activeTasks_, active, pool_pc, current, job,
    pool_cancelled, caller, done, raised, stopper>>
simpleVars ==
  <<executor, threads_, call, thread, detached, joiner, joining, due, recursive_, simple_running,
    deferred_, stack, simple_called, started>>

Parts ==
  {"event", "wire", "buffer", "bits", "binary", "message", "net", "dns", "refs", "client", "posix", "stats",
   "pool", "simple", "json", "protobuf", "streams", "text", "time"}
OverInput == {"json", "protobuf", "streams", "text", "time"}
everything ==
  <<part, vars, input, st, wireVars, bufferVars, bitsVars, binaryVars, messageVars, socketsVars, dnsVars,
    refVars, clientVars, posixVars, statsVars, poolVars, simpleVars>>

\* What the other parts do in a step of this one.
Only(p) ==
  /\ part = p /\ UNCHANGED part
  /\ p # "event" => UNCHANGED vars
  /\ p # "wire" => UNCHANGED wireVars
  /\ p # "buffer" => UNCHANGED bufferVars
  /\ p # "bits" => UNCHANGED bitsVars
  /\ p # "binary" => UNCHANGED binaryVars
  /\ p # "message" => UNCHANGED messageVars
  /\ p # "net" => UNCHANGED socketsVars
  /\ p # "dns" => UNCHANGED dnsVars
  /\ p # "refs" => UNCHANGED refVars
  /\ p # "client" => UNCHANGED clientVars
  /\ p # "posix" => UNCHANGED posixVars
  /\ p # "stats" => UNCHANGED statsVars
  /\ p # "pool" => UNCHANGED poolVars
  /\ p # "simple" => UNCHANGED simpleVars
  /\ p \notin OverInput => UNCHANGED <<input, st>>

\* A part that is not looked at stays in one of its initial states.
AnyInit ==
  /\ part \in Parts
  /\ Init /\ Buffers!Init /\ Protobuf!StorageInit /\ NetInit /\ Statsd!Init
  /\ Wire!Init /\ (part # "wire" => todo = <<Wire!mkResponse(OldGet, 2, <<"O", "K">>, <<"b", "LF">>)>>)
  /\ Binary!BitsInit /\ (part # "bits" => max_val = 0)
  /\ Binary!Init /\ (part # "binary" => w.size = 1 /\ w.owned)
  /\ RefInit /\ (part # "refs" => \A c \in Cells : cell[c].by = CHOOSE u \in Users : TRUE)
  /\ ClientInit /\ (part # "client" => \A q \in Requests : rq[q] = NewRequest("loop"))
  /\ Posix!Init /\ (part # "posix" => load = {"r1", "r4", "r5"})
  /\ Pool!Init /\ (part # "pool" => kind["i"] = "task")
  /\ Simple!Init /\ (part # "simple" => executor = "direct" /\ recursive_)
  /\ \/ part \notin OverInput /\ input = <<>> /\ st = <<>>
     \/ part = "json" /\ JSON!Init
     \/ part = "protobuf" /\ Protobuf!Init
     \/ part = "streams" /\ Streams!Init
     \/ part = "text" /\ Text!Init
     \/ part = "time" /\ Time!Init

AnyNext ==
  \/ Only("event") /\ Next
  \/ Only("wire") /\ Wire!Next
  \/ Only("buffer") /\ Buffers!Next
  \/ Only("bits") /\ Binary!BitsNext
  \/ Only("binary") /\ Binary!Next
  \/ Only("message") /\ Protobuf!StorageNext
  \/ Only("net") /\ SocketsNext
  \/ Only("dns") /\ DNSNext
  \/ Only("refs") /\ RefNext
  \/ Only("client") /\ ClientNext
  \/ Only("posix") /\ Posix!Next
  \/ Only("stats") /\ Statsd!Next
  \/ Only("pool") /\ Pool!Next
  \/ Only("simple") /\ Simple!Next
  \/ Only("json") /\ JSON!Next
  \/ Only("protobuf") /\ Protobuf!Next
  \/ Only("streams") /\ Streams!Next
  \/ Only("text") /\ Text!Next
  \/ Only("time") /\ Time!Next

AnySpec == AnyInit /\ [][AnyNext]_everything

\* The behaviours of one part alone.
JSONSpec == AnyInit /\ part = "json" /\ [][Only("json") /\ JSON!Next]_everything

-----------------------------------------------------------------------------

\* Messages and server-sent events that follow each other on a connection arrive as they
\* were sent, however the bytes are cut into reads.
HTTPSurvives == part = "wire" => Wire!MessagesSurvive /\ Wire!EventsSurvive

\* A value written as JSON is read back without its control characters, and every JSON-RPC request is answered by one
\* well-formed response with its id.
JSONSurvives == part = "json" => JSON!JSONRoundTrip /\ JSON!RPCAnswered

\* A message is read with a schema that has changed since as what that schema can tell of
\* it, and a DynamicMessage goes through JSON; the values of a MessageObject have one
\* owner each.
SchemasEvolve ==
  /\ part = "protobuf" => Protobuf!WireRoundTrip /\ Protobuf!DynamicRoundTrip
  /\ part = "message" => Protobuf!StorageOwned

\* Rows written through a stream with a small buffer are read back, and the kinds of input
\* stream agree on every sequence of reads, skips and seeks, but for the count that a
\* FileInputStream's skip past the end returns.
StreamsAgree == part = "streams" => Streams!RowsSurvive /\ Streams!StreamsAgree

\* Buffers keep their bytes and free them once; packed numbers and binary messages are
\* read back as they were written, and nothing is written beside them.
BytesKept ==
  /\ part = "buffer" => Buffers!BuffersHold
  /\ part = "bits" => Binary!NumbersSurvive
  /\ part = "binary" => Binary!MessageReadsBack

\* URIs, query strings, cookies, statsd samples, base64 and UTF-8 are parsed back from what
\* is printed, but for the sizes and codepoints that TextRoundTrip names, and a damaged
\* text raises; a secure cookie that was changed or has expired is refused, by None or by
\* an exception; a command line sets the flags it names, to the last value given, and
\* keeps the other arguments, those with an equals sign among them.
\* Every day of the calendar and every time in a zone is the instant it stands for, and
\* the type detected for a column fits what its values were taken for.
TextSurvives ==
  /\ part = "text" => Text!TextRoundTrip /\ Text!SecureCookieHolds /\ Text!FlagsParsed
  /\ part = "time" => Time!ReadsTheCalendar /\ Time!SeriesTypeFits

\* What the statsd server added up, what is under way and what was lost is together what
\* was reported, however the counting, the reports and the packets interleave.
DeltasConserved == part = "stats" => Statsd!DeltasConserved


\* FlatJSONReader reports every leaf of a document, in order, under its path.
FlatPaths == part = "json" => JSON!FlatPaths
=================================================================================
