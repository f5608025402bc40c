---------------------------------- MODULE Text ----------------------------------
(***************************************************************************)
(* The text codecs: URI and its query strings, cookies and secure cookies, *)
(* statsd packets, Base64, UTF-8, and StringUtil's split, join, replaceAll *)
(* and formatv; and the command line.                                      *)
(* One step writes a value as text or bytes, the next one reads it back.   *)
(* Text is a sequence of characters, each a string; a byte is a number.    *)
(***************************************************************************)
EXTENDS Integers, Sequences, SequencesExt, TLC
LOCAL INSTANCE Bitwise

CONSTANTS
  Inputs,       \* [op, value]
  Definitions,  \* the sequences of flags a command may define
  Items         \* [kind, flag, value]: "long" and "short" set a flag, "longEq" and "shortEq"
                \* write it as one argument with an equals sign, "word" is an argument

VARIABLES
  input,
  st            \* [at, wire, back], or [at, todo, flags, argv] of a command line

vars == <<input, st>>

hexOf == "%" :> <<"2", "5">> @@ "&" :> <<"2", "6">> @@ "=" :> <<"3", "D">> @@ " " :> <<"2", "0">>
         @@ "+" :> <<"2", "B">> @@ ";" :> <<"3", "B">> @@ "$" :> <<"2", "4">> @@ "/" :> <<"2", "F">>
         @@ "?" :> <<"3", "F">> @@ "#" :> <<"2", "3">> @@ "@" :> <<"4", "0">> @@ ":" :> <<"3", "A">>
Digit == <<"0", "1", "2", "3", "4", "5", "6", "7", "8", "9">>
hexDigits == Range(Digit) \cup {"A", "B", "C", "D", "E", "F", "a", "b", "c", "d", "e", "f"}

From(s, i) == SubSeq(s, i, Len(s))
Before(s, i) == SubSeq(s, 1, i - 1)

\* The position of the first of some characters, Len(s) + 1 when there is none.
firstOf(s, chars) ==
  LET at == {i \in 1..Len(s) : s[i] \in chars} IN IF at = {} THEN Len(s) + 1 ELSE Min(at)

RECURSIVE to_string(_)
to_string(n) == IF n < 10 THEN <<Digit[n + 1]>> ELSE Append(to_string(n \div 10), Digit[(n % 10) + 1])
stoi(s) == FoldLeft(LAMBDA acc, c : 10 * acc + (CHOOSE d \in 1..10 : Digit[d] = c) - 1, 0, s)

-----------------------------------------------------------------------------
(* StringUtil.                                                             *)

\* std::string::find from a position on, 0 for npos.
find(s, pattern, from) ==
  LET at == {i \in from..(Len(s) - Len(pattern) + 1) : SubSeq(s, i, i + Len(pattern) - 1) = pattern}
  IN IF at = {} THEN 0 ELSE Min(at)

\* The replacement is not searched again.
RECURSIVE replaceFrom(_, _, _, _)
replaceFrom(s, cur, pattern, replacement) ==
  LET at == find(s, pattern, cur)
  IN IF at = 0 THEN s
     ELSE replaceFrom(Before(s, at) \o replacement \o From(s, at + Len(pattern)),
                      at + Len(replacement), pattern, replacement)
replaceAll(s, pattern, replacement) == replaceFrom(s, 1, pattern, replacement)

\* One replaceAll() per value, over what the values before it left.
formatv(fmt, values) ==
  FoldLeft(LAMBDA s, i : replaceAll(s, <<"$">> \o to_string(i - 1), values[i]),
           fmt, [i \in DOMAIN values |-> i])

RECURSIVE splitFrom(_, _, _)
splitFrom(s, begin, pattern) ==
  LET end == find(s, pattern, begin)
  IN IF end = 0 THEN <<From(s, begin)>>
     ELSE <<SubSeq(s, begin, end - 1)>> \o splitFrom(s, end + Len(pattern), pattern)
split(s, pattern) == splitFrom(s, 1, pattern)

join(list, sep) ==
  FlattenSeq([i \in DOMAIN list |-> IF i > 1 THEN sep \o list[i] ELSE list[i]])

-----------------------------------------------------------------------------
(* URI.  A uri is [scheme, userinfo, host, port, path, query, fragment].   *)

urlEncode(s) ==
  FlattenSeq([i \in DOMAIN s |-> IF s[i] \in DOMAIN hexOf THEN <<"%">> \o hexOf[s[i]] ELSE <<s[i]>>])

\* A percent sign that no two hex digits follow stands for itself; one too close to
\* the end raises.
RECURSIVE urlDecode(_)
urlDecode(s) ==
  LET h == SubSeq(s, 2, 3)
      chr == {c \in DOMAIN hexOf : hexOf[c] = h}
  IN CASE s = <<>> -> <<>>
       [] s # <<>> /\ s[1] = "%" /\ Len(s) < 3 -> <<"raise">>
       [] s # <<>> /\ s[1] = "%" /\ Len(s) >= 3 /\ ~(Range(h) \subseteq hexDigits) ->
            <<"%">> \o urlDecode(Tail(s))
       [] s # <<>> /\ s[1] = "%" /\ Len(s) >= 3 /\ Range(h) \subseteq hexDigits ->
            <<IF chr = {} THEN "other" ELSE CHOOSE c \in chr : TRUE>> \o urlDecode(From(s, 4))
       [] s # <<>> /\ s[1] = "+" -> <<" ">> \o urlDecode(Tail(s))
       [] OTHER -> <<s[1]>> \o urlDecode(Tail(s))

toString(u) ==
  u.scheme \o <<":">>
  \o (IF u.host = <<>> THEN <<>>
      ELSE <<"/", "/">> \o (IF u.userinfo = <<>> THEN <<>> ELSE u.userinfo \o <<"@">>)
           \o u.host \o (IF u.port = 0 THEN <<>> ELSE <<":">> \o to_string(u.port)))
  \o u.path \o (IF u.query = <<>> THEN <<>> ELSE <<"?">> \o u.query)
  \o (IF u.fragment = <<>> THEN <<>> ELSE <<"#">> \o u.fragment)

pathAndQuery(u) ==
  IF u.query = <<>> THEN u.path ELSE formatv(<<"$", "0", "?", "$", "1">>, <<u.path, u.query>>)

\* Mutant: the userinfo is read as part of the host.
parseAuthority_noUser(a) ==
  LET h == firstOf(a, {":"})
      digits == SubSeq(a, h + 1, firstOf(From(a, h + 1), Range(a) \ Range(Digit)) - 1 + h)
  IN [userinfo |-> <<>>, host |-> Before(a, h), port |-> IF digits = <<>> THEN 0 ELSE stoi(digits)]

parseAuthority(a) ==
  LET user == firstOf(a, {"@"})
      rest == IF user > Len(a) THEN a ELSE From(a, user + 1)
      h == firstOf(rest, {":"})
      digits == SubSeq(rest, h + 1, firstOf(From(rest, h + 1), Range(rest) \ Range(Digit)) - 1 + h)
  IN [userinfo |-> IF user > Len(a) THEN <<>> ELSE Before(a, user),
      host |-> Before(rest, h),
      port |-> IF digits = <<>> THEN 0 ELSE stoi(digits)]

\* parseURI(), scheme first; each part starts where the one before it ended.
parseURI(s) ==
  LET colon == firstOf(s, {"/", ":"})
      hasScheme == colon <= Len(s) /\ s[colon] = ":"
      a == IF hasScheme THEN From(s, colon + 1) ELSE s
      hasAuthority == Len(a) > 2 /\ a[1] = "/" /\ a[2] = "/"
      b == IF hasAuthority THEN From(a, 3) ELSE a
      aend == IF hasAuthority THEN firstOf(b, {"/", "?", "#"}) ELSE 1
      authority == parseAuthority(Before(b, aend))
      p == From(b, aend)
      pend == firstOf(p, {"?", "#"})
      q == From(p, pend)
      hasQuery == q # <<>> /\ q[1] = "?"
      qend == IF hasQuery THEN firstOf(q, {"#"}) ELSE 1
      f == From(q, qend)
  IN [scheme |-> IF hasScheme THEN Before(s, colon) ELSE <<>>,
      userinfo |-> authority.userinfo, host |-> authority.host, port |-> authority.port,
      path |-> Before(p, pend), query |-> IF hasQuery THEN SubSeq(q, 2, qend - 1) ELSE <<>>,
      fragment |-> IF Len(f) > 1 /\ f[1] = "#" THEN Tail(f) ELSE <<>>]

pair(k, v) == formatv(<<"$", "0", "=", "$", "1">>, <<urlEncode(k), urlEncode(v)>>)
buildQueryString(params) == join([i \in DOMAIN params |-> pair(params[i][1], params[i][2])], <<"&">>)

\* parseQueryString() stops at the first part without a key and an equals sign.
RECURSIVE parseQueryString(_)
parseQueryString(s) ==
  LET k == firstOf(s, {"=", "&"})
      v == From(s, k + 1)
      e == firstOf(v, {"=", "&"})
  IN IF k = 1 \/ k > Len(s) \/ s[k] # "=" THEN <<>>
     ELSE <<<<urlDecode(Before(s, k)), urlDecode(Before(v, e))>>>> \o parseQueryString(From(v, e + 1))

\* The parameters of a URI, and the first value of one.
queryParams(u) == IF u.query = <<>> THEN <<>> ELSE parseQueryString(u.query)
getParam(params, key) ==
  LET found == SelectSeq(params, LAMBDA p : p[1] = key) IN IF found = <<>> THEN <<>> ELSE <<found[1][2]>>

-----------------------------------------------------------------------------
(* statsd: a sample is <<key, labels, value>>.                             *)

\* A line as reportValue() and sendToStatsd() make it, and as a client with labels does.
statsdLine(x) ==
  x[1] \o FlattenSeq([i \in DOMAIN x[2] |-> <<"[">> \o x[2][i][1] \o <<"=">> \o x[2][i][2] \o <<"]">>])
  \o <<":">> \o x[3] \o <<"\n">>

\* parseStatsdSample(), in the state of its scanner: [x, rest], or <<>> where it raises.
\* A text that ends in a label or a key leaves the value of the sample before it.
RECURSIVE statsdLabels(_, _), statsdValue(_, _)
statsdValue(x, s) ==
  LET lend == firstOf(s, {"\n", "\r"})
      more == {i \in lend..Len(s) : s[i] \notin {"\n", "\r"}}
  IN <<[x |-> [x EXCEPT ![3] = Before(s, lend)], rest |-> IF more = {} THEN <<>> ELSE From(s, Min(more))]>>
statsdLabels(x, s) ==
  LET e == firstOf(s, {"]", ":"})
      label == Before(s, e)
      eq == firstOf(label, {"="})
      y == [x EXCEPT ![2] = Append(@, <<Before(label, eq), From(label, eq + 1)>>)]
      after == From(s, e + 1)
  IN IF eq + 1 > Len(label) THEN <<>>
     ELSE IF e > Len(s) THEN <<[x |-> y, rest |-> <<>>]>>
     ELSE IF after = <<>> THEN <<>>
     ELSE IF after[1] = "[" THEN statsdLabels(y, Tail(after))
     ELSE IF after[1] = ":" THEN statsdValue(y, Tail(after)) ELSE <<>>
parseStatsdSample(s, value) ==
  LET k == firstOf(s, {"[", ":", "="})
      x == <<Before(s, k), <<>>, value>>
  IN IF k > Len(s) THEN <<[x |-> x, rest |-> <<>>]>>
     ELSE IF s[k] = "=" THEN <<>>
     ELSE IF s[k] = "[" THEN statsdLabels(x, From(s, k + 1)) ELSE statsdValue(x, From(s, k + 1))

\* The samples of a packet, up to the first whose value is no number.
RECURSIVE statsdSamples(_, _)
statsdSamples(s, value) ==
  LET r == parseStatsdSample(s, value)
  IN IF s = <<>> \/ r = <<>> THEN <<>>
     ELSE IF r[1].x[3] = <<>> THEN <<>> ELSE <<r[1].x>> \o statsdSamples(r[1].rest, r[1].x[3])

-----------------------------------------------------------------------------
(* Cookies.                                                                *)

\* mkCookie() for a Cookie header: no attributes.
mkCookie(k, v) == pair(k, v)

RECURSIVE parseCookieHeader(_)
parseCookieHeader(s) ==
  LET b == IF \A i \in DOMAIN s : s[i] = " " THEN Len(s) + 1 ELSE Min({i \in DOMAIN s : s[i] # " "})
      t == From(s, b)
      k == firstOf(t, {"="})
      v == From(t, k + 1)
      e == firstOf(v, {";"})
  IN IF s = <<>> THEN <<>>
     ELSE <<<<urlDecode(Before(t, k)), urlDecode(Before(v, e))>>>> \o parseCookieHeader(From(v, e + 1))

getCookie(cookies, key) ==
  LET found == SelectSeq(cookies, LAMBDA c : c[1] = key) IN IF found = <<>> THEN <<>> ELSE <<found[1][2]>>

-----------------------------------------------------------------------------
(* Base64, its characters as their six bits, 64 for the padding.           *)

\* The loop tests i < len - 2 in size_t: with fewer than two bytes it reads on behind them
\* until the process dies.
overruns(s) == Len(s) < 2

RECURSIVE base64Encode(_)
base64Encode(s) ==
  LET n == Len(s)
      a == s[1]
      b == IF n > 1 THEN s[2] ELSE 0
      c == IF n > 2 THEN s[3] ELSE 0
  IN IF n = 0 THEN <<>>
     ELSE <<a \div 4, (a % 4) * 16 + (b \div 16),
            IF n = 1 THEN 64 ELSE (b % 16) * 4 + (c \div 64), IF n < 3 THEN 64 ELSE c % 64>>
          \o base64Encode(From(s, 4))

RECURSIVE decodeGroups(_)
decodeGroups(s) ==
  LET n == Len(s)
      bytes == <<IF n > 1 THEN s[1] * 4 + (s[2] \div 16) ELSE 0,
                 IF n > 2 THEN (s[2] % 16) * 16 + (s[3] \div 4) ELSE 0,
                 IF n > 3 THEN (s[3] % 4) * 64 + s[4] ELSE 0>>
  IN IF n > 4 THEN bytes \o decodeGroups(From(s, 5)) ELSE SubSeq(bytes, 1, n - 1)

\* What stands before the first character that is none of the sixty-four.
base64Decode(s) == decodeGroups(Before(s, firstOf(s, {64})))

-----------------------------------------------------------------------------
(* UTF-8, sequences of up to six bytes.                                    *)

Raised == <<-1>>

lead == <<0, 192, 224, 240, 248, 252>>
utf8Length(c) ==
  CASE c < 128 -> 1 [] c >= 128 /\ c < 2048 -> 2 [] c >= 2048 /\ c < 65536 -> 3
    [] c >= 65536 /\ c < 2097152 -> 4 [] c >= 2097152 /\ c < 67108864 -> 5 [] OTHER -> 6

\* The fourth byte of six takes its bits from one place too low.
encodeCodepoint(c) ==
  LET n == utf8Length(c)
      shifted(i) == IF n = 6 /\ i = 4 THEN c \div 2048 ELSE c \div (64 ^ (n - i))
  IN [i \in 1..n |-> IF i = 1 THEN lead[n] + shifted(1) ELSE 128 + (shifted(i) % 64)]

\* A codepoint and the bytes behind it, <<>> where it raises: a byte that starts no
\* sequence, or one with too few bytes behind it.  The first byte of five is shifted to
\* where the third one goes.
nextCodepoint(s) ==
  LET b == s[1]
      n == CASE b < 128 -> 1 [] b \div 32 = 6 -> 2 [] b \div 16 = 14 -> 3 [] b \div 8 = 30 -> 4
             [] b \div 4 = 62 -> 5 [] b \div 2 = 126 -> 6 [] OTHER -> 0
      bits(i) == IF i = 1 THEN b - lead[n] ELSE s[i] % 64
      shifted(i) == bits(i) * IF n = 5 /\ i = 1 THEN 2 ^ 14 ELSE 64 ^ (n - i)
  IN IF n = 0 \/ Len(s) < n THEN <<>>
     ELSE <<[chr |-> FoldLeft(LAMBDA acc, i : acc | shifted(i), 0, [i \in 1..n |-> i]), rest |-> From(s, n + 1)]>>

\* It reads on until the end or a codepoint 0.
RECURSIVE codepointsFrom(_, _)
codepointsFrom(s, out) ==
  LET next == nextCodepoint(s)
  IN IF s = <<>> THEN out
     ELSE IF next = <<>> THEN Raised
     ELSE IF next[1].chr = 0 THEN out ELSE codepointsFrom(next[1].rest, Append(out, next[1].chr))
convertUTF8To32(s) == codepointsFrom(s, <<>>)

-----------------------------------------------------------------------------
(* SecureCookieCoder: a cookie is the list of its parts between the bars.  *)
(* The digest is not modelled further than that it tells the key and the   *)
(* texts apart.  The time is <<n>>, or <<>> for a text that is no number;  *)
(* the last part is <<digest>>, more characters behind it, or <<>> for a   *)
(* text that does not begin with forty hex digits.                         *)

hmac_sha1(key, text) == [key |-> key, text |-> text]

encodeWithoutEncryption(cookie, key) ==
  LET text == <<base64Encode(cookie.data), <<cookie.created_at>>, "PLAIN", "">>
  IN Append(text, <<hmac_sha1(key, text)>>)

\* Mutant: the age is not tested.
expired_never(created_at, now, expire_after) == FALSE
expired(created_at, now, expire_after) == created_at < now /\ now - created_at > expire_after

None == [raised |-> FALSE, cookie |-> <<>>]

\* Mutant: the algorithm is not tested.
decodeAndVerify_anyAlgo(parts, key, now, expire_after) ==
  IF Len(parts) # 5 THEN None
  ELSE IF parts[2] = <<>> \/ parts[5] = <<>> THEN [raised |-> TRUE, cookie |-> <<>>]
  ELSE IF Head(parts[5]) # hmac_sha1(key, SubSeq(parts, 1, 4)) \/ expired(Head(parts[2]), now, expire_after)
  THEN None
  ELSE [raised |-> FALSE, cookie |-> <<[data |-> base64Decode(parts[1]), created_at |-> Head(parts[2])]>>]

\* std::stoull() and SHA1Hash::fromHexString(), which looks at forty characters, raise
\* before the digest is compared.
decodeAndVerify(parts, key, now, expire_after) ==
  IF Len(parts) # 5 THEN None
  ELSE IF parts[2] = <<>> \/ parts[5] = <<>> THEN [raised |-> TRUE, cookie |-> <<>>]
  ELSE IF \/ Head(parts[5]) # hmac_sha1(key, SubSeq(parts, 1, 4))
          \/ parts[3] # "PLAIN"
          \/ expired(Head(parts[2]), now, expire_after)
  THEN None
  ELSE [raised |-> FALSE, cookie |-> <<[data |-> base64Decode(parts[1]), created_at |-> Head(parts[2])]>>]

-----------------------------------------------------------------------------
(* CLI, CLICommand and FlagParser: a command line is looked up by its      *)
(* command and parsed an argument at a time against the command's flags.   *)
(* A command line is made from a list of items, the flags set and the      *)
(* positional arguments, so that what the parser finds can be compared     *)
(* with what was meant.  A flag is [longopt, shortopt, type, required,     *)
(* default, values]; shortopt and default are <<>> when there is none.     *)
(* The characters here are numbers.                                        *)

Dash == 1
Equals == 2

defineFlag(flags, f) ==
  Append(flags, [longopt |-> f.longopt, shortopt |-> f.shortopt, type |-> f.type, required |-> f.required,
                 default |-> f.default, values |-> <<>>])

\* How an argument names a flag: 0 not at all, -1 as a name, else the length up to "=".
\* A long name has to be the whole argument, a short one only its beginning.
names(f, arg) ==
  LET long == <<Dash, Dash>> \o f.longopt
      short == <<Dash>> \o f.shortopt
  IN CASE arg = long -> -1
       [] arg = Append(long, Equals) -> Len(arg)
       [] arg # long /\ arg # Append(long, Equals) /\ f.shortopt # <<>> /\ IsPrefix(short, arg) -> -1
       [] OTHER -> 0

\* The first flag an argument names, 0 when there is none.
flagOf(flags, arg) ==
  LET hits == {i \in DOMAIN flags : names(flags[i], arg) # 0}
  IN IF hits = {} THEN 0 ELSE CHOOSE i \in hits : \A j \in hits : i <= j

\* Mutant: a flag's value is looked at again as the next argument.
parseArg_again(p) ==
  LET arg == Head(p.todo)
      i == flagOf(p.flags, arg)
      set(v) == [p.flags EXCEPT ![i].values = Append(@, v)]
  IN IF i = 0 THEN [p EXCEPT !.todo = Tail(@), !.argv = IF arg = <<>> THEN @ ELSE Append(@, arg)]
     ELSE IF p.flags[i].type = "switch" THEN [p EXCEPT !.todo = Tail(@), !.flags = set(<<0>>)]
     ELSE IF Len(p.todo) = 1 THEN [p EXCEPT !.at = "raised"]
     ELSE [p EXCEPT !.todo = Tail(@), !.flags = set(p.todo[2])]

\* One turn of parseArgv()'s loop over [at, todo, flags, argv].
parseArg(p) ==
  LET arg == Head(p.todo)
      i == flagOf(p.flags, arg)
      eq_len == names(p.flags[i], arg)
      set(v) == [p.flags EXCEPT ![i].values = Append(@, v)]
  IN IF arg = <<>> THEN [p EXCEPT !.todo = Tail(@)]
     ELSE IF i = 0 THEN [p EXCEPT !.todo = Tail(@), !.argv = Append(@, arg)]
     ELSE IF p.flags[i].type = "switch" THEN [p EXCEPT !.todo = Tail(@), !.flags = set(<<0>>)]
     ELSE IF eq_len > 0 \/ Len(p.todo) = 1 THEN [p EXCEPT !.at = "raised"]
     ELSE [p EXCEPT !.todo = SubSeq(@, 3, Len(@)), !.flags = set(p.todo[2])]

\* The check after the loop.
missing(flags) == \E i \in DOMAIN flags : flags[i].required /\ flags[i].values = <<>>

\* The getters, by the index of a flag.
isSet(flags, i) == flags[i].default # <<>> \/ flags[i].values # <<>>
getStrings(flags, i) ==
  IF flags[i].type # "string" THEN Raised
  ELSE IF flags[i].values # <<>> THEN flags[i].values
  ELSE IF flags[i].default # <<>> THEN <<flags[i].default>> ELSE <<>>
getString(flags, i) ==
  IF flags[i].type # "string" \/ ~isSet(flags, i) THEN Raised ELSE Last(getStrings(flags, i))
\* std::stoi(): the digits here are the characters from 10 on.
intOf(s) == FoldLeft(LAMBDA acc, c : 10 * acc + c - 10, 0, s)
getInt(flags, i) ==
  LET s == IF flags[i].values # <<>> THEN Last(flags[i].values) ELSE flags[i].default
  IN IF flags[i].type # "integer" \/ s = <<>> \/ \E j \in DOMAIN s : s[j] < 10 THEN Raised ELSE <<intOf(s)>>

-----------------------------------------------------------------------------
\* The arguments an item is written as.
written(flags, item) ==
  LET f == flags[item.flag]
      name == IF item.kind \in {"short", "shortEq"} THEN <<Dash>> \o f.shortopt ELSE <<Dash, Dash>> \o f.longopt
  IN CASE item.kind = "word" -> <<item.value>>
       [] item.kind \in {"longEq", "shortEq"} -> <<Append(name, Equals) \o item.value>>
       [] OTHER -> <<name>> \o IF f.type = "switch" THEN <<>> ELSE <<item.value>>

Sensible(flags, item) ==
  \/ item.kind = "word"
  \/ /\ item.flag \in DOMAIN flags
     /\ item.kind \in {"short", "shortEq"} => flags[item.flag].shortopt # <<>>

-----------------------------------------------------------------------------
Encoded ==
  LET v == input.value
  IN CASE input.op = "uri" -> toString(v)
       [] input.op = "path" -> pathAndQuery(v)
       [] input.op = "query" -> buildQueryString(v)
       [] input.op = "cookies" -> join([i \in DOMAIN v |-> mkCookie(v[i][1], v[i][2])], <<";", " ">>)
       [] input.op = "statsd" -> FlattenSeq([i \in DOMAIN v |-> statsdLine(v[i])])
       [] input.op = "split" -> join(v, <<"&", "&">>)
       [] input.op = "base64" -> base64Encode(v)
       [] input.op = "utf8" -> FlattenSeq([i \in DOMAIN v |-> encodeCodepoint(v[i])])
       [] input.op = "utf8first" -> Tail(FlattenSeq([i \in DOMAIN v |-> encodeCodepoint(v[i])]))
       [] input.op = "utf8last" -> Front(FlattenSeq([i \in DOMAIN v |-> encodeCodepoint(v[i])]))

\* What the other side reads.  A text in UTF-8 may have lost its first or its last byte, and
\* a secure cookie may have been changed on its way.
Decoded ==
  CASE input.op \in {"uri", "path"} -> parseURI(st.wire)
    [] input.op = "query" -> parseQueryString(st.wire)
    [] input.op = "cookies" -> parseCookieHeader(st.wire)
    [] input.op = "statsd" -> statsdSamples(st.wire, <<>>)
    [] input.op = "split" -> split(st.wire, <<"&", "&">>)
    [] input.op = "base64" -> base64Decode(st.wire)
    [] input.op \in {"utf8", "utf8first", "utf8last"} -> convertUTF8To32(st.wire)

Init ==
  \/ /\ input \in Inputs
     /\ st = [at |-> "start", wire |-> <<>>, back |-> <<>>]
  \/ /\ input \in [op : {"cli"}, flags : Definitions, items : UNION {[1..n -> Items] : n \in 0..3}]
     /\ \A k \in DOMAIN input.items : Sensible(input.flags, input.items[k])
     /\ st = [at |-> "call", todo |-> <<>>, flags |-> <<>>, argv |-> <<>>]

Encode ==
  /\ st.at = "start" /\ input.op # "secure"
  /\ st' = IF input.op = "base64" /\ overruns(input.value) THEN [st EXCEPT !.at = "dead"]
           ELSE [st EXCEPT !.at = "encoded", !.wire = Encoded]
  /\ UNCHANGED input

Decode ==
  /\ st.at = "encoded"
  /\ st' = [st EXCEPT !.at = "decoded", !.back = Decoded]
  /\ UNCHANGED input

\* A secure cookie is made, maybe changed, and verified later.
Sent(w) ==
  CASE input.change = "nothing" -> w
    [] input.change = "data" -> [w EXCEPT ![1] = Append(@, 1)]
    [] input.change = "time" -> [w EXCEPT ![2] = <<@[1] + 1>>]
    [] input.change = "no number" -> [w EXCEPT ![2] = <<>>]
    [] input.change = "other key" -> [w EXCEPT ![5][1].key = "other"]
    [] input.change = "no digest" -> [w EXCEPT ![5] = <<>>]
    [] input.change = "trailing" -> [w EXCEPT ![5] = Append(@, "trailing")]
    [] input.change = "too short" -> Tail(w)
    [] input.change = "too long" -> <<w[1]>> \o w
    \* made by a coder that encrypts
    [] input.change = "encrypted" ->
         LET text == [SubSeq(w, 1, 4) EXCEPT ![3] = "AES"] IN Append(text, <<hmac_sha1("key", text)>>)

SecureCookie ==
  /\ st.at = "start" /\ input.op = "secure"
  /\ IF overruns(input.value.data) THEN st' = [st EXCEPT !.at = "dead"]
     ELSE LET w == encodeWithoutEncryption(input.value, "key")
              r == decodeAndVerify(Sent(w), "key", input.now, input.expire_after)
          IN st' = [st EXCEPT !.at = IF r.raised THEN "raised" ELSE "verified", !.back = r.cookie]
  /\ UNCHANGED input

\* CLI::call: the first argument is the command, whose flags were defined before.
call(known) ==
  /\ st.at = "call"
  /\ st' = IF ~known THEN [st EXCEPT !.at = "usage"]
           ELSE [st EXCEPT !.at = "parse", !.flags = FoldLeft(defineFlag, <<>>, input.flags),
                           !.todo = FlattenSeq([k \in DOMAIN input.items |-> written(input.flags, input.items[k])])]
  /\ UNCHANGED input

parse ==
  /\ st.at = "parse"
  /\ st' = IF st.todo # <<>> THEN parseArg(st)
           ELSE IF missing(st.flags) THEN [st EXCEPT !.at = "raised"] ELSE [st EXCEPT !.at = "run"]
  /\ UNCHANGED input

Next == Encode \/ Decode \/ SecureCookie \/ parse \/ \E known \in BOOLEAN : call(known)

Spec == Init /\ [][Next]_vars

-----------------------------------------------------------------------------
\* Every value comes back from its text: a URI from toString(), parameters and
\* cookies from their query string and header whatever characters they contain, the samples
\* of a statsd packet with their labels, the parts of a joined string, two bytes or more from
\* Base64 (fewer kill the process), and codepoints from UTF-8 up to the first 0; a path with
\* its query keeps both (the query, unlike a "$1" in the path, is not a format); and
\* a cookie or parameter is found under its name, the first one if several share it.
\* Codepoints from 2^24 on, which no text has, come back as others but disturb none beside
\* them.  A text that lost a byte of a sequence raises and is not read as a shorter one.
TextRoundTrip ==
  /\ st.at = "dead" => overruns(IF input.op = "secure" THEN input.value.data ELSE input.value)
  /\ st.at = "decoded" =>
       LET v == input.value
       IN CASE input.op = "path" -> st.back.path = v.path /\ st.back.query = v.query
                                    /\ queryParams(st.back) = queryParams(v)
            [] input.op \in {"cookies", "query"} ->
                 /\ st.back = v
                 /\ \A i \in DOMAIN v :
                      (\A j \in 1..(i - 1) : v[j][1] # v[i][1]) =>
                        getCookie(st.back, v[i][1]) = <<v[i][2]>> /\ getParam(st.back, v[i][1]) = <<v[i][2]>>
            [] input.op = "utf8" ->
                 LET read == Before(v, firstOf(v, {0}))
                 IN Len(st.back) = Len(read) /\ \A i \in DOMAIN read : read[i] < 2 ^ 24 => st.back[i] = read[i]
            [] input.op = "utf8first" -> st.back = IF Head(v) < 128 THEN Tail(v) ELSE Raised
            [] input.op = "utf8last" -> st.back = IF Last(v) < 128 THEN Front(v) ELSE Raised
            [] OTHER -> st.back = v

\* A secure cookie is accepted exactly when none of its five parts was changed and it is
\* not older than its coder allows, and then it is what was put in; characters behind its
\* forty hex digits are not looked at.  A time that is no number and a digest that is
\* none raise, and nothing else does.
SecureCookieHolds ==
  input.op = "secure" =>
    /\ st.at = "raised" <=> st.at # "start" /\ st.at # "dead" /\ input.change \in {"no number", "no digest"}
    /\ st.at = "verified" =>
         st.back = IF /\ input.change \in {"nothing", "trailing"}
                      /\ input.now - input.value.created_at <= input.expire_after
                   THEN <<input.value>> ELSE <<>>

\* A command runs with every flag the values it was given, in their order, and with the
\* other arguments in theirs, although a value may look like a flag; it is refused only
\* when a required flag was not given or a name ends in an equals sign.  What follows an
\* equals sign is never the value of a flag: behind a long name it makes the whole an
\* argument, behind a short one it is ignored and the next argument is taken.
FlagsParsed ==
  input.op = "cli" =>
  LET eq(x) == x.kind \in {"longEq", "shortEq"}
      switch(x) == x.kind # "word" /\ input.flags[x.flag].type = "switch"
      word(x) == (x.kind = "word" \/ x.kind = "longEq") /\ x.value # <<>>
      sets(x) == x.kind # "word" /\ ~word(x)
      given(i) == SelectSeq(input.items, LAMBDA x : sets(x) /\ x.flag = i)
      values(i) == [k \in DOMAIN given(i) |-> given(i)[k].value]
      words == SelectSeq(input.items, word)
      no_value == \E x \in Range(input.items) : x.kind = "longEq" /\ x.value = <<>> /\ ~switch(x)
      misread == \E x \in Range(input.items) : x.kind = "shortEq" /\ ~switch(x)
      refused == no_value \/ \E i \in DOMAIN input.flags : input.flags[i].required /\ given(i) = <<>>
  IN /\ st.at = "raised" => refused \/ misread
     /\ st.at = "run" =>
          \A i \in DOMAIN st.flags : st.flags[i].type # "switch" =>
            \A x \in Range(input.items) : eq(x) /\ x.value # <<>> => x.value \notin Range(st.flags[i].values)
     /\ st.at = "run" /\ ~misread =>
          /\ ~refused
          /\ st.argv = [k \in DOMAIN words |-> Head(written(input.flags, words[k]))]
          /\ \A i \in DOMAIN st.flags :
               /\ isSet(st.flags, i) <=> given(i) # <<>> \/ input.flags[i].default # <<>>
               /\ (st.flags[i].type = "string" /\ given(i) # <<>>) =>
                     getStrings(st.flags, i) = values(i) /\ getString(st.flags, i) = Last(values(i))
               /\ (st.flags[i].type = "integer" /\ given(i) # <<>> /\ \A j \in DOMAIN Last(values(i)) : Last(values(i))[j] >= 10)
                     => getInt(st.flags, i) = <<intOf(Last(values(i)))>>
=============================================================================
