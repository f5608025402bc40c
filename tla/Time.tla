---------------------------------- MODULE Time ----------------------------------
(***************************************************************************)
(* Calendar time and the guesses of Human: ISO8601::parse(), the days of   *)
(* UnixTime(CivilTime), Human::parseTime() and the column type that        *)
(* detectDataTypeSeries() makes of one value after another.  Text is a     *)
(* sequence of characters.  An instant is [days, ms] since 1970, ms being  *)
(* less than a day: the code's count of microseconds without its digits.   *)
(***************************************************************************)
EXTENDS Integers, Sequences, FiniteSets, SequencesExt, FiniteSetsExt

CONSTANTS
  Starts,       \* [year, month, day, days]: where a walk through the calendar starts
  Times,        \* [text, ms, offset]: an ISO time of day and its zone, with its meaning
  MaxDays,      \* how many days a walk takes
  Values,       \* the texts a column may contain
  MaxValues     \* how many values a column has

VARIABLES
  input,
  st

vars == <<input, st>>

kSecondsPerMinute == 60
kSecondsPerHour == 3600
kMillisPerDay == 86400000

Digit == <<"0", "1", "2", "3", "4", "5", "6", "7", "8", "9">>
isdigit(c) == c \in Range(Digit)
isDigitString(s) == \A i \in DOMAIN s : isdigit(s[i])
stoi(s) == FoldLeft(LAMBDA acc, c : 10 * acc + (CHOOSE d \in 1..10 : Digit[d] = c) - 1, 0, s)
digits(n, width) == [i \in 1..width |-> Digit[((n \div (10 ^ (width - i))) % 10) + 1]]

-----------------------------------------------------------------------------
(* ISO8601.                                                                *)

\* Mutant: every fourth year.
isLeapYear_julian(year) == year % 4 = 0
isLeapYear(year) == (year % 4 = 0 /\ year % 100 # 0) \/ year % 400 = 0

daysInMonth(year, month) ==
  IF month = 2 THEN 28 + (IF isLeapYear(year) THEN 1 ELSE 0)
  ELSE 31 - (((month - 1) % 7) % 2)

\* The number of n digits at a position of the text, -1 when there is none.
number(s, i, n) ==
  IF i + n - 1 <= Len(s) /\ isDigitString(SubSeq(s, i, i + n - 1)) THEN stoi(SubSeq(s, i, i + n - 1)) ELSE -1
at(s, i) == IF i \in DOMAIN s THEN s[i] ELSE "end"

\* What a parser finds is a set of at most one element: None, or what the text stands for.
None == {}
CivilTime == [year |-> 0, month |-> 0, day |-> 0, hour |-> 0, minute |-> 0, second |-> 0,
              millisecond |-> 0, offset |-> 0]

\* Each field has its place in the text, up to the fraction of the second; a parser reads its
\* field and fills it into what the next one finds.

\* Z, or a sign with hours and minutes; what follows the minutes is not looked at.
parseTimeOffset(s, i) ==
  LET hour == number(s, i + 1, 2)
      minute == number(s, i + 4, 2)
      sign == IF at(s, i) = "+" THEN 1 ELSE -1
  IN CASE i = Len(s) /\ at(s, i) \in {"z", "Z"} -> {CivilTime}
       [] at(s, i) \in {"+", "-"} /\ hour \in 0..24 /\ at(s, i + 3) = ":" /\ minute \in 0..59 ->
            {[CivilTime EXCEPT !.offset = sign * (hour * kSecondsPerHour + minute * kSecondsPerMinute)]}
       [] OTHER -> None

\* One to three digits, to be filled up to milliseconds.
parseSecondFrac(s) ==
  LET len == CHOOSE n \in 0..Len(s) : /\ \A k \in 1..n : isdigit(at(s, 20 + k))
                                      /\ ~isdigit(at(s, 21 + n))
  IN IF at(s, 20) # "." \/ len \notin 1..3 THEN None
     ELSE {[r EXCEPT !.millisecond = number(s, 21, len) * 10 ^ (3 - len)] : r \in parseTimeOffset(s, 21 + len)}

\* With a fraction, which begins with a dot, or without one.
parseSecond(s) ==
  IF at(s, 17) # ":" \/ number(s, 18, 2) \notin 0..59 THEN None
  ELSE {[r EXCEPT !.second = number(s, 18, 2)] : r \in parseSecondFrac(s) \cup parseTimeOffset(s, 20)}

parseMinute(s) ==
  IF at(s, 14) # ":" \/ number(s, 15, 2) \notin 0..59 THEN None
  ELSE {[r EXCEPT !.minute = number(s, 15, 2)] : r \in parseSecond(s)}

parseHour(s) ==
  IF at(s, 11) \notin {"T", "t"} \/ number(s, 12, 2) \notin 0..24 THEN None
  ELSE {[r EXCEPT !.hour = number(s, 12, 2)] : r \in parseMinute(s)}

\* The day is compared with the days of the month whose number is the day.
parseDay(s) ==
  LET day == number(s, 9, 2)
  IN IF at(s, 8) # "-" \/ day < 1 \/ day > daysInMonth(number(s, 1, 4), day) THEN None
     ELSE {[r EXCEPT !.day = day] : r \in IF Len(s) > 10 THEN parseHour(s) ELSE {CivilTime}}

parseMonth(s) ==
  LET month == number(s, 6, 2)
  IN IF at(s, 5) # "-" \/ month \notin 1..12 THEN None
     ELSE {[r EXCEPT !.month = month] : r \in IF Len(s) > 7 THEN parseDay(s) ELSE {CivilTime}}

\* ISO8601::parse() and parseYear().
parse(s) ==
  IF number(s, 1, 4) = -1 THEN None
  ELSE {[r EXCEPT !.year = number(s, 1, 4)] : r \in IF Len(s) > 4 THEN parseMonth(s) ELSE {CivilTime}}

-----------------------------------------------------------------------------
(* UnixTime and Human.                                                     *)

Instant(days, ms) == [days |-> days + (ms \div kMillisPerDay), ms |-> ms % kMillisPerDay]

\* UnixTime(CivilTime): whole years, whole months, days; the zone is taken off.
UnixTime(civil) ==
  LET past == 1970..(civil.year - 1)
      years == 365 * Cardinality(past) + Cardinality({y \in past : isLeapYear(y)})
      months == MapThenSumSet(LAMBDA i : daysInMonth(civil.year, i), 1..(civil.month - 1))
      seconds == civil.hour * kSecondsPerHour + civil.minute * kSecondsPerMinute + civil.second
  IN Instant(civil.day - 1 + years + months, (seconds - civil.offset) * 1000 + civil.millisecond)

beginsWith(s, prefix) == Len(s) >= Len(prefix) /\ SubSeq(s, 1, Len(prefix)) = prefix

\* The units of parseDuration() by their shortest name, in days and milliseconds.
unit == [s |-> <<0, 1000>>, m |-> <<0, 60000>>, h |-> <<0, 3600000>>, d |-> <<1, 0>>,
         w |-> <<7, 0>>, y |-> <<365, 0>>]
parseDuration(s) ==
  LET n == CHOOSE n \in 0..Len(s) : isDigitString(SubSeq(s, 1, n)) /\ ~isdigit(at(s, n + 1))
      suffix == SubSeq(s, n + 1, Len(s))
      value == stoi(SubSeq(s, 1, n))
  IN IF Len(suffix) = 1 /\ suffix[1] \in DOMAIN unit
     THEN {<<value * unit[suffix[1]][1], value * unit[suffix[1]][2]>>} ELSE None

\* CivilTime::parseString(), by strptime() with "%Y-%m-%d %H:%M:%S" and all digits
\* written; a 31st of any month is let through, and what follows is not looked at.
parseString(s) ==
  LET f == [k \in {6, 9, 12, 15, 18} |-> number(s, k, 2)]
  IN IF /\ number(s, 1, 4) # -1 /\ f[6] \in 1..12 /\ f[9] \in 1..31
        /\ f[12] \in 0..23 /\ f[15] \in 0..59 /\ f[18] \in 0..60
        /\ <<at(s, 5), at(s, 8), at(s, 11), at(s, 14), at(s, 17)>> = <<"-", "-", " ", ":", ":">>
     THEN {[CivilTime EXCEPT !.year = number(s, 1, 4), !.month = f[6], !.day = f[9],
                             !.hour = f[12], !.minute = f[15], !.second = f[18]]}
     ELSE None

\* The timestamps in digits alone are with the protobuf fields that use them.
parseTime(s, now) ==
  LET before == IF beginsWith(s, <<"-">>) /\ isdigit(at(s, 2)) THEN parseDuration(Tail(s)) ELSE None
      zero == <<"0", "0", "0", "0", "-", "0", "0", "-", "0", "0">>   \* refused by both
  IN CASE s = <<"n", "o", "w">> -> {now}
       [] before # None -> {Instant(now.days - d[1], now.ms - d[2]) : d \in before}
       [] beginsWith(s, zero) -> {Instant(0, 0)}
       [] OTHER -> {UnixTime(civil) : civil \in IF parse(s) # None THEN parse(s) ELSE parseString(s)}

\* isNumber() lets a sign through, and nothing but digits behind it; it takes an empty
\* text and a lone sign for numbers.
isNumber(s) == isDigitString(IF beginsWith(s, <<"-">>) THEN Tail(s) ELSE s)
isNullOrEmpty(s) == s \in {<<>>, <<"n", "u", "l", "l">>}
parseBoolean(s) == CASE s = <<"y", "e", "s">> -> {TRUE} [] s = <<"n", "o">> -> {FALSE} [] OTHER -> None
\* True at the first ASCII character; "0xC3" starts a character of two bytes.
isValidUTF8(s) == s = <<>> \/ s[1] # "0xC3" \/ Len(s) > 1

detectDataType(s) ==
  CASE isNumber(s) -> IF beginsWith(s, <<"-">>) THEN "SIGNED_INTEGER" ELSE "UNSIGNED_INTEGER"
    [] ~isNumber(s) /\ isNullOrEmpty(s) -> "NULL_OR_EMPTY"
    [] ~isNumber(s) /\ parseBoolean(s) # None -> "BOOLEAN"
    [] ~isNumber(s) /\ ~isNullOrEmpty(s) /\ parseTime(s, Instant(0, 0)) # None -> "DATETIME"
    [] OTHER -> IF isValidUTF8(s) THEN "TEXT" ELSE "BINARY"

Nullable == [DATETIME |-> "DATETIME_NULLABLE", BOOLEAN |-> "BOOLEAN_NULLABLE",
             UNSIGNED_INTEGER |-> "UNSIGNED_INTEGER_NULLABLE",
             SIGNED_INTEGER |-> "SIGNED_INTEGER_NULLABLE"]
IntegerTypes == {"UNSIGNED_INTEGER", "SIGNED_INTEGER"}
NullableIntegers == {Nullable[t] : t \in IntegerTypes}

\* The switch for the types detectDataType() returns (never URL, CURRENCY or FLOAT).
mergeTypes(type, prev) ==
  CASE type \in {"TEXT", "BINARY"} -> type
    [] type = "NULL_OR_EMPTY" -> IF prev \in DOMAIN Nullable THEN Nullable[prev] ELSE prev
    [] type \in {"DATETIME", "BOOLEAN"} ->
         IF prev \in {"NULL_OR_EMPTY", Nullable[type]} THEN Nullable[type] ELSE "TEXT"
    [] type = "UNSIGNED_INTEGER" ->
         (CASE prev = "SIGNED_INTEGER" -> "SIGNED_INTEGER"
            [] prev = "SIGNED_INTEGER_NULLABLE" -> "SIGNED_INTEGER_NULLABLE"
            [] prev \in {"NULL_OR_EMPTY", "UNSIGNED_INTEGER_NULLABLE"} -> "UNSIGNED_INTEGER_NULLABLE"
            [] OTHER -> "TEXT")
    [] type = "SIGNED_INTEGER" ->
         (CASE prev = "UNSIGNED_INTEGER" -> "SIGNED_INTEGER"
            [] prev \in {"NULL_OR_EMPTY"} \cup NullableIntegers -> "SIGNED_INTEGER_NULLABLE"
            [] OTHER -> "TEXT")

\* Mutant: a nullable type stops being one when a value follows.
detectDataTypeSeries_forgets(type, prev) ==
  IF prev = "BINARY" THEN prev
  ELSE IF prev \in {type, "UNKNOWN", "NULL_OR_EMPTY"} THEN type ELSE mergeTypes(type, prev)

\* What becomes of a column's type with a value of the type detected for it.
detectDataTypeSeries(type, prev) ==
  IF prev = "BINARY" THEN prev
  ELSE IF prev \in {type, "UNKNOWN"} THEN type ELSE mergeTypes(type, prev)

-----------------------------------------------------------------------------
Init ==
  \/ input \in Starts /\ st = [op |-> "walk", day |-> input.days, date |-> <<input.year, input.month, input.day>>]
  \/ input = <<>> /\ st = [op |-> "series", type |-> "UNKNOWN", n |-> 0]

\* The calendar the walk goes through: the leap years of its time, and its months.
LeapYears == {4 * c : c \in (1972 \div 4)..(2096 \div 4)}
MonthLengths(year) == <<31, IF year \in LeapYears THEN 29 ELSE 28, 31, 30, 31, 30, 31, 31, 30, 31, 30, 31>>

NextDay ==
  /\ st.op = "walk" /\ st.day < input.days + MaxDays
  /\ LET y == st.date[1] m == st.date[2] d == st.date[3]
         next == IF d < MonthLengths(y)[m] THEN <<y, m, d + 1>>
                 ELSE IF m < 12 THEN <<y, m + 1, 1>> ELSE <<y + 1, 1, 1>>
     IN st' = [st EXCEPT !.day = @ + 1, !.date = next]
  /\ UNCHANGED input

NextValue ==
  /\ st.op = "series" /\ st.n < MaxValues
  /\ \E s \in Values : \E type \in {detectDataType(s)} :
       /\ input' = Append(input, s)
       /\ st' = [st EXCEPT !.type = detectDataTypeSeries(type, @), !.n = @ + 1]

Next == NextDay \/ NextValue

Spec == Init /\ [][Next]_vars

-----------------------------------------------------------------------------
\* The ISO text of every day of the walk, at every time of day and in every zone
\* (and as a date and time with a space between) is read as the instant that many days
\* after 1970: leap years, the lengths of the months and the zone that moves the date
\* are all counted.
ReadsTheCalendar ==
  st.op = "walk" =>
    LET day == digits(st.date[1], 4) \o <<"-">> \o digits(st.date[2], 2) \o <<"-">> \o digits(st.date[3], 2)
    IN \A t \in Times \cup {[text |-> <<>>, ms |-> 0]} : \A s \in {day \o t.text} :
         parseTime(s, Instant(0, 0)) = {Instant(st.day, t.ms)}

\* The type found for a column is one that fits what each of its values was taken for, and
\* it is the same whatever order the values came in.  An empty cell is taken for an
\* unsigned integer, so only "null" makes a type nullable.
KindOf(t) == CASE t \in IntegerTypes -> "integer" [] OTHER -> t
SeriesTypeFits ==
  st.op = "series" /\ input # <<>> =>
    \A types \in {{detectDataType(input[i]) : i \in DOMAIN input}} :
    LET kinds == {KindOf(t) : t \in types \ {"NULL_OR_EMPTY"}}
        base == CASE "BINARY" \in types -> "BINARY"
                  [] "BINARY" \notin types /\ (Cardinality(kinds) > 1 \/ "TEXT" \in types) -> "TEXT"
                  [] kinds = {"integer"} -> IF "SIGNED_INTEGER" \in types THEN "SIGNED_INTEGER"
                                            ELSE "UNSIGNED_INTEGER"
                  [] kinds = {} -> "NULL_OR_EMPTY"
                  [] OTHER -> CHOOSE t \in types \ {"NULL_OR_EMPTY"} : TRUE
    IN st.type = IF "NULL_OR_EMPTY" \in types /\ base \in DOMAIN Nullable THEN Nullable[base] ELSE base
=============================================================================
