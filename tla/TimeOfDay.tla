----------------------------- MODULE TimeOfDay -----------------------------
(***************************************************************************)
(* The classes mariadb::time (time.cpp) and mariadb::time_span             *)
(* (time_span.cpp) as operators.                                           *)
(*                                                                         *)
(* A call that may throw is the set of the values it can return: {} when   *)
(* it throws and {v} otherwise, so that nested calls compose with UNION    *)
(* and an exception passes through them.                                   *)
(***************************************************************************)
EXTENDS Integers, Sequences

UpTo(max)    == {n \in Nat : n <= max}
FromOne(max) == UpTo(max) \ {0}

Times == [hour : UpTo(23), minute : UpTo(59), second : UpTo(61),
          millisecond : UpTo(999)]

(* What / and % do in C++: the quotient is rounded toward zero.            *)
Quot(a, b) == IF a >= 0 THEN a \div b ELSE -((-a) \div b)
Rem(a, b)  == a - b * Quot(a, b)

(* An int passed as u8 or u16 keeps its low bits.                          *)
U8(n)  == n % 256
U16(n) == n % 65536

MsPerMin  == 60000
MsPerHour == 3600000
MsPerDay  == 86400000

MsOf(t) == t.hour * MsPerHour + t.minute * MsPerMin + t.second * 1000 + t.millisecond

-----------------------------------------------------------------------------
(* The checked setters, inherited by date_time.                            *)

SetHour(t, n)   == {[t EXCEPT !.hour = v] : v \in {U8(n)} \cap UpTo(23)}
SetMinute(t, n) == {[t EXCEPT !.minute = v] : v \in {U8(n)} \cap UpTo(59)}
SetSecond(t, n) == {[t EXCEPT !.second = v] : v \in {U8(n)} \cap UpTo(61)}
SetMillisecond(t, n) == {[t EXCEPT !.millisecond = v] : v \in {U16(n)} \cap UpTo(999)}

(* compare() looks at the fields from the largest to the smallest.         *)
CompareFields(a, b) ==
    LET differ == {i \in DOMAIN a : a[i] # b[i]}
    IN  IF differ = {} THEN 0
        ELSE LET i == CHOOSE i \in differ : \A j \in differ : i <= j
             IN  IF a[i] < b[i] THEN -1 ELSE 1

TimeFields(t) == <<t.hour, t.minute, t.second, t.millisecond>>

-----------------------------------------------------------------------------
(* Addition with a carry into, or a borrow from, the next larger field.    *)

(* Mutant: nothing is borrowed.                                            *)
CarryUp(sum, base) == IF sum >= base THEN 1 ELSE 0

Carry(sum, base) == IF sum >= base THEN 1 ELSE IF sum < 0 THEN -1 ELSE 0

TimeAddHours(t, n) ==
    IF n = 0 THEN {t} ELSE SetHour(t, Rem(n + t.hour + 24, 24))

TimeAddMinutes(t, n) ==
    IF n = 0 THEN {t}
    ELSE LET sum == Rem(n, 60) + t.minute
         IN  UNION {SetMinute(x, Rem(sum + 60, 60)) :
                      x \in TimeAddHours(t, Quot(n, 60) + Carry(sum, 60))}

TimeAddSeconds(t, n) ==
    IF n = 0 THEN {t}
    ELSE LET sum == Rem(n, 60) + t.second
         IN  UNION {SetSecond(x, Rem(sum + 60, 60)) :
                      x \in TimeAddMinutes(t, Quot(n, 60) + Carry(sum, 60))}

TimeAddMilliseconds(t, n) ==
    IF n = 0 THEN {t}
    ELSE LET sum == Rem(n, 1000) + t.millisecond
         IN  UNION {SetMillisecond(x, Rem(sum + 1000, 1000)) :
                      x \in TimeAddSeconds(t, Quot(n, 1000) + Carry(sum, 1000))}

-----------------------------------------------------------------------------
(* time_span: a sign and a broken-down magnitude.                          *)

(* What is not less than a day, or negative once its parts are cast to     *)
(* unsigned (both by leap seconds only), the setters of the parts refuse.  *)
(* The days are the s32 that date_time::add() makes of the u32.            *)
Span(neg, days, ms) ==
    {[negative |-> neg, days |-> days,
      hours |-> v \div MsPerHour,
      minutes |-> (v % MsPerHour) \div MsPerMin,
      seconds |-> (v % MsPerMin) \div 1000,
      milliseconds |-> v % 1000] : v \in {ms} \cap UpTo(MsPerDay - 1)}

SignOf(span) == IF span.negative THEN -1 ELSE 1

Negated(span) == [span EXCEPT !.negative = ~span.negative]

Magnitude(span) ==
    <<span.days, span.hours, span.minutes, span.seconds, span.milliseconds>>

SpanZero(span) == \A i \in 1..5 : Magnitude(span)[i] = 0

(* The magnitudes are compared whatever the sign.                          *)
SpanCompare(a, b) ==
    IF a.negative # b.negative THEN (IF a.negative THEN -1 ELSE 1)
    ELSE IF SpanZero(a) /\ SpanZero(b) THEN 0
    ELSE CompareFields(Magnitude(a), Magnitude(b))

TotalHours(span)   == span.days * 24 + span.hours
TotalMinutes(span) == TotalHours(span) * 60 + span.minutes
TotalSeconds(span) == TotalMinutes(span) * 60 + span.seconds

(* time::add() computes the four sums and drops each of them.              *)
TimeAdd(t, span) ==
    LET s == SignOf(span)
    IN  {x \in {t} : /\ TimeAddHours(t, s * span.hours) # {}
                     /\ TimeAddMinutes(t, s * span.minutes) # {}
                     /\ TimeAddSeconds(t, s * span.seconds) # {}
                     /\ TimeAddMilliseconds(t, s * span.milliseconds) # {}}

TimeSubtract(t, span) == TimeAdd(t, Negated(span))

(* From u's to t's milliseconds, round the clock when t's are less.        *)
ElapsedMs(u, t) == MsOf(t) - MsOf(u) + (IF MsOf(u) > MsOf(t) THEN MsPerDay ELSE 0)

TimeTimeBetween(t, u) ==
    IF CompareFields(TimeFields(t), TimeFields(u)) >= 0 THEN Span(FALSE, 0, ElapsedMs(u, t))
    ELSE Span(TRUE, 0, ElapsedMs(t, u))

-----------------------------------------------------------------------------
(* Text, as the numbers between its delimiters: hh[:mm[:ss[.nnn]]].        *)
(* A field that is left out is zero; the milliseconds are not checked.     *)

TimeParse(f) ==
    LET field(i) == IF i <= Len(f) THEN f[i] ELSE 0
    IN  {[hour |-> h, minute |-> field(2), second |-> field(3),
          millisecond |-> field(4)] :
            h \in {v \in {field(1)} : /\ v < 24 /\ field(2) < 60
                                      /\ field(3) < 62 /\ Len(f) > 0
                                      /\ field(4) < 65536}}

TimeText(t, with_millisecond) ==
    IF with_millisecond THEN TimeFields(t) ELSE SubSeq(TimeFields(t), 1, 3)

-----------------------------------------------------------------------------
(* To and from the server: MYSQL_TIME, with microseconds.                  *)

MysqlTime(t) ==
    [year |-> 0, month |-> 0, day |-> 0, hour |-> t.hour, minute |-> t.minute,
     second |-> t.second, second_part |-> t.millisecond * 1000]

TimeOfMysql(m) ==
    [hour |-> U8(m.hour), minute |-> U8(m.minute), second |-> U8(m.second),
     millisecond |-> U16(m.second_part \div 1000)]

(* A column that keeps 0, 3 or 6 decimals of a second, and its text.       *)
Unit(decimals) == CASE decimals = 0 -> 1000000 [] decimals = 3 -> 1000 [] decimals = 6 -> 1

Rounded(m, decimals) ==
    [m EXCEPT !.second_part = Unit(decimals) * (@ \div Unit(decimals))]

(* Neither a leap second nor a year of five digits is stored as sent.      *)
Stored(m, decimals) ==
    {Rounded(v, decimals) : v \in {x \in {m} : x.second < 60 /\ x.year <= 9999}}

TimeColumnText(m, decimals) ==
    <<m.hour, m.minute, m.second>>
    \o (IF decimals = 0 THEN <<>> ELSE <<m.second_part \div Unit(decimals)>>)
=============================================================================
