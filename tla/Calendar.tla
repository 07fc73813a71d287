------------------------------ MODULE Calendar ------------------------------
(***************************************************************************)
(* The class mariadb::date_time (date_time.cpp), and a caller that keeps   *)
(* one date_time and one mariadb::time and calls their operations in any   *)
(* order.                                                                  *)
(***************************************************************************)
EXTENDS TimeOfDay

CONSTANTS
    Starts,     \* what the caller constructs and assigns date_times from
    Amounts,    \* what it may add of each unit
    Fields,     \* what it may set each field of the date to
    MaxCalls    \* bound: the operations it calls

DateTimes == [year : UpTo(65535), month : UpTo(12), day : UpTo(31),
              hour : UpTo(23), minute : UpTo(59), second : UpTo(61),
              millisecond : UpTo(999)]

(* What fits in the fields: neither the constructor nor set(...) checks it. *)
AnyFields == [year : UpTo(65535), month : UpTo(255), day : UpTo(255),
              hour : UpTo(255), minute : UpTo(255), second : UpTo(255),
              millisecond : UpTo(65535)]

MonthLengths == <<31, 28, 31, 30, 31, 30, 31, 31, 30, 31, 30, 31>>

IsLeapYear(y) == y % 400 = 0 \/ (y % 4 = 0 /\ y % 100 # 0)

DaysInYear(y) == IF IsLeapYear(y) THEN 366 ELSE 365

DaysInMonth(y, m) == MonthLengths[m] + (IF m = 2 /\ IsLeapYear(y) THEN 1 ELSE 0)

ValidDate(y, m, d) == /\ y # 0 /\ m # 0 /\ d # 0 /\ m <= 12
                      /\ d <= DaysInMonth(y, m)

(* s32, less what the fields of a date or a time can add to an amount.     *)
MaxAmount == 2147483000

Units == {"years", "months", "days", "hours", "minutes", "seconds", "milliseconds"}

CalendarAssumption ==
    /\ Starts \subseteq AnyFields
    /\ \A unit \in Units : Amounts[unit] \subseteq -MaxAmount..MaxAmount
    /\ \A field \in {"year", "month", "day", "dayOfYear"} : Fields[field] \subseteq Nat
    /\ MaxCalls \in Nat

ASSUME CalendarAssumption

-----------------------------------------------------------------------------
(* The day of the year, and back. The loop starts at month 1, and past the *)
(* month 13 it reads beyond the table.                                     *)

DaysBefore(y) ==
    LET sum[m \in -1..12] == IF m <= 0 THEN 0 ELSE sum[m-1] + DaysInMonth(y, m)
    IN  sum

InTable(d) == d.month <= 13

DayOfYear(d) == DaysBefore(d.year)[d.month - 1] + d.day

ReverseMonth(y, n) ==
    CHOOSE m \in 1..12 : /\ n <= DaysBefore(y)[m] \/ m = 12
                         /\ \A k \in 1..(m-1) : n > DaysBefore(y)[k]

ReverseDayOfYear(y, n) ==
    LET m == ReverseMonth(y, n)
    IN  [month |-> m, day |-> U8(n - DaysBefore(y)[m-1])]

-----------------------------------------------------------------------------
(* The checked setters. A year or a month in which the day does not exist  *)
(* resets the smaller fields.                                              *)

InYear(d, y) ==
    LET moved   == [d EXCEPT !.year = y]
        january == [moved EXCEPT !.month = 1]
    IN  IF ValidDate(y, d.month, d.day) THEN moved ELSE [january EXCEPT !.day = 1]

SetYear(d, n) == {InYear(d, y) : y \in {U16(n)} \cap FromOne(65535)}

InMonthSameDay(d, m) == [d EXCEPT !.month = m]  \* mutant: it may be too short

InMonth(d, m) ==
    LET moved == [d EXCEPT !.month = m]
    IN  IF d.day > DaysInMonth(d.year, m) THEN [moved EXCEPT !.day = 1] ELSE moved

SetMonth(d, n) == {InMonth(d, m) : m \in {U8(n)} \cap FromOne(12)}

SetDayWithin(d, n, length) == {[d EXCEPT !.day = v] : v \in {U8(n)} \cap FromOne(length)}

SetDay(d, n) == SetDayWithin(d, n, DaysInMonth(d.year, d.month))

(* Of a month that does not exist a byte outside the table is the length:  *)
(* it refuses every day or none.                                           *)
LengthsRead(d) ==
    IF d.month \in DOMAIN MonthLengths THEN {DaysInMonth(d.year, d.month)} ELSE {0, 255}

SetDayOfYear(d, n) ==
    LET r == ReverseDayOfYear(d.year, n)
    IN  UNION {SetDay(x, r.day) : x \in SetMonth(d, r.month)}

-----------------------------------------------------------------------------
(* Addition. The field left after a carry is sum % base; after a borrow it *)
(* is base - sum, where sum is negative.                                   *)

Left(sum, base) == IF sum >= base THEN sum % base
                   ELSE IF sum < 0 THEN base - sum ELSE sum

DateAddYears(d, n) == IF n = 0 THEN {d} ELSE SetYear(d, d.year + n)

DateAddMonths(d, n) ==
    IF n = 0 THEN {d}
    ELSE LET sum == Rem(n, 12) + d.month
         IN  UNION {SetMonth(x, Left(sum, 12)) :
                      x \in DateAddYears(d, Quot(n, 12) + Carry(sum, 12))}

(* Mutant: the last day of a year is taken for one of the next year.       *)
RollYearsEarly(year, day, dir) ==
    LET roll[r \in UpTo(65535) \X Int] ==
            IF r[2] >= DaysInYear(r[1]) \/ r[2] < 0
            THEN roll[<<U16(r[1] + dir), r[2] - DaysInYear(r[1]) * dir>>]
            ELSE r
    IN  roll[<<year, day>>]

(* The loop of add_days(): years are crossed one by one, each time by the  *)
(* length of the year that is left behind.                                 *)
RollYears(year, day, dir) ==
    LET roll[r \in UpTo(65535) \X Int] ==
            IF r[2] > DaysInYear(r[1]) \/ r[2] < 0
            THEN roll[<<U16(r[1] + dir), r[2] - DaysInYear(r[1]) * dir>>]
            ELSE r
    IN  roll[<<year, day>>]

(* The assignment of a date alone, by set(year, month, day).               *)
WithDate(d, f) == [d EXCEPT !.year = f.year, !.month = f.month, !.day = f.day]

(* Of a day that does not exist, the number in the year can be a sum of    *)
(* bytes outside the table, or lie beyond the year, so that going back the *)
(* loop runs on until the s32 overflows: any date can come of it.          *)
Uncountable(d, n) ==
    /\ ~ValidDate(d.year, d.month, d.day)
    /\ ~InTable(d) \/ (n < 0 /\ DayOfYear(d) + n > DaysInYear(d.year))

DateAddDays(d, n) ==
    IF n = 0 THEN {d}
    ELSE IF Uncountable(d, n) THEN {WithDate(d, f) : f \in Starts}
    ELSE LET r == RollYears(d.year, DayOfYear(d) + n, IF n > 0 THEN 1 ELSE -1)
         IN  UNION {SetDayOfYear(x, r[2]) : x \in SetYear(d, r[1])}

DateAddHours(d, n) ==
    IF n = 0 THEN {d}
    ELSE LET sum == Rem(n, 24) + d.hour
         IN  UNION {SetHour(x, Left(sum, 24)) :
                      x \in DateAddDays(d, Quot(n, 24) + Carry(sum, 24))}

(* From the minutes down only a positive carry reaches the larger field.   *)
Forward(carried) == IF carried > 0 THEN carried ELSE 0

DateAddMinutes(d, n) ==
    IF n = 0 THEN {d}
    ELSE LET sum == Rem(n, 60) + d.minute
         IN  UNION {SetMinute(x, Left(sum, 60)) :
                x \in DateAddHours(d, Forward(Quot(n, 60) + Carry(sum, 60)))}

DateAddSeconds(d, n) ==
    IF n = 0 THEN {d}
    ELSE LET sum == Rem(n, 60) + d.second
         IN  UNION {SetSecond(x, Left(sum, 60)) :
                x \in DateAddMinutes(d, Forward(Quot(n, 60) + Carry(sum, 60)))}

DateAddMilliseconds(d, n) ==
    IF n = 0 THEN {d}
    ELSE LET sum == Rem(n, 1000) + d.millisecond
         IN  UNION {SetMillisecond(x, Left(sum, 1000)) :
                x \in DateAddSeconds(d, Forward(Quot(n, 1000) + Carry(sum, 1000)))}

(* The parts of a duration, added from the largest to the smallest.        *)
AddParts(d, days, hours, minutes, seconds, milliseconds) ==
    LET a == DateAddDays(d, days)
        b == UNION {DateAddHours(x, hours) : x \in a}
        c == UNION {DateAddMinutes(x, minutes) : x \in b}
        e == UNION {DateAddSeconds(x, seconds) : x \in c}
    IN  UNION {DateAddMilliseconds(x, milliseconds) : x \in e}

DateAdd(d, span) ==
    LET s == SignOf(span)
    IN  AddParts(d, s * span.days, s * span.hours, s * span.minutes,
                 s * span.seconds, s * span.milliseconds)

DateSubtract(d, span) == DateAdd(d, Negated(span))

DateAddTime(d, t) == AddParts(d, 0, t.hour, t.minute, t.second, t.millisecond)

DateSubtractTime(d, t) ==
    AddParts(d, 0, -t.hour, -t.minute, -t.second, -t.millisecond)

-----------------------------------------------------------------------------
(* Order, difference, text.                                                *)

DateFields(d) == <<d.year, d.month, d.day>> \o TimeFields(d)

DateCompare(d, e) == CompareFields(DateFields(d), DateFields(e))

(* The days of the years from..to-1, counted by a loop over them.          *)
DaysOfYears(from, to) ==
    LET sum[y \in from..to] == IF y = from THEN 0 ELSE sum[y-1] + DaysInYear(y-1)
    IN  sum[to]

(* The days from the date where the count stops, e's, to the later d's.    *)
(* The stop is in the year after d's only with a leap second, or when the  *)
(* day does not exist.                                                     *)
DaysFrom(e, d) ==
    IF e.year <= d.year
    THEN DayOfYear(d) - DayOfYear(e) + DaysOfYears(e.year, d.year)
    ELSE DaysInYear(d.year) - DayOfYear(e)

(* Beyond the table of months the count is any number.                     *)
CountOfDays(e, d) ==
    IF InTable(e) /\ InTable(d) THEN {DaysFrom(e, d)} ELSE Amounts["days"]

(* Mutant: the count does not stop a day later.                            *)
ElapsedADayMore(e, d, neg) == Span(neg, DaysFrom(e, d), ElapsedMs(e, d))

(* When the time of day of the earlier one is later, the count stops a day *)
(* after it.                                                               *)
Elapsed(e, d, neg) ==
    LET stops == IF MsOf(e) > MsOf(d) THEN DateAddDays(e, 1) ELSE {e}
        counts == UNION {CountOfDays(stop, d) : stop \in stops}
    IN  UNION {Span(neg, days, ElapsedMs(e, d)) : days \in counts}

TimeBetween(d, e) ==
    IF DateCompare(d, e) = 0 THEN Span(FALSE, 0, 0)
    ELSE IF DateCompare(d, e) > 0 THEN Elapsed(e, d, FALSE) ELSE Elapsed(d, e, TRUE)

(* yyyy-mm-dd[ hh:mm:ss[.nnn]]; what is left out of the date is zero.      *)
DateParse(f) ==
    LET field(i) == IF i <= Len(f) THEN f[i] ELSE 0
        rest == IF Len(f) > 3 THEN SubSeq(f, 4, Len(f)) ELSE <<0>>
    IN  {[year |-> field(1), month |-> field(2), day |-> field(3),
          hour |-> t.hour, minute |-> t.minute, second |-> t.second,
          millisecond |-> t.millisecond] :
            t \in {v \in TimeParse(rest) : field(2) < 13 /\ field(3) < 32}}

DateText(d, with_millisecond) ==
    <<d.year, d.month, d.day>> \o TimeText(d, with_millisecond)

DateMysqlTime(d) ==
    [MysqlTime(d) EXCEPT !.year = d.year, !.month = d.month, !.day = d.day]

DateColumnText(m, decimals) ==
    <<m.year, m.month, m.day>> \o TimeColumnText(m, decimals)

(* Mutant: the microseconds are taken for milliseconds.                    *)
DateOfMysqlMicro(m) ==
    [year |-> U16(m.year), month |-> U8(m.month), day |-> U8(m.day), hour |-> U8(m.hour),
     minute |-> U8(m.minute), second |-> U8(m.second), millisecond |-> U16(m.second_part)]

DateOfMysql(m) ==
    LET t == TimeOfMysql(m)
    IN  [year |-> U16(m.year), month |-> U8(m.month), day |-> U8(m.day), hour |-> t.hour,
         minute |-> t.minute, second |-> t.second, millisecond |-> t.millisecond]

-----------------------------------------------------------------------------
(* The caller.                                                             *)

VARIABLES
    date,   \* a date_time, the result of the last operation on it
    clock,  \* a time, likewise
    origin, \* the date_time the caller began with
    last,   \* the last operation, its amount, and which object's call threw
    calls

vars == <<date, clock, origin, last, calls>>

TimeOf(d) == [hour |-> d.hour, minute |-> d.minute, second |-> d.second,
              millisecond |-> d.millisecond]

Init ==
    /\ origin \in Starts
    /\ date = origin
    /\ clock = TimeOf(origin)
    /\ last = [op |-> "construct", n |-> 0, dateThrew |-> FALSE, clockThrew |-> FALSE]
    /\ calls = 0

(* The caller keeps what is returned, and the old value when the call throws. *)
Call(op, n, dates, clocks) ==
    /\ calls < MaxCalls
    /\ calls' = calls + 1
    /\ date' \in (IF dates = {} THEN {date} ELSE dates)
    /\ clock' \in (IF clocks = {} THEN {clock} ELSE clocks)
    /\ last' = [op |-> op, n |-> n, dateThrew |-> dates = {}, clockThrew |-> clocks = {}]
    /\ UNCHANGED origin

AddYears(n)  == Call("years", n, DateAddYears(date, n), {clock})
AddMonths(n) == Call("months", n, DateAddMonths(date, n), {clock})
AddDays(n)   == Call("days", n, DateAddDays(date, n), {clock})
AddHours(n)  == Call("hours", n, DateAddHours(date, n), TimeAddHours(clock, n))
AddMinutes(n) ==
    Call("minutes", n, DateAddMinutes(date, n), TimeAddMinutes(clock, n))
AddSeconds(n) ==
    Call("seconds", n, DateAddSeconds(date, n), TimeAddSeconds(clock, n))
AddMilliseconds(n) ==
    Call("milliseconds", n, DateAddMilliseconds(date, n), TimeAddMilliseconds(clock, n))

(* The time that passed since the beginning is added or subtracted.        *)
AddSpan ==
    LET spans == TimeBetween(date, origin)
    IN  Call("add", 0, UNION {DateAdd(date, span) : span \in spans},
             UNION {TimeAdd(clock, span) : span \in spans})
SubtractSpan ==
    LET spans == TimeBetween(date, origin)
    IN  Call("subtract", 0, UNION {DateSubtract(date, span) : span \in spans},
             UNION {TimeSubtract(clock, span) : span \in spans})
AddClock      == Call("addTime", 0, DateAddTime(date, clock), {clock})
SubtractClock == Call("subtractTime", 0, DateSubtractTime(date, clock), {clock})

ChangeYear(n)  == Call("set", n, SetYear(date, n), {clock})
ChangeMonth(n) == Call("set", n, SetMonth(date, n), {clock})
ChangeDay(n) ==
    \E length \in LengthsRead(date) :
        Call("set", n, SetDayWithin(date, n, length), {clock})

(* set(...): the fields are taken as they are.                             *)
Assign(f)     == Call("assign", 0, {f}, {TimeOf(f)})
AssignDate(f) == Call("assign", 0, {WithDate(date, f)}, {clock})

(* Called on the caller's own object: when the day is refused, the month   *)
(* has been changed already.                                               *)
ChangeDayOfYear(n) ==
    LET whole == SetDayOfYear(date, n)
    IN  Call("set", n,
             IF whole # {} THEN whole
             ELSE SetMonth(date, ReverseDayOfYear(date.year, n).month), {clock})

Next ==
    \/ \E n \in Amounts["years"] : AddYears(n)
    \/ \E n \in Amounts["months"] : AddMonths(n)
    \/ \E n \in Amounts["days"] : AddDays(n)
    \/ \E n \in Amounts["hours"] : AddHours(n)
    \/ \E n \in Amounts["minutes"] : AddMinutes(n)
    \/ \E n \in Amounts["seconds"] : AddSeconds(n)
    \/ \E n \in Amounts["milliseconds"] : AddMilliseconds(n)
    \/ \E n \in Fields["year"] : ChangeYear(n)
    \/ \E n \in Fields["month"] : ChangeMonth(n)
    \/ \E n \in Fields["day"] : ChangeDay(n)
    \/ \E n \in Fields["dayOfYear"] : ChangeDayOfYear(n)
    \/ AddSpan \/ SubtractSpan \/ AddClock \/ SubtractClock
    \/ \E f \in Starts : Assign(f)
    \/ \E f \in Starts : AssignDate(f)

Spec == Init /\ [][Next]_vars

-----------------------------------------------------------------------------
(* A reference calendar: the day number by the closed formula for the      *)
(* leap days, and an instant as a day number and milliseconds.             *)

CumulatedDays == <<0, 31, 59, 90, 120, 151, 181, 212, 243, 273, 304, 334>>

DayNumber(d) ==
    LET y == d.year - 1
        leap == d.year % 4 = 0 /\ (d.year % 100 # 0 \/ d.year % 400 = 0)
    IN  365 * y + y \div 4 - y \div 100 + y \div 400
        + CumulatedDays[d.month] + (IF leap /\ d.month > 2 THEN 1 ELSE 0) + d.day

Instant(d) == <<DayNumber(d) + MsOf(d) \div MsPerDay, MsOf(d) % MsPerDay>>

Later(i, days, ms) ==
    <<i[1] + days + (i[2] + ms) \div MsPerDay, (i[2] + ms) % MsPerDay>>

MsPer == [hours |-> MsPerHour, minutes |-> MsPerMin, seconds |-> 1000,
          milliseconds |-> 1]

NoLeapSecond(t) == t.second < 60

-----------------------------------------------------------------------------
Valid(d) == d \in DateTimes /\ ValidDate(d.year, d.month, d.day)

CallsKeepValid ==
    last'.op # "assign" => /\ Valid(date) => Valid(date')
                           /\ clock \in Times => clock' \in Times

(* Whatever is added to it or subtracted from it, or set in it by the      *)
(* setter of one field, and whether or not the call throws: a date of the  *)
(* calendar stays one, and a time of day a time of day. Only set(...) and  *)
(* the constructors, which check nothing, make anything else.              *)
FieldsValid == [][CallsKeepValid]_vars

(* Days and hours back that stay in the year and need no borrow.           *)
WithinYear(op, n) ==
    \/ op = "days" /\ DayOfYear(date) + n > 0
    \/ /\ op = "hours" /\ date.hour + Rem(n, 24) >= 0
       /\ DayOfYear(date) + Quot(n, 24) > 0

LaterIsExact ==
    last'.op \in DOMAIN MsPer \cup {"days"} /\ Valid(date) /\ NoLeapSecond(date) =>
      LET target == IF last'.op = "days" THEN Later(Instant(date), last'.n, 0)
                    ELSE Later(Instant(date), 0, last'.n * MsPer[last'.op])
      IN  /\ last'.n >= 0 \/ WithinYear(last'.op, last'.n)
          /\ target[1] <= DayNumber([year |-> 65535, month |-> 12, day |-> 31])
          => ~last'.dateThrew /\ Instant(date') = target

YearsAreExact ==
    LET year == date.year + last'.n
    IN  last'.op = "years" /\ Valid(date) /\ 0 < year /\ year <= 65535
        => /\ ~last'.dateThrew
           /\ date' = IF ValidDate(year, date.month, date.day)
                      THEN [date EXCEPT !.year = year]
                      ELSE [date EXCEPT !.year = year, !.month = 1, !.day = 1]

DayIsKept ==
    /\ ValidDate(date'.year, date.month, date.day)
    /\ date.day <= DaysInMonth(date'.year, date'.month)

MonthsAreExact ==
    LET month == 12 * date.year + date.month + last'.n
    IN  last'.op = "months" /\ Valid(date) /\ 12 < month /\ month <= 12 * 65536
        => /\ last'.dateThrew => last'.n < 0 \/ month % 12 = 0
           /\ ~last'.dateThrew =>
                /\ 12 * date'.year + date'.month = month
                /\ date'.day = IF DayIsKept THEN date.day ELSE 1
                /\ TimeOf(date') = TimeOf(date)

(* Of a date of the calendar, up to the year 65535 where the u16 wraps:    *)
(* adding days, hours, minutes, seconds or milliseconds that are not       *)
(* negative never throws and yields the instant that much later, over the  *)
(* ends of months, leap years and centuries. Going back does so by days,   *)
(* and by hours that borrow no day, within the year.                       *)
(* add_years() moves to the same day of that year, or to its 1 January     *)
(* when the day does not exist. add_months() throws only when it goes back *)
(* or is to reach a December; otherwise it moves by that many months,      *)
(* keeps the time of day, and keeps the day unless the month reached is    *)
(* too short for it, or the day is a 29 February and the year reached has  *)
(* none: then the day is the first, also of a month that is long enough.   *)
AdditionIsExact == [][LaterIsExact /\ YearsAreExact /\ MonthsAreExact]_vars

(* A time of day moves by the amount modulo a day, forwards and backwards, *)
(* as the tests of time expect; only more than a day backwards may throw.  *)
ClockMoves ==
    last'.op \in DOMAIN MsPer /\ clock \in Times /\ NoLeapSecond(clock) =>
      LET amount == last'.n * MsPer[last'.op]
      IN  IF last'.clockThrew THEN amount < -MsPerDay
          ELSE (MsOf(clock') - MsOf(clock) - amount) % MsPerDay = 0

ClockIsExact == [][ClockMoves]_vars

Measures(span, a, b) ==
    LET ms == 1000 * TotalSeconds([span EXCEPT !.days = 0]) + span.milliseconds
    IN  IF span.negative THEN Later(b, span.days, ms) = a ELSE Later(a, span.days, ms) = b

(* Of dates of the calendar without a leap second, the difference counts   *)
(* the milliseconds by the reference calendar, and its sign tells which    *)
(* instant is the later; on one day it is the difference of the two times  *)
(* of day; added to the earlier date it gives the later (readdTest of      *)
(* TimeTest.cpp). Of two differences that are not both negative, compare() *)
(* tells the longer.                                                       *)
DifferenceCounts ==
    Valid(date) /\ NoLeapSecond(date) /\ Valid(origin) /\ NoLeapSecond(origin) =>
        \E span \in TimeBetween(date, origin) :
            /\ Measures(span, Instant(origin), Instant(date))
            /\ DayNumber(date) = DayNumber(origin) =>
                  TimeTimeBetween(TimeOf(date), TimeOf(origin)) = {span}
            /\ DateCompare(date, origin) >= 0 => DateAdd(origin, span) = {date}
            /\ \A e \in Starts : Valid(e) /\ NoLeapSecond(e) =>
                  \E other \in TimeBetween(date, e) :
                     ~span.negative \/ ~other.negative =>
                        (SpanCompare(span, other) < 0 <=> DateCompare(origin, e) > 0)

Kept(t, decimals) == IF decimals = 0 THEN [t EXCEPT !.millisecond = 0] ELSE t

(* What str() writes of a date of the calendar, the constructor from a     *)
(* string reads back. A date and a time of day that are sent as parameters *)
(* to a column that holds them (no leap second, no year after 9999) come   *)
(* back as they were, to the column's decimals: through a statement, and,  *)
(* from a column of three decimals or none, also as the text of a plain    *)
(* query. Of the text of six decimals nothing is said.                     *)
RoundTrips ==
    /\ Valid(date) => DateParse(DateText(date, TRUE)) = {date}
    /\ \A decimals \in {0, 3, 6} :
         /\ Valid(date) =>
              \A sent \in Stored(DateMysqlTime(date), decimals) :
                 /\ DateOfMysql(sent) = Kept(date, decimals)
                 /\ decimals < 6 => DateParse(DateColumnText(sent, decimals))
                                      = {Kept(date, decimals)}
         /\ clock \in Times =>
              \A sent \in Stored(MysqlTime(clock), decimals) :
                 /\ TimeOfMysql(sent) = Kept(clock, decimals)
                 /\ decimals < 6 => TimeParse(TimeColumnText(sent, decimals))
                                      = {Kept(clock, decimals)}
=============================================================================
