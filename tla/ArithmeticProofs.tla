-------------------------- MODULE ArithmeticProofs --------------------------
(***************************************************************************)
(* Addition is exact and differences count, for every start, every amount  *)
(* and every number of calls of the caller of module Calendar.             *)
(*                                                                         *)
(* The loops over months and years are summed by the closed formula of the *)
(* reference calendar, the loop of add_days() is followed to its end, and  *)
(* a date_time without a leap second is one number of milliseconds, which  *)
(* every addition moves, which compare() compares, and which time_between()*)
(* subtracts.                                                              *)
(***************************************************************************)
EXTENDS CalendarProofs, WellFoundedInduction

-----------------------------------------------------------------------------
(* The reference calendar: the first day of a year.                        *)
YearStart(y) ==
    365 * (y - 1) + (y - 1) \div 4 - (y - 1) \div 100 + (y - 1) \div 400

LEMMA LeapDays ==
    ASSUME NEW y \in Nat \ {0}
    PROVE  /\ y \div 4 = (y - 1) \div 4 + (IF y % 4 = 0 THEN 1 ELSE 0)
           /\ y \div 100 = (y - 1) \div 100 + (IF y % 100 = 0 THEN 1 ELSE 0)
           /\ y \div 400 = (y - 1) \div 400 + (IF y % 400 = 0 THEN 1 ELSE 0)
           /\ y % 400 = 0 => y % 100 = 0
           /\ y % 100 = 0 => y % 4 = 0
<1>1. y \div 4 = (y - 1) \div 4 + (IF y % 4 = 0 THEN 1 ELSE 0)
  OBVIOUS
<1>2. y \div 100 = (y - 1) \div 100 + (IF y % 100 = 0 THEN 1 ELSE 0)
  OBVIOUS
<1>3. y \div 400 = (y - 1) \div 400 + (IF y % 400 = 0 THEN 1 ELSE 0)
  OBVIOUS
<1>4. y % 400 = 0 => y % 100 = 0
  OBVIOUS
<1>5. y % 100 = 0 => y % 4 = 0
  OBVIOUS
<1> QED BY <1>1, <1>2, <1>3, <1>4, <1>5

LEMMA YearStartTypes ==
    ASSUME NEW y \in Nat \ {0}
    PROVE  /\ YearStart(y) \in Int /\ DaysInYear(y) \in Nat
           /\ DaysInYear(y) = 365 \/ DaysInYear(y) = 366
BY DEF YearStart, DaysInYear

(* The closed formula grows by the length of each year.                    *)
LEMMA YearLength ==
    ASSUME NEW y \in Nat \ {0}
    PROVE  YearStart(y + 1) = YearStart(y) + DaysInYear(y)
<1>1. (y + 1) - 1 = y
  OBVIOUS
<1>2. PICK a, b, c \in Int : /\ a = (y - 1) \div 4
                             /\ b = (y - 1) \div 100
                             /\ c = (y - 1) \div 400
  OBVIOUS
<1>3. YearStart(y) = 365 * (y - 1) + a - b + c
  BY <1>2 DEF YearStart
<1>4. YearStart(y + 1) = 365 * y + y \div 4 - y \div 100 + y \div 400
  BY <1>1 DEF YearStart
<1> QED BY <1>2, <1>3, <1>4, LeapDays DEF DaysInYear, IsLeapYear

LEMMA YearsInOrder ==
    ASSUME NEW y \in Nat \ {0}, NEW z \in Nat \ {0}, y < z
    PROVE  YearStart(y) + DaysInYear(y) <= YearStart(z)
<1>1. y + 1 <= z /\ y + 1 \in Nat \ {0}
  OBVIOUS
<1>2. ASSUME NEW v \in Nat \ {0}, NEW w \in Nat \ {0}, v <= w
      PROVE  YearStart(v) <= YearStart(w)
  <2>1. PICK a, b, c \in Int : /\ a = (v - 1) \div 4
                               /\ b = (v - 1) \div 100
                               /\ c = (v - 1) \div 400
    OBVIOUS
  <2>2. PICK d, e, f \in Int : /\ d = (w - 1) \div 4
                               /\ e = (w - 1) \div 100
                               /\ f = (w - 1) \div 400
    OBVIOUS
  <2>3. /\ 4 * a <= v - 1 /\ v - 1 < 4 * a + 4
        /\ 100 * b <= v - 1 /\ v - 1 < 100 * b + 100
        /\ 400 * c <= v - 1 /\ v - 1 < 400 * c + 400
    BY <2>1
  <2>4. /\ 4 * d <= w - 1 /\ w - 1 < 4 * d + 4
        /\ 100 * e <= w - 1 /\ w - 1 < 100 * e + 100
        /\ 400 * f <= w - 1 /\ w - 1 < 400 * f + 400
    BY <2>2
  <2>5. YearStart(v) = 365 * (v - 1) + a - b + c /\ YearStart(w) = 365 * (w - 1) + d - e + f
    BY <2>1, <2>2 DEF YearStart
  <2>6. CASE v = w
    BY <2>6, YearStartTypes
  <2>7. CASE v < w
    BY <1>2, <2>3, <2>4, <2>5, <2>7
  <2> QED BY <1>2, <2>6, <2>7
<1> QED BY <1>1, <1>2, YearLength

-----------------------------------------------------------------------------
(* The recursive sums.                                                     *)

CumulatedTo(y, m) ==
    (IF m < 12 THEN CumulatedDays[m + 1] ELSE 365) + (IF m > 1 /\ IsLeapYear(y) THEN 1 ELSE 0)

LEMMA LeastMember ==
    ASSUME NEW S \in SUBSET Nat, S # {}
    PROVE  \E n \in S : \A k \in S : n <= k
<1>1. PICK n \in S : \A k \in S : ~(<<k, n>> \in OpToRel(<, Nat))
  BY NatLessThanWellFounded, WFMin
<1>2. \A k \in S : ~(k < n)
  BY <1>1 DEF OpToRel
<1> QED BY <1>2

(* The table of the reference calendar is the sum of the days of the months. *)
LEMMA MonthsSummed ==
    ASSUME NEW y \in Nat
    PROVE  \A m \in 0..12 : DaysBefore(y)[m] = CumulatedTo(y, m)
<1> DEFINE table == [m \in -1..12 |-> IF m <= 0 THEN 0 ELSE CumulatedTo(y, m)]
           step(f) == [m \in -1..12 |-> IF m <= 0 THEN 0 ELSE f[m-1] + DaysInMonth(y, m)]
           sum == DaysBefore(y)
<1>1. table = step(table)
  <2>1. ASSUME NEW m \in 1..12 PROVE CumulatedTo(y, m) = CumulatedTo(y, m - 1) + DaysInMonth(y, m)
    <3>1. m \in {1, 2, 3, 4, 5, 6, 7, 8, 9, 10, 11, 12}
      OBVIOUS
    <3> QED BY <3>1 DEF CumulatedTo, CumulatedDays, DaysInMonth, MonthLengths
  <2>2. CumulatedTo(y, 0) = 0
    BY DEF CumulatedTo, CumulatedDays
  <2>3. \A m \in -1..12 : ~(m <= 0) => /\ m \in 1..12 /\ m - 1 \in -1..12
                                       /\ (m - 1 <= 0 <=> m - 1 = 0)
    OBVIOUS
  <2> HIDE DEF CumulatedTo
  <2> QED BY <2>1, <2>2, <2>3
<1>2. sum = CHOOSE f : f = step(f)
  BY DEF DaysBefore
<1>3. sum = step(sum)
  <2> HIDE DEF table, step, sum
  <2> QED BY <1>1, <1>2
<1> HIDE DEF sum
<1>4. sum[0] = 0 /\ \A m \in 1..12 : sum[m] = sum[m-1] + DaysInMonth(y, m)
  <2>1. \A m \in -1..12 : sum[m] = IF m <= 0 THEN 0 ELSE sum[m-1] + DaysInMonth(y, m)
    BY <1>3
  <2>2. \A m \in 1..12 : m \in -1..12 /\ ~(m <= 0)
    OBVIOUS
  <2>3. 0 \in -1..12
    OBVIOUS
  <2> HIDE DEF step
  <2> QED BY <2>1, <2>2, <2>3
<1>5. ASSUME NEW m \in 1..12, sum[m - 1] = CumulatedTo(y, m - 1) PROVE sum[m] = CumulatedTo(y, m)
  <2>1. m \in {1, 2, 3, 4, 5, 6, 7, 8, 9, 10, 11, 12}
    OBVIOUS
  <2>2. CumulatedTo(y, m) = CumulatedTo(y, m - 1) + DaysInMonth(y, m)
    BY <2>1 DEF CumulatedTo, CumulatedDays, DaysInMonth, MonthLengths
  <2> QED BY <1>4, <1>5, <2>2
<1>6. sum[0] = CumulatedTo(y, 0)
  BY <1>4 DEF CumulatedTo, CumulatedDays
<1>7. /\ sum[1] = CumulatedTo(y, 1) /\ sum[2] = CumulatedTo(y, 2)
      /\ sum[3] = CumulatedTo(y, 3) /\ sum[4] = CumulatedTo(y, 4)
      /\ sum[5] = CumulatedTo(y, 5) /\ sum[6] = CumulatedTo(y, 6)
      /\ sum[7] = CumulatedTo(y, 7) /\ sum[8] = CumulatedTo(y, 8)
      /\ sum[9] = CumulatedTo(y, 9) /\ sum[10] = CumulatedTo(y, 10)
      /\ sum[11] = CumulatedTo(y, 11) /\ sum[12] = CumulatedTo(y, 12)
  BY <1>5, <1>6
<1>8. \A m \in 0..12 : m \in {0, 1, 2, 3, 4, 5, 6, 7, 8, 9, 10, 11, 12}
  OBVIOUS
<1> QED BY <1>6, <1>7, <1>8 DEF sum

(* The loop over the years counts the days between their first days.       *)
LEMMA YearsSummed ==
    ASSUME NEW from \in Nat \ {0}, NEW to \in Nat, from <= to
    PROVE  DaysOfYears(from, to) = YearStart(to) - YearStart(from)
<1> DEFINE table == [y \in from..to |-> YearStart(y) - YearStart(from)]
           step(f) == [y \in from..to |-> IF y = from THEN 0 ELSE f[y-1] + DaysInYear(y-1)]
           sum == CHOOSE f : f = step(f)
<1>1. \A y \in from..to : y \in Nat \ {0} /\ (y # from => y - 1 \in from..to /\ y - 1 \in Nat \ {0})
  OBVIOUS
<1>2. table = step(table)
  <2>1. ASSUME NEW y \in from..to, y # from
        PROVE  YearStart(y) - YearStart(from) = (YearStart(y-1) - YearStart(from)) + DaysInYear(y-1)
    <3>1. y - 1 \in Nat \ {0} /\ (y - 1) + 1 = y
      BY <1>1, <2>1
    <3>2. YearStart(y) = YearStart(y-1) + DaysInYear(y-1)
      BY <3>1, YearLength
    <3> QED BY <3>1, <3>2, YearStartTypes
  <2>2. YearStart(from) - YearStart(from) = 0
    BY YearStartTypes
  <2> QED BY <1>1, <2>1, <2>2
<1>3. DaysOfYears(from, to) = sum[to]
  BY DEF DaysOfYears
<1>4. sum = step(sum)
  <2> HIDE DEF table, step
  <2> QED BY <1>2
<1> HIDE DEF sum
<1>5. ASSUME NEW y \in from..to
      PROVE  sum[y] = IF y = from THEN 0 ELSE sum[y-1] + DaysInYear(y-1)
  BY <1>4
<1> DEFINE Wrong == {n \in 0..(to - from) : sum[from + n] # YearStart(from + n) - YearStart(from)}
<1>6. Wrong = {}
  <2> SUFFICES ASSUME Wrong # {} PROVE FALSE
    OBVIOUS
  <2>1. PICK n \in Wrong : \A k \in Wrong : n <= k
    <3>1. Wrong \in SUBSET Nat
      OBVIOUS
    <3> HIDE DEF Wrong
    <3> QED BY <3>1, LeastMember
  <2>2. n \in Nat /\ from + n \in from..to
    OBVIOUS
  <2>3. n # 0
    BY <1>5, <2>2, YearStartTypes
  <2>4. PICK y \in from..to : y = from + n /\ y # from /\ y - 1 = from + (n - 1)
    BY <2>2, <2>3
  <2>5. n - 1 \in 0..(to - from) /\ ~(n <= n - 1)
    BY <2>2, <2>3
  <2>6. sum[y - 1] = YearStart(y - 1) - YearStart(from)
    BY <2>1, <2>4, <2>5
  <2>7. y - 1 \in Nat \ {0} /\ (y - 1) + 1 = y
    BY <1>1, <2>4
  <2>8. YearStart(y) = YearStart(y - 1) + DaysInYear(y - 1)
    BY <2>7, YearLength
  <2>9. sum[y] = sum[y - 1] + DaysInYear(y - 1)
    BY <1>5, <2>4
  <2>10. sum[y] = YearStart(y) - YearStart(from)
    BY <2>6, <2>7, <2>8, <2>9, YearStartTypes
  <2> QED BY <2>4, <2>10
<1>7. sum[to] = YearStart(to) - YearStart(from)
  <2>1. to - from \in 0..(to - from) /\ from + (to - from) = to
    OBVIOUS
  <2> QED BY <1>6, <2>1
<1> QED BY <1>3, <1>7

(* The days before a month and with it, and those of the whole year.       *)
LEMMA MonthsOfYear ==
    ASSUME NEW y \in Nat
    PROVE  /\ \A m \in 0..12 : CumulatedTo(y, m) \in Nat
           /\ CumulatedTo(y, 0) = 0 /\ CumulatedTo(y, 12) = DaysInYear(y)
           /\ \A m \in 1..12 : /\ CumulatedTo(y, m) = CumulatedTo(y, m - 1) + DaysInMonth(y, m)
                               /\ CumulatedTo(y, m) <= DaysInYear(y)
<1>1. CumulatedTo(y, 0) = 0 /\ CumulatedTo(y, 12) = DaysInYear(y)
  BY DEF CumulatedTo, CumulatedDays, DaysInYear
<1>2. ASSUME NEW m \in 0..12 PROVE CumulatedTo(y, m) \in Nat
  <2>1. m \in {0, 1, 2, 3, 4, 5, 6, 7, 8, 9, 10, 11, 12}
    OBVIOUS
  <2> QED BY <2>1 DEF CumulatedTo, CumulatedDays
<1>3. ASSUME NEW m \in 1..12
      PROVE  /\ CumulatedTo(y, m) = CumulatedTo(y, m - 1) + DaysInMonth(y, m)
             /\ CumulatedTo(y, m) <= DaysInYear(y)
  <2>1. m \in {1, 2, 3, 4, 5, 6, 7, 8, 9, 10, 11, 12}
    OBVIOUS
  <2> QED BY <2>1 DEF CumulatedTo, CumulatedDays, DaysInMonth, MonthLengths, DaysInYear
<1> QED BY <1>1, <1>2, <1>3

(* The day number of the reference calendar is the first day of the year   *)
(* and the day in it.                                                      *)
LEMMA DayInYear ==
    ASSUME NEW d, Valid(d)
    PROVE  /\ d.year \in Nat \ {0} /\ d.year <= 65535
           /\ DayOfYear(d) \in Nat /\ 1 <= DayOfYear(d) /\ DayOfYear(d) <= DaysInYear(d.year)
           /\ DayNumber(d) = YearStart(d.year) + DayOfYear(d)
<1>1. /\ d.year \in Nat \ {0} /\ d.year <= 65535 /\ d.month \in 1..12 /\ d.day \in Nat /\ 1 <= d.day
      /\ d.day <= DaysInMonth(d.year, d.month)
  BY ValidFields DEF FromOne, UpTo
<1>2. PICK y \in Nat \ {0}, m \in 1..12, v \in Nat : y = d.year /\ m = d.month /\ v = d.day
  BY <1>1
<1>3. m - 1 \in 0..12
  OBVIOUS
<1>4. DayOfYear(d) = CumulatedTo(y, m - 1) + v
  BY <1>2, <1>3, MonthsSummed DEF DayOfYear
<1>5. DaysInMonth(y, m) \in Nat
  <2>1. m \in FromOne(12)
    BY DEF FromOne, UpTo
  <2> QED BY <2>1, MonthLength
<1>6. 1 <= DayOfYear(d) /\ DayOfYear(d) <= DaysInYear(y) /\ DayOfYear(d) \in Nat
  <2>1. CumulatedTo(y, m - 1) \in Nat
    BY <1>3, MonthsOfYear
  <2>2. CumulatedTo(y, m) = CumulatedTo(y, m - 1) + DaysInMonth(y, m)
    BY MonthsOfYear
  <2>3. CumulatedTo(y, m) <= DaysInYear(y)
    BY MonthsOfYear
  <2>4. DaysInYear(y) \in Nat /\ 1 <= v /\ v <= DaysInMonth(y, m)
    BY <1>1, <1>2, YearStartTypes
  <2> QED BY <1>4, <1>5, <2>1, <2>2, <2>3, <2>4
<1>7. CumulatedTo(y, m - 1) = CumulatedDays[m] + (IF m > 2 /\ IsLeapYear(y) THEN 1 ELSE 0)
  BY <1>3 DEF CumulatedTo
<1>8. IsLeapYear(y) <=> (y % 4 = 0 /\ (y % 100 # 0 \/ y % 400 = 0))
  BY LeapDays DEF IsLeapYear
<1>9. CumulatedDays[m] \in Nat
  BY DEF CumulatedDays
<1>10. DayNumber(d) = YearStart(y) + CumulatedDays[m] + (IF m > 2 /\ IsLeapYear(y) THEN 1 ELSE 0) + v
  BY <1>2, <1>8 DEF DayNumber, YearStart
<1>11. DayNumber(d) = YearStart(y) + DayOfYear(d)
  BY <1>4, <1>7, <1>9, <1>10, YearStartTypes
<1> QED BY <1>1, <1>2, <1>6, <1>11

(* reverse_day_of_year() finds the month and the day.                      *)
LEMMA ReverseFound ==
    ASSUME NEW y \in Nat \ {0}, NEW n \in Nat, 1 <= n, n <= DaysInYear(y)
    PROVE  LET m == ReverseMonth(y, n)
               v == n - CumulatedTo(y, m - 1)
           IN  /\ m \in 1..12 /\ v \in Nat /\ 1 <= v /\ v <= DaysInMonth(y, m)
               /\ ReverseDayOfYear(y, n) = [month |-> m, day |-> v]
<1> DEFINE before == DaysBefore(y)
           Found(m) == (n <= before[m] \/ m = 12) /\ \A k \in 1..(m-1) : n > before[k]
           m == ReverseMonth(y, n)
           v == n - CumulatedTo(y, m - 1)
<1>1. \A k \in 0..12 : before[k] = CumulatedTo(y, k) /\ before[k] \in Nat
  BY MonthsSummed, MonthsOfYear
<1>2. \E k \in 1..12 : Found(k)
  <2> DEFINE S == {k \in 1..12 : n <= before[k]}
  <2>1. 12 \in S
    <3>1. CumulatedTo(y, 12) = DaysInYear(y)
      BY MonthsOfYear
    <3>2. before[12] = CumulatedTo(y, 12)
      BY <1>1
    <3> QED BY <3>1, <3>2
  <2>2. PICK k \in S : \A j \in S : k <= j
    <3>1. S \in SUBSET Nat /\ S # {}
      BY <2>1
    <3> HIDE DEF S
    <3> QED BY <3>1, LeastMember
  <2>3. \A j \in 1..(k-1) : j \in 1..12 /\ j \notin S
    BY <2>2
  <2>4. \A j \in 1..(k-1) : n > before[j]
    BY <1>1, <2>3
  <2> QED BY <2>2, <2>4
<1>3. m \in 1..12 /\ Found(m)
  BY <1>2 DEF ReverseMonth
<1> HIDE DEF before, m
<1>4. m - 1 \in 0..12 /\ m \in 0..12 /\ m \in FromOne(12)
  BY <1>3 DEF FromOne, UpTo
<1>5. n <= CumulatedTo(y, m)
  BY <1>1, <1>3, <1>4, MonthsOfYear
<1>6. CumulatedTo(y, m - 1) < n
  <2>1. CASE m = 1
    BY <2>1, MonthsOfYear
  <2>2. CASE m # 1
    <3>1. m - 1 \in 1..(m-1)
      BY <1>3, <2>2
    <3> QED BY <1>1, <1>3, <1>4, <3>1
  <2> QED BY <2>1, <2>2
<1>7. DaysInMonth(y, m) \in 28..31
  BY <1>4, MonthLength
<1>8. CumulatedTo(y, m) = CumulatedTo(y, m - 1) + DaysInMonth(y, m) /\ CumulatedTo(y, m - 1) \in Nat
  BY <1>3, <1>4, MonthsOfYear
<1>9. v \in Nat /\ 1 <= v /\ v <= DaysInMonth(y, m)
  BY <1>5, <1>6, <1>7, <1>8
<1>10. U8(n - before[m-1]) = v
  BY <1>1, <1>4, <1>7, <1>9 DEF U8
<1> QED BY <1>3, <1>9, <1>10 DEF ReverseDayOfYear, m, before

-----------------------------------------------------------------------------
(* What the setters of the date do when they do not throw.                 *)

LEMMA YearChanged ==
    ASSUME NEW d \in DateTimes, NEW v \in UpTo(65535)
    PROVE  LET x == [d EXCEPT !.year = v]
           IN  x \in DateTimes /\ x.year = v /\ x.month = d.month /\ x.day = d.day
               /\ TimeOf(x) = TimeOf(d)
<1>1. TimeOf([d EXCEPT !.year = v]) = TimeOf(d)
  BY DEF TimeOf, DateTimes
<1> QED BY <1>1, YearUpdate

LEMMA MonthChanged ==
    ASSUME NEW d \in DateTimes, NEW v \in UpTo(12)
    PROVE  LET x == [d EXCEPT !.month = v]
           IN  x \in DateTimes /\ x.year = d.year /\ x.month = v /\ x.day = d.day
               /\ TimeOf(x) = TimeOf(d)
<1>1. TimeOf([d EXCEPT !.month = v]) = TimeOf(d)
  BY DEF TimeOf, DateTimes
<1> QED BY <1>1, MonthUpdate

LEMMA DayChanged ==
    ASSUME NEW d \in DateTimes, NEW v \in UpTo(31)
    PROVE  LET x == [d EXCEPT !.day = v]
           IN  x \in DateTimes /\ x.year = d.year /\ x.month = d.month /\ x.day = v
               /\ TimeOf(x) = TimeOf(d)
<1>1. TimeOf([d EXCEPT !.day = v]) = TimeOf(d)
  BY DEF TimeOf, DateTimes
<1> QED BY <1>1, DayUpdate

LEMMA YearSet ==
    ASSUME NEW d, Valid(d), NEW n \in FromOne(65535)
    PROVE  \E x : /\ SetYear(d, n) = {x}
                  /\ Valid(x) /\ x.year = n /\ TimeOf(x) = TimeOf(d)
                  /\ x.day = IF ValidDate(n, d.month, d.day) THEN d.day ELSE 1
                  /\ x = InYear(d, n)
                  /\ n = d.year => x = d
<1> DEFINE x == InYear(d, n)
           moved == [d EXCEPT !.year = n]
           january == [moved EXCEPT !.month = 1]
           first == [january EXCEPT !.day = 1]
<1>1. U16(n) = n /\ n \in UpTo(65535)
  BY DEF FromOne, UpTo, U16
<1>2. SetYear(d, n) = {x}
  BY <1>1 DEF SetYear
<1>3. Valid(x)
  BY <1>2, YearSetterValid
<1>4. d \in DateTimes
  BY ValidFields
<1>5. /\ moved \in DateTimes /\ moved.year = n /\ moved.day = d.day /\ TimeOf(moved) = TimeOf(d)
      /\ n = d.year => moved = d
  <2>1. n = d.year => moved = d
    BY <1>4 DEF DateTimes
  <2>2. moved \in DateTimes /\ moved.year = n /\ moved.day = d.day /\ TimeOf(moved) = TimeOf(d)
    BY <1>1, <1>4, YearChanged
  <2> QED BY <2>1, <2>2
<1>6. CASE ValidDate(n, d.month, d.day)
  <2>1. x = moved
    BY <1>6 DEF InYear
  <2>2. PICK y : y = x
    OBVIOUS
  <2> HIDE DEF x, moved
  <2>3. y.year = n /\ y.day = d.day /\ TimeOf(y) = TimeOf(d) /\ (n = d.year => y = d)
    BY <1>5, <2>1, <2>2
  <2>4. y = InYear(d, n)
    BY <2>2 DEF x
  <2> QED BY <1>2, <1>3, <1>6, <2>2, <2>3, <2>4
<1>7. CASE ~ValidDate(n, d.month, d.day)
  <2>1. x = first
    BY <1>7 DEF InYear
  <2>2. 1 \in UpTo(12) /\ 1 \in UpTo(31)
    BY OneIsFirst, FromOneUpTo
  <2> HIDE DEF moved
  <2>3. january \in DateTimes /\ january.year = n /\ TimeOf(january) = TimeOf(d)
    BY <1>5, <2>2, MonthChanged
  <2> HIDE DEF january
  <2>4. first.year = n /\ first.day = 1 /\ TimeOf(first) = TimeOf(d)
    BY <2>2, <2>3, DayChanged
  <2>5. n # d.year
    BY <1>7 DEF Valid
  <2>6. PICK y : y = x
    OBVIOUS
  <2> HIDE DEF x, first
  <2>7. y = InYear(d, n)
    BY <2>6 DEF x
  <2> QED BY <1>2, <1>3, <1>7, <2>1, <2>4, <2>5, <2>6, <2>7
<1> QED BY <1>6, <1>7

LEMMA MonthSet ==
    ASSUME NEW d, Valid(d), NEW m \in 1..12
    PROVE  \E x : /\ SetMonth(d, m) = {x}
                  /\ Valid(x) /\ x.year = d.year /\ x.month = m /\ TimeOf(x) = TimeOf(d)
                  /\ x.day = IF d.day > DaysInMonth(d.year, m) THEN 1 ELSE d.day
<1> DEFINE x == InMonth(d, m)
           moved == [d EXCEPT !.month = m]
           first == [moved EXCEPT !.day = 1]
<1>1. U8(m) = m /\ m \in FromOne(12) /\ m \in UpTo(12) /\ 1 \in UpTo(31)
  BY DEF FromOne, UpTo, U8
<1>2. SetMonth(d, m) = {x}
  BY <1>1 DEF SetMonth
<1>3. Valid(x)
  BY <1>2, MonthSetterValid
<1>4. /\ moved \in DateTimes /\ moved.year = d.year /\ moved.month = m /\ moved.day = d.day
      /\ TimeOf(moved) = TimeOf(d)
  <2>1. d \in DateTimes
    BY ValidFields
  <2> QED BY <1>1, <2>1, MonthChanged
<1>5. x = IF d.day > DaysInMonth(d.year, m) THEN first ELSE moved
  BY DEF InMonth
<1> HIDE DEF moved
<1>6. /\ first.year = d.year /\ first.month = m /\ first.day = 1
      /\ TimeOf(first) = TimeOf(d)
  BY <1>1, <1>4, DayChanged
<1> HIDE DEF x, first
<1> QED BY <1>2, <1>3, <1>4, <1>5, <1>6

LEMMA DayOfYearSet ==
    ASSUME NEW d, Valid(d), NEW n \in Nat, 1 <= n, n <= DaysInYear(d.year)
    PROVE  \E x : /\ SetDayOfYear(d, n) = {x}
                  /\ Valid(x) /\ x.year = d.year /\ DayOfYear(x) = n /\ TimeOf(x) = TimeOf(d)
<1>1. PICK y \in Nat \ {0} : y = d.year
  BY DayInYear
<1>2. PICK m \in 1..12, v \in Nat :
        /\ v = n - CumulatedTo(y, m - 1) /\ 1 <= v /\ v <= DaysInMonth(y, m)
        /\ ReverseDayOfYear(y, n) = [month |-> m, day |-> v]
  <2>1. n <= DaysInYear(y)
    BY <1>1
  <2> QED BY <2>1, ReverseFound
<1>3. PICK x : /\ SetMonth(d, m) = {x}
               /\ Valid(x) /\ x.year = d.year /\ x.month = m /\ TimeOf(x) = TimeOf(d)
  BY MonthSet
<1>4. SetDayOfYear(d, n) = SetDay(x, v)
  BY <1>1, <1>2, <1>3 DEF SetDayOfYear
<1>5. DaysInMonth(y, m) \in 28..31
  <2>1. m \in FromOne(12)
    BY DEF FromOne, UpTo
  <2> QED BY <2>1, MonthLength
<1>6. U8(v) = v /\ v \in FromOne(DaysInMonth(y, m)) /\ v \in UpTo(31)
  BY <1>2, <1>5 DEF U8, FromOne, UpTo
<1> DEFINE z == [x EXCEPT !.day = v]
<1>7. SetDay(x, v) = {z}
  BY <1>1, <1>3, <1>6 DEF SetDay, SetDayWithin
<1>8. Valid(z)
  BY <1>3, <1>7, DaySetterValid
<1>9. z.year = d.year /\ z.month = m /\ z.day = v /\ TimeOf(z) = TimeOf(d)
  <2>1. x \in DateTimes
    BY <1>3, ValidFields
  <2> QED BY <1>3, <1>6, <2>1, DayChanged
<1> HIDE DEF z
<1>10. DayOfYear(z) = n
  <2>1. m - 1 \in 0..12
    OBVIOUS
  <2>2. DaysBefore(y)[m - 1] = CumulatedTo(y, m - 1) /\ CumulatedTo(y, m - 1) \in Nat
    BY <2>1, MonthsSummed, MonthsOfYear
  <2> QED BY <1>1, <1>2, <1>9, <2>2 DEF DayOfYear
<1> QED BY <1>4, <1>7, <1>8, <1>9, <1>10

-----------------------------------------------------------------------------
(* The loop of add_days(). Where it does not end, any value satisfies the  *)
(* recursive definition that is the same along the way; where it ends, the *)
(* end is the only value that lies in every set closed under its steps.    *)
LEMMA RollEquation ==
    ASSUME NEW y \in UpTo(65535), NEW k \in Int, NEW dir \in Int
    PROVE  RollYears(y, k, dir) =
             IF k > DaysInYear(y) \/ k < 0
             THEN RollYears(U16(y + dir), k - DaysInYear(y) * dir, dir) ELSE <<y, k>>
<1> DEFINE D == UpTo(65535) \X Int
           Going(r) == r[2] > DaysInYear(r[1]) \/ r[2] < 0
           next(r) == <<U16(r[1] + dir), r[2] - DaysInYear(r[1]) * dir>>
           Closed(C) == \A x \in C : Going(x) => next(x) \in C
           Reached(r, t) == \A C \in SUBSET D : r \in C /\ Closed(C) => t \in C
           Ends(r) == {t \in D : ~Going(t) /\ Reached(r, t)}
           end(r) == CHOOSE t : t \in Ends(r)
           step(f) == [r \in D |-> IF Going(r) THEN f[next(r)] ELSE r]
           table == [r \in D |-> end(r)]
           roll == CHOOSE f : f = step(f)
<1>1. ASSUME NEW r \in D PROVE next(r) \in D
  <2>1. r[1] \in Int /\ r[2] \in Int
    BY DEF UpTo
  <2>2. U16(r[1] + dir) \in UpTo(65535)
    BY <2>1 DEF U16, UpTo
  <2>3. r[2] - DaysInYear(r[1]) * dir \in Int
    BY <2>1 DEF DaysInYear
  <2> QED BY <2>2, <2>3
<1>2. RollYears(y, k, dir) = roll[<<y, k>>]
  BY DEF RollYears
<1>3. RollYears(U16(y + dir), k - DaysInYear(y) * dir, dir) = roll[next(<<y, k>>)]
  BY DEF RollYears
<1>4. <<y, k>> \in D
  OBVIOUS
<1>5. Going(<<y, k>>) <=> (k > DaysInYear(y) \/ k < 0)
  OBVIOUS
<1> HIDE DEF D, Going, next
<1>6. ASSUME NEW r \in D, ~Going(r) PROVE end(r) = r
  <2>1. Closed({r}) /\ {r} \in SUBSET D /\ r \in {r}
    BY <1>6
  <2>2. r \in Ends(r)
    BY <1>6
  <2>3. ASSUME NEW t, Reached(r, t) PROVE t = r
    <3>1. t \in {r}
      <4> HIDE DEF Closed
      <4> QED BY <2>1, <2>3
    <3> QED BY <3>1
  <2>4. \A t \in Ends(r) : Reached(r, t)
    <3> HIDE DEF Reached
    <3> QED OBVIOUS
  <2> HIDE DEF Reached, Ends
  <2>5. Ends(r) = {r}
    BY <2>2, <2>3, <2>4
  <2> QED BY <2>5
<1>7. ASSUME NEW r \in D, Going(r) PROVE Ends(r) = Ends(next(r))
  <2>1. ASSUME NEW t, ~Going(t), Reached(r, t) PROVE Reached(next(r), t)
    <3>1. ASSUME NEW C \in SUBSET D, next(r) \in C, Closed(C) PROVE t \in C
      <4>1. C \cup {r} \in SUBSET D /\ Closed(C \cup {r}) /\ r \in C \cup {r}
        BY <1>7, <3>1
      <4>2. t \in C \cup {r}
        <5> HIDE DEF Closed
        <5> QED BY <2>1, <4>1
      <4> QED BY <1>7, <2>1, <4>2
    <3> QED BY <3>1
  <2>2. ASSUME NEW t, Reached(next(r), t) PROVE Reached(r, t)
    <3>1. ASSUME NEW C \in SUBSET D, r \in C, Closed(C) PROVE t \in C
      <4>1. next(r) \in C
        BY <1>7, <3>1
      <4> HIDE DEF Closed
      <4> QED BY <2>2, <3>1, <4>1
    <3> QED BY <3>1
  <2> HIDE DEF Reached
  <2> QED BY <2>1, <2>2
<1>8. table = step(table)
  <2>1. ASSUME NEW r \in D
        PROVE  end(r) = IF Going(r) THEN table[next(r)] ELSE r
    <3>1. CASE Going(r)
      <4>1. table[next(r)] = end(next(r))
        <5> HIDE DEF end
        <5> QED BY <1>1
      <4>2. Ends(r) = Ends(next(r))
        BY <1>7, <3>1
      <4>3. end(r) = end(next(r))
        <5> HIDE DEF Ends
        <5> QED BY <4>2
      <4> HIDE DEF table, end
      <4> QED BY <3>1, <4>1, <4>3
    <3>2. CASE ~Going(r)
      <4>1. end(r) = r
        BY <1>6, <3>2
      <4> HIDE DEF table, end
      <4> QED BY <3>2, <4>1
    <3> HIDE DEF table, end
    <3> QED BY <3>1, <3>2
  <2> HIDE DEF end
  <2>2. [r \in D |-> end(r)] = [r \in D |-> IF Going(r) THEN table[next(r)] ELSE r]
    <3> HIDE DEF table
    <3> QED BY <2>1
  <2> QED BY <2>2
<1>9. roll = step(roll)
  <2> HIDE DEF table, step
  <2> QED BY <1>8
<1> HIDE DEF roll
<1>10. roll[<<y, k>>] = IF Going(<<y, k>>) THEN roll[next(<<y, k>>)] ELSE <<y, k>>
  BY <1>4, <1>9
<1> QED BY <1>2, <1>3, <1>5, <1>10

(* Forward, the loop ends in the year and on the day of the year that have *)
(* the day number sought, if that year fits.                               *)
LEMMA RollsForward ==
    ASSUME NEW z \in Nat \ {0}, z <= 65535, NEW n \in Nat, 1 <= n,
           YearStart(z) + n < YearStart(65536) + 1
    PROVE  \E y \in Nat \ {0}, k \in Nat :
              /\ RollYears(z, n, 1) = <<y, k>>
              /\ y <= 65535 /\ 1 <= k /\ k <= DaysInYear(y)
              /\ YearStart(y) + k = YearStart(z) + n
<1> DEFINE Ends(z1, n1) ==
             \E y \in Nat \ {0}, k \in Nat :
                /\ RollYears(z1, n1, 1) = <<y, k>>
                /\ y <= 65535 /\ 1 <= k /\ k <= DaysInYear(y)
                /\ YearStart(y) + k = YearStart(z1) + n1
           Bounded(z1, n1) == z1 <= 65535 /\ 1 <= n1 /\ YearStart(z1) + n1 <= YearStart(65536)
           Wrong == {n1 \in Nat : \E z1 \in Nat \ {0} : Bounded(z1, n1) /\ ~Ends(z1, n1)}
<1>1. Wrong = {}
  <2> SUFFICES ASSUME Wrong # {} PROVE FALSE
    OBVIOUS
  <2>1. PICK n1 : n1 \in Wrong /\ \A j \in Wrong : n1 <= j
    <3>1. Wrong \in SUBSET Nat
      OBVIOUS
    <3> HIDE DEF Wrong
    <3> QED BY <3>1, LeastMember
  <2>2. n1 \in Nat
    BY <2>1
  <2>3. PICK z1 \in Nat \ {0} : Bounded(z1, n1) /\ ~Ends(z1, n1)
    BY <2>1
  <2>4. z1 \in UpTo(65535) /\ n1 \in Int /\ 1 \in Int
    BY <2>2, <2>3 DEF UpTo
  <2>12. \A n2 \in Nat : n2 \notin Wrong => \A z2 \in Nat \ {0} : Bounded(z2, n2) => Ends(z2, n2)
    OBVIOUS
  <2> HIDE DEF Wrong
  <2>5. RollYears(z1, n1, 1) =
          IF n1 > DaysInYear(z1) \/ n1 < 0
          THEN RollYears(U16(z1 + 1), n1 - DaysInYear(z1) * 1, 1) ELSE <<z1, n1>>
    <3>1. PICK dir \in Int : dir = 1
      OBVIOUS
    <3>2. RollYears(z1, n1, dir) =
            IF n1 > DaysInYear(z1) \/ n1 < 0
            THEN RollYears(U16(z1 + dir), n1 - DaysInYear(z1) * dir, dir) ELSE <<z1, n1>>
      BY <2>4, RollEquation
    <3> QED BY <3>1, <3>2
  <2>6. DaysInYear(z1) \in Nat /\ 365 <= DaysInYear(z1) /\ YearStart(z1) \in Int
    BY <2>3, YearStartTypes
  <2>7. CASE n1 <= DaysInYear(z1)
    <3>1. RollYears(z1, n1, 1) = <<z1, n1>>
      BY <2>2, <2>3, <2>5, <2>6, <2>7
    <3> QED BY <2>2, <2>3, <2>7, <3>1
  <2>8. CASE n1 > DaysInYear(z1)
    <3>1. YearStart(z1 + 1) = YearStart(z1) + DaysInYear(z1)
      BY YearLength
    <3>2. z1 # 65535
      BY <2>2, <2>3, <2>6, <2>8, <3>1
    <3>3. /\ U16(z1 + 1) = z1 + 1 /\ z1 + 1 \in Nat \ {0} /\ z1 + 1 <= 65535
          /\ DaysInYear(z1) * 1 = DaysInYear(z1)
      BY <2>3, <2>6, <3>2 DEF U16
    <3>4. PICK n2 \in Nat : n2 = n1 - DaysInYear(z1) /\ 1 <= n2 /\ ~(n1 <= n2)
      BY <2>2, <2>6, <2>8
    <3>5. RollYears(z1, n1, 1) = RollYears(z1 + 1, n2, 1)
      BY <2>5, <2>8, <3>3, <3>4
    <3>6. YearStart(z1 + 1) + n2 = YearStart(z1) + n1
      BY <2>2, <2>6, <3>1, <3>4
    <3>7. Bounded(z1 + 1, n2)
      BY <2>3, <3>3, <3>4, <3>6
    <3>8. n2 \notin Wrong
      BY <2>1, <3>4
    <3>9. Ends(z1 + 1, n2)
      BY <2>12, <3>3, <3>4, <3>7, <3>8
    <3> QED BY <2>3, <3>5, <3>6, <3>9
  <2> QED BY <2>2, <2>6, <2>7, <2>8
<1>2. Bounded(z, n)
  BY YearStartTypes
<1>3. Ends(z, n)
  <2>1. \A n1 \in Nat : n1 \notin Wrong => \A z1 \in Nat \ {0} : Bounded(z1, n1) => Ends(z1, n1)
    OBVIOUS
  <2> HIDE DEF Wrong, Bounded, Ends
  <2> QED BY <1>1, <1>2, <2>1
<1> QED BY <1>3

(* add_days() by a number of days that is not negative, or that stays in   *)
(* the year.                                                               *)
LastDay == YearStart(65536)

LEMMA DaysExact ==
    ASSUME NEW d, Valid(d), NEW n \in Int,
           n >= 0 \/ DayOfYear(d) + n > 0,
           DayNumber(d) + n <= LastDay
    PROVE  \E x : /\ DateAddDays(d, n) = {x}
                  /\ Valid(x) /\ TimeOf(x) = TimeOf(d)
                  /\ DayNumber(x) = DayNumber(d) + n
<1>1. /\ d.year \in Nat \ {0} /\ d.year <= 65535 /\ d.year \in UpTo(65535)
      /\ DayOfYear(d) \in Nat /\ 1 <= DayOfYear(d) /\ DayOfYear(d) <= DaysInYear(d.year)
      /\ DayNumber(d) = YearStart(d.year) + DayOfYear(d)
      /\ YearStart(d.year) \in Int /\ DaysInYear(d.year) \in Nat
  BY DayInYear, YearStartTypes DEF UpTo
<1>2. CASE n = 0
  BY <1>1, <1>2 DEF DateAddDays
<1>3. CASE n # 0
  <2> DEFINE dir == IF n > 0 THEN 1 ELSE -1
  <2>1. PICK z \in Nat \ {0}, k \in Nat :
          /\ RollYears(d.year, DayOfYear(d) + n, dir) = <<z, k>>
          /\ z <= 65535 /\ 1 <= k /\ k <= DaysInYear(z)
          /\ YearStart(z) + k = DayNumber(d) + n
    <3>1. CASE n > 0
      <4>1. DayOfYear(d) + n \in Nat /\ 1 <= DayOfYear(d) + n
        BY <1>1, <3>1
      <4>2. YearStart(d.year) + (DayOfYear(d) + n) < YearStart(65536) + 1
        BY <1>1, YearStartTypes DEF LastDay
      <4>3. dir = 1
        BY <3>1
      <4>4. YearStart(d.year) + (DayOfYear(d) + n) = DayNumber(d) + n
        BY <1>1
      <4> QED BY <1>1, <4>1, <4>2, <4>3, <4>4, RollsForward
    <3>2. CASE ~(n > 0)
      <4>1. n < 0 /\ dir \in Int
        BY <1>3, <3>2
      <4>2. PICK k \in Nat : k = DayOfYear(d) + n /\ 1 <= k /\ k <= DaysInYear(d.year)
        BY <1>1, <4>1
      <4>3. RollYears(d.year, k, dir) = <<d.year, k>>
        BY <1>1, <4>1, <4>2, RollEquation
      <4>4. YearStart(d.year) + k = DayNumber(d) + n
        BY <1>1, <4>2
      <4> QED BY <1>1, <4>2, <4>3, <4>4
    <3> QED BY <3>1, <3>2
  <2>2. z \in FromOne(65535)
    BY <2>1 DEF FromOne, UpTo
  <2>3. PICK x : /\ SetYear(d, z) = {x}
                 /\ Valid(x) /\ x.year = z /\ TimeOf(x) = TimeOf(d)
    BY <2>2, YearSet
  <2>4. PICK w : /\ SetDayOfYear(x, k) = {w}
                 /\ Valid(w) /\ w.year = x.year /\ DayOfYear(w) = k /\ TimeOf(w) = TimeOf(x)
    BY <2>1, <2>3, DayOfYearSet
  <2>5. DateAddDays(d, n) = {w}
    <3>1. ~Uncountable(d, n)
      BY DEF Valid, Uncountable
    <3> QED BY <1>3, <2>1, <2>3, <2>4, <3>1 DEF DateAddDays
  <2>6. DayNumber(w) = YearStart(w.year) + DayOfYear(w)
    BY <2>4, DayInYear
  <2> QED BY <2>1, <2>3, <2>4, <2>5, <2>6
<1> QED BY <1>2, <1>3

-----------------------------------------------------------------------------
(* The hours, minutes, seconds and milliseconds since the first day.       *)
HourNumber(d)        == 24 * DayNumber(d) + d.hour
MinuteNumber(d)      == 60 * HourNumber(d) + d.minute
SecondNumber(d)      == 60 * MinuteNumber(d) + d.second
MillisecondNumber(d) == 1000 * SecondNumber(d) + d.millisecond

LEMMA NumberTypes ==
    ASSUME NEW d, Valid(d)
    PROVE  /\ d.hour \in 0..23 /\ d.minute \in 0..59 /\ d.second \in 0..61
           /\ d.millisecond \in Nat /\ d.millisecond < 1000
           /\ DayNumber(d) \in Int /\ HourNumber(d) \in Int /\ MinuteNumber(d) \in Int
           /\ SecondNumber(d) \in Int /\ MillisecondNumber(d) \in Int
<1>1. /\ d.hour \in 0..23 /\ d.minute \in 0..59 /\ d.second \in 0..61
      /\ d.millisecond \in Nat /\ d.millisecond < 1000
  BY DEF Valid, DateTimes, UpTo
<1>2. DayNumber(d) \in Int
  BY DayInYear, YearStartTypes
<1>3. HourNumber(d) \in Int
  BY <1>1, <1>2 DEF HourNumber
<1>4. MinuteNumber(d) \in Int
  BY <1>1, <1>3 DEF MinuteNumber
<1>5. SecondNumber(d) \in Int
  BY <1>1, <1>4 DEF SecondNumber
<1>6. MillisecondNumber(d) \in Int
  BY <1>1, <1>5 DEF MillisecondNumber
<1> QED BY <1>1, <1>2, <1>3, <1>4, <1>5, <1>6

(* What is carried into the larger field, and what is left in the smaller. *)
LEMMA CarryForward24 ==
    ASSUME NEW n \in Int, NEW v \in 0..23, n >= 0 \/ v + Rem(n, 24) >= 0
    PROVE  LET sum  == Rem(n, 24) + v
               q    == Quot(n, 24) + Carry(sum, 24)
               left == Left(sum, 24)
           IN  /\ q \in Int /\ left \in 0..23 /\ 24 * q + left = n + v
               /\ n >= 0 => q >= 0
               /\ q >= Quot(n, 24)
<1>1. PICK q \in Int, r \in Int :
        /\ q = Quot(n, 24) /\ r = Rem(n, 24) /\ n = 24 * q + r /\ -24 < r /\ r < 24
        /\ n >= 0 => r >= 0
  <2>1. /\ Quot(n, 24) \in Int /\ Rem(n, 24) \in Int
        /\ n = 24 * Quot(n, 24) + Rem(n, 24)
        /\ -24 < Rem(n, 24) /\ Rem(n, 24) < 24
        /\ n >= 0 => Rem(n, 24) >= 0
    BY Division24
  <2> QED BY <2>1
<1>2. 0 <= r + v
  BY <1>1
<1>3. CASE r + v >= 24
  <2>1. (r + v) % 24 = r + v - 24
    BY <1>1, <1>3
  <2> QED BY <1>1, <1>3, <2>1 DEF Carry, Left
<1>4. CASE r + v < 24
  BY <1>1, <1>2, <1>4 DEF Carry, Left
<1> QED BY <1>1, <1>3, <1>4

LEMMA CarryForward60 ==
    ASSUME NEW n \in Nat, NEW v \in 0..59
    PROVE  LET sum  == Rem(n, 60) + v
               q    == Forward(Quot(n, 60) + Carry(sum, 60))
               left == Left(sum, 60)
           IN  q \in Nat /\ left \in 0..59 /\ 60 * q + left = n + v
<1>1. PICK q \in Int, r \in Int :
        /\ q = Quot(n, 60) /\ r = Rem(n, 60) /\ n = 60 * q + r /\ r < 60 /\ r >= 0
  <2>1. /\ Quot(n, 60) \in Int /\ Rem(n, 60) \in Int
        /\ n = 60 * Quot(n, 60) + Rem(n, 60)
        /\ -60 < Rem(n, 60) /\ Rem(n, 60) < 60
        /\ n >= 0 => Rem(n, 60) >= 0
    BY Division60
  <2> QED BY <2>1
<1>2. q >= 0
  BY <1>1
<1>3. CASE r + v >= 60
  <2>1. (r + v) % 60 = r + v - 60
    BY <1>1, <1>3
  <2> QED BY <1>1, <1>2, <1>3, <2>1 DEF Carry, Left, Forward
<1>4. CASE r + v < 60
  BY <1>1, <1>2, <1>4 DEF Carry, Left, Forward
<1> QED BY <1>1, <1>3, <1>4

LEMMA CarryForward1000 ==
    ASSUME NEW n \in Nat, NEW v \in UpTo(999)
    PROVE  LET sum  == Rem(n, 1000) + v
               q    == Forward(Quot(n, 1000) + Carry(sum, 1000))
               left == Left(sum, 1000)
           IN  q \in Nat /\ left \in UpTo(999) /\ 1000 * q + left = n + v
<1> DEFINE sum  == Rem(n, 1000) + v
           q    == Forward(Quot(n, 1000) + Carry(sum, 1000))
           left == Left(sum, 1000)
<1>1. v \in Nat /\ v < 1000
  BY DEF UpTo
<1>2. /\ Quot(n, 1000) \in Int /\ Rem(n, 1000) \in Int
      /\ n = 1000 * Quot(n, 1000) + Rem(n, 1000)
      /\ Rem(n, 1000) < 1000 /\ Rem(n, 1000) >= 0
  BY DEF Quot, Rem
<1>3. sum \in Int /\ sum = Rem(n, 1000) + v /\ 0 <= sum /\ sum < 1999
  BY <1>1, <1>2
<1> HIDE DEF sum
<1>4. Quot(n, 1000) >= 0
  BY <1>2
<1>5. Carry(sum, 1000) = IF sum >= 1000 THEN 1 ELSE 0
  BY <1>3 DEF Carry
<1>6. q = Quot(n, 1000) + Carry(sum, 1000) /\ q \in Nat
  BY <1>2, <1>4, <1>5 DEF Forward
<1>7. left = sum - 1000 * Carry(sum, 1000)
  <2>1. CASE sum >= 1000
    <3>1. sum % 1000 = sum - 1000
      BY <1>3, <2>1
    <3> QED BY <1>3, <1>5, <2>1, <3>1 DEF Left
  <2>2. CASE sum < 1000
    BY <1>3, <1>5, <2>2 DEF Left
  <2> QED BY <1>3, <2>1, <2>2
<1> HIDE DEF q, left
<1>8. left \in UpTo(999)
  BY <1>3, <1>5, <1>7 DEF UpTo
<1>9. 1000 * q + left = n + v
  BY <1>1, <1>2, <1>3, <1>5, <1>6, <1>7
<1>10. q \in Nat /\ left \in UpTo(999) /\ 1000 * q + left = n + v
  BY <1>6, <1>8, <1>9
<1> QED BY <1>10 DEF q, left, sum

(* The setters of the time keep the date and the other fields.             *)
LEMMA HourSet ==
    ASSUME NEW d, Valid(d), NEW v \in 0..23
    PROVE  \E x : /\ SetHour(d, v) = {x} /\ Valid(x)
                  /\ DayNumber(x) = DayNumber(d) /\ x.hour = v
                  /\ x.minute = d.minute /\ x.second = d.second
                  /\ x.millisecond = d.millisecond
<1> DEFINE x == [d EXCEPT !.hour = v]
<1>1. U8(v) = v /\ v \in UpTo(23)
  BY DEF U8, UpTo
<1>2. SetHour(d, v) = {x}
  BY <1>1 DEF SetHour
<1>3. Valid(x)
  BY <1>2, TimeSettersValid
<1>4. /\ x.year = d.year /\ x.month = d.month /\ x.day = d.day /\ x.hour = v
      /\ x.minute = d.minute /\ x.second = d.second /\ x.millisecond = d.millisecond
  BY DEF Valid, DateTimes
<1> HIDE DEF x
<1>5. DayNumber(x) = DayNumber(d)
  BY <1>4 DEF DayNumber
<1> QED BY <1>2, <1>3, <1>4, <1>5

LEMMA MinuteSet ==
    ASSUME NEW d, Valid(d), NEW v \in 0..59
    PROVE  \E x : /\ SetMinute(d, v) = {x} /\ Valid(x)
                  /\ HourNumber(x) = HourNumber(d) /\ x.minute = v
                  /\ x.second = d.second /\ x.millisecond = d.millisecond
<1> DEFINE x == [d EXCEPT !.minute = v]
<1>1. U8(v) = v /\ v \in UpTo(59)
  BY DEF U8, UpTo
<1>2. SetMinute(d, v) = {x}
  BY <1>1 DEF SetMinute
<1>3. Valid(x)
  BY <1>2, TimeSettersValid
<1>4. /\ x.year = d.year /\ x.month = d.month /\ x.day = d.day /\ x.hour = d.hour
      /\ x.minute = v /\ x.second = d.second /\ x.millisecond = d.millisecond
  BY DEF Valid, DateTimes
<1> HIDE DEF x
<1>5. HourNumber(x) = HourNumber(d)
  BY <1>4 DEF DayNumber, HourNumber
<1> QED BY <1>2, <1>3, <1>4, <1>5

LEMMA SecondSet ==
    ASSUME NEW d, Valid(d), NEW v \in 0..59
    PROVE  \E x : /\ SetSecond(d, v) = {x} /\ Valid(x)
                  /\ MinuteNumber(x) = MinuteNumber(d) /\ x.second = v
                  /\ x.millisecond = d.millisecond
<1> DEFINE x == [d EXCEPT !.second = v]
<1>1. U8(v) = v /\ v \in UpTo(61)
  BY DEF U8, UpTo
<1>2. SetSecond(d, v) = {x}
  BY <1>1 DEF SetSecond
<1>3. Valid(x)
  BY <1>2, TimeSettersValid
<1>4. /\ x.year = d.year /\ x.month = d.month /\ x.day = d.day /\ x.hour = d.hour
      /\ x.minute = d.minute /\ x.second = v /\ x.millisecond = d.millisecond
  BY DEF Valid, DateTimes
<1> HIDE DEF x
<1>5. MinuteNumber(x) = MinuteNumber(d)
  BY <1>4 DEF DayNumber, HourNumber, MinuteNumber
<1> QED BY <1>2, <1>3, <1>4, <1>5

LEMMA MillisecondSet ==
    ASSUME NEW d, Valid(d), NEW v \in UpTo(999)
    PROVE  \E x : /\ SetMillisecond(d, v) = {x} /\ Valid(x)
                  /\ SecondNumber(x) = SecondNumber(d) /\ x.millisecond = v
                  /\ x.second = d.second
<1> DEFINE x == [d EXCEPT !.millisecond = v]
<1>1. U16(v) = v
  BY DEF U16, UpTo
<1>2. SetMillisecond(d, v) = {x}
  BY <1>1 DEF SetMillisecond
<1>3. Valid(x)
  BY <1>2, TimeSettersValid
<1>4. /\ x.year = d.year /\ x.month = d.month /\ x.day = d.day /\ x.hour = d.hour
      /\ x.minute = d.minute /\ x.second = d.second /\ x.millisecond = v
  BY DEF Valid, DateTimes
<1> HIDE DEF x
<1>5. SecondNumber(x) = SecondNumber(d)
  BY <1>4 DEF DayNumber, HourNumber, MinuteNumber, SecondNumber
<1> QED BY <1>2, <1>3, <1>4, <1>5

-----------------------------------------------------------------------------
(* Hours, minutes, seconds and milliseconds are added without loss.        *)
LEMMA DateHoursExact ==
    ASSUME NEW d, Valid(d), NEW n \in Int,
           \/ n >= 0
           \/ d.hour + Rem(n, 24) >= 0 /\ DayOfYear(d) + Quot(n, 24) > 0,
           HourNumber(d) + n < 24 * LastDay + 24
    PROVE  \E x : /\ DateAddHours(d, n) = {x} /\ Valid(x)
                  /\ HourNumber(x) = HourNumber(d) + n
                  /\ x.minute = d.minute /\ x.second = d.second
                  /\ x.millisecond = d.millisecond
<1> DEFINE sum == Rem(n, 24) + d.hour
<1>1. d.hour \in 0..23 /\ DayNumber(d) \in Int /\ DayOfYear(d) \in Nat /\ 1 <= DayOfYear(d)
      /\ LastDay \in Int /\ HourNumber(d) = 24 * DayNumber(d) + d.hour
  BY NumberTypes, DayInYear, YearStartTypes DEF LastDay, HourNumber
<1>2. CASE n = 0
  BY <1>1, <1>2 DEF DateAddHours
<1>3. CASE n # 0
  <2>1. Quot(n, 24) \in Int /\ Rem(n, 24) \in Int
    BY Division24
  <2>2. n >= 0 \/ d.hour + Rem(n, 24) >= 0
    OBVIOUS
  <2>3. PICK q \in Int, left \in 0..23 :
          /\ q = Quot(n, 24) + Carry(sum, 24) /\ left = Left(sum, 24)
          /\ 24 * q + left = n + d.hour
          /\ n >= 0 => q >= 0
          /\ q >= Quot(n, 24)
    <3>1. PICK v \in 0..23 : v = d.hour
      BY <1>1
    <3>2. n >= 0 \/ v + Rem(n, 24) >= 0
      BY <2>2, <3>1
    <3>3. LET s == Rem(n, 24) + v
              q == Quot(n, 24) + Carry(s, 24)
          IN  /\ q \in Int /\ Left(s, 24) \in 0..23 /\ 24 * q + Left(s, 24) = n + v
              /\ n >= 0 => q >= 0
              /\ q >= Quot(n, 24)
      BY <3>2, CarryForward24
    <3> QED BY <3>1, <3>3
  <2>4. q >= 0 \/ DayOfYear(d) + q > 0
    BY <1>1, <2>1, <2>3
  <2>5. DayNumber(d) + q <= LastDay
    BY <1>1, <2>3
  <2>6. PICK y : /\ DateAddDays(d, q) = {y}
                 /\ Valid(y) /\ TimeOf(y) = TimeOf(d)
                 /\ DayNumber(y) = DayNumber(d) + q
    BY <2>4, <2>5, DaysExact
  <2>7. /\ y.minute = d.minute /\ y.second = d.second
        /\ y.millisecond = d.millisecond
    BY <2>6 DEF TimeOf
  <2>8. PICK x : /\ SetHour(y, left) = {x} /\ Valid(x)
                 /\ DayNumber(x) = DayNumber(y) /\ x.hour = left
                 /\ x.minute = y.minute /\ x.second = y.second
                 /\ x.millisecond = y.millisecond
    BY <2>6, HourSet
  <2>9. DateAddHours(d, n) = {x}
    BY <1>3, <2>3, <2>6, <2>8 DEF DateAddHours
  <2>10. HourNumber(x) = HourNumber(d) + n
    <3>1. HourNumber(x) = 24 * (DayNumber(d) + q) + left
      BY <2>6, <2>8 DEF HourNumber
    <3> QED BY <1>1, <2>3, <3>1
  <2> QED BY <2>7, <2>8, <2>9, <2>10
<1> QED BY <1>2, <1>3

LEMMA DateMinutesExact ==
    ASSUME NEW d, Valid(d), NEW n \in Nat,
           MinuteNumber(d) + n < 60 * (24 * LastDay + 24)
    PROVE  \E x : /\ DateAddMinutes(d, n) = {x} /\ Valid(x)
                  /\ MinuteNumber(x) = MinuteNumber(d) + n
                  /\ x.second = d.second /\ x.millisecond = d.millisecond
<1> DEFINE sum == Rem(n, 60) + d.minute
<1>1. d.minute \in 0..59 /\ HourNumber(d) \in Int
      /\ LastDay \in Int /\ MinuteNumber(d) = 60 * HourNumber(d) + d.minute
  BY NumberTypes, YearStartTypes DEF LastDay, MinuteNumber
<1>2. CASE n = 0
  BY <1>1, <1>2 DEF DateAddMinutes
<1>3. CASE n # 0
  <2>1. PICK q \in Nat, left \in 0..59 :
          /\ q = Forward(Quot(n, 60) + Carry(sum, 60)) /\ left = Left(sum, 60)
          /\ 60 * q + left = n + d.minute
    <3>1. PICK v \in 0..59 : v = d.minute
      BY <1>1
    <3>2. LET s == Rem(n, 60) + v
              q == Forward(Quot(n, 60) + Carry(s, 60))
          IN  q \in Nat /\ Left(s, 60) \in 0..59 /\ 60 * q + Left(s, 60) = n + v
      BY CarryForward60
    <3> QED BY <3>1, <3>2
  <2>2. HourNumber(d) + q < 24 * LastDay + 24 /\ q \in Int /\ q >= 0
    BY <1>1, <2>1
  <2>3. PICK y : /\ DateAddHours(d, q) = {y} /\ Valid(y)
                 /\ HourNumber(y) = HourNumber(d) + q
                 /\ y.minute = d.minute /\ y.second = d.second
                 /\ y.millisecond = d.millisecond
    BY <2>2, DateHoursExact
  <2>4. PICK x : /\ SetMinute(y, left) = {x} /\ Valid(x)
                 /\ HourNumber(x) = HourNumber(y) /\ x.minute = left
                 /\ x.second = y.second /\ x.millisecond = y.millisecond
    BY <2>3, MinuteSet
  <2>5. DateAddMinutes(d, n) = {x}
    BY <1>3, <2>1, <2>3, <2>4 DEF DateAddMinutes
  <2>6. MinuteNumber(x) = MinuteNumber(d) + n
    <3>1. MinuteNumber(x) = 60 * (HourNumber(d) + q) + left
      BY <2>3, <2>4 DEF MinuteNumber
    <3> QED BY <1>1, <2>1, <3>1
  <2> QED BY <2>3, <2>4, <2>5, <2>6
<1> QED BY <1>2, <1>3

LEMMA DateSecondsExact ==
    ASSUME NEW d, Valid(d), NoLeapSecond(d), NEW n \in Nat,
           SecondNumber(d) + n < 60 * (60 * (24 * LastDay + 24))
    PROVE  \E x : /\ DateAddSeconds(d, n) = {x} /\ Valid(x) /\ NoLeapSecond(x)
                  /\ SecondNumber(x) = SecondNumber(d) + n
                  /\ x.millisecond = d.millisecond
<1> DEFINE sum == Rem(n, 60) + d.second
<1>1. d.second \in 0..59 /\ MinuteNumber(d) \in Int
      /\ LastDay \in Int /\ SecondNumber(d) = 60 * MinuteNumber(d) + d.second
  BY NumberTypes, YearStartTypes DEF LastDay, SecondNumber, NoLeapSecond
<1>2. CASE n = 0
  BY <1>1, <1>2 DEF DateAddSeconds
<1>3. CASE n # 0
  <2>1. PICK q \in Nat, left \in 0..59 :
          /\ q = Forward(Quot(n, 60) + Carry(sum, 60)) /\ left = Left(sum, 60)
          /\ 60 * q + left = n + d.second
    <3>1. PICK v \in 0..59 : v = d.second
      BY <1>1
    <3>2. LET s == Rem(n, 60) + v
              q == Forward(Quot(n, 60) + Carry(s, 60))
          IN  q \in Nat /\ Left(s, 60) \in 0..59 /\ 60 * q + Left(s, 60) = n + v
      BY CarryForward60
    <3> QED BY <3>1, <3>2
  <2>2. MinuteNumber(d) + q < 60 * (24 * LastDay + 24)
    BY <1>1, <2>1
  <2>3. PICK y : /\ DateAddMinutes(d, q) = {y} /\ Valid(y)
                 /\ MinuteNumber(y) = MinuteNumber(d) + q
                 /\ y.second = d.second /\ y.millisecond = d.millisecond
    BY <2>2, DateMinutesExact
  <2>4. PICK x : /\ SetSecond(y, left) = {x} /\ Valid(x)
                 /\ MinuteNumber(x) = MinuteNumber(y) /\ x.second = left
                 /\ x.millisecond = y.millisecond
    BY <2>3, SecondSet
  <2>5. DateAddSeconds(d, n) = {x}
    BY <1>3, <2>1, <2>3, <2>4 DEF DateAddSeconds
  <2>6. SecondNumber(x) = SecondNumber(d) + n
    <3>1. SecondNumber(x) = 60 * (MinuteNumber(d) + q) + left
      BY <2>3, <2>4 DEF SecondNumber
    <3> QED BY <1>1, <2>1, <3>1
  <2>7. NoLeapSecond(x)
    BY <2>4 DEF NoLeapSecond
  <2> QED BY <2>3, <2>4, <2>5, <2>6, <2>7
<1> QED BY <1>2, <1>3

LEMMA DateMillisecondsExact ==
    ASSUME NEW d, Valid(d), NoLeapSecond(d), NEW n \in Nat,
           MillisecondNumber(d) + n < 1000 * (60 * (60 * (24 * LastDay + 24)))
    PROVE  \E x : /\ DateAddMilliseconds(d, n) = {x} /\ Valid(x) /\ NoLeapSecond(x)
                  /\ MillisecondNumber(x) = MillisecondNumber(d) + n
<1> DEFINE sum == Rem(n, 1000) + d.millisecond
<1>1. d.millisecond \in UpTo(999) /\ d.millisecond \in Int /\ SecondNumber(d) \in Int
      /\ LastDay \in Int /\ MillisecondNumber(d) = 1000 * SecondNumber(d) + d.millisecond
  BY NumberTypes, YearStartTypes DEF LastDay, MillisecondNumber, UpTo
<1>2. CASE n = 0
  BY <1>1, <1>2 DEF DateAddMilliseconds
<1>3. CASE n # 0
  <2>1. PICK q \in Nat, left \in UpTo(999) :
          /\ q = Forward(Quot(n, 1000) + Carry(sum, 1000)) /\ left = Left(sum, 1000)
          /\ 1000 * q + left = n + d.millisecond
    <3>1. PICK v \in UpTo(999) : v = d.millisecond
      BY <1>1
    <3>2. LET s == Rem(n, 1000) + v
              q == Forward(Quot(n, 1000) + Carry(s, 1000))
          IN  q \in Nat /\ Left(s, 1000) \in UpTo(999) /\ 1000 * q + Left(s, 1000) = n + v
      BY CarryForward1000
    <3> QED BY <3>1, <3>2
  <2>2. left \in Int /\ 0 <= left
    BY DEF UpTo
  <2>3. SecondNumber(d) + q < 60 * (60 * (24 * LastDay + 24))
    BY <1>1, <2>2, <2>1
  <2>4. PICK y : /\ DateAddSeconds(d, q) = {y} /\ Valid(y) /\ NoLeapSecond(y)
                 /\ SecondNumber(y) = SecondNumber(d) + q
                 /\ y.millisecond = d.millisecond
    BY <2>3, DateSecondsExact
  <2>5. PICK x : /\ SetMillisecond(y, left) = {x} /\ Valid(x)
                 /\ SecondNumber(x) = SecondNumber(y) /\ x.millisecond = left
                 /\ x.second = y.second
    BY <2>4, MillisecondSet
  <2>6. DateAddMilliseconds(d, n) = {x}
    <3>1. DateAddMilliseconds(d, n) = UNION {SetMillisecond(w, left) : w \in DateAddSeconds(d, q)}
      BY <1>3, <2>1 DEF DateAddMilliseconds
    <3> QED BY <2>4, <2>5, <3>1
  <2>7. MillisecondNumber(x) = MillisecondNumber(d) + n
    <3>1. MillisecondNumber(x) = 1000 * (SecondNumber(d) + q) + left
      BY <2>4, <2>5 DEF MillisecondNumber
    <3>2. 1000 * (SecondNumber(d) + q) = 1000 * SecondNumber(d) + 1000 * q
      BY <1>1
    <3> QED BY <1>1, <2>2, <2>1, <3>1, <3>2
  <2>8. NoLeapSecond(x)
    BY <2>4, <2>5 DEF NoLeapSecond
  <2> QED BY <2>5, <2>6, <2>7, <2>8
<1> QED BY <1>2, <1>3

-----------------------------------------------------------------------------
(* Instants. Without a leap second the time of day is less than a day.     *)
LEMMA InstantFields ==
    ASSUME NEW d, Valid(d), NoLeapSecond(d)
    PROVE  /\ DayNumber(d) \in Int /\ MsOf(d) \in Int
           /\ 0 <= MsOf(d) /\ MsOf(d) < MsPerDay
           /\ Instant(d) = <<DayNumber(d), MsOf(d)>>
           /\ MillisecondNumber(d) = MsPerDay * DayNumber(d) + MsOf(d)
<1>1. /\ d.hour \in Int /\ 0 <= d.hour /\ d.hour <= 23
      /\ d.minute \in Int /\ 0 <= d.minute /\ d.minute <= 59
      /\ d.second \in Int /\ 0 <= d.second /\ d.second <= 59
      /\ d.millisecond \in Int /\ 0 <= d.millisecond /\ d.millisecond <= 999
      /\ DayNumber(d) \in Int
  BY NumberTypes DEF NoLeapSecond
<1>2. PICK h, m, s, f \in Int : h = d.hour /\ m = d.minute /\ s = d.second /\ f = d.millisecond
  BY <1>1
<1>3. MsOf(d) = 3600000 * h + 60000 * m + 1000 * s + f
  BY <1>2 DEF MsOf, MsPerHour, MsPerMin
<1>4. MsOf(d) \in Int /\ 0 <= MsOf(d) /\ MsOf(d) < 86400000
  BY <1>1, <1>2, <1>3
<1>5. MsOf(d) \div 86400000 = 0 /\ MsOf(d) % 86400000 = MsOf(d)
  BY <1>4
<1>6. Instant(d) = <<DayNumber(d), MsOf(d)>>
  BY <1>1, <1>5, DayInMs DEF Instant
<1>7. MillisecondNumber(d) = 86400000 * DayNumber(d) + MsOf(d)
  <2>1. MillisecondNumber(d) = 1000 * (60 * (60 * (24 * DayNumber(d) + h) + m) + s) + f
    BY <1>2 DEF MillisecondNumber, SecondNumber, MinuteNumber, HourNumber
  <2> QED BY <1>1, <1>3, <2>1
<1> QED BY <1>1, <1>4, <1>6, <1>7, DayInMs

(* An instant is determined by its number of milliseconds.                 *)
LEMMA LaterReached ==
    ASSUME NEW d, Valid(d), NoLeapSecond(d), NEW x, Valid(x), NoLeapSecond(x),
           NEW days \in Int, NEW ms \in Int,
           MillisecondNumber(x) = MillisecondNumber(d) + MsPerDay * days + ms
    PROVE  Instant(x) = Later(Instant(d), days, ms)
<1>1. PICK a, b, p, q \in Int :
        /\ a = DayNumber(d) /\ b = MsOf(d) /\ p = DayNumber(x) /\ q = MsOf(x)
        /\ 0 <= q /\ q < 86400000
        /\ Instant(d) = <<a, b>> /\ Instant(x) = <<p, q>>
        /\ MillisecondNumber(d) = 86400000 * a + b
        /\ MillisecondNumber(x) = 86400000 * p + q
  BY InstantFields, DayInMs
<1>2. b + ms = 86400000 * (p - a - days) + q
  <2>1. MsPerDay * days = 86400000 * days
    BY DayInMs
  <2>2. 86400000 * p + q = 86400000 * a + b + 86400000 * days + ms
    BY <1>1, <2>1
  <2> QED BY <1>1, <2>2
<1>3. PICK k \in Int : k = p - a - days
  BY <1>1
<1>4. (b + ms) \div 86400000 = k /\ (b + ms) % 86400000 = q
  BY <1>1, <1>2, <1>3
<1> QED BY <1>1, <1>3, <1>4, DayInMs DEF Later

LEMMA TargetInRange ==
    ASSUME NEW d, Valid(d), NoLeapSecond(d), NEW ms \in Int,
           Later(Instant(d), 0, ms)[1] <= LastDay
    PROVE  MillisecondNumber(d) + ms < 86400000 * (LastDay + 1)
<1>1. PICK a, b, c \in Int :
        /\ Instant(d) = <<a, b>> /\ MillisecondNumber(d) = 86400000 * a + b /\ c = LastDay
  BY InstantFields, DayInMs, YearStartTypes DEF LastDay
<1>2. a + 0 + (b + ms) \div 86400000 <= c
  BY <1>1, DayInMs DEF Later
<1>3. b + ms < 86400000 * ((b + ms) \div 86400000) + 86400000
  BY <1>1
<1> QED BY <1>1, <1>2, <1>3

LEMMA LastDate == DayNumber([year |-> 65535, month |-> 12, day |-> 31]) = LastDay
BY DEF DayNumber, LastDay, YearStart, CumulatedDays

LEMMA DaysWithin ==
    ASSUME NEW d, Valid(d)
    PROVE  DayNumber(d) <= LastDay
<1>1. PICK y \in Nat \ {0}, p \in Nat : /\ y = d.year /\ p = DayOfYear(d) /\ y <= 65535
                                        /\ p <= DaysInYear(y)
                                        /\ DayNumber(d) = YearStart(y) + p
  BY DayInYear
<1>2. YearStart(y) \in Int /\ DaysInYear(y) \in Nat
  BY YearStartTypes
<1>3. YearStart(y) + DaysInYear(y) <= LastDay /\ LastDay \in Int
  <2>1. 65536 \in Nat \ {0} /\ y < 65536
    BY <1>1
  <2>2. PICK z \in Nat \ {0} : z = 65536
    BY <2>1
  <2>3. YearStart(y) + DaysInYear(y) <= YearStart(z) /\ YearStart(z) \in Int
    BY <2>1, <2>2, YearsInOrder, YearStartTypes
  <2> QED BY <2>2, <2>3 DEF LastDay
<1> QED BY <1>1, <1>2, <1>3

(* Additions by the number of milliseconds they reach.                     *)
LEMMA NumberBounded ==
    ASSUME NEW d, Valid(d), NoLeapSecond(d)
    PROVE  /\ LastDay \in Int /\ MillisecondNumber(d) \in Int
           /\ MillisecondNumber(d) < 86400000 * (LastDay + 1)
<1>1. PICK p, x \in Int :
        /\ p = DayNumber(d) /\ x = MsOf(d) /\ 0 <= x /\ x < 86400000
        /\ MillisecondNumber(d) = 86400000 * p + x
  BY InstantFields, DayInMs
<1>2. p <= LastDay /\ LastDay \in Int
  BY <1>1, DaysWithin, YearStartTypes DEF LastDay
<1> QED BY <1>1, <1>2

LEMMA DaysReach ==
    ASSUME NEW d, Valid(d), NoLeapSecond(d), NEW n \in Nat,
           MillisecondNumber(d) + 86400000 * n < 86400000 * (LastDay + 1)
    PROVE  \E x : /\ DateAddDays(d, n) = {x} /\ Valid(x) /\ NoLeapSecond(x)
                  /\ MillisecondNumber(x) = MillisecondNumber(d) + 86400000 * n
<1>1. PICK p, z \in Int :
        /\ p = DayNumber(d) /\ z = MsOf(d) /\ 0 <= z /\ z < 86400000
        /\ MillisecondNumber(d) = 86400000 * p + z
  BY InstantFields, DayInMs
<1>2. LastDay \in Int
  BY NumberBounded
<1>3. DayNumber(d) + n <= LastDay
  BY <1>1, <1>2
<1>4. PICK x : /\ DateAddDays(d, n) = {x} /\ Valid(x) /\ TimeOf(x) = TimeOf(d)
               /\ DayNumber(x) = DayNumber(d) + n
  <2>1. n \in Int /\ n >= 0
    OBVIOUS
  <2> QED BY <1>3, <2>1, DaysExact
<1>5. /\ x.hour = d.hour /\ x.minute = d.minute /\ x.second = d.second
      /\ x.millisecond = d.millisecond
  BY <1>4 DEF TimeOf
<1>6. NoLeapSecond(x)
  BY <1>5 DEF NoLeapSecond
<1>7. MsOf(x) = z
  BY <1>1, <1>5 DEF MsOf
<1>8. MillisecondNumber(x) = 86400000 * (p + n) + z
  BY <1>1, <1>4, <1>6, <1>7, InstantFields, DayInMs
<1> QED BY <1>1, <1>4, <1>6, <1>8

LEMMA HoursReach ==
    ASSUME NEW d, Valid(d), NoLeapSecond(d), NEW n \in Int,
           \/ n >= 0
           \/ d.hour + Rem(n, 24) >= 0 /\ DayOfYear(d) + Quot(n, 24) > 0,
           MillisecondNumber(d) + 3600000 * n < 86400000 * (LastDay + 1)
    PROVE  \E x : /\ DateAddHours(d, n) = {x} /\ Valid(x) /\ NoLeapSecond(x)
                  /\ MillisecondNumber(x) = MillisecondNumber(d) + 3600000 * n
<1>1. PICK h, m, s, f, l \in Int :
        /\ h = HourNumber(d) /\ m = d.minute /\ s = d.second /\ f = d.millisecond
        /\ l = LastDay /\ 0 <= m /\ 0 <= s /\ 0 <= f
  <2>1. LastDay \in Int
    BY NumberBounded
  <2>2. /\ HourNumber(d) \in Int /\ d.minute \in 0..59 /\ d.second \in 0..61
        /\ d.millisecond \in Nat
    BY NumberTypes
  <2>3. PICK h, m, s \in Int :
          /\ h = HourNumber(d) /\ m = d.minute /\ s = d.second /\ 0 <= m /\ 0 <= s
    BY <2>2
  <2>4. PICK f, l \in Int : f = d.millisecond /\ l = LastDay /\ 0 <= f
    BY <2>1, <2>2
  <2> QED BY <2>3, <2>4
<1>2. MillisecondNumber(d) = 1000 * (60 * (60 * h + m) + s) + f
  BY <1>1 DEF MillisecondNumber, SecondNumber, MinuteNumber
<1>3. HourNumber(d) + n < 24 * LastDay + 24
  BY <1>1, <1>2
<1>4. PICK x : /\ DateAddHours(d, n) = {x} /\ Valid(x)
               /\ HourNumber(x) = HourNumber(d) + n
               /\ x.minute = d.minute /\ x.second = d.second
               /\ x.millisecond = d.millisecond
  BY <1>3, DateHoursExact
<1>5. NoLeapSecond(x)
  BY <1>4 DEF NoLeapSecond
<1>6. MillisecondNumber(x) = MillisecondNumber(d) + 3600000 * n
  <2>1. MillisecondNumber(x) = 1000 * (60 * (60 * (h + n) + m) + s) + f
    BY <1>1, <1>4 DEF MillisecondNumber, SecondNumber, MinuteNumber
  <2> QED BY <1>2, <2>1
<1> QED BY <1>4, <1>5, <1>6

LEMMA MinutesReach ==
    ASSUME NEW d, Valid(d), NoLeapSecond(d), NEW n \in Nat,
           MillisecondNumber(d) + 60000 * n < 86400000 * (LastDay + 1)
    PROVE  \E x : /\ DateAddMinutes(d, n) = {x} /\ Valid(x) /\ NoLeapSecond(x)
                  /\ MillisecondNumber(x) = MillisecondNumber(d) + 60000 * n
<1>1. PICK m, s, f, l \in Int :
        /\ m = MinuteNumber(d) /\ s = d.second /\ f = d.millisecond
        /\ l = LastDay /\ 0 <= s /\ 0 <= f
  <2>1. LastDay \in Int
    BY NumberBounded
  <2>2. MinuteNumber(d) \in Int /\ d.second \in 0..61 /\ d.millisecond \in Nat
    BY NumberTypes
  <2> QED BY <2>1, <2>2
<1>2. MillisecondNumber(d) = 1000 * (60 * m + s) + f
  BY <1>1 DEF MillisecondNumber, SecondNumber
<1>3. MinuteNumber(d) + n < 60 * (24 * LastDay + 24)
  BY <1>1, <1>2
<1>4. PICK x : /\ DateAddMinutes(d, n) = {x} /\ Valid(x)
               /\ MinuteNumber(x) = MinuteNumber(d) + n
               /\ x.second = d.second /\ x.millisecond = d.millisecond
  BY <1>3, DateMinutesExact
<1>5. NoLeapSecond(x)
  BY <1>4 DEF NoLeapSecond
<1>6. MillisecondNumber(x) = 1000 * (60 * (m + n) + s) + f
  BY <1>1, <1>4 DEF MillisecondNumber, SecondNumber
<1> QED BY <1>1, <1>2, <1>4, <1>5, <1>6

LEMMA SecondsReach ==
    ASSUME NEW d, Valid(d), NoLeapSecond(d), NEW n \in Nat,
           MillisecondNumber(d) + 1000 * n < 86400000 * (LastDay + 1)
    PROVE  \E x : /\ DateAddSeconds(d, n) = {x} /\ Valid(x) /\ NoLeapSecond(x)
                  /\ MillisecondNumber(x) = MillisecondNumber(d) + 1000 * n
<1>1. PICK s, f, l \in Int :
        /\ s = SecondNumber(d) /\ f = d.millisecond /\ l = LastDay /\ 0 <= f
  BY NumberBounded, NumberTypes
<1>2. MillisecondNumber(d) = 1000 * s + f
  BY <1>1 DEF MillisecondNumber
<1>3. SecondNumber(d) + n < 60 * (60 * (24 * LastDay + 24))
  BY <1>1, <1>2
<1>4. PICK x : /\ DateAddSeconds(d, n) = {x} /\ Valid(x) /\ NoLeapSecond(x)
               /\ SecondNumber(x) = SecondNumber(d) + n
               /\ x.millisecond = d.millisecond
  BY <1>3, DateSecondsExact
<1>5. MillisecondNumber(x) = 1000 * (s + n) + f
  BY <1>1, <1>4 DEF MillisecondNumber
<1> QED BY <1>1, <1>2, <1>4, <1>5

LEMMA MillisecondsReach ==
    ASSUME NEW d, Valid(d), NoLeapSecond(d), NEW n \in Nat,
           MillisecondNumber(d) + n < 86400000 * (LastDay + 1)
    PROVE  \E x : /\ DateAddMilliseconds(d, n) = {x} /\ Valid(x) /\ NoLeapSecond(x)
                  /\ MillisecondNumber(x) = MillisecondNumber(d) + n
<1>1. LastDay \in Int
  BY NumberBounded
<1>2. MillisecondNumber(d) + n < 1000 * (60 * (60 * (24 * LastDay + 24)))
  BY <1>1
<1> QED BY <1>2, DateMillisecondsExact

-----------------------------------------------------------------------------
(* What each of the operations that move the date does.                    *)

LEMMA DaysMoveDate ==
    ASSUME NEW n \in Int, AddDays(n)
    PROVE  LaterIsExact
<1>1. SUFFICES ASSUME Valid(date)
               PROVE  LaterIsExact
  BY SMT DEF LaterIsExact
<1>2. /\ last'.op = "days" /\ last'.n = n /\ last'.dateThrew = (DateAddDays(date, n) = {})
      /\ date' \in (IF DateAddDays(date, n) = {} THEN {date} ELSE DateAddDays(date, n))
  BY DEF AddDays, Call
<1> DEFINE target == Later(Instant(date), n, 0)
<1>3. SUFFICES ASSUME NoLeapSecond(date), n >= 0 \/ WithinYear("days", n), target[1] <= LastDay
               PROVE  ~last'.dateThrew /\ Instant(date') = target
  BY <1>2, LastDate DEF LaterIsExact
<1>4. /\ DayNumber(date) \in Int /\ MsOf(date) \in Int /\ 0 <= MsOf(date) /\ MsOf(date) < 86400000
      /\ Instant(date) = <<DayNumber(date), MsOf(date)>>
  BY <1>1, <1>3, InstantFields, DayInMs
<1>5. DayNumber(date) + n <= LastDay
  <2>1. (MsOf(date) + 0) \div 86400000 = 0
    BY <1>4
  <2>2. target[1] = DayNumber(date) + n + 0
    BY <1>4, <2>1, DayInMs DEF Later
  <2> QED BY <1>3, <1>4, <2>2
<1>6. n >= 0 \/ DayOfYear(date) + n > 0
  BY <1>3 DEF WithinYear
<1>7. PICK x : /\ DateAddDays(date, n) = {x}
               /\ Valid(x) /\ TimeOf(x) = TimeOf(date)
               /\ DayNumber(x) = DayNumber(date) + n
  BY <1>1, <1>5, <1>6, DaysExact
<1>8. /\ x.hour = date.hour /\ x.minute = date.minute /\ x.second = date.second
      /\ x.millisecond = date.millisecond
  BY <1>7 DEF TimeOf
<1>9. NoLeapSecond(x) /\ MsOf(x) = MsOf(date)
  BY <1>3, <1>8 DEF NoLeapSecond, MsOf
<1>10. MillisecondNumber(x) = MillisecondNumber(date) + MsPerDay * n + 0
  <2>1. MillisecondNumber(x) = 86400000 * DayNumber(x) + MsOf(x)
    BY <1>7, <1>9, InstantFields, DayInMs
  <2>2. MillisecondNumber(date) = 86400000 * DayNumber(date) + MsOf(date)
    BY <1>1, <1>3, InstantFields, DayInMs
  <2> QED BY <1>4, <1>7, <1>9, <2>1, <2>2, DayInMs
<1>11. Instant(x) = target
  <2>1. 0 \in Int
    OBVIOUS
  <2> QED BY <1>1, <1>3, <1>7, <1>9, <1>10, <2>1, LaterReached
<1>12. date' = x /\ ~last'.dateThrew
  BY <1>2, <1>7
<1> QED BY <1>11, <1>12

(* The smaller units: x is what the addition yields.                       *)
LEMMA SmallerMoves ==
    ASSUME Valid(date), NoLeapSecond(date), NEW ms \in Int, NEW x,
           Valid(x), NoLeapSecond(x), MillisecondNumber(x) = MillisecondNumber(date) + ms
    PROVE  Instant(x) = Later(Instant(date), 0, ms)
<1>1. Valid(date)
  OBVIOUS
<1>2. MillisecondNumber(date) \in Int
  BY NumberTypes
<1>3. PICK days \in Int : days = 0
  OBVIOUS
<1>4. MillisecondNumber(x) = MillisecondNumber(date) + MsPerDay * days + ms
  BY <1>2, <1>3, DayInMs
<1>5. Instant(x) = Later(Instant(date), days, ms)
  <2>1. ASSUME NEW d, Valid(d), NoLeapSecond(d),
               MillisecondNumber(x) = MillisecondNumber(d) + MsPerDay * days + ms
        PROVE  Instant(x) = Later(Instant(d), days, ms)
    BY <2>1, LaterReached
  <2> QED BY <1>1, <1>4, <2>1
<1> QED BY <1>3, <1>5

LEMMA HoursMoveDate ==
    ASSUME NEW n \in Int, AddHours(n)
    PROVE  LaterIsExact
<1>1. SUFFICES ASSUME Valid(date)
               PROVE  LaterIsExact
  BY SMT DEF LaterIsExact
<1>2. /\ last'.op = "hours" /\ last'.n = n /\ last'.dateThrew = (DateAddHours(date, n) = {})
      /\ date' \in (IF DateAddHours(date, n) = {} THEN {date} ELSE DateAddHours(date, n))
  BY DEF AddHours, Call
<1>3. PICK ms \in Int : ms = n * MsPer["hours"] /\ ms = 3600000 * n
  BY DEF MsPer, MsPerHour
<1> DEFINE target == Later(Instant(date), 0, ms)
<1>4. SUFFICES ASSUME NoLeapSecond(date), n >= 0 \/ WithinYear("hours", n), target[1] <= LastDay
               PROVE  ~last'.dateThrew /\ Instant(date') = target
  BY <1>2, <1>3, LastDate DEF LaterIsExact
<1>5. MillisecondNumber(date) + ms < 86400000 * (LastDay + 1)
  BY <1>1, <1>4, TargetInRange
<1>6. PICK x : /\ DateAddHours(date, n) = {x} /\ Valid(x) /\ NoLeapSecond(x)
               /\ MillisecondNumber(x) = MillisecondNumber(date) + ms
  <2>1. \/ n >= 0
        \/ date.hour + Rem(n, 24) >= 0 /\ DayOfYear(date) + Quot(n, 24) > 0
    BY <1>4 DEF WithinYear
  <2> QED BY <1>1, <1>3, <1>4, <1>5, <2>1, HoursReach
<1>7. Instant(x) = target
  BY <1>1, <1>4, <1>6, SmallerMoves
<1>8. date' = x /\ ~last'.dateThrew
  BY <1>2, <1>6
<1> QED BY <1>7, <1>8

LEMMA MinutesMoveDate ==
    ASSUME NEW n \in Int, AddMinutes(n)
    PROVE  LaterIsExact
<1>1. SUFFICES ASSUME Valid(date)
               PROVE  LaterIsExact
  BY SMT DEF LaterIsExact
<1>2. /\ last'.op = "minutes" /\ last'.n = n /\ last'.dateThrew = (DateAddMinutes(date, n) = {})
      /\ date' \in (IF DateAddMinutes(date, n) = {} THEN {date} ELSE DateAddMinutes(date, n))
  BY DEF AddMinutes, Call
<1>3. PICK ms \in Int : ms = n * MsPer["minutes"] /\ ms = 60000 * n
  BY DEF MsPer, MsPerMin
<1> DEFINE target == Later(Instant(date), 0, ms)
<1>4. SUFFICES ASSUME NoLeapSecond(date), n >= 0, target[1] <= LastDay
               PROVE  ~last'.dateThrew /\ Instant(date') = target
  BY <1>2, <1>3, LastDate DEF LaterIsExact, WithinYear
<1>5. MillisecondNumber(date) + ms < 86400000 * (LastDay + 1)
  BY <1>1, <1>4, TargetInRange
<1>6. PICK x : /\ DateAddMinutes(date, n) = {x} /\ Valid(x) /\ NoLeapSecond(x)
               /\ MillisecondNumber(x) = MillisecondNumber(date) + ms
  <2>1. n \in Nat
    BY <1>4
  <2> QED BY <1>1, <1>3, <1>4, <1>5, <2>1, MinutesReach
<1>7. Instant(x) = target
  BY <1>1, <1>4, <1>6, SmallerMoves
<1>8. date' = x /\ ~last'.dateThrew
  BY <1>2, <1>6
<1> QED BY <1>7, <1>8

LEMMA SecondsMoveDate ==
    ASSUME NEW n \in Int, AddSeconds(n)
    PROVE  LaterIsExact
<1>1. SUFFICES ASSUME Valid(date)
               PROVE  LaterIsExact
  BY SMT DEF LaterIsExact
<1>2. /\ last'.op = "seconds" /\ last'.n = n /\ last'.dateThrew = (DateAddSeconds(date, n) = {})
      /\ date' \in (IF DateAddSeconds(date, n) = {} THEN {date} ELSE DateAddSeconds(date, n))
  BY DEF AddSeconds, Call
<1>3. PICK ms \in Int : ms = n * MsPer["seconds"] /\ ms = 1000 * n
  BY DEF MsPer
<1> DEFINE target == Later(Instant(date), 0, ms)
<1>4. SUFFICES ASSUME NoLeapSecond(date), n >= 0, target[1] <= LastDay
               PROVE  ~last'.dateThrew /\ Instant(date') = target
  BY <1>2, <1>3, LastDate DEF LaterIsExact, WithinYear
<1>5. MillisecondNumber(date) + ms < 86400000 * (LastDay + 1)
  BY <1>1, <1>4, TargetInRange
<1>6. PICK x : /\ DateAddSeconds(date, n) = {x} /\ Valid(x) /\ NoLeapSecond(x)
               /\ MillisecondNumber(x) = MillisecondNumber(date) + ms
  <2>1. n \in Nat
    BY <1>4
  <2> QED BY <1>1, <1>3, <1>4, <1>5, <2>1, SecondsReach
<1>7. Instant(x) = target
  BY <1>1, <1>4, <1>6, SmallerMoves
<1>8. date' = x /\ ~last'.dateThrew
  BY <1>2, <1>6
<1> QED BY <1>7, <1>8

LEMMA MillisecondsMoveDate ==
    ASSUME NEW n \in Int, AddMilliseconds(n)
    PROVE  LaterIsExact
<1>1. SUFFICES ASSUME Valid(date)
               PROVE  LaterIsExact
  BY SMT DEF LaterIsExact
<1>2. /\ last'.op = "milliseconds" /\ last'.n = n
      /\ last'.dateThrew = (DateAddMilliseconds(date, n) = {})
      /\ date' \in (IF DateAddMilliseconds(date, n) = {} THEN {date} ELSE DateAddMilliseconds(date, n))
  BY DEF AddMilliseconds, Call
<1>3. n * MsPer["milliseconds"] = n
  BY DEF MsPer
<1> DEFINE target == Later(Instant(date), 0, n)
<1>4. SUFFICES ASSUME NoLeapSecond(date), n >= 0, target[1] <= LastDay
               PROVE  ~last'.dateThrew /\ Instant(date') = target
  BY <1>2, <1>3, LastDate DEF LaterIsExact, WithinYear
<1>5. MillisecondNumber(date) + n < 86400000 * (LastDay + 1)
  BY <1>1, <1>4, TargetInRange
<1>6. PICK x : /\ DateAddMilliseconds(date, n) = {x} /\ Valid(x) /\ NoLeapSecond(x)
               /\ MillisecondNumber(x) = MillisecondNumber(date) + n
  <2>1. n \in Nat
    BY <1>4
  <2> QED BY <1>1, <1>3, <1>4, <1>5, <2>1, MillisecondsReach
<1>7. Instant(x) = target
  BY <1>1, <1>4, <1>6, SmallerMoves
<1>8. date' = x /\ ~last'.dateThrew
  BY <1>2, <1>6
<1> QED BY <1>7, <1>8

-----------------------------------------------------------------------------
(* Months.                                                                 *)
LEMMA Division12 ==
    ASSUME NEW a \in Int
    PROVE  /\ Quot(a, 12) \in Int /\ Rem(a, 12) \in Int
           /\ a = 12 * Quot(a, 12) + Rem(a, 12)
           /\ -12 < Rem(a, 12) /\ Rem(a, 12) < 12
BY DEF Quot, Rem

(* A sum that add_months() does not refuse leaves a month between January  *)
(* and November.                                                           *)
LEMMA MonthLeft ==
    ASSUME NEW r \in Int, -12 < r, r < 12, NEW m \in 1..12,
           U8(Left(r + m, 12)) \in FromOne(12)
    PROVE  /\ Left(r + m, 12) \in 1..11
           /\ 12 * Carry(r + m, 12) + Left(r + m, 12) = r + m
           /\ Carry(r + m, 12) \in Int
<1>1. CASE r + m < 0
  <2>1. Left(r + m, 12) = 12 - (r + m)
    BY <1>1 DEF Left
  <2>2. U8(Left(r + m, 12)) = 12 - (r + m)
    BY <1>1, <2>1 DEF U8
  <2> QED BY <1>1, <2>2 DEF FromOne, UpTo
<1>2. CASE 0 <= r + m /\ r + m < 12
  <2>1. Left(r + m, 12) = r + m /\ Carry(r + m, 12) = 0
    BY <1>2 DEF Left, Carry
  <2>2. U8(Left(r + m, 12)) = r + m
    BY <1>2, <2>1 DEF U8
  <2> QED BY <1>2, <2>1, <2>2 DEF FromOne, UpTo
<1>3. CASE 12 <= r + m
  <2>1. (r + m) % 12 = r + m - 12
    BY <1>3
  <2>2. Left(r + m, 12) = r + m - 12 /\ Carry(r + m, 12) = 1
    BY <1>3, <2>1 DEF Left, Carry
  <2>3. U8(Left(r + m, 12)) = r + m - 12
    BY <1>3, <2>2 DEF U8
  <2> QED BY <1>3, <2>2, <2>3 DEF FromOne, UpTo
<1> QED BY <1>1, <1>2, <1>3

LEMMA YearsAdded ==
    ASSUME NEW d, Valid(d), NEW q \in Int, d.year + q \in FromOne(65535)
    PROVE  \E x : /\ DateAddYears(d, q) = {x}
                  /\ Valid(x) /\ x.year = d.year + q /\ TimeOf(x) = TimeOf(d)
                  /\ x.day = IF ValidDate(x.year, d.month, d.day) THEN d.day ELSE 1
                  /\ x = InYear(d, d.year + q)
<1>1. CASE q = 0
  <2>1. d.year \in FromOne(65535) /\ d.year + q = d.year
    BY <1>1, DayInYear DEF FromOne, UpTo
  <2>2. PICK n \in FromOne(65535) : n = d.year
    BY <2>1
  <2>3. InYear(d, n) = d
    BY <2>2, YearSet
  <2>4. InYear(d, d.year + q) = d
    BY <2>1, <2>2, <2>3
  <2>5. DateAddYears(d, q) = {d}
    BY <1>1 DEF DateAddYears
  <2>6. ValidDate(d.year, d.month, d.day)
    BY DEF Valid
  <2> QED BY <2>1, <2>4, <2>5, <2>6
<1>2. CASE q # 0
  <2>1. PICK n \in FromOne(65535) : n = d.year + q
    OBVIOUS
  <2>2. \E x : /\ SetYear(d, n) = {x}
               /\ Valid(x) /\ x.year = n /\ TimeOf(x) = TimeOf(d)
               /\ x.day = IF ValidDate(n, d.month, d.day) THEN d.day ELSE 1
               /\ x = InYear(d, n)
    BY YearSet
  <2> QED BY <1>2, <2>1, <2>2 DEF DateAddYears
<1> QED BY <1>1, <1>2

(* The months of the years 1 to 65535, counted from the year 0.            *)
MonthFits(month) == 12 < month /\ month <= 12 * 65536

(* The day is kept where the two checks of it, on the way, let it stay.    *)
DayReached(d, w) ==
    IF ValidDate(w.year, d.month, d.day) /\ d.day <= DaysInMonth(w.year, w.month)
    THEN d.day ELSE 1

LEMMA MonthsExact ==
    ASSUME NEW d, Valid(d), NEW n \in Int, NEW w \in DateAddMonths(d, n),
           MonthFits(12 * d.year + d.month + n)
    PROVE  /\ 12 * w.year + w.month = 12 * d.year + d.month + n
           /\ w.day = DayReached(d, w)
           /\ TimeOf(w) = TimeOf(d)
<1>1. PICK y \in Nat, m \in 1..12 : y = d.year /\ m = d.month
  BY ValidFields DEF FromOne, UpTo
<1>2. CASE n = 0
  <2>1. w = d
    BY <1>2 DEF DateAddMonths
  <2>2. d.day = DayReached(d, d)
    BY ValidFields DEF DayReached, Valid
  <2> QED BY <1>1, <1>2, <2>1, <2>2
<1>3. CASE n # 0
  <2>1. PICK q \in Int, r \in Int : /\ q = Quot(n, 12) /\ r = Rem(n, 12)
                                    /\ n = 12 * q + r /\ -12 < r /\ r < 12
    <3>1. /\ Quot(n, 12) \in Int /\ Rem(n, 12) \in Int
          /\ n = 12 * Quot(n, 12) + Rem(n, 12)
          /\ -12 < Rem(n, 12) /\ Rem(n, 12) < 12
      BY Division12
    <3> QED BY <3>1
  <2>2. PICK x \in DateAddYears(d, q + Carry(r + m, 12)) : w \in SetMonth(x, Left(r + m, 12))
    BY <1>1, <1>3, <2>1 DEF DateAddMonths
  <2>3. U8(Left(r + m, 12)) \in FromOne(12)
    BY <2>2 DEF SetMonth
  <2>4. PICK left \in 1..11, carry \in Int :
          left = Left(r + m, 12) /\ carry = Carry(r + m, 12) /\ 12 * carry + left = r + m
    BY <2>1, <2>3, MonthLeft
  <2>5. 12 * (y + (q + carry)) + left = 12 * d.year + d.month + n
    BY <1>1, <2>1, <2>4
  <2>6. PICK k \in Int : k = q + carry /\ y + k \in Nat /\ 1 <= y + k /\ y + k <= 65535
    BY <2>4, <2>5 DEF MonthFits
  <2>7. d.year + k \in FromOne(65535)
    BY <1>1, <2>6 DEF FromOne, UpTo
  <2>8. PICK v : /\ DateAddYears(d, k) = {v}
                 /\ Valid(v) /\ v.year = d.year + k /\ TimeOf(v) = TimeOf(d)
                 /\ v.day = IF ValidDate(v.year, d.month, d.day) THEN d.day ELSE 1
    BY <2>7, YearsAdded
  <2>9. x = v
    BY <2>2, <2>4, <2>6, <2>8
  <2>10. PICK u : /\ SetMonth(v, left) = {u}
                  /\ Valid(u) /\ u.year = v.year /\ u.month = left /\ TimeOf(u) = TimeOf(v)
                  /\ u.day = IF v.day > DaysInMonth(v.year, left) THEN 1 ELSE v.day
    <3>1. PICK j \in 1..12 : j = left
      OBVIOUS
    <3>2. \E u : /\ SetMonth(v, j) = {u}
                 /\ Valid(u) /\ u.year = v.year /\ u.month = j /\ TimeOf(u) = TimeOf(v)
                 /\ u.day = IF v.day > DaysInMonth(v.year, j) THEN 1 ELSE v.day
      <4>1. Valid(v)
        BY <2>8
      <4> QED BY <4>1, MonthSet
    <3> QED BY <3>1, <3>2
  <2>11. w = u
    BY <2>2, <2>4, <2>9, <2>10
  <2>12. w.year = y + k /\ w.month = left /\ w.year = v.year
    BY <1>1, <2>8, <2>10, <2>11
  <2>13. 12 * w.year + w.month = 12 * d.year + d.month + n
    BY <2>5, <2>6, <2>12
  <2>14. w.day = DayReached(d, w)
    <3>1. PICK a, b \in Int : a = d.day /\ b = DaysInMonth(v.year, left)
      <4>1. d.day \in Int
        BY ValidFields DEF FromOne, UpTo
      <4>2. left \in FromOne(12)
        BY DEF FromOne, UpTo
      <4>3. DaysInMonth(v.year, left) \in Int
        BY <4>2, MonthLength
      <4> QED BY <4>1, <4>3
    <3>2. w.day = IF v.day > b THEN 1 ELSE v.day
      BY <2>10, <2>11, <3>1
    <3>3. v.day = IF ValidDate(v.year, d.month, d.day) THEN a ELSE 1
      BY <2>8, <3>1
    <3>4. DayReached(d, w) = IF ValidDate(v.year, d.month, d.day) /\ a <= b THEN a ELSE 1
      BY <2>12, <3>1 DEF DayReached
    <3> QED BY <3>1, <3>2, <3>3, <3>4
  <2> QED BY <2>8, <2>10, <2>11, <2>13, <2>14
<1> QED BY <1>2, <1>3

IsDecember(month) == month % 12 = 0

LEMMA Decembers == \A c \in Nat : IsDecember(12 * c)
BY DEF IsDecember

LEMMA NaturalDivision12 ==
    ASSUME NEW n \in Nat
    PROVE  /\ Quot(n, 12) \in Nat /\ Rem(n, 12) \in 0..11
           /\ n = 12 * Quot(n, 12) + Rem(n, 12)
BY DEF Quot, Rem

(* Forwards, every month but a December is reached.                        *)
LEMMA MonthsReached ==
    ASSUME NEW d, Valid(d), NEW n \in Nat,
           MonthFits(12 * d.year + d.month + n), ~IsDecember(12 * d.year + d.month + n)
    PROVE  DateAddMonths(d, n) # {}
<1>1. PICK y \in Nat, m \in 1..12 : y = d.year /\ m = d.month
  BY ValidFields DEF FromOne, UpTo
<1>2. CASE n = 0
  BY <1>2 DEF DateAddMonths
<1>3. CASE n # 0
  <2>1. PICK q \in Nat, r \in 0..11 : q = Quot(n, 12) /\ r = Rem(n, 12) /\ n = 12 * q + r
    <3>1. /\ Quot(n, 12) \in Nat /\ Rem(n, 12) \in 0..11
          /\ n = 12 * Quot(n, 12) + Rem(n, 12)
      BY NaturalDivision12
    <3> QED BY <3>1
  <2>2. r + m # 12
    <3>1. SUFFICES ASSUME r + m = 12
                   PROVE  FALSE
      OBVIOUS
    <3>2. 12 * d.year + d.month + n = 12 * (y + q + 1)
      BY <1>1, <2>1, <3>1
    <3>3. PICK c \in Nat : c = y + q + 1
      OBVIOUS
    <3> QED BY <3>2, <3>3, Decembers
  <2>3. PICK left \in 1..11, carry \in 0..1 :
          left = Left(r + m, 12) /\ carry = Carry(r + m, 12) /\ 12 * carry + left = r + m
    <3>1. CASE r + m < 12
      BY <3>1 DEF Left, Carry
    <3>2. CASE 12 < r + m
      <4>1. (r + m) % 12 = r + m - 12
        BY <3>2
      <4>2. Left(r + m, 12) = r + m - 12 /\ Carry(r + m, 12) = 1
        BY <3>2, <4>1 DEF Left, Carry
      <4> QED BY <3>2, <4>2
    <3> QED BY <2>2, <3>1, <3>2
  <2>4. PICK k \in Int : k = q + carry /\ d.year + k \in FromOne(65535)
    <3>1. 12 * (y + (q + carry)) + left = 12 * d.year + d.month + n
      BY <1>1, <2>1, <2>3
    <3>2. PICK k \in Int : k = q + carry /\ y + k \in Nat
      BY <2>1, <2>3
    <3>3. MonthFits(12 * (y + k) + left)
      BY <3>1, <3>2
    <3>4. 1 <= y + k /\ y + k <= 65535
      BY <3>2, <3>3 DEF MonthFits
    <3> QED BY <1>1, <3>2, <3>4 DEF FromOne, UpTo
  <2>5. PICK v : DateAddYears(d, k) = {v} /\ Valid(v)
    BY <2>4, YearsAdded
  <2>6. PICK j \in 1..12 : j = left
    OBVIOUS
  <2>7. PICK u : SetMonth(v, j) = {u}
    <3>1. \E u : /\ SetMonth(v, j) = {u}
                 /\ Valid(u) /\ u.year = v.year /\ u.month = j /\ TimeOf(u) = TimeOf(v)
                 /\ u.day = IF v.day > DaysInMonth(v.year, j) THEN 1 ELSE v.day
      <4>1. Valid(v)
        BY <2>5
      <4> QED BY <4>1, MonthSet
    <3> QED BY <3>1
  <2>8. u \in UNION {SetMonth(x, left) : x \in DateAddYears(d, k)}
    BY <2>5, <2>6, <2>7
  <2>9. DateAddMonths(d, n) = UNION {SetMonth(x, left) : x \in DateAddYears(d, k)}
    <3>1. DateAddMonths(d, n) =
            UNION {SetMonth(x, Left(Rem(n, 12) + d.month, 12)) :
                     x \in DateAddYears(d, Quot(n, 12) + Carry(Rem(n, 12) + d.month, 12))}
      BY <1>3 DEF DateAddMonths
    <3>2. Rem(n, 12) + d.month = r + m
      BY <1>1, <2>1
    <3>3. Left(Rem(n, 12) + d.month, 12) = left
      BY <2>3, <3>2
    <3>4. Quot(n, 12) + Carry(Rem(n, 12) + d.month, 12) = k
      <4>1. Quot(n, 12) = q /\ Carry(Rem(n, 12) + d.month, 12) = carry
        BY <2>1, <2>3, <3>2, Zenon
      <4>2. q + carry = k
        BY <2>4
      <4> QED BY <4>1, <4>2, Zenon
    <3> QED BY <3>1, <3>3, <3>4, Zenon
  <2> QED BY <2>8, <2>9
<1> QED BY <1>2, <1>3

LEMMA MonthsMoveDate ==
    ASSUME NEW n \in Int, AddMonths(n)
    PROVE  MonthsAreExact
<1>1. /\ last'.op = "months" /\ last'.n = n /\ last'.dateThrew = (DateAddMonths(date, n) = {})
      /\ date' \in (IF DateAddMonths(date, n) = {} THEN {date} ELSE DateAddMonths(date, n))
  BY DEF AddMonths, Call
<1> DEFINE month == 12 * date.year + date.month + n
<1>2. SUFFICES ASSUME Valid(date), MonthFits(month)
               PROVE  /\ last'.dateThrew => n < 0 \/ month % 12 = 0
                      /\ ~last'.dateThrew =>
                           /\ 12 * date'.year + date'.month = month
                           /\ date'.day = DayReached(date, date')
                           /\ TimeOf(date') = TimeOf(date)
  BY <1>1, SMT DEF MonthsAreExact, MonthFits, DayIsKept, DayReached
<1>3. ASSUME last'.dateThrew
      PROVE  n < 0 \/ month % 12 = 0
  <2>1. DateAddMonths(date, n) = {}
    BY <1>1, <1>3
  <2>2. n < 0 \/ n \in Nat
    OBVIOUS
  <2> QED BY <1>2, <2>1, <2>2, MonthsReached DEF IsDecember
<1>4. ASSUME ~last'.dateThrew
      PROVE  /\ 12 * date'.year + date'.month = month
             /\ date'.day = DayReached(date, date')
             /\ TimeOf(date') = TimeOf(date)
  <2>1. PICK w \in DateAddMonths(date, n) : date' = w
    BY <1>1, <1>4
  <2>2. /\ 12 * w.year + w.month = month
        /\ w.day = DayReached(date, w)
        /\ TimeOf(w) = TimeOf(date)
    BY <1>2, MonthsExact
  <2> QED BY <2>1, <2>2
<1> QED BY <1>3, <1>4

LEMMA YearsMoveDate ==
    ASSUME NEW n \in Int, AddYears(n)
    PROVE  YearsAreExact
<1>1. /\ last'.op = "years" /\ last'.n = n /\ last'.dateThrew = (DateAddYears(date, n) = {})
      /\ date' \in (IF DateAddYears(date, n) = {} THEN {date} ELSE DateAddYears(date, n))
  BY DEF AddYears, Call
<1> DEFINE year == date.year + n
<1>2. SUFFICES ASSUME Valid(date), 0 < year, year <= 65535
               PROVE  ~last'.dateThrew /\ date' = InYear(date, year)
  <2>1. InYear(date, year) = IF ValidDate(year, date.month, date.day)
                             THEN [date EXCEPT !.year = year]
                             ELSE [date EXCEPT !.year = year, !.month = 1, !.day = 1]
    BY DEF InYear
  <2> HIDE DEF year
  <2>3. YearsAreExact <=>
          (0 < year /\ year <= 65535 /\ Valid(date) =>
             ~last'.dateThrew
             /\ date' = IF ValidDate(year, date.month, date.day)
                         THEN [date EXCEPT !.year = year]
                         ELSE [date EXCEPT !.year = year, !.month = 1, !.day = 1])
    BY <1>1 DEF YearsAreExact, year
  <2> QED BY <2>1, <2>3
<1>3. year \in FromOne(65535)
  <2>1. date.year \in Int
    BY <1>2, DayInYear
  <2> QED BY <1>2, <2>1 DEF FromOne, UpTo
<1>4. DateAddYears(date, n) = {InYear(date, year)}
  BY <1>2, <1>3, YearsAdded
<1> QED BY <1>1, <1>4

(* An operation is only bound by what is said of its unit.                 *)
LEMMA OfItsUnit ==
    ASSUME NEW op, NEW n, NEW ds, NEW cs, Call(op, n, ds, cs)
    PROVE  /\ op \notin DOMAIN MsPer \cup {"days"} => LaterIsExact
           /\ op # "years" => YearsAreExact
           /\ op # "months" => MonthsAreExact
<1>1. last'.op = op
  BY DEF Call
<1>2. op \notin DOMAIN MsPer \cup {"days"} => LaterIsExact
  BY <1>1, SMT DEF LaterIsExact
<1>3. op # "years" => YearsAreExact
  BY <1>1, SMT DEF YearsAreExact
<1>4. op # "months" => MonthsAreExact
  BY <1>1, SMT DEF MonthsAreExact
<1> QED BY <1>2, <1>3, <1>4

StepIsExact == LaterIsExact /\ YearsAreExact /\ MonthsAreExact

(* The operations that add no amount of a unit.                            *)
LEMMA OthersMoveDate ==
    ASSUME NEW op \in {"add", "subtract", "addTime", "subtractTime", "set", "assign"},
           NEW n, NEW ds, NEW cs, Call(op, n, ds, cs)
    PROVE  StepIsExact
<1>1. op \notin DOMAIN MsPer \cup {"days"} /\ op # "years" /\ op # "months"
  BY DEF MsPer
<1> QED BY <1>1, OfItsUnit DEF StepIsExact

(* The operations that add an amount of a unit as long as any other of it. *)
LEMMA UnitsMoveDate ==
    ASSUME NEW op \in {"days", "hours", "minutes", "seconds", "milliseconds"},
           NEW n, NEW ds, NEW cs, Call(op, n, ds, cs), LaterIsExact
    PROVE  StepIsExact
<1>1. op # "years" /\ op # "months"
  OBVIOUS
<1> QED BY <1>1, OfItsUnit DEF StepIsExact

LEMMA StepAdds == [Next]_vars => [LaterIsExact /\ YearsAreExact /\ MonthsAreExact]_vars
<1> SUFFICES ASSUME Next PROVE StepIsExact
  BY DEF StepIsExact
<1>0. \A unit \in Units : Amounts[unit] \subseteq Int
  BY CalendarAssumption DEF CalendarAssumption
<1>1. ASSUME NEW n \in Amounts["years"], AddYears(n) PROVE StepIsExact
  <2>1. n \in Int
    BY <1>0 DEF Units
  <2>2. YearsAreExact
    BY <1>1, <2>1, YearsMoveDate
  <2>3. LaterIsExact /\ MonthsAreExact
    BY <1>1, OfItsUnit DEF AddYears, MsPer
  <2> QED BY <2>2, <2>3 DEF StepIsExact
<1>2. ASSUME NEW n \in Amounts["months"], AddMonths(n) PROVE StepIsExact
  <2>1. n \in Int
    BY <1>0 DEF Units
  <2>2. MonthsAreExact
    BY <1>2, <2>1, MonthsMoveDate
  <2>3. LaterIsExact /\ YearsAreExact
    BY <1>2, OfItsUnit DEF AddMonths, MsPer
  <2> QED BY <2>2, <2>3 DEF StepIsExact
<1>3. ASSUME NEW n \in Amounts["days"], AddDays(n) PROVE StepIsExact
  <2>1. n \in Int
    BY <1>0 DEF Units
  <2>2. LaterIsExact
    BY <1>3, <2>1, DaysMoveDate
  <2> QED BY <1>3, <2>2, UnitsMoveDate DEF AddDays
<1>4. ASSUME NEW n \in Amounts["hours"], AddHours(n) PROVE StepIsExact
  <2>1. n \in Int
    BY <1>0 DEF Units
  <2>2. LaterIsExact
    BY <1>4, <2>1, HoursMoveDate
  <2> QED BY <1>4, <2>2, UnitsMoveDate DEF AddHours
<1>5. ASSUME NEW n \in Amounts["minutes"], AddMinutes(n) PROVE StepIsExact
  <2>1. n \in Int
    BY <1>0 DEF Units
  <2>2. LaterIsExact
    BY <1>5, <2>1, MinutesMoveDate
  <2> QED BY <1>5, <2>2, UnitsMoveDate DEF AddMinutes
<1>6. ASSUME NEW n \in Amounts["seconds"], AddSeconds(n) PROVE StepIsExact
  <2>1. n \in Int
    BY <1>0 DEF Units
  <2>2. LaterIsExact
    BY <1>6, <2>1, SecondsMoveDate
  <2> QED BY <1>6, <2>2, UnitsMoveDate DEF AddSeconds
<1>7. ASSUME NEW n \in Amounts["milliseconds"], AddMilliseconds(n) PROVE StepIsExact
  <2>1. n \in Int
    BY <1>0 DEF Units
  <2>2. LaterIsExact
    BY <1>7, <2>1, MillisecondsMoveDate
  <2> QED BY <1>7, <2>2, UnitsMoveDate DEF AddMilliseconds
<1>8. ASSUME NEW n \in Fields["year"], ChangeYear(n) PROVE StepIsExact
  BY <1>8, OthersMoveDate DEF ChangeYear
<1>9. ASSUME NEW n \in Fields["month"], ChangeMonth(n) PROVE StepIsExact
  BY <1>9, OthersMoveDate DEF ChangeMonth
<1>10. ASSUME NEW n \in Fields["day"], ChangeDay(n) PROVE StepIsExact
  BY <1>10, OthersMoveDate DEF ChangeDay
<1>11. ASSUME NEW n \in Fields["dayOfYear"], ChangeDayOfYear(n) PROVE StepIsExact
  BY <1>11, OthersMoveDate DEF ChangeDayOfYear
<1>12. CASE AddSpan
  BY <1>12, OthersMoveDate DEF AddSpan
<1>13. CASE SubtractSpan
  BY <1>13, OthersMoveDate DEF SubtractSpan
<1>14. CASE AddClock
  BY <1>14, OthersMoveDate DEF AddClock
<1>15. CASE SubtractClock
  BY <1>15, OthersMoveDate DEF SubtractClock
<1>16. ASSUME NEW f \in Starts, Assign(f) PROVE StepIsExact
  BY <1>16, OthersMoveDate DEF Assign
<1>17. ASSUME NEW f \in Starts, AssignDate(f) PROVE StepIsExact
  BY <1>17, OthersMoveDate DEF AssignDate
<1> QED
  BY <1>1, <1>2, <1>3, <1>4, <1>5, <1>6, <1>7, <1>8, <1>9, <1>10, <1>11, <1>12, <1>13, <1>14, <1>15,
     <1>16, <1>17 DEF Next

(* Of a date of the calendar, up to the last year, and for every amount:   *)
(* adding days, hours, minutes, seconds or milliseconds, and going back by *)
(* days and by hours that borrow no day within the year, yields that       *)
(* instant; add_years() and add_months() the year and the month, except a  *)
(* December and some of the months back, which are refused, and the day by *)
(* the rule that resets it.                                                *)
THEOREM AdditionStaysExact == Spec => AdditionIsExact
BY StepAdds, PTL DEF Spec, AdditionIsExact

-----------------------------------------------------------------------------
(* Comparison.                                                             *)

(* The first field in which two of them differ decides.                    *)
LEMMA FirstDifference ==
    ASSUME NEW a, NEW b, DOMAIN a \subseteq Nat
    PROVE  \/ (\A i \in DOMAIN a : a[i] = b[i]) /\ CompareFields(a, b) = 0
           \/ \E i \in DOMAIN a :
                /\ a[i] # b[i] /\ \A j \in DOMAIN a : j < i => a[j] = b[j]
                /\ CompareFields(a, b) = IF a[i] < b[i] THEN -1 ELSE 1
<1> DEFINE differ == {i \in DOMAIN a : a[i] # b[i]}
           first == CHOOSE i \in differ : \A j \in differ : i <= j
<1>1. CompareFields(a, b) = IF differ = {} THEN 0 ELSE IF a[first] < b[first] THEN -1 ELSE 1
  BY DEF CompareFields
<1>2. CASE differ = {}
  BY <1>1, <1>2
<1>3. CASE differ # {}
  <2>1. \E i \in differ : \A j \in differ : i <= j
    <3>1. differ \in SUBSET Nat
      OBVIOUS
    <3> HIDE DEF differ
    <3> QED BY <1>3, <3>1, LeastMember
  <2>2. first \in differ /\ \A j \in differ : first <= j
    BY <2>1
  <2> HIDE DEF first
  <2>3. \A j \in DOMAIN a : j < first => a[j] = b[j]
    BY <2>2
  <2> QED BY <1>1, <1>3, <2>2, <2>3
<1> QED BY <1>2, <1>3

(* The months of a year and their days come in order.                      *)
LEMMA MonthsInOrder ==
    ASSUME NEW y \in Nat, NEW m \in 1..12, NEW k \in 1..12, m < k
    PROVE  CumulatedTo(y, m) <= CumulatedTo(y, k - 1)
<1>1. m \in {1, 2, 3, 4, 5, 6, 7, 8, 9, 10, 11, 12} /\ k \in {1, 2, 3, 4, 5, 6, 7, 8, 9, 10, 11, 12}
  OBVIOUS
<1> QED BY <1>1 DEF CumulatedTo, CumulatedDays

LEMMA DayNumbersInOrder ==
    ASSUME NEW d, Valid(d), NEW e, Valid(e)
    PROVE  /\ d.year < e.year => DayNumber(d) < DayNumber(e)
           /\ d.year = e.year /\ d.month < e.month => DayNumber(d) < DayNumber(e)
           /\ d.year = e.year /\ d.month = e.month /\ d.day < e.day => DayNumber(d) < DayNumber(e)
<1>1. PICK y \in Nat \ {0}, p \in Nat : /\ y = d.year /\ p = DayOfYear(d)
                                        /\ 1 <= p /\ p <= DaysInYear(y)
                                        /\ DayNumber(d) = YearStart(y) + p
  BY DayInYear
<1>2. PICK z \in Nat \ {0}, q \in Nat : /\ z = e.year /\ q = DayOfYear(e)
                                        /\ 1 <= q /\ q <= DaysInYear(z)
                                        /\ DayNumber(e) = YearStart(z) + q
  BY DayInYear
<1>3. /\ YearStart(y) \in Int /\ DaysInYear(y) \in Nat
      /\ YearStart(z) \in Int /\ DaysInYear(z) \in Nat
  BY YearStartTypes
<1>4. CASE y < z
  BY <1>1, <1>2, <1>3, <1>4, YearsInOrder
<1>5. /\ d.month \in 1..12 /\ d.day \in Nat /\ 1 <= d.day /\ d.day <= DaysInMonth(y, d.month)
  BY <1>1, ValidFields DEF FromOne, UpTo
<1>6. /\ e.month \in 1..12 /\ e.day \in Nat /\ 1 <= e.day /\ e.day <= DaysInMonth(z, e.month)
  BY <1>2, ValidFields DEF FromOne, UpTo
<1>7. PICK m \in 1..12, v \in Nat :
        m = d.month /\ v = d.day /\ 1 <= v /\ v <= DaysInMonth(y, m)
  BY <1>5
<1>8. PICK k \in 1..12, w \in Nat :
        k = e.month /\ w = e.day /\ 1 <= w /\ w <= DaysInMonth(z, k)
  BY <1>6
<1>9. p = CumulatedTo(y, m - 1) + v /\ q = CumulatedTo(z, k - 1) + w
  <2>1. m - 1 \in 0..12 /\ k - 1 \in 0..12
    OBVIOUS
  <2> QED BY <1>1, <1>2, <1>7, <1>8, <2>1, MonthsSummed DEF DayOfYear
<1>10. CASE y = z /\ m < k
  <2>1. DaysInMonth(y, m) \in 28..31
    <3>1. m \in FromOne(12)
      BY DEF FromOne, UpTo
    <3> QED BY <3>1, MonthLength
  <2>2. /\ CumulatedTo(y, m) = CumulatedTo(y, m - 1) + DaysInMonth(y, m)
        /\ CumulatedTo(y, m - 1) \in Nat /\ CumulatedTo(y, k - 1) \in Nat
    <3>1. m - 1 \in 0..12 /\ k - 1 \in 0..12
      OBVIOUS
    <3>2. CumulatedTo(y, m - 1) \in Nat /\ CumulatedTo(y, k - 1) \in Nat
      BY <3>1, MonthsOfYear
    <3>3. CumulatedTo(y, m) = CumulatedTo(y, m - 1) + DaysInMonth(y, m)
      BY MonthsOfYear
    <3> QED BY <3>2, <3>3
  <2>3. CumulatedTo(y, m) <= CumulatedTo(y, k - 1)
    BY <1>10, MonthsInOrder
  <2>4. p < q
    BY <1>7, <1>8, <1>9, <1>10, <2>1, <2>2, <2>3
  <2> QED BY <1>1, <1>2, <1>3, <1>10, <2>4
<1>11. CASE y = z /\ m = k /\ v < w
  <2>1. CumulatedTo(y, m - 1) \in Nat
    BY MonthsOfYear
  <2>2. p < q
    BY <1>9, <1>11, <2>1
  <2> QED BY <1>1, <1>2, <1>3, <1>11, <2>2
<1> QED BY <1>1, <1>2, <1>4, <1>7, <1>8, <1>10, <1>11

(* The fields of a time, and of a date_time, and how many milliseconds     *)
(* they make.                                                              *)
LEMMA TimesInOrder ==
    ASSUME NEW t, NEW u,
           t.hour \in 0..23, t.minute \in 0..59, t.second \in 0..59, t.millisecond \in UpTo(999),
           u.hour \in 0..23, u.minute \in 0..59, u.second \in 0..59, u.millisecond \in UpTo(999)
    PROVE  /\ MsOf(t) \in Int /\ MsOf(u) \in Int
           /\ CompareFields(TimeFields(t), TimeFields(u)) = 0 =>
                 /\ t.hour = u.hour /\ t.minute = u.minute /\ t.second = u.second
                 /\ t.millisecond = u.millisecond
           /\ CompareFields(TimeFields(t), TimeFields(u)) =
                IF MsOf(t) < MsOf(u) THEN -1 ELSE IF MsOf(t) = MsOf(u) THEN 0 ELSE 1
<1>1. PICK a \in 0..23, b \in 0..59 : a = t.hour /\ b = t.minute
  OBVIOUS
<1>2. PICK c \in 0..59, f \in UpTo(999) : c = t.second /\ f = t.millisecond
  OBVIOUS
<1>3. PICK p \in 0..23, q \in 0..59 : p = u.hour /\ q = u.minute
  OBVIOUS
<1>4. PICK r \in 0..59, s \in UpTo(999) : r = u.second /\ s = u.millisecond
  OBVIOUS
<1>5. TimeFields(t) = <<a, b, c, f>> /\ TimeFields(u) = <<p, q, r, s>>
  BY <1>1, <1>2, <1>3, <1>4 DEF TimeFields
<1>6. f \in Int /\ 0 <= f /\ f <= 999 /\ s \in Int /\ 0 <= s /\ s <= 999
  BY DEF UpTo
<1>7. MsOf(t) = 3600000 * a + 60000 * b + 1000 * c + f
  BY <1>1, <1>2, <1>6 DEF MsOf, MsPerHour, MsPerMin
<1>8. MsOf(u) = 3600000 * p + 60000 * q + 1000 * r + s
  BY <1>3, <1>4, <1>6 DEF MsOf, MsPerHour, MsPerMin
<1>9. DOMAIN <<a, b, c, f>> = {1, 2, 3, 4}
  OBVIOUS
<1> DEFINE cmp == CompareFields(<<a, b, c, f>>, <<p, q, r, s>>)
<1>10. \/ a = p /\ b = q /\ c = r /\ f = s /\ cmp = 0
       \/ a # p /\ cmp = IF a < p THEN -1 ELSE 1
       \/ a = p /\ b # q /\ cmp = IF b < q THEN -1 ELSE 1
       \/ a = p /\ b = q /\ c # r /\ cmp = IF c < r THEN -1 ELSE 1
       \/ a = p /\ b = q /\ c = r /\ f # s /\ cmp = IF f < s THEN -1 ELSE 1
  <2> DEFINE v == <<a, b, c, f>>
             w == <<p, q, r, s>>
  <2>1. /\ v[1] = a /\ v[2] = b /\ v[3] = c /\ v[4] = f
        /\ w[1] = p /\ w[2] = q /\ w[3] = r /\ w[4] = s
    OBVIOUS
  <2>2. DOMAIN v \subseteq Nat
    BY <1>9
  <2>3. DOMAIN v = {1, 2, 3, 4}
    BY <1>9
  <2> HIDE DEF v, w
  <2>4. \/ (\A i \in DOMAIN v : v[i] = w[i]) /\ CompareFields(v, w) = 0
        \/ \E i \in DOMAIN v :
              /\ v[i] # w[i] /\ \A j \in DOMAIN v : j < i => v[j] = w[j]
              /\ CompareFields(v, w) = IF v[i] < w[i] THEN -1 ELSE 1
    BY <2>2, FirstDifference
  <2>5. \/ a = p /\ b = q /\ c = r /\ f = s /\ CompareFields(v, w) = 0
        \/ a # p /\ CompareFields(v, w) = IF a < p THEN -1 ELSE 1
        \/ a = p /\ b # q /\ CompareFields(v, w) = IF b < q THEN -1 ELSE 1
        \/ a = p /\ b = q /\ c # r /\ CompareFields(v, w) = IF c < r THEN -1 ELSE 1
        \/ a = p /\ b = q /\ c = r /\ f # s /\ CompareFields(v, w) = IF f < s THEN -1 ELSE 1
    BY <2>1, <2>3, <2>4
  <2> QED BY <2>5 DEF v, w
<1> HIDE DEF cmp
<1>11. /\ MsOf(t) \in Int /\ MsOf(u) \in Int
       /\ cmp = 0 => a = p /\ b = q /\ c = r /\ f = s
       /\ cmp = IF MsOf(t) < MsOf(u) THEN -1 ELSE IF MsOf(t) = MsOf(u) THEN 0 ELSE 1
  BY <1>6, <1>7, <1>8, <1>10
<1>12. cmp = CompareFields(TimeFields(t), TimeFields(u))
  BY <1>5 DEF cmp
<1> QED BY <1>1, <1>2, <1>3, <1>4, <1>11, <1>12

LEMMA DateFieldsAre ==
    ASSUME NEW d, Valid(d)
    PROVE  /\ DOMAIN DateFields(d) = {1, 2, 3, 4, 5, 6, 7}
           /\ DateFields(d)[1] = d.year /\ DateFields(d)[2] = d.month
           /\ DateFields(d)[3] = d.day /\ DateFields(d)[4] = d.hour
           /\ DateFields(d)[5] = d.minute /\ DateFields(d)[6] = d.second
           /\ DateFields(d)[7] = d.millisecond
<1> DEFINE s == <<d.year, d.month, d.day>>
           r == TimeFields(d)
           f == s \o r
<1>1. /\ d.year \in Nat /\ d.month \in Nat /\ d.day \in Nat /\ d.hour \in Nat
      /\ d.minute \in Nat /\ d.second \in Nat /\ d.millisecond \in Nat
  BY DEF Valid, DateTimes, UpTo
<1>2. /\ s \in Seq(Nat) /\ Len(s) = 3
      /\ s[1] = d.year /\ s[2] = d.month /\ s[3] = d.day
  BY <1>1
<1>3. /\ r \in Seq(Nat) /\ Len(r) = 4
      /\ r[1] = d.hour /\ r[2] = d.minute /\ r[3] = d.second /\ r[4] = d.millisecond
  BY <1>1 DEF TimeFields
<1> HIDE DEF s, r
<1>4. /\ f \in Seq(Nat) /\ Len(f) = 3 + Len(r)
      /\ \A i \in 1..3 : f[i] = s[i]
      /\ \A i \in 1..Len(r) : f[3 + i] = r[i]
  BY <1>2, <1>3, Followed
<1> HIDE DEF f
<1>5. DOMAIN f = {1, 2, 3, 4, 5, 6, 7}
  <2>1. DOMAIN f = 1..7
    BY <1>3, <1>4, LenProperties
  <2>2. 1..7 = {1, 2, 3, 4, 5, 6, 7}
    OBVIOUS
  <2> QED BY <2>1, <2>2
<1>6. f[1] = s[1] /\ f[2] = s[2] /\ f[3] = s[3]
  BY <1>4
<1>7. f[4] = r[1] /\ f[5] = r[2] /\ f[6] = r[3] /\ f[7] = r[4]
  <2>1. \A i \in 1..4 : f[3 + i] = r[i]
    BY <1>3, <1>4
  <2>2. f[3 + 1] = r[1] /\ f[3 + 2] = r[2] /\ f[3 + 3] = r[3] /\ f[3 + 4] = r[4]
    BY <2>1
  <2>3. 3 + 1 = 4 /\ 3 + 2 = 5 /\ 3 + 3 = 6 /\ 3 + 4 = 7
    OBVIOUS
  <2> QED BY <2>2, <2>3
<1>8. f = DateFields(d)
  BY DEF f, s, r, DateFields
<1> QED BY <1>2, <1>3, <1>5, <1>6, <1>7, <1>8

(* A larger field outweighs the smaller ones.                              *)
LEMMA MsInOrder ==
    ASSUME NEW t, NEW u,
           t.hour \in 0..23, t.minute \in 0..59, t.second \in 0..59, t.millisecond \in UpTo(999),
           u.hour \in 0..23, u.minute \in 0..59, u.second \in 0..59, u.millisecond \in UpTo(999)
    PROVE  /\ t.hour < u.hour => MsOf(t) < MsOf(u)
           /\ t.hour = u.hour /\ t.minute < u.minute => MsOf(t) < MsOf(u)
           /\ t.hour = u.hour /\ t.minute = u.minute /\ t.second < u.second => MsOf(t) < MsOf(u)
           /\ /\ t.hour = u.hour /\ t.minute = u.minute /\ t.second = u.second
              /\ t.millisecond < u.millisecond
              => MsOf(t) < MsOf(u)
<1>1. PICK a \in 0..23, b \in 0..59 : a = t.hour /\ b = t.minute
  OBVIOUS
<1>2. PICK c \in 0..59, f \in UpTo(999) : c = t.second /\ f = t.millisecond
  OBVIOUS
<1>3. PICK p \in 0..23, q \in 0..59 : p = u.hour /\ q = u.minute
  OBVIOUS
<1>4. PICK r \in 0..59, s \in UpTo(999) : r = u.second /\ s = u.millisecond
  OBVIOUS
<1>5. f \in Int /\ 0 <= f /\ f <= 999 /\ s \in Int /\ 0 <= s /\ s <= 999
  BY DEF UpTo
<1>6. MsOf(t) = 3600000 * a + 60000 * b + 1000 * c + f
  BY <1>1, <1>2, <1>5 DEF MsOf, MsPerHour, MsPerMin
<1>7. MsOf(u) = 3600000 * p + 60000 * q + 1000 * r + s
  BY <1>3, <1>4, <1>5 DEF MsOf, MsPerHour, MsPerMin
<1>8. /\ a < p => MsOf(t) < MsOf(u)
      /\ a = p /\ b < q => MsOf(t) < MsOf(u)
      /\ a = p /\ b = q /\ c < r => MsOf(t) < MsOf(u)
      /\ a = p /\ b = q /\ c = r /\ f < s => MsOf(t) < MsOf(u)
  BY <1>5, <1>6, <1>7
<1> QED BY <1>1, <1>2, <1>3, <1>4, <1>8

(* Without a leap second they make less than a day.                        *)
LEMMA MsBounded ==
    ASSUME NEW t, t.hour \in 0..23, t.minute \in 0..59, t.second \in 0..59,
           t.millisecond \in UpTo(999)
    PROVE  MsOf(t) \in Nat /\ MsOf(t) < MsPerDay
<1>1. PICK a \in 0..23, b \in 0..59 : a = t.hour /\ b = t.minute
  OBVIOUS
<1>2. PICK c \in 0..59, f \in UpTo(999) : c = t.second /\ f = t.millisecond
  OBVIOUS
<1>3. f \in Int /\ 0 <= f /\ f <= 999
  BY DEF UpTo
<1>4. MsOf(t) = 3600000 * a + 60000 * b + 1000 * c + f
  BY <1>1, <1>2, <1>3 DEF MsOf, MsPerHour, MsPerMin
<1> QED BY <1>3, <1>4, DayInMs

(* compare() tells the earlier of two date_times without leap seconds, and *)
(* two of them at one instant are the same.                                *)
LEMMA DatesInOrder ==
    ASSUME NEW d, Valid(d), NoLeapSecond(d), NEW e, Valid(e), NoLeapSecond(e)
    PROVE  /\ DateCompare(d, e) =
                IF MillisecondNumber(d) < MillisecondNumber(e) THEN -1
                ELSE IF MillisecondNumber(d) = MillisecondNumber(e) THEN 0 ELSE 1
           /\ MillisecondNumber(d) = MillisecondNumber(e) => d = e
<1> DEFINE a == DateFields(d)
           b == DateFields(e)
           cmp == DateCompare(d, e)
<1>1. /\ DOMAIN a = {1, 2, 3, 4, 5, 6, 7}
      /\ a[1] = d.year /\ a[2] = d.month /\ a[3] = d.day /\ a[4] = d.hour
      /\ a[5] = d.minute /\ a[6] = d.second /\ a[7] = d.millisecond
  BY DateFieldsAre, Zenon
<1>2. /\ b[1] = e.year /\ b[2] = e.month /\ b[3] = e.day /\ b[4] = e.hour
      /\ b[5] = e.minute /\ b[6] = e.second /\ b[7] = e.millisecond
  BY DateFieldsAre, Zenon
<1>3. cmp = CompareFields(a, b)
  BY DEF DateCompare
<1> HIDE DEF a, b, cmp
<1>4. \/ (\A i \in DOMAIN a : a[i] = b[i]) /\ cmp = 0
      \/ \E i \in DOMAIN a :
            /\ a[i] # b[i] /\ \A j \in DOMAIN a : j < i => a[j] = b[j]
            /\ cmp = IF a[i] < b[i] THEN -1 ELSE 1
  <2>1. DOMAIN a \subseteq Nat
    BY <1>1
  <2> QED BY <1>3, <2>1, FirstDifference
<1>5. /\ d.hour \in 0..23 /\ d.minute \in 0..59 /\ d.second \in 0..59
      /\ d.millisecond \in UpTo(999)
      /\ e.hour \in 0..23 /\ e.minute \in 0..59 /\ e.second \in 0..59
      /\ e.millisecond \in UpTo(999)
  BY DEF Valid, DateTimes, NoLeapSecond, UpTo
<1>6. /\ d.year \in Int /\ d.month \in Int /\ d.day \in Int
      /\ e.year \in Int /\ e.month \in Int /\ e.day \in Int
  BY DEF Valid, DateTimes, UpTo
<1>7. \/ d.year # e.year /\ cmp = IF d.year < e.year THEN -1 ELSE 1
      \/ d.year = e.year /\ d.month # e.month /\ cmp = IF d.month < e.month THEN -1 ELSE 1
      \/ /\ d.year = e.year /\ d.month = e.month /\ d.day # e.day
         /\ cmp = IF d.day < e.day THEN -1 ELSE 1
      \/ /\ d.year = e.year /\ d.month = e.month /\ d.day = e.day
         /\ d.hour # e.hour /\ cmp = IF d.hour < e.hour THEN -1 ELSE 1
      \/ /\ d.year = e.year /\ d.month = e.month /\ d.day = e.day
         /\ d.hour = e.hour /\ d.minute # e.minute
         /\ cmp = IF d.minute < e.minute THEN -1 ELSE 1
      \/ /\ d.year = e.year /\ d.month = e.month /\ d.day = e.day
         /\ d.hour = e.hour /\ d.minute = e.minute /\ d.second # e.second
         /\ cmp = IF d.second < e.second THEN -1 ELSE 1
      \/ /\ d.year = e.year /\ d.month = e.month /\ d.day = e.day
         /\ d.hour = e.hour /\ d.minute = e.minute /\ d.second = e.second
         /\ d.millisecond # e.millisecond
         /\ cmp = IF d.millisecond < e.millisecond THEN -1 ELSE 1
      \/ /\ d.year = e.year /\ d.month = e.month /\ d.day = e.day
         /\ d.hour = e.hour /\ d.minute = e.minute /\ d.second = e.second
         /\ d.millisecond = e.millisecond /\ cmp = 0
  BY <1>1, <1>2, <1>4
<1> DEFINE m == MillisecondNumber(d)
           n == MillisecondNumber(e)
<1>8. /\ m \in Int /\ n \in Int
      /\ DayNumber(d) < DayNumber(e) => m < n
      /\ DayNumber(e) < DayNumber(d) => n < m
      /\ DayNumber(d) = DayNumber(e) /\ MsOf(d) < MsOf(e) => m < n
      /\ DayNumber(d) = DayNumber(e) /\ MsOf(e) < MsOf(d) => n < m
  <2>1. PICK p, x \in Int :
          /\ p = DayNumber(d) /\ x = MsOf(d) /\ 0 <= x /\ x < 86400000
          /\ m = 86400000 * p + x
    BY InstantFields, DayInMs
  <2>2. PICK q, y \in Int :
          /\ q = DayNumber(e) /\ y = MsOf(e) /\ 0 <= y /\ y < 86400000
          /\ n = 86400000 * q + y
    BY InstantFields, DayInMs
  <2> HIDE DEF m, n
  <2> QED BY <2>1, <2>2
<1>9. d.year = e.year /\ d.month = e.month /\ d.day = e.day => DayNumber(d) = DayNumber(e)
  BY DEF DayNumber
<1> HIDE DEF m, n
<1> DEFINE Ordered == \/ cmp = -1 /\ m < n
                      \/ cmp = 1 /\ n < m
                      \/ cmp = 0 /\ d = e
<1>10. ASSUME d.year # e.year /\ cmp = IF d.year < e.year THEN -1 ELSE 1
       PROVE  Ordered
  <2>1. d.year < e.year => DayNumber(d) < DayNumber(e)
    BY <1>10, DayNumbersInOrder, Zenon
  <2>2. e.year < d.year => DayNumber(e) < DayNumber(d)
    BY <1>10, DayNumbersInOrder, Zenon
  <2>3. d.year < e.year \/ e.year < d.year
    BY <1>6, <1>10
  <2>4. d.year < e.year => ~(e.year < d.year)
    BY <1>6
  <2> QED BY <1>8, <1>10, <2>1, <2>2, <2>3, <2>4
<1>11. ASSUME /\ d.year = e.year
              /\ d.month # e.month /\ cmp = IF d.month < e.month THEN -1 ELSE 1
       PROVE  Ordered
  <2>1. d.month < e.month => DayNumber(d) < DayNumber(e)
    BY <1>11, DayNumbersInOrder, Zenon
  <2>2. e.month < d.month => DayNumber(e) < DayNumber(d)
    BY <1>11, DayNumbersInOrder, Zenon
  <2>3. d.month < e.month \/ e.month < d.month
    BY <1>6, <1>11
  <2>4. d.month < e.month => ~(e.month < d.month)
    BY <1>6
  <2> QED BY <1>8, <1>11, <2>1, <2>2, <2>3, <2>4
<1>12. ASSUME /\ d.year = e.year /\ d.month = e.month
              /\ d.day # e.day /\ cmp = IF d.day < e.day THEN -1 ELSE 1
       PROVE  Ordered
  <2>1. d.day < e.day => DayNumber(d) < DayNumber(e)
    BY <1>12, DayNumbersInOrder, Zenon
  <2>2. e.day < d.day => DayNumber(e) < DayNumber(d)
    BY <1>12, DayNumbersInOrder, Zenon
  <2>3. d.day < e.day \/ e.day < d.day
    BY <1>6, <1>12
  <2>4. d.day < e.day => ~(e.day < d.day)
    BY <1>6
  <2> QED BY <1>8, <1>12, <2>1, <2>2, <2>3, <2>4
<1>13. ASSUME /\ d.year = e.year /\ d.month = e.month /\ d.day = e.day
              /\ d.hour # e.hour /\ cmp = IF d.hour < e.hour THEN -1 ELSE 1
       PROVE  Ordered
  <2>1. d.hour < e.hour => MsOf(d) < MsOf(e)
    BY <1>5, <1>13, MsInOrder
  <2>2. e.hour < d.hour => MsOf(e) < MsOf(d)
    BY <1>5, <1>13, MsInOrder
  <2>3. d.hour \in Int /\ e.hour \in Int
    BY <1>5 DEF UpTo
  <2>4. d.hour < e.hour \/ e.hour < d.hour
    BY <1>13, <2>3
  <2>5. DayNumber(d) = DayNumber(e)
    BY <1>9, <1>13
  <2> QED BY <1>8, <1>13, <2>1, <2>2, <2>4, <2>5
<1>14. ASSUME /\ d.year = e.year /\ d.month = e.month /\ d.day = e.day
              /\ d.hour = e.hour
              /\ d.minute # e.minute /\ cmp = IF d.minute < e.minute THEN -1 ELSE 1
       PROVE  Ordered
  <2>1. d.minute < e.minute => MsOf(d) < MsOf(e)
    BY <1>5, <1>14, MsInOrder
  <2>2. e.minute < d.minute => MsOf(e) < MsOf(d)
    BY <1>5, <1>14, MsInOrder
  <2>3. d.minute \in Int /\ e.minute \in Int
    BY <1>5 DEF UpTo
  <2>4. d.minute < e.minute \/ e.minute < d.minute
    BY <1>14, <2>3
  <2>5. DayNumber(d) = DayNumber(e)
    BY <1>9, <1>14
  <2> QED BY <1>8, <1>14, <2>1, <2>2, <2>4, <2>5
<1>15. ASSUME /\ d.year = e.year /\ d.month = e.month /\ d.day = e.day
              /\ d.hour = e.hour /\ d.minute = e.minute
              /\ d.second # e.second /\ cmp = IF d.second < e.second THEN -1 ELSE 1
       PROVE  Ordered
  <2>1. d.second < e.second => MsOf(d) < MsOf(e)
    BY <1>5, <1>15, MsInOrder
  <2>2. e.second < d.second => MsOf(e) < MsOf(d)
    BY <1>5, <1>15, MsInOrder
  <2>3. d.second \in Int /\ e.second \in Int
    BY <1>5 DEF UpTo
  <2>4. d.second < e.second \/ e.second < d.second
    BY <1>15, <2>3
  <2>5. DayNumber(d) = DayNumber(e)
    BY <1>9, <1>15
  <2> QED BY <1>8, <1>15, <2>1, <2>2, <2>4, <2>5
<1>16. ASSUME /\ d.year = e.year /\ d.month = e.month /\ d.day = e.day
              /\ d.hour = e.hour /\ d.minute = e.minute /\ d.second = e.second
              /\ d.millisecond # e.millisecond /\ cmp = IF d.millisecond < e.millisecond THEN -1 ELSE 1
       PROVE  Ordered
  <2>1. d.millisecond < e.millisecond => MsOf(d) < MsOf(e)
    BY <1>5, <1>16, MsInOrder
  <2>2. e.millisecond < d.millisecond => MsOf(e) < MsOf(d)
    BY <1>5, <1>16, MsInOrder
  <2>3. d.millisecond \in Int /\ e.millisecond \in Int
    BY <1>5 DEF UpTo
  <2>4. d.millisecond < e.millisecond \/ e.millisecond < d.millisecond
    BY <1>16, <2>3
  <2>5. DayNumber(d) = DayNumber(e)
    BY <1>9, <1>16
  <2> QED BY <1>8, <1>16, <2>1, <2>2, <2>4, <2>5
<1>17. ASSUME /\ d.year = e.year /\ d.month = e.month /\ d.day = e.day
              /\ d.hour = e.hour /\ d.minute = e.minute /\ d.second = e.second
              /\ d.millisecond = e.millisecond /\ cmp = 0
       PROVE  Ordered
  <2>1. d = e
    BY <1>17 DEF Valid, DateTimes
  <2> QED BY <1>17, <2>1
<1> HIDE DEF Ordered
<1>18. Ordered
  BY <1>7, <1>10, <1>11, <1>12, <1>13, <1>14, <1>15, <1>16, <1>17, Zenon
<1>19. d = e => m = n
  BY DEF m, n
<1>20. /\ cmp = IF m < n THEN -1 ELSE IF m = n THEN 0 ELSE 1
       /\ m = n => d = e
  BY <1>8, <1>18, <1>19 DEF Ordered
<1> QED BY <1>20 DEF cmp, m, n

-----------------------------------------------------------------------------
(* The time_span between two instants.                                     *)

SpanTime(s) == [hour |-> s.hours, minute |-> s.minutes, second |-> s.seconds,
                millisecond |-> s.milliseconds]

(* s is broken down into its parts, which make n milliseconds.             *)
Lasts(s, neg, n) ==
    /\ s = [negative |-> neg, days |-> s.days, hours |-> s.hours, minutes |-> s.minutes,
            seconds |-> s.seconds, milliseconds |-> s.milliseconds]
    /\ s.days \in Nat /\ s.hours \in 0..23 /\ s.minutes \in 0..59 /\ s.seconds \in 0..59
    /\ s.milliseconds \in UpTo(999)
    /\ n = MsPerDay * s.days + MsOf(SpanTime(s))

(* What is left below the hours, the minutes and the seconds.              *)
LEMMA TimeParts ==
    ASSUME NEW ms \in Nat
    PROVE  ms = 3600000 * (ms \div 3600000) + 60000 * ((ms % 3600000) \div 60000)
                + 1000 * ((ms % 60000) \div 1000) + (ms % 1000)
OBVIOUS

LEMMA SpanLasts ==
    ASSUME NEW neg, NEW days \in Nat, NEW ms \in Nat, ms < MsPerDay
    PROVE  \E s : Span(neg, days, ms) = {s} /\ Lasts(s, neg, MsPerDay * days + ms)
<1> DEFINE s == [negative |-> neg, days |-> days, hours |-> ms \div MsPerHour,
                 minutes |-> (ms % MsPerHour) \div MsPerMin,
                 seconds |-> (ms % MsPerMin) \div 1000, milliseconds |-> ms % 1000]
<1>1. Span(neg, days, ms) = {s}
  <2>1. ms \in UpTo(MsPerDay - 1)
    BY DayInMs DEF UpTo
  <2>2. {ms} \cap UpTo(MsPerDay - 1) = {ms}
    BY <2>1
  <2> QED BY <2>2 DEF Span
<1>2. ms < 86400000
  BY DayInMs
<1>3. /\ ms \div 3600000 \in 0..23 /\ (ms % 3600000) \div 60000 \in 0..59
      /\ (ms % 60000) \div 1000 \in 0..59
      /\ ms % 1000 \in Nat /\ ms % 1000 <= 999
  BY <1>2
<1>4. ms = 3600000 * (ms \div 3600000) + 60000 * ((ms % 3600000) \div 60000)
           + 1000 * ((ms % 60000) \div 1000) + (ms % 1000)
  BY TimeParts
<1>5. /\ s.days = days /\ s.hours = ms \div 3600000 /\ s.minutes = (ms % 3600000) \div 60000
      /\ s.seconds = (ms % 60000) \div 1000 /\ s.milliseconds = ms % 1000
  BY DEF MsPerHour, MsPerMin
<1>6. s = [negative |-> neg, days |-> s.days, hours |-> s.hours, minutes |-> s.minutes,
           seconds |-> s.seconds, milliseconds |-> s.milliseconds]
  OBVIOUS
<1> HIDE DEF s
<1>7. s.milliseconds \in UpTo(999)
  BY <1>3, <1>5 DEF UpTo
<1>8. MsOf(SpanTime(s)) = ms
  <2>1. PICK h, m \in Int : h = s.hours /\ m = s.minutes
    BY <1>3, <1>5
  <2>2. PICK c, f \in Int : c = s.seconds /\ f = s.milliseconds
    BY <1>3, <1>5
  <2>3. MsOf(SpanTime(s)) = 3600000 * h + 60000 * m + 1000 * c + f
    BY <2>1, <2>2 DEF MsOf, SpanTime, MsPerHour, MsPerMin
  <2>4. ms = 3600000 * h + 60000 * m + 1000 * c + f
    BY <1>4, <1>5, <2>1, <2>2
  <2> QED BY <2>3, <2>4
<1>9. Lasts(s, neg, MsPerDay * days + ms)
  BY <1>3, <1>5, <1>6, <1>7, <1>8 DEF Lasts
<1> QED BY <1>1, <1>9

(* compare() tells the shorter of two time_spans of one sign.              *)
LEMMA SpansInOrder ==
    ASSUME NEW neg, NEW a, NEW m \in Int, Lasts(a, neg, m), NEW b, NEW n \in Int, Lasts(b, neg, n)
    PROVE  SpanCompare(a, b) < 0 <=> m < n
<1> DEFINE v == Magnitude(a)
           w == Magnitude(b)
           t == SpanTime(a)
           u == SpanTime(b)
           cmp == CompareFields(v, w)
<1>1. /\ v[1] = a.days /\ v[2] = t.hour /\ v[3] = t.minute /\ v[4] = t.second
      /\ v[5] = t.millisecond /\ DOMAIN v = {1, 2, 3, 4, 5}
  BY DEF Magnitude, SpanTime
<1>2. /\ w[1] = b.days /\ w[2] = u.hour /\ w[3] = u.minute /\ w[4] = u.second
      /\ w[5] = u.millisecond
  BY DEF Magnitude, SpanTime
<1>3. /\ t.hour \in 0..23 /\ t.minute \in 0..59 /\ t.second \in 0..59
      /\ t.millisecond \in UpTo(999)
      /\ u.hour \in 0..23 /\ u.minute \in 0..59 /\ u.second \in 0..59
      /\ u.millisecond \in UpTo(999)
  BY DEF Lasts, SpanTime
<1>4. /\ a.days \in Nat /\ b.days \in Nat /\ a.negative = neg /\ b.negative = neg
      /\ m = MsPerDay * a.days + MsOf(t) /\ n = MsPerDay * b.days + MsOf(u)
  BY DEF Lasts
<1>5. MsOf(t) \in Nat /\ MsOf(t) < MsPerDay /\ MsOf(u) \in Nat /\ MsOf(u) < MsPerDay
  BY <1>3, MsBounded
<1> HIDE DEF v, w, t, u
<1>6. \/ (\A i \in DOMAIN v : v[i] = w[i]) /\ cmp = 0
      \/ \E i \in DOMAIN v :
            /\ v[i] # w[i] /\ \A j \in DOMAIN v : j < i => v[j] = w[j]
            /\ cmp = IF v[i] < w[i] THEN -1 ELSE 1
  <2>1. DOMAIN v \subseteq Nat
    BY <1>1
  <2> QED BY <2>1, FirstDifference
<1> HIDE DEF cmp
<1>7. \/ a.days # b.days /\ cmp = IF a.days < b.days THEN -1 ELSE 1
      \/ a.days = b.days /\ t.hour # u.hour /\ cmp = IF t.hour < u.hour THEN -1 ELSE 1
      \/ /\ a.days = b.days /\ t.hour = u.hour
         /\ t.minute # u.minute /\ cmp = IF t.minute < u.minute THEN -1 ELSE 1
      \/ /\ a.days = b.days /\ t.hour = u.hour /\ t.minute = u.minute
         /\ t.second # u.second /\ cmp = IF t.second < u.second THEN -1 ELSE 1
      \/ /\ a.days = b.days /\ t.hour = u.hour /\ t.minute = u.minute
         /\ t.second = u.second
         /\ t.millisecond # u.millisecond
         /\ cmp = IF t.millisecond < u.millisecond THEN -1 ELSE 1
      \/ /\ a.days = b.days /\ t.hour = u.hour /\ t.minute = u.minute
         /\ t.second = u.second /\ t.millisecond = u.millisecond /\ cmp = 0
  BY <1>1, <1>2, <1>6
<1>8. /\ a.days < b.days => m < n
      /\ b.days < a.days => n < m
      /\ a.days = b.days /\ MsOf(t) < MsOf(u) => m < n
      /\ a.days = b.days /\ MsOf(u) < MsOf(t) => n < m
      /\ a.days = b.days /\ MsOf(u) = MsOf(t) => n = m
  <2>1. PICK p, x \in Int : p = a.days /\ x = MsOf(t) /\ 0 <= x /\ x < 86400000
    BY <1>4, <1>5, DayInMs
  <2>2. PICK q, y \in Int : q = b.days /\ y = MsOf(u) /\ 0 <= y /\ y < 86400000
    BY <1>4, <1>5, DayInMs
  <2>3. m = 86400000 * p + x /\ n = 86400000 * q + y
    BY <1>4, <2>1, <2>2, DayInMs
  <2> QED BY <2>1, <2>2, <2>3
<1> DEFINE Ordered == (cmp = -1 /\ m < n) \/ (cmp = 1 /\ n < m) \/ (cmp = 0 /\ m = n)
<1>9. ASSUME a.days # b.days /\ cmp = IF a.days < b.days THEN -1 ELSE 1
      PROVE  Ordered
  BY <1>4, <1>8, <1>9
<1>10. ASSUME a.days = b.days /\ t.hour # u.hour /\ cmp = IF t.hour < u.hour THEN -1 ELSE 1
       PROVE  Ordered
  <2>1. t.hour < u.hour => MsOf(t) < MsOf(u)
    BY <1>3, MsInOrder
  <2>2. u.hour < t.hour => MsOf(u) < MsOf(t)
    BY <1>3, MsInOrder
  <2>3. t.hour < u.hour \/ u.hour < t.hour
    BY <1>3, <1>10
  <2> QED BY <1>8, <1>10, <2>1, <2>2, <2>3
<1>11. ASSUME /\ a.days = b.days /\ t.hour = u.hour
              /\ t.minute # u.minute /\ cmp = IF t.minute < u.minute THEN -1 ELSE 1
       PROVE  Ordered
  <2>1. t.minute < u.minute => MsOf(t) < MsOf(u)
    BY <1>3, <1>11, MsInOrder
  <2>2. u.minute < t.minute => MsOf(u) < MsOf(t)
    BY <1>3, <1>11, MsInOrder
  <2>3. t.minute < u.minute \/ u.minute < t.minute
    BY <1>3, <1>11
  <2> QED BY <1>8, <1>11, <2>1, <2>2, <2>3
<1>12. ASSUME /\ a.days = b.days /\ t.hour = u.hour /\ t.minute = u.minute
              /\ t.second # u.second /\ cmp = IF t.second < u.second THEN -1 ELSE 1
       PROVE  Ordered
  <2>1. t.second < u.second => MsOf(t) < MsOf(u)
    BY <1>3, <1>12, MsInOrder
  <2>2. u.second < t.second => MsOf(u) < MsOf(t)
    BY <1>3, <1>12, MsInOrder
  <2>3. t.second < u.second \/ u.second < t.second
    BY <1>3, <1>12
  <2> QED BY <1>8, <1>12, <2>1, <2>2, <2>3
<1>13. ASSUME /\ a.days = b.days /\ t.hour = u.hour /\ t.minute = u.minute
              /\ t.second = u.second
              /\ t.millisecond # u.millisecond
              /\ cmp = IF t.millisecond < u.millisecond THEN -1 ELSE 1
       PROVE  Ordered
  <2>1. t.millisecond < u.millisecond => MsOf(t) < MsOf(u)
    BY <1>3, <1>13, MsInOrder
  <2>2. u.millisecond < t.millisecond => MsOf(u) < MsOf(t)
    BY <1>3, <1>13, MsInOrder
  <2>3. t.millisecond \in Int /\ u.millisecond \in Int
    BY <1>3 DEF UpTo
  <2>4. t.millisecond < u.millisecond \/ u.millisecond < t.millisecond
    BY <1>13, <2>3
  <2> QED BY <1>8, <1>13, <2>1, <2>2, <2>4
<1>14. ASSUME /\ a.days = b.days /\ t.hour = u.hour /\ t.minute = u.minute
              /\ t.second = u.second /\ t.millisecond = u.millisecond /\ cmp = 0
       PROVE  Ordered
  <2>1. MsOf(t) = MsOf(u)
    BY <1>14 DEF MsOf
  <2> QED BY <1>8, <1>14, <2>1
<1> HIDE DEF Ordered
<1>15. Ordered
  BY <1>7, <1>9, <1>10, <1>11, <1>12, <1>13, <1>14, Zenon
<1>16. CASE SpanZero(a) /\ SpanZero(b)
  <2>1. \A i \in 1..5 : v[i] = 0 /\ w[i] = 0
    BY <1>16 DEF SpanZero, v, w
  <2>2. /\ a.days = b.days /\ t.hour = u.hour /\ t.minute = u.minute
        /\ t.second = u.second /\ t.millisecond = u.millisecond
    BY <1>1, <1>2, <2>1
  <2>3. MsOf(t) = MsOf(u)
    BY <2>2 DEF MsOf
  <2>4. m = n
    BY <1>8, <2>2, <2>3
  <2>5. SpanCompare(a, b) = 0
    BY <1>4, <1>16 DEF SpanCompare
  <2> QED BY <2>4, <2>5
<1>17. CASE ~(SpanZero(a) /\ SpanZero(b))
  <2>1. SpanCompare(a, b) = cmp
    BY <1>4, <1>17 DEF SpanCompare, cmp, v, w
  <2> QED BY <1>15, <2>1 DEF Ordered
<1> QED BY <1>16, <1>17

(* The loop over the years counts the days between two dates.              *)
LEMMA DaysCounted ==
    ASSUME NEW e, Valid(e), NEW d, Valid(d), DayNumber(e) <= DayNumber(d)
    PROVE  DaysFrom(e, d) = DayNumber(d) - DayNumber(e)
<1>1. PICK y \in Nat \ {0}, p \in Nat : /\ y = d.year /\ p = DayOfYear(d)
                                        /\ DayNumber(d) = YearStart(y) + p
  BY DayInYear
<1>2. PICK z \in Nat \ {0}, q \in Nat : /\ z = e.year /\ q = DayOfYear(e)
                                        /\ DayNumber(e) = YearStart(z) + q
  BY DayInYear
<1>3. YearStart(y) \in Int /\ YearStart(z) \in Int
  BY YearStartTypes
<1>4. z <= y
  <2>1. SUFFICES ASSUME y < z
                 PROVE  FALSE
    OBVIOUS
  <2>2. DayNumber(d) < DayNumber(e)
    BY <1>1, <1>2, <2>1, DayNumbersInOrder
  <2> QED BY <1>1, <1>2, <1>3, <2>2
<1>5. DaysOfYears(z, y) = YearStart(y) - YearStart(z)
  BY <1>4, YearsSummed
<1>6. DaysFrom(e, d) = p - q + DaysOfYears(z, y)
  BY <1>1, <1>2, <1>4 DEF DaysFrom
<1> QED BY <1>1, <1>2, <1>3, <1>5, <1>6

(* The days are counted from the one day where the count stops.            *)
LEMMA CountedFrom ==
    ASSUME NEW e, NEW d, Valid(d), NEW stop, Valid(stop), NEW neg,
           (IF MsOf(e) > MsOf(d) THEN DateAddDays(e, 1) ELSE {e}) = {stop}
    PROVE  Elapsed(e, d, neg) = Span(neg, DaysFrom(stop, d), ElapsedMs(e, d))
<1>1. InTable(stop) /\ InTable(d)
  BY ValidFields DEF InTable, FromOne, UpTo
<1>2. CountOfDays(stop, d) = {DaysFrom(stop, d)}
  BY <1>1 DEF CountOfDays
<1>3. UNION {CountOfDays(w, d) : w \in {stop}} = {DaysFrom(stop, d)}
  BY <1>2
<1>4. Elapsed(e, d, neg) = UNION {Span(neg, days, ElapsedMs(e, d)) : days \in {DaysFrom(stop, d)}}
  BY <1>3 DEF Elapsed
<1> QED BY <1>4

LEMMA ElapsedLasts ==
    ASSUME NEW e, Valid(e), NoLeapSecond(e), NEW d, Valid(d), NoLeapSecond(d), NEW neg,
           MillisecondNumber(e) <= MillisecondNumber(d)
    PROVE  \E s : /\ Elapsed(e, d, neg) = {s}
                  /\ Lasts(s, neg, MillisecondNumber(d) - MillisecondNumber(e))
<1>1. PICK p, x \in Int :
        /\ p = DayNumber(d) /\ x = MsOf(d) /\ 0 <= x /\ x < 86400000
        /\ MillisecondNumber(d) = 86400000 * p + x
  BY InstantFields, DayInMs
<1>2. PICK q, y \in Int :
        /\ q = DayNumber(e) /\ y = MsOf(e) /\ 0 <= y /\ y < 86400000
        /\ MillisecondNumber(e) = 86400000 * q + y
  BY InstantFields, DayInMs
<1>3. 86400000 * q + y <= 86400000 * p + x
  BY <1>1, <1>2
<1>4. CASE y <= x
  <2>1. PICK days \in Nat, ms \in Nat : days = p - q /\ ms = x - y
    BY <1>1, <1>2, <1>3, <1>4
  <2>2. DaysFrom(e, d) = days
    BY <1>1, <1>2, <2>1, DaysCounted
  <2>3. ElapsedMs(e, d) = ms
    BY <1>1, <1>2, <1>4, <2>1 DEF ElapsedMs
  <2>4. Elapsed(e, d, neg) = Span(neg, days, ms)
    <3>1. ~(MsOf(e) > MsOf(d))
      BY <1>1, <1>2, <1>4
    <3> QED BY <2>2, <2>3, <3>1, CountedFrom
  <2>5. ms < MsPerDay
    BY <1>1, <1>2, <2>1, DayInMs
  <2>6. MsPerDay * days + ms = MillisecondNumber(d) - MillisecondNumber(e)
    BY <1>1, <1>2, <2>1, DayInMs
  <2> QED BY <2>4, <2>5, <2>6, SpanLasts
<1>5. CASE x < y
  <2>1. PICK days \in Nat, ms \in Nat : days = p - q - 1 /\ ms = x - y + 86400000
    BY <1>1, <1>2, <1>3, <1>5
  <2>2. PICK stop : DateAddDays(e, 1) = {stop} /\ Valid(stop) /\ DayNumber(stop) = q + 1
    <3>1. p <= LastDay /\ LastDay \in Int
      BY <1>1, DaysWithin, YearStartTypes DEF LastDay
    <3>2. DayNumber(e) + 1 <= LastDay
      BY <1>2, <2>1, <3>1
    <3>3. \E stop : /\ DateAddDays(e, 1) = {stop} /\ Valid(stop) /\ TimeOf(stop) = TimeOf(e)
                    /\ DayNumber(stop) = DayNumber(e) + 1
      BY <3>2, DaysExact
    <3> QED BY <1>2, <3>3
  <2>3. DaysFrom(stop, d) = days
    BY <1>1, <2>1, <2>2, DaysCounted
  <2>4. ElapsedMs(e, d) = ms
    BY <1>1, <1>2, <1>5, <2>1, DayInMs DEF ElapsedMs
  <2>5. Elapsed(e, d, neg) = Span(neg, days, ms)
    <3>1. MsOf(e) > MsOf(d)
      BY <1>1, <1>2, <1>5
    <3> QED BY <2>2, <2>3, <2>4, <3>1, CountedFrom
  <2>6. ms < MsPerDay
    BY <1>5, <2>1, DayInMs
  <2>7. MsPerDay * days + ms = MillisecondNumber(d) - MillisecondNumber(e)
    BY <1>1, <1>2, <2>1, DayInMs
  <2> QED BY <2>5, <2>6, <2>7, SpanLasts
<1> QED BY <1>4, <1>5

(* time_between() yields one time_span, of the length of the time between  *)
(* and negative when the other date is the later.                          *)
LEMMA BetweenLasts ==
    ASSUME NEW d, Valid(d), NoLeapSecond(d), NEW e, Valid(e), NoLeapSecond(e)
    PROVE  LET m == MillisecondNumber(d)
               n == MillisecondNumber(e)
           IN  /\ m \in Int /\ n \in Int
               /\ n <= m => \E s : TimeBetween(d, e) = {s} /\ Lasts(s, FALSE, m - n)
               /\ m < n  => \E s : TimeBetween(d, e) = {s} /\ Lasts(s, TRUE, n - m)
<1> DEFINE m == MillisecondNumber(d)
           n == MillisecondNumber(e)
<1>1. m \in Int /\ n \in Int
  BY NumberTypes
<1>2. DateCompare(d, e) = IF m < n THEN -1 ELSE IF m = n THEN 0 ELSE 1
  BY DatesInOrder, Zenon
<1>3. \A neg : n <= m => \E s : Elapsed(e, d, neg) = {s} /\ Lasts(s, neg, m - n)
  BY ElapsedLasts, Zenon
<1>4. \A neg : m <= n => \E s : Elapsed(d, e, neg) = {s} /\ Lasts(s, neg, n - m)
  BY ElapsedLasts, Zenon
<1> HIDE DEF m, n
<1>5. ASSUME n <= m
      PROVE  \E s : TimeBetween(d, e) = {s} /\ Lasts(s, FALSE, m - n)
  <2>1. CASE n = m
    <3>1. DateCompare(d, e) = 0
      BY <1>1, <1>2, <2>1
    <3>2. TimeBetween(d, e) = Span(FALSE, 0, 0)
      BY <3>1 DEF TimeBetween
    <3>3. \E s : Span(FALSE, 0, 0) = {s} /\ Lasts(s, FALSE, MsPerDay * 0 + 0)
      <4>1. 0 < MsPerDay
        BY DayInMs
      <4> QED BY <4>1, SpanLasts
    <3>4. MsPerDay * 0 + 0 = m - n
      BY <1>1, <2>1, DayInMs
    <3> QED BY <3>2, <3>3, <3>4
  <2>2. CASE n # m
    <3>1. DateCompare(d, e) = 1
      BY <1>1, <1>2, <1>5, <2>2
    <3>2. TimeBetween(d, e) = Elapsed(e, d, FALSE)
      BY <3>1 DEF TimeBetween
    <3> QED BY <1>3, <1>5, <3>2, Zenon
  <2> QED BY <2>1, <2>2
<1>6. ASSUME m < n
      PROVE  \E s : TimeBetween(d, e) = {s} /\ Lasts(s, TRUE, n - m)
  <2>1. DateCompare(d, e) = -1
    BY <1>1, <1>2, <1>6
  <2>2. TimeBetween(d, e) = Elapsed(d, e, TRUE)
    BY <2>1 DEF TimeBetween
  <2>3. m <= n
    BY <1>1, <1>6
  <2> QED BY <1>4, <2>2, <2>3, Zenon
<1> QED BY <1>1, <1>5, <1>6, Zenon DEF m, n

(* The time_span from an earlier date to a later one, added to the earlier *)
(* one, yields the later one.                                              *)
LEMMA SpanReaches ==
    ASSUME NEW o, Valid(o), NoLeapSecond(o), NEW d, Valid(d), NoLeapSecond(d),
           NEW span, Lasts(span, FALSE, MillisecondNumber(d) - MillisecondNumber(o))
    PROVE  DateAdd(o, span) = {d}
<1>1. PICK days, ms \in Nat : days = span.days /\ ms = span.milliseconds
  BY DEF Lasts, UpTo
<1>2. PICK h, m, s \in Nat : h = span.hours /\ m = span.minutes /\ s = span.seconds
  BY DEF Lasts
<1>3. PICK i, j, l \in Int : i = MillisecondNumber(o) /\ j = MillisecondNumber(d) /\ l = LastDay
  BY NumberBounded
<1>4. j = i + 86400000 * days + 3600000 * h + 60000 * m + 1000 * s + ms
  <2>1. MsOf(SpanTime(span)) = 3600000 * h + 60000 * m + 1000 * s + ms
    BY <1>1, <1>2 DEF MsOf, SpanTime, MsPerHour, MsPerMin
  <2>2. j - i = 86400000 * days + MsOf(SpanTime(span))
    BY <1>1, <1>3, DayInMs DEF Lasts
  <2> QED BY <1>3, <2>1, <2>2
<1>5. j < 86400000 * (l + 1)
  BY <1>3, NumberBounded
<1>6. PICK a : /\ DateAddDays(o, days) = {a} /\ Valid(a) /\ NoLeapSecond(a)
               /\ MillisecondNumber(a) = i + 86400000 * days
  <2>1. MillisecondNumber(o) + 86400000 * days < 86400000 * (LastDay + 1)
    BY <1>3, <1>4, <1>5
  <2> QED BY <1>3, <2>1, DaysReach
<1>7. PICK b : /\ DateAddHours(a, h) = {b} /\ Valid(b) /\ NoLeapSecond(b)
               /\ MillisecondNumber(b) = i + 86400000 * days + 3600000 * h
  <2>1. MillisecondNumber(a) + 3600000 * h < 86400000 * (LastDay + 1)
    BY <1>3, <1>4, <1>5, <1>6
  <2>2. h \in Int /\ h >= 0
    OBVIOUS
  <2> QED BY <1>6, <2>1, <2>2, HoursReach
<1>8. PICK c : /\ DateAddMinutes(b, m) = {c} /\ Valid(c) /\ NoLeapSecond(c)
               /\ MillisecondNumber(c) = i + 86400000 * days + 3600000 * h + 60000 * m
  <2>1. MillisecondNumber(b) + 60000 * m < 86400000 * (LastDay + 1)
    BY <1>3, <1>4, <1>5, <1>7
  <2> QED BY <1>7, <2>1, MinutesReach
<1>9. PICK e : /\ DateAddSeconds(c, s) = {e} /\ Valid(e) /\ NoLeapSecond(e)
               /\ MillisecondNumber(e) = i + 86400000 * days + 3600000 * h + 60000 * m + 1000 * s
  <2>1. MillisecondNumber(c) + 1000 * s < 86400000 * (LastDay + 1)
    BY <1>3, <1>4, <1>5, <1>8
  <2> QED BY <1>8, <2>1, SecondsReach
<1>10. PICK w : /\ DateAddMilliseconds(e, ms) = {w} /\ Valid(w) /\ NoLeapSecond(w)
                /\ MillisecondNumber(w) = j
  <2>1. MillisecondNumber(e) + ms < 86400000 * (LastDay + 1)
    BY <1>3, <1>4, <1>5, <1>9
  <2> QED BY <1>4, <1>9, <2>1, MillisecondsReach
<1>11. w = d
  BY <1>3, <1>10, DatesInOrder
<1>12. DateAdd(o, span) = AddParts(o, days, h, m, s, ms)
  <2>1. SignOf(span) = 1
    BY DEF Lasts, SignOf
  <2> QED BY <1>1, <1>2, <2>1 DEF DateAdd
<1>13. AddParts(o, days, h, m, s, ms) = {w}
  <2>1. UNION {DateAddHours(x, h) : x \in {a}} = {b}
    BY <1>7
  <2>2. UNION {DateAddMinutes(x, m) : x \in {b}} = {c}
    BY <1>8
  <2>3. UNION {DateAddSeconds(x, s) : x \in {c}} = {e}
    BY <1>9
  <2>4. UNION {DateAddMilliseconds(x, ms) : x \in {e}} = {w}
    BY <1>10
  <2> QED BY <1>6, <2>1, <2>2, <2>3, <2>4 DEF AddParts
<1> QED BY <1>11, <1>12, <1>13

-----------------------------------------------------------------------------
(* The difference counts.                                                  *)

WithinTheDay(span) == 1000 * TotalSeconds([span EXCEPT !.days = 0]) + span.milliseconds

LEMMA WithoutDays ==
    ASSUME NEW span, NEW neg, NEW n, Lasts(span, neg, n)
    PROVE  WithinTheDay(span) = MsOf(SpanTime(span))
<1> DEFINE s == [span EXCEPT !.days = 0]
<1>1. /\ s.days = 0 /\ s.hours = span.hours /\ s.minutes = span.minutes
      /\ s.seconds = span.seconds
  BY DEF Lasts
<1> HIDE DEF s
<1>2. PICK h, m, c, f \in Nat :
        h = span.hours /\ m = span.minutes /\ c = span.seconds /\ f = span.milliseconds
  <2>1. PICK h, m \in Nat : h = span.hours /\ m = span.minutes
    BY DEF Lasts
  <2>2. PICK c, f \in Nat : c = span.seconds /\ f = span.milliseconds
    BY DEF Lasts, UpTo
  <2> QED BY <2>1, <2>2
<1>3. TotalSeconds(s) = (h * 60 + m) * 60 + c
  BY <1>1, <1>2 DEF TotalSeconds, TotalMinutes, TotalHours
<1>4. MsOf(SpanTime(span)) = 3600000 * h + 60000 * m + 1000 * c + f
  BY <1>2 DEF MsOf, SpanTime, MsPerHour, MsPerMin
<1>5. 1000 * TotalSeconds(s) + span.milliseconds = MsOf(SpanTime(span))
  <2>1. 1000 * ((h * 60 + m) * 60 + c) + f = 3600000 * h + 60000 * m + 1000 * c + f
    OBVIOUS
  <2> QED BY <1>2, <1>3, <1>4, <2>1
<1> QED BY <1>5 DEF s, WithinTheDay

LEMMA RestIsNatural ==
    ASSUME NEW span, NEW neg, NEW n, Lasts(span, neg, n)
    PROVE  MsOf(SpanTime(span)) \in Nat
<1> DEFINE t == SpanTime(span)
<1>1. /\ t.hour \in 0..23 /\ t.minute \in 0..59 /\ t.second \in 0..59
      /\ t.millisecond \in UpTo(999)
  BY DEF Lasts, SpanTime
<1> HIDE DEF t
<1>2. MsOf(t) \in Nat
  BY <1>1, MsBounded
<1> QED BY <1>2 DEF t

LEMMA SpanMeasures ==
    ASSUME NEW a, Valid(a), NoLeapSecond(a), NEW b, Valid(b), NoLeapSecond(b),
           NEW span, NEW neg, Lasts(span, neg, MillisecondNumber(b) - MillisecondNumber(a))
    PROVE  Later(Instant(a), span.days, MsOf(SpanTime(span))) = Instant(b)
<1>1. PICK days, ms \in Nat : days = span.days /\ ms = MsOf(SpanTime(span))
  <2>1. span.days \in Nat
    BY DEF Lasts
  <2>2. MsOf(SpanTime(span)) \in Nat
    BY RestIsNatural, Zenon
  <2> QED BY <2>1, <2>2
<1>2. PICK i, j \in Int : i = MillisecondNumber(a) /\ j = MillisecondNumber(b)
  BY NumberBounded
<1>3. j - i = MsPerDay * days + ms
  BY <1>1, <1>2 DEF Lasts
<1>4. MillisecondNumber(b) = MillisecondNumber(a) + MsPerDay * days + ms
  BY <1>1, <1>2, <1>3, DayInMs
<1>5. days \in Int /\ ms \in Int
  OBVIOUS
<1>6. \A v, w \in Int : MillisecondNumber(b) = MillisecondNumber(a) + MsPerDay * v + w
                          => Instant(b) = Later(Instant(a), v, w)
  BY LaterReached
<1>7. Later(Instant(a), days, ms) = Instant(b)
  BY <1>4, <1>5, <1>6
<1> QED BY <1>1, <1>7

(* On one day the days between are none, and the milliseconds those        *)
(* between the two times of day.                                           *)
LEMMA SameDay ==
    ASSUME NEW d, Valid(d), NoLeapSecond(d), NEW e, Valid(e), NoLeapSecond(e),
           DayNumber(d) = DayNumber(e)
    PROVE  TimeTimeBetween(TimeOf(d), TimeOf(e)) = TimeBetween(d, e)
<1> DEFINE t == TimeOf(d)
           u == TimeOf(e)
           cmp == CompareFields(TimeFields(t), TimeFields(u))
<1>1. /\ t.hour \in 0..23 /\ t.minute \in 0..59 /\ t.second \in 0..59
      /\ t.millisecond \in UpTo(999)
      /\ u.hour \in 0..23 /\ u.minute \in 0..59 /\ u.second \in 0..59
      /\ u.millisecond \in UpTo(999)
  BY DEF TimeOf, Valid, DateTimes, NoLeapSecond, UpTo
<1>2. MsOf(t) = MsOf(d) /\ MsOf(u) = MsOf(e)
  BY DEF MsOf, TimeOf
<1> HIDE DEF t, u
<1>3. /\ MsOf(t) \in Int /\ MsOf(u) \in Int
      /\ cmp = IF MsOf(t) < MsOf(u) THEN -1 ELSE IF MsOf(t) = MsOf(u) THEN 0 ELSE 1
  BY <1>1, TimesInOrder
<1>4. PICK p, x, y \in Int :
        /\ p = DayNumber(d) /\ x = MsOf(d) /\ y = MsOf(e)
        /\ MillisecondNumber(d) = 86400000 * p + x
        /\ MillisecondNumber(e) = 86400000 * p + y
  BY InstantFields, DayInMs
<1>5. DateCompare(d, e) = IF x < y THEN -1 ELSE IF x = y THEN 0 ELSE 1
  <2>1. /\ MillisecondNumber(d) < MillisecondNumber(e) <=> x < y
        /\ MillisecondNumber(d) = MillisecondNumber(e) <=> x = y
    BY <1>4
  <2> QED BY <2>1, DatesInOrder
<1>6. DaysFrom(e, d) = 0 /\ DaysFrom(d, e) = 0
  BY <1>4, DaysCounted
<1> HIDE DEF cmp
<1>7. CASE y <= x
  <2>1. cmp >= 0 /\ DateCompare(d, e) >= 0
    BY <1>2, <1>3, <1>4, <1>5, <1>7
  <2>2. \A neg : Elapsed(e, d, neg) = Span(neg, 0, ElapsedMs(e, d))
    <3>1. ~(MsOf(e) > MsOf(d))
      BY <1>4, <1>7
    <3>2. \A neg : Elapsed(e, d, neg) = Span(neg, DaysFrom(e, d), ElapsedMs(e, d))
      BY <3>1, CountedFrom
    <3> QED BY <1>6, <3>2, Zenon
  <2>3. ElapsedMs(e, d) = ElapsedMs(u, t)
    BY <1>2 DEF ElapsedMs
  <2>4. TimeBetween(d, e) = Span(FALSE, 0, ElapsedMs(e, d))
    <3>1. CASE x = y
      <4>1. ElapsedMs(e, d) = 0
        BY <1>4, <3>1 DEF ElapsedMs
      <4>2. DateCompare(d, e) = 0
        BY <1>4, <1>5, <3>1
      <4> QED BY <4>1, <4>2 DEF TimeBetween
    <3>2. CASE x # y
      <4>1. DateCompare(d, e) = 1
        BY <1>5, <1>7, <3>2
      <4>2. TimeBetween(d, e) = Elapsed(e, d, FALSE)
        BY <4>1 DEF TimeBetween
      <4> QED BY <2>2, <4>2, Zenon
    <3> QED BY <3>1, <3>2
  <2>5. TimeTimeBetween(t, u) = Span(FALSE, 0, ElapsedMs(u, t))
    BY <2>1 DEF TimeTimeBetween, cmp
  <2> QED BY <2>3, <2>4, <2>5 DEF t, u
<1>8. CASE x < y
  <2>1. ~(cmp >= 0) /\ DateCompare(d, e) = -1
    BY <1>2, <1>3, <1>4, <1>5, <1>8
  <2>2. \A neg : Elapsed(d, e, neg) = Span(neg, 0, ElapsedMs(d, e))
    <3>1. ~(MsOf(d) > MsOf(e))
      BY <1>4, <1>8
    <3>2. \A neg : Elapsed(d, e, neg) = Span(neg, DaysFrom(d, e), ElapsedMs(d, e))
      BY <3>1, CountedFrom
    <3> QED BY <1>6, <3>2, Zenon
  <2>3. ElapsedMs(d, e) = ElapsedMs(t, u)
    BY <1>2 DEF ElapsedMs
  <2>4. TimeBetween(d, e) = Span(TRUE, 0, ElapsedMs(d, e))
    <3>1. TimeBetween(d, e) = Elapsed(d, e, TRUE)
      BY <2>1 DEF TimeBetween
    <3> QED BY <2>2, <3>1, Zenon
  <2>5. TimeTimeBetween(t, u) = Span(TRUE, 0, ElapsedMs(t, u))
    BY <2>1 DEF TimeTimeBetween, cmp
  <2> QED BY <2>3, <2>4, <2>5 DEF t, u
<1> QED BY <1>4, <1>7, <1>8

(* Of the time_spans from two dates to a third, which is the shorter.      *)
LEMMA ShorterFromLater ==
    ASSUME NEW d, Valid(d), NoLeapSecond(d), NEW o, Valid(o), NoLeapSecond(o),
           NEW e, Valid(e), NoLeapSecond(e),
           NEW span, TimeBetween(d, o) = {span}, NEW other, TimeBetween(d, e) = {other},
           ~span.negative \/ ~other.negative
    PROVE  SpanCompare(span, other) < 0 <=> DateCompare(o, e) > 0
<1> DEFINE m == MillisecondNumber(d)
           n == MillisecondNumber(o)
           k == MillisecondNumber(e)
<1>1. m \in Int /\ n \in Int /\ k \in Int
  BY NumberBounded
<1>2. DateCompare(o, e) = IF n < k THEN -1 ELSE IF n = k THEN 0 ELSE 1
  BY DatesInOrder, Zenon
<1>3. /\ n <= m => Lasts(span, FALSE, m - n)
      /\ m < n  => Lasts(span, TRUE, n - m)
  <2>1. n <= m => \E s : TimeBetween(d, o) = {s} /\ Lasts(s, FALSE, m - n)
    BY BetweenLasts, Zenon
  <2>2. m < n => \E s : TimeBetween(d, o) = {s} /\ Lasts(s, TRUE, n - m)
    BY BetweenLasts, Zenon
  <2>3. \A s : TimeBetween(d, o) = {s} => s = span
    OBVIOUS
  <2> HIDE DEF m, n, k
  <2> QED BY <2>1, <2>2, <2>3, Zenon
<1>4. /\ k <= m => Lasts(other, FALSE, m - k)
      /\ m < k  => Lasts(other, TRUE, k - m)
  <2>1. k <= m => \E s : TimeBetween(d, e) = {s} /\ Lasts(s, FALSE, m - k)
    BY BetweenLasts, Zenon
  <2>2. m < k => \E s : TimeBetween(d, e) = {s} /\ Lasts(s, TRUE, k - m)
    BY BetweenLasts, Zenon
  <2>3. \A s : TimeBetween(d, e) = {s} => s = other
    OBVIOUS
  <2> HIDE DEF m, n, k
  <2> QED BY <2>1, <2>2, <2>3, Zenon
<1> HIDE DEF m, n, k
<1>5. CASE n <= m /\ k <= m
  <2>1. PICK a, b \in Int : a = m - n /\ b = m - k
    BY <1>1
  <2>2. Lasts(span, FALSE, a) /\ Lasts(other, FALSE, b)
    BY <1>3, <1>4, <1>5, <2>1
  <2>3. SpanCompare(span, other) < 0 <=> a < b
    BY <2>2, SpansInOrder, Zenon
  <2> QED BY <1>1, <1>2, <2>1, <2>3
<1>6. CASE m < n /\ k <= m
  <2>1. span.negative = TRUE /\ other.negative = FALSE
    BY <1>3, <1>4, <1>6 DEF Lasts
  <2>2. SpanCompare(span, other) = -1
    BY <2>1 DEF SpanCompare
  <2> QED BY <1>1, <1>2, <1>6, <2>2
<1>7. CASE n <= m /\ m < k
  <2>1. span.negative = FALSE /\ other.negative = TRUE
    BY <1>3, <1>4, <1>7 DEF Lasts
  <2>2. SpanCompare(span, other) = 1
    BY <2>1 DEF SpanCompare
  <2> QED BY <1>1, <1>2, <1>7, <2>2
<1>8. CASE m < n /\ m < k
  <2>1. span.negative = TRUE /\ other.negative = TRUE
    BY <1>3, <1>4, <1>8 DEF Lasts
  <2> QED BY <2>1
<1> QED BY <1>1, <1>5, <1>6, <1>7, <1>8

(* Of any two dates of the calendar: nothing is needed of the state.       *)
LEMMA DatesCount == DifferenceCounts
<1>1. SUFFICES ASSUME Valid(date), Valid(origin), NoLeapSecond(date), NoLeapSecond(origin)
               PROVE  \E span \in TimeBetween(date, origin) :
                        /\ Measures(span, Instant(origin), Instant(date))
                        /\ DayNumber(date) = DayNumber(origin) =>
                              TimeTimeBetween(TimeOf(date), TimeOf(origin)) = {span}
                        /\ DateCompare(date, origin) >= 0 => DateAdd(origin, span) = {date}
                        /\ \A e \in Starts : Valid(e) /\ NoLeapSecond(e) =>
                              \E other \in TimeBetween(date, e) :
                                 ~span.negative \/ ~other.negative =>
                                    (SpanCompare(span, other) < 0 <=> DateCompare(origin, e) > 0)
  BY DEF DifferenceCounts
<1> DEFINE m == MillisecondNumber(date)
           n == MillisecondNumber(origin)
<1>2. m \in Int /\ n \in Int /\ (n <= m \/ m < n)
  <2>1. m \in Int /\ n \in Int
    BY <1>1, NumberBounded
  <2> HIDE DEF m, n
  <2> QED BY <2>1
<1>3. PICK span : /\ TimeBetween(date, origin) = {span}
                  /\ n <= m => Lasts(span, FALSE, m - n)
                  /\ m < n  => Lasts(span, TRUE, n - m)
  <2>1. n <= m => \E s : TimeBetween(date, origin) = {s} /\ Lasts(s, FALSE, m - n)
    BY <1>1, BetweenLasts, Zenon
  <2>2. m < n => \E s : TimeBetween(date, origin) = {s} /\ Lasts(s, TRUE, n - m)
    BY <1>1, BetweenLasts, Zenon
  <2> HIDE DEF m, n
  <2>3. ~(n <= m /\ m < n)
    BY <1>2
  <2> QED BY <1>2, <2>1, <2>2, <2>3, Zenon
<1>4. Measures(span, Instant(origin), Instant(date))
  <2>1. CASE n <= m
    <3>1. Lasts(span, FALSE, m - n)
      BY <1>3, <2>1, Zenon
    <3>2. span.negative = FALSE
      BY <3>1 DEF Lasts
    <3>3. Later(Instant(origin), span.days, MsOf(SpanTime(span))) = Instant(date)
      BY <1>1, <3>1, SpanMeasures, Zenon
    <3>4. WithinTheDay(span) = MsOf(SpanTime(span))
      BY <3>1, WithoutDays, Zenon
    <3> QED BY <3>2, <3>3, <3>4 DEF Measures, WithinTheDay
  <2>2. CASE m < n
    <3>1. Lasts(span, TRUE, n - m)
      BY <1>3, <2>2, Zenon
    <3>2. span.negative = TRUE
      BY <3>1 DEF Lasts
    <3>3. Later(Instant(date), span.days, MsOf(SpanTime(span))) = Instant(origin)
      BY <1>1, <3>1, SpanMeasures, Zenon
    <3>4. WithinTheDay(span) = MsOf(SpanTime(span))
      BY <3>1, WithoutDays, Zenon
    <3> QED BY <3>2, <3>3, <3>4 DEF Measures, WithinTheDay
  <2> QED BY <1>2, <2>1, <2>2
<1>5. DayNumber(date) = DayNumber(origin) =>
        TimeTimeBetween(TimeOf(date), TimeOf(origin)) = {span}
  BY <1>1, <1>3, SameDay
<1>6. DateCompare(date, origin) >= 0 => DateAdd(origin, span) = {date}
  <2>1. SUFFICES ASSUME DateCompare(date, origin) >= 0
                 PROVE  DateAdd(origin, span) = {date}
    OBVIOUS
  <2>2. DateCompare(date, origin) = IF m < n THEN -1 ELSE IF m = n THEN 0 ELSE 1
    BY <1>1, DatesInOrder, Zenon
  <2>3. Lasts(span, FALSE, m - n)
    <3> HIDE DEF m, n
    <3>1. n <= m
      BY <1>2, <2>1, <2>2
    <3> QED BY <1>3, <3>1, Zenon
  <2> QED BY <1>1, <2>3, SpanReaches, Zenon
<1>7. ASSUME NEW e \in Starts, Valid(e), NoLeapSecond(e)
      PROVE  \E other \in TimeBetween(date, e) :
               ~span.negative \/ ~other.negative =>
                  (SpanCompare(span, other) < 0 <=> DateCompare(origin, e) > 0)
  <2>1. Valid(e)
    BY <1>7
  <2>2. PICK other : TimeBetween(date, e) = {other}
    <3> DEFINE k == MillisecondNumber(e)
    <3>1. k \in Int
      BY <1>7, <2>1, NumberBounded
    <3>2. k <= m \/ m < k
      <4> HIDE DEF k, m
      <4> QED BY <1>2, <3>1
    <3> QED BY <1>1, <1>7, <2>1, <3>2, BetweenLasts, Zenon
  <2>3. ~span.negative \/ ~other.negative =>
          (SpanCompare(span, other) < 0 <=> DateCompare(origin, e) > 0)
    BY <1>1, <1>3, <1>7, <2>1, <2>2, ShorterFromLater
  <2> QED BY <2>2, <2>3
<1> QED BY <1>3, <1>4, <1>5, <1>6, <1>7

(* For all dates of the calendar and every sequence of calls:              *)
(* time_between() yields the time by the reference calendar, the           *)
(* difference of the times of day on one day, and what add() makes the     *)
(* later date of the earlier; and compare() of two time_spans tells the    *)
(* longer.                                                                 *)
THEOREM DifferenceAlwaysCounts == Spec => []DifferenceCounts
BY DatesCount, PTL
=============================================================================
