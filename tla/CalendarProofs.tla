--------------------------- MODULE CalendarProofs ---------------------------
(***************************************************************************)
(* The additions of the class time are exact modulo a day, for every time  *)
(* without a leap second and every integer amount, and only an amount of   *)
(* more than a day backwards is refused; and three theorems about the      *)
(* caller of module Calendar, for every start, every amount and every      *)
(* number of calls. Validity needs nothing of the arithmetic: each result  *)
(* leaves through the checked setters, which keep a valid object valid     *)
(* whatever they are given.                                                *)
(***************************************************************************)
EXTENDS Calendar, SequenceTheorems, TLAPS

-----------------------------------------------------------------------------
(* The arithmetic of the class time.                                       *)

(* What the C++ quotient and remainder are, for the bases in use.          *)
LEMMA Division24 ==
    ASSUME NEW a \in Int
    PROVE  /\ Quot(a, 24) \in Int /\ Rem(a, 24) \in Int
           /\ a = 24 * Quot(a, 24) + Rem(a, 24)
           /\ -24 < Rem(a, 24) /\ Rem(a, 24) < 24
           /\ a >= 0 => Rem(a, 24) >= 0
           /\ a < 0 => Rem(a, 24) <= 0
BY DEF Quot, Rem

LEMMA Division60 ==
    ASSUME NEW a \in Int
    PROVE  /\ Quot(a, 60) \in Int /\ Rem(a, 60) \in Int
           /\ a = 60 * Quot(a, 60) + Rem(a, 60)
           /\ -60 < Rem(a, 60) /\ Rem(a, 60) < 60
           /\ a >= 0 => Rem(a, 60) >= 0
           /\ a < 0 => Rem(a, 60) <= 0
BY DEF Quot, Rem

LEMMA Division1000 ==
    ASSUME NEW a \in Int
    PROVE  /\ Quot(a, 1000) \in Int /\ Rem(a, 1000) \in Int
           /\ a = 1000 * Quot(a, 1000) + Rem(a, 1000)
           /\ -1000 < Rem(a, 1000) /\ Rem(a, 1000) < 1000
           /\ a >= 0 => Rem(a, 1000) >= 0
           /\ a < 0 => Rem(a, 1000) <= 0
BY DEF Quot, Rem

(* The field left after a carry or a borrow.                               *)
LEMMA Left60 ==
    ASSUME NEW n \in Int, NEW v \in UpTo(59)
    PROVE  LET sum == Rem(n, 60) + v
               left == Rem(sum + 60, 60)
           IN  /\ Quot(n, 60) + Carry(sum, 60) \in Int /\ left \in UpTo(59) /\ U8(left) = left
               /\ 60 * (Quot(n, 60) + Carry(sum, 60)) + left = n + v
<1> DEFINE sum == Rem(n, 60) + v
           left == Rem(sum + 60, 60)
<1>1. v \in Int /\ 0 <= v /\ v < 60
  BY DEF UpTo
<1>2. /\ Quot(n, 60) \in Int /\ Rem(n, 60) \in Int
      /\ n = 60 * Quot(n, 60) + Rem(n, 60)
      /\ -60 < Rem(n, 60) /\ Rem(n, 60) < 60
  BY Division60, Zenon
<1>3. sum \in Int /\ -60 < sum /\ sum < 119
  BY <1>1, <1>2
<1> HIDE DEF sum
<1>4. sum + 60 \in Int /\ sum + 60 >= 0
  BY <1>3
<1>5. left \in Int /\ 0 <= left /\ left < 60 /\ left = sum - 60 * Carry(sum, 60)
  <2>1. /\ left \in Int /\ Quot(sum + 60, 60) \in Int
        /\ sum + 60 = 60 * Quot(sum + 60, 60) + left /\ 0 <= left /\ left < 60
    BY <1>4, Division60
  <2> HIDE DEF left
  <2> QED BY <1>3, <2>1 DEF Carry
<1> HIDE DEF left
<1>6. left \in UpTo(59) /\ U8(left) = left
  BY <1>5 DEF UpTo, U8
<1>7. Carry(sum, 60) \in Int
  BY DEF Carry
<1>8. 60 * (Quot(n, 60) + Carry(sum, 60)) + left = n + v
  <2>1. sum = Rem(n, 60) + v
    BY DEF sum
  <2> QED BY <1>1, <1>2, <1>3, <1>5, <1>7, <2>1
<1>9. Quot(n, 60) + Carry(sum, 60) \in Int
  BY <1>2, <1>7
<1> QED BY <1>6, <1>8, <1>9 DEF left, sum

LEMMA Left1000 ==
    ASSUME NEW n \in Int, NEW v \in UpTo(999)
    PROVE  LET sum == Rem(n, 1000) + v
               left == Rem(sum + 1000, 1000)
           IN  /\ Quot(n, 1000) + Carry(sum, 1000) \in Int /\ left \in UpTo(999) /\ U16(left) = left
               /\ 1000 * (Quot(n, 1000) + Carry(sum, 1000)) + left = n + v
<1> DEFINE sum == Rem(n, 1000) + v
           left == Rem(sum + 1000, 1000)
<1>1. v \in Int /\ 0 <= v /\ v < 1000
  BY DEF UpTo
<1>2. /\ Quot(n, 1000) \in Int /\ Rem(n, 1000) \in Int
      /\ n = 1000 * Quot(n, 1000) + Rem(n, 1000)
      /\ -1000 < Rem(n, 1000) /\ Rem(n, 1000) < 1000
  BY DEF Quot, Rem
<1>3. sum \in Int /\ -1000 < sum /\ sum < 1999
  BY <1>1, <1>2
<1> HIDE DEF sum
<1>4. sum + 1000 \in Int /\ sum + 1000 >= 0
  BY <1>3
<1>5. left \in Int /\ 0 <= left /\ left < 1000 /\ left = sum - 1000 * Carry(sum, 1000)
  <2>1. /\ left \in Int /\ Quot(sum + 1000, 1000) \in Int
        /\ sum + 1000 = 1000 * Quot(sum + 1000, 1000) + left /\ 0 <= left /\ left < 1000
    BY <1>4, Division1000
  <2> HIDE DEF left
  <2> QED BY <1>3, <2>1 DEF Carry
<1> HIDE DEF left
<1>6. left \in UpTo(999) /\ U16(left) = left
  BY <1>5 DEF UpTo, U16
<1>7. Carry(sum, 1000) \in Int
  BY DEF Carry
<1>8. 1000 * (Quot(n, 1000) + Carry(sum, 1000)) + left = n + v
  <2>1. sum = Rem(n, 1000) + v
    BY DEF sum
  <2> QED BY <1>1, <1>2, <1>3, <1>5, <1>7, <2>1
<1>9. Quot(n, 1000) + Carry(sum, 1000) \in Int
  BY <1>2, <1>7
<1> QED BY <1>6, <1>8, <1>9 DEF left, sum

-----------------------------------------------------------------------------
(* Every addition of the class time leaves through a setter, which keeps a *)
(* time of day one, whatever it is given.                                  *)
LEMMA ClockSettersValid ==
    ASSUME NEW t \in Times, NEW n,
           NEW x \in SetHour(t, n) \cup SetMinute(t, n) \cup SetSecond(t, n)
                     \cup SetMillisecond(t, n)
    PROVE  x \in Times
BY DEF SetHour, SetMinute, SetSecond, SetMillisecond, Times

LEMMA ClockAddHoursValid ==
    ASSUME NEW t \in Times, NEW n, NEW x \in TimeAddHours(t, n)
    PROVE  x \in Times
BY ClockSettersValid DEF TimeAddHours

LEMMA ClockAddMinutesValid ==
    ASSUME NEW t \in Times, NEW n, NEW x \in TimeAddMinutes(t, n)
    PROVE  x \in Times
<1>1. CASE x = t
  BY <1>1
<1>2. CASE x # t
  <2> DEFINE sum == Rem(n, 60) + t.minute
  <2>1. PICK y \in TimeAddHours(t, Quot(n, 60) + Carry(sum, 60)) :
          x \in SetMinute(y, Rem(sum + 60, 60))
    BY <1>2 DEF TimeAddMinutes
  <2> QED BY <2>1, ClockAddHoursValid, ClockSettersValid
<1> QED BY <1>1, <1>2

LEMMA ClockAddSecondsValid ==
    ASSUME NEW t \in Times, NEW n, NEW x \in TimeAddSeconds(t, n)
    PROVE  x \in Times
<1>1. CASE x = t
  BY <1>1
<1>2. CASE x # t
  <2> DEFINE sum == Rem(n, 60) + t.second
  <2>1. PICK y \in TimeAddMinutes(t, Quot(n, 60) + Carry(sum, 60)) :
          x \in SetSecond(y, Rem(sum + 60, 60))
    BY <1>2 DEF TimeAddSeconds
  <2> QED BY <2>1, ClockAddMinutesValid, ClockSettersValid
<1> QED BY <1>1, <1>2

LEMMA ClockAddMillisecondsValid ==
    ASSUME NEW t \in Times, NEW n, NEW x \in TimeAddMilliseconds(t, n)
    PROVE  x \in Times
<1>1. CASE x = t
  BY <1>1
<1>2. CASE x # t
  <2> DEFINE sum == Rem(n, 1000) + t.millisecond
  <2>1. PICK y \in TimeAddSeconds(t, Quot(n, 1000) + Carry(sum, 1000)) :
          x \in SetMillisecond(y, Rem(sum + 1000, 1000))
    BY <1>2 DEF TimeAddMilliseconds
  <2> QED BY <2>1, ClockAddSecondsValid, ClockSettersValid
<1> QED BY <1>1, <1>2

-----------------------------------------------------------------------------
(* The time of day in each unit.                                           *)
HourOf(t)    == t.hour
MinutesOf(t) == 60 * HourOf(t) + t.minute
SecondsOf(t) == 60 * MinutesOf(t) + t.second
MillisecondsOf(t) == 1000 * SecondsOf(t) + t.millisecond

(* Hours: exact modulo 24, refused only before more than a day.            *)
LEMMA HoursExact ==
    ASSUME NEW t \in Times, NEW n \in Int, NEW x \in TimeAddHours(t, n)
    PROVE  /\ \E k \in Int : HourOf(x) = HourOf(t) + n + 24 * k
           /\ x.minute = t.minute /\ x.second = t.second
           /\ x.millisecond = t.millisecond
<1>1. t.hour \in Int /\ 0 <= t.hour /\ t.hour <= 23
  BY DEF Times, UpTo
<1>2. CASE n = 0
  <2>1. x = t /\ t.hour = t.hour + n + 24 * 0
    BY <1>1, <1>2 DEF TimeAddHours
  <2> QED BY <2>1 DEF HourOf
<1>3. CASE n # 0
  <2> DEFINE sum == n + t.hour + 24
             r   == Rem(sum, 24)
  <2>1. sum \in Int
    BY <1>1
  <2>2. /\ r \in Int /\ Quot(sum, 24) \in Int
        /\ sum = 24 * Quot(sum, 24) + r /\ -24 < r /\ r < 24
    BY <2>1, Division24
  <2>3. PICK v \in {U8(r)} \cap UpTo(23) : x = [t EXCEPT !.hour = v]
    BY <1>3 DEF TimeAddHours, SetHour
  <2>4. /\ x.hour = v /\ x.minute = t.minute /\ x.second = t.second
        /\ x.millisecond = t.millisecond
    BY <2>3 DEF Times
  <2>5. v = r
    <3> HIDE DEF r
    <3> QED BY <2>2, <2>3 DEF U8, UpTo
  <2>6. v = t.hour + n + 24 * (1 - Quot(sum, 24))
    BY <1>1, <2>2, <2>5
  <2>7. 1 - Quot(sum, 24) \in Int
    BY <2>2
  <2> QED BY <2>4, <2>6, <2>7 DEF HourOf
<1> QED BY <1>2, <1>3

LEMMA HoursRefused ==
    ASSUME NEW t \in Times, NEW n \in Int, TimeAddHours(t, n) = {}
    PROVE  n < -24
<1>1. t.hour \in Int /\ 0 <= t.hour /\ t.hour <= 23
  BY DEF Times, UpTo
<1>2. n # 0
  BY DEF TimeAddHours
<1> DEFINE sum == n + t.hour + 24
           r   == Rem(sum, 24)
<1>3. sum \in Int
  BY <1>1
<1>4. /\ r \in Int /\ r < 24 /\ (sum >= 0 => r >= 0)
  BY <1>3, Division24
<1>5. CASE sum >= 0
  <2>1. U8(r) \in UpTo(23)
    <3> HIDE DEF r
    <3> QED BY <1>4, <1>5 DEF U8, UpTo
  <2>2. [t EXCEPT !.hour = U8(r)] \in TimeAddHours(t, n)
    BY <1>2, <2>1 DEF TimeAddHours, SetHour
  <2> QED BY <2>2
<1>6. CASE ~(sum >= 0)
  BY <1>1, <1>3, <1>6
<1> QED BY <1>5, <1>6

-----------------------------------------------------------------------------
(* Where the larger unit is exact and the field left fits, so is the      *)
(* smaller unit.                                                           *)

LEMMA MinutesExact ==
    ASSUME NEW t \in Times, NEW n \in Int, NEW x \in TimeAddMinutes(t, n)
    PROVE  /\ \E k \in Int : MinutesOf(x) = MinutesOf(t) + n + 1440 * k
           /\ x.second = t.second /\ x.millisecond = t.millisecond
<1> DEFINE sum  == Rem(n, 60) + t.minute
           q    == Quot(n, 60) + Carry(sum, 60)
           left == Rem(sum + 60, 60)
<1>1. t.minute \in UpTo(59) /\ t.minute \in Int /\ HourOf(t) \in Int
  BY DEF Times, UpTo, HourOf, MinutesOf, SecondsOf
<1>2. CASE n = 0
  <2>1. x = t /\ MinutesOf(t) \in Int
    BY <1>1, <1>2 DEF TimeAddMinutes, MinutesOf
  <2>2. MinutesOf(x) = MinutesOf(t) + n + 1440 * 0
    BY <1>2, <2>1
  <2>3. \E k \in Int : MinutesOf(x) = MinutesOf(t) + n + 1440 * k
    BY <2>2
  <2> QED BY <2>1, <2>3
<1>3. CASE n # 0
  <2>1. /\ left \in UpTo(59) /\ U8(left) = left /\ q \in Int
        /\ 60 * q + left = n + t.minute
    BY <1>1, Left60
  <2>2. PICK y \in TimeAddHours(t, q) : x \in SetMinute(y, left)
    BY <1>3 DEF TimeAddMinutes
  <2> HIDE DEF q, left
  <2>3. y \in Times
    BY <2>2, ClockAddHoursValid
  <2>4. PICK k \in Int : HourOf(y) = HourOf(t) + q + 24 * k
    BY <2>1, <2>2, HoursExact
  <2>5. y.minute = t.minute /\ y.second = t.second /\ y.millisecond = t.millisecond
    BY <2>1, <2>2, HoursExact
  <2>6. x = [y EXCEPT !.minute = left]
    BY <2>1, <2>2 DEF SetMinute
  <2>7. x.minute = left /\ HourOf(x) = HourOf(y) /\ x.second = y.second /\ x.millisecond = y.millisecond
    BY <2>3, <2>6 DEF Times, HourOf
  <2>8. left \in Int
    BY <2>1 DEF UpTo
  <2>9. MinutesOf(x) = MinutesOf(t) + n + 1440 * k
    BY <1>1, <2>1, <2>4, <2>7, <2>8 DEF MinutesOf
  <2> QED BY <2>5, <2>7, <2>9
<1> QED BY <1>2, <1>3

LEMMA MinutesRefused ==
    ASSUME NEW t \in Times, NEW n \in Int, TimeAddMinutes(t, n) = {}
    PROVE  n < -1440
<1> DEFINE sum  == Rem(n, 60) + t.minute
           q    == Quot(n, 60) + Carry(sum, 60)
           left == Rem(sum + 60, 60)
<1>1. t.minute \in UpTo(59) /\ t.minute \in Int /\ 0 <= t.minute
  BY DEF Times, UpTo, HourOf, MinutesOf, SecondsOf
<1>2. n # 0
  BY DEF TimeAddMinutes
<1>3. /\ left \in UpTo(59) /\ U8(left) = left /\ q \in Int
      /\ 60 * q + left = n + t.minute
  BY <1>1, Left60
<1>4. CASE TimeAddHours(t, q) = {}
  <2>1. q < -24
    BY <1>3, <1>4, HoursRefused
  <2>2. left <= 59 /\ left \in Int
    BY <1>3 DEF UpTo
  <2> HIDE DEF q, left
  <2> QED BY <1>1, <1>3, <2>1, <2>2
<1>5. CASE TimeAddHours(t, q) # {}
  <2>1. PICK y \in TimeAddHours(t, q) : TRUE
    BY <1>5
  <2>2. SetMinute(y, left) # {}
    <3> HIDE DEF left
    <3>1. U8(left) \in {U8(left)} \cap UpTo(59)
      BY <1>3 DEF UpTo
    <3>2. [y EXCEPT !.minute = U8(left)] \in SetMinute(y, left)
      BY <3>1 DEF SetMinute
    <3> QED BY <3>2
  <2> QED BY <1>2, <2>1, <2>2 DEF TimeAddMinutes
<1> QED BY <1>4, <1>5

LEMMA SecondsExact ==
    ASSUME NEW t \in Times, t.second < 60, NEW n \in Int, NEW x \in TimeAddSeconds(t, n)
    PROVE  /\ \E k \in Int : SecondsOf(x) = SecondsOf(t) + n + 86400 * k
           /\ x.millisecond = t.millisecond
<1> DEFINE sum  == Rem(n, 60) + t.second
           q    == Quot(n, 60) + Carry(sum, 60)
           left == Rem(sum + 60, 60)
<1>1. t.second \in UpTo(59) /\ t.second \in Int /\ MinutesOf(t) \in Int
  BY DEF Times, UpTo, HourOf, MinutesOf, SecondsOf
<1>2. CASE n = 0
  <2>1. x = t /\ SecondsOf(t) \in Int
    BY <1>1, <1>2 DEF TimeAddSeconds, SecondsOf
  <2>2. SecondsOf(x) = SecondsOf(t) + n + 86400 * 0
    BY <1>2, <2>1
  <2>3. \E k \in Int : SecondsOf(x) = SecondsOf(t) + n + 86400 * k
    BY <2>2
  <2> QED BY <2>1, <2>3
<1>3. CASE n # 0
  <2>1. /\ left \in UpTo(59) /\ U8(left) = left /\ q \in Int
        /\ 60 * q + left = n + t.second
    BY <1>1, Left60
  <2>2. PICK y \in TimeAddMinutes(t, q) : x \in SetSecond(y, left)
    BY <1>3 DEF TimeAddSeconds
  <2> HIDE DEF q, left
  <2>3. y \in Times
    BY <2>2, ClockAddMinutesValid
  <2>4. PICK k \in Int : MinutesOf(y) = MinutesOf(t) + q + 1440 * k
    BY <2>1, <2>2, MinutesExact
  <2>5. y.second = t.second /\ y.millisecond = t.millisecond
    BY <2>1, <2>2, MinutesExact
  <2>6. x = [y EXCEPT !.second = left]
    BY <2>1, <2>2 DEF SetSecond
  <2>7. x.second = left /\ MinutesOf(x) = MinutesOf(y) /\ x.millisecond = y.millisecond
    BY <2>3, <2>6 DEF Times, MinutesOf, HourOf
  <2>8. left \in Int
    BY <2>1 DEF UpTo
  <2>9. SecondsOf(x) = SecondsOf(t) + n + 86400 * k
    BY <1>1, <2>1, <2>4, <2>7, <2>8 DEF SecondsOf
  <2> QED BY <2>5, <2>7, <2>9
<1> QED BY <1>2, <1>3

LEMMA SecondsRefused ==
    ASSUME NEW t \in Times, t.second < 60, NEW n \in Int, TimeAddSeconds(t, n) = {}
    PROVE  n < -86400
<1> DEFINE sum  == Rem(n, 60) + t.second
           q    == Quot(n, 60) + Carry(sum, 60)
           left == Rem(sum + 60, 60)
<1>1. t.second \in UpTo(59) /\ t.second \in Int /\ 0 <= t.second
  BY DEF Times, UpTo, HourOf, MinutesOf, SecondsOf
<1>2. n # 0
  BY DEF TimeAddSeconds
<1>3. /\ left \in UpTo(59) /\ U8(left) = left /\ q \in Int
      /\ 60 * q + left = n + t.second
  BY <1>1, Left60
<1>4. CASE TimeAddMinutes(t, q) = {}
  <2>1. q < -1440
    BY <1>3, <1>4, MinutesRefused
  <2>2. left <= 59 /\ left \in Int
    BY <1>3 DEF UpTo
  <2> HIDE DEF q, left
  <2> QED BY <1>1, <1>3, <2>1, <2>2
<1>5. CASE TimeAddMinutes(t, q) # {}
  <2>1. PICK y \in TimeAddMinutes(t, q) : TRUE
    BY <1>5
  <2>2. SetSecond(y, left) # {}
    <3> HIDE DEF left
    <3>1. U8(left) \in {U8(left)} \cap UpTo(61)
      BY <1>3 DEF UpTo
    <3>2. [y EXCEPT !.second = U8(left)] \in SetSecond(y, left)
      BY <3>1 DEF SetSecond
    <3> QED BY <3>2
  <2> QED BY <1>2, <2>1, <2>2 DEF TimeAddSeconds
<1> QED BY <1>4, <1>5

LEMMA MillisecondsExact ==
    ASSUME NEW t \in Times, t.second < 60, NEW n \in Int, NEW x \in TimeAddMilliseconds(t, n)
    PROVE  /\ \E k \in Int : MillisecondsOf(x) = MillisecondsOf(t) + n + 86400000 * k
<1> DEFINE sum  == Rem(n, 1000) + t.millisecond
           q    == Quot(n, 1000) + Carry(sum, 1000)
           left == Rem(sum + 1000, 1000)
<1>1. t.millisecond \in UpTo(999) /\ t.millisecond \in Int /\ SecondsOf(t) \in Int
  BY DEF Times, UpTo, HourOf, MinutesOf, SecondsOf
<1>2. CASE n = 0
  <2>1. x = t /\ MillisecondsOf(t) \in Int
    BY <1>1, <1>2 DEF TimeAddMilliseconds, MillisecondsOf
  <2>2. MillisecondsOf(x) = MillisecondsOf(t) + n + 86400000 * 0
    BY <1>2, <2>1
  <2>3. \E k \in Int : MillisecondsOf(x) = MillisecondsOf(t) + n + 86400000 * k
    BY <2>2
  <2> QED BY <2>1, <2>3
<1>3. CASE n # 0
  <2>1. /\ left \in UpTo(999) /\ U16(left) = left /\ q \in Int
        /\ 1000 * q + left = n + t.millisecond
    BY <1>1, Left1000
  <2>2. PICK y \in TimeAddSeconds(t, q) : x \in SetMillisecond(y, left)
    BY <1>3 DEF TimeAddMilliseconds
  <2> HIDE DEF q, left
  <2>3. y \in Times
    BY <2>2, ClockAddSecondsValid
  <2>4. PICK k \in Int : SecondsOf(y) = SecondsOf(t) + q + 86400 * k
    BY <2>1, <2>2, SecondsExact
  <2>5. y.millisecond = t.millisecond
    BY <2>1, <2>2, SecondsExact
  <2>6. x = [y EXCEPT !.millisecond = left]
    BY <2>1, <2>2 DEF SetMillisecond
  <2>7. x.millisecond = left /\ SecondsOf(x) = SecondsOf(y)
    BY <2>3, <2>6 DEF Times, SecondsOf, MinutesOf, HourOf
  <2>8. left \in Int
    BY <2>1 DEF UpTo
  <2>9. MillisecondsOf(x) = MillisecondsOf(t) + n + 86400000 * k
    BY <1>1, <2>1, <2>4, <2>7, <2>8 DEF MillisecondsOf
  <2> QED BY <2>5, <2>7, <2>9
<1> QED BY <1>2, <1>3

LEMMA MillisecondsRefused ==
    ASSUME NEW t \in Times, t.second < 60, NEW n \in Int, TimeAddMilliseconds(t, n) = {}
    PROVE  n < -86400000
<1> DEFINE sum  == Rem(n, 1000) + t.millisecond
           q    == Quot(n, 1000) + Carry(sum, 1000)
           left == Rem(sum + 1000, 1000)
<1>1. t.millisecond \in UpTo(999) /\ t.millisecond \in Int /\ 0 <= t.millisecond
  BY DEF Times, UpTo, HourOf, MinutesOf, SecondsOf
<1>2. n # 0
  BY DEF TimeAddMilliseconds
<1>3. /\ left \in UpTo(999) /\ U16(left) = left /\ q \in Int
      /\ 1000 * q + left = n + t.millisecond
  BY <1>1, Left1000
<1>4. CASE TimeAddSeconds(t, q) = {}
  <2>1. q < -86400
    BY <1>3, <1>4, SecondsRefused
  <2>2. left <= 999 /\ left \in Int
    BY <1>3 DEF UpTo
  <2> HIDE DEF q, left
  <2> QED BY <1>1, <1>3, <2>1, <2>2
<1>5. CASE TimeAddSeconds(t, q) # {}
  <2>1. PICK y \in TimeAddSeconds(t, q) : TRUE
    BY <1>5
  <2>2. SetMillisecond(y, left) # {}
    <3> HIDE DEF left
    <3>1. U16(left) \in {U16(left)} \cap UpTo(999)
      BY <1>3 DEF UpTo
    <3>2. [y EXCEPT !.millisecond = U16(left)] \in SetMillisecond(y, left)
      BY <3>1 DEF SetMillisecond
    <3> QED BY <3>2
  <2> QED BY <1>2, <2>1, <2>2 DEF TimeAddMilliseconds
<1> QED BY <1>4, <1>5

-----------------------------------------------------------------------------
(* The same in milliseconds.                                               *)
LEMMA MsOfTimes == \A t \in Times : MsOf(t) \in Int /\ MsOf(t) = MillisecondsOf(t)
BY SMT DEF Times, UpTo, MsOf, MsPerHour, MsPerMin, MillisecondsOf, SecondsOf, MinutesOf, HourOf

LEMMA FieldsAreIntegers ==
    ASSUME NEW t \in Times
    PROVE  t.hour \in Int /\ t.minute \in Int /\ t.second \in Int /\ t.millisecond \in Int
BY DEF Times, UpTo

LEMMA WholeDays ==
    ASSUME NEW a \in Int, NEW k \in Int, a = 86400000 * k
    PROVE  a % MsPerDay = 0
BY SMT DEF MsPerDay

LEMMA HoursInMs ==
    ASSUME NEW t \in Times, NEW n \in Int, NEW x \in TimeAddHours(t, n)
    PROVE  (MsOf(x) - MsOf(t) - n * MsPerHour) % MsPerDay = 0
<1>1. x \in Times
  BY ClockAddHoursValid
<1>2. PICK k \in Int : HourOf(x) = HourOf(t) + n + 24 * k
  BY HoursExact, SMT
<1>3. x.minute = t.minute /\ x.second = t.second /\ x.millisecond = t.millisecond
  BY HoursExact, SMT
<1>4. /\ t.hour \in Int /\ t.minute \in Int /\ t.second \in Int /\ t.millisecond \in Int
        /\ x.hour \in Int /\ x.minute \in Int /\ x.second \in Int /\ x.millisecond \in Int
  BY <1>1, FieldsAreIntegers
<1>5. MillisecondsOf(x) = MillisecondsOf(t) + n * MsPerHour + 86400000 * k
  BY <1>2, <1>3, <1>4, SMT
  DEF MsPerHour, MillisecondsOf, SecondsOf, MinutesOf, HourOf
<1>6. MsOf(x) - MsOf(t) - n * MsPerHour = 86400000 * k /\ n * MsPerHour \in Int
  BY <1>1, <1>5, MsOfTimes, SMT DEF MsPerHour
<1> QED BY <1>1, <1>6, MsOfTimes, WholeDays, SMT

LEMMA MinutesInMs ==
    ASSUME NEW t \in Times, NEW n \in Int, NEW x \in TimeAddMinutes(t, n)
    PROVE  (MsOf(x) - MsOf(t) - n * MsPerMin) % MsPerDay = 0
<1>1. x \in Times
  BY ClockAddMinutesValid
<1>2. PICK k \in Int : MinutesOf(x) = MinutesOf(t) + n + 1440 * k
  BY MinutesExact, SMT
<1>3. x.second = t.second /\ x.millisecond = t.millisecond
  BY MinutesExact, SMT
<1>4. /\ t.hour \in Int /\ t.minute \in Int /\ t.second \in Int /\ t.millisecond \in Int
        /\ x.hour \in Int /\ x.minute \in Int /\ x.second \in Int /\ x.millisecond \in Int
  BY <1>1, FieldsAreIntegers
<1>5. MillisecondsOf(x) = MillisecondsOf(t) + n * MsPerMin + 86400000 * k
  BY <1>2, <1>3, <1>4, SMT
  DEF MsPerMin, MillisecondsOf, SecondsOf, MinutesOf, HourOf
<1>6. MsOf(x) - MsOf(t) - n * MsPerMin = 86400000 * k /\ n * MsPerMin \in Int
  BY <1>1, <1>5, MsOfTimes, SMT DEF MsPerMin
<1> QED BY <1>1, <1>6, MsOfTimes, WholeDays, SMT

LEMMA SecondsInMs ==
    ASSUME NEW t \in Times, t.second < 60, NEW n \in Int, NEW x \in TimeAddSeconds(t, n)
    PROVE  (MsOf(x) - MsOf(t) - n * 1000) % MsPerDay = 0
<1>1. x \in Times
  BY ClockAddSecondsValid
<1>2. PICK k \in Int : SecondsOf(x) = SecondsOf(t) + n + 86400 * k
  BY SecondsExact, SMT
<1>3. x.millisecond = t.millisecond
  BY SecondsExact, SMT
<1>4. /\ t.hour \in Int /\ t.minute \in Int /\ t.second \in Int /\ t.millisecond \in Int
        /\ x.hour \in Int /\ x.minute \in Int /\ x.second \in Int /\ x.millisecond \in Int
  BY <1>1, FieldsAreIntegers
<1>5. MillisecondsOf(x) = MillisecondsOf(t) + n * 1000 + 86400000 * k
  BY <1>2, <1>3, <1>4, SMT
  DEF MillisecondsOf, SecondsOf, MinutesOf, HourOf
<1>6. MsOf(x) - MsOf(t) - n * 1000 = 86400000 * k /\ n * 1000 \in Int
  BY <1>1, <1>5, MsOfTimes, SMT
<1> QED BY <1>1, <1>6, MsOfTimes, WholeDays, SMT

LEMMA MillisecondsInMs ==
    ASSUME NEW t \in Times, t.second < 60, NEW n \in Int, NEW x \in TimeAddMilliseconds(t, n)
    PROVE  (MsOf(x) - MsOf(t) - n * 1) % MsPerDay = 0
<1>1. x \in Times
  BY ClockAddMillisecondsValid
<1>2. PICK k \in Int : MillisecondsOf(x) = MillisecondsOf(t) + n * 1 + 86400000 * k
  BY <1>1, MillisecondsExact, SMT DEF Times, UpTo, MillisecondsOf, SecondsOf, MinutesOf, HourOf
<1>3. MsOf(x) - MsOf(t) - n * 1 = 86400000 * k /\ n * 1 \in Int
  BY <1>1, <1>2, MsOfTimes, SMT
<1> QED BY <1>1, <1>3, MsOfTimes, WholeDays, SMT

-----------------------------------------------------------------------------
(* The date_time stays valid.                                              *)

(* Every month has between 28 and 31 days.                                 *)
LEMMA MonthLength ==
    ASSUME NEW y, NEW m \in FromOne(12)
    PROVE  DaysInMonth(y, m) \in 28..31
<1>1. CASE m = 2
  BY <1>1 DEF DaysInMonth, MonthLengths
<1>2. CASE m # 2
  <2>1. MonthLengths[m] \in 28..31
    BY <1>2 DEF MonthLengths, UpTo, FromOne
  <2> QED BY <1>2, <2>1 DEF DaysInMonth
<1> QED BY <1>1, <1>2

(* Updates of one field of the date.                                       *)
LEMMA YearUpdate ==
    ASSUME NEW d \in DateTimes, NEW v \in UpTo(65535)
    PROVE  /\ [d EXCEPT !.year = v] \in DateTimes
           /\ [d EXCEPT !.year = v].year = v
           /\ [d EXCEPT !.year = v].month = d.month
           /\ [d EXCEPT !.year = v].day = d.day
BY DEF DateTimes

LEMMA MonthUpdate ==
    ASSUME NEW d \in DateTimes, NEW v \in UpTo(12)
    PROVE  /\ [d EXCEPT !.month = v] \in DateTimes
           /\ [d EXCEPT !.month = v].year = d.year
           /\ [d EXCEPT !.month = v].month = v
           /\ [d EXCEPT !.month = v].day = d.day
BY DEF DateTimes

LEMMA DayUpdate ==
    ASSUME NEW d \in DateTimes, NEW v \in UpTo(31)
    PROVE  /\ [d EXCEPT !.day = v] \in DateTimes
           /\ [d EXCEPT !.day = v].year = d.year
           /\ [d EXCEPT !.day = v].month = d.month
           /\ [d EXCEPT !.day = v].day = v
BY DEF DateTimes

(* The fields of a valid date_time, and what makes one of a date_time.     *)
LEMMA ValidFields ==
    ASSUME NEW d, Valid(d)
    PROVE  /\ d \in DateTimes
           /\ d.year \in FromOne(65535)
           /\ d.month \in FromOne(12)
           /\ d.day \in FromOne(31)
           /\ d.day <= DaysInMonth(d.year, d.month)
BY DEF Valid, ValidDate, DateTimes, FromOne

LEMMA DayInMonthIsValid ==
    ASSUME NEW y \in FromOne(65535), NEW m \in FromOne(12), NEW v \in FromOne(31),
           v <= DaysInMonth(y, m)
    PROVE  ValidDate(y, m, v)
BY DEF ValidDate, UpTo, FromOne

LEMMA FromOneUpTo == \A max \in Nat : FromOne(max) \subseteq UpTo(max)
BY DEF FromOne

LEMMA OneIsFirst == \A max \in Nat : max > 0 => 1 \in FromOne(max)
BY DEF FromOne, UpTo

(* The setters of the date keep a date_time valid, whatever the argument.  *)
LEMMA YearSetterValid ==
    ASSUME NEW d, Valid(d), NEW n, NEW x \in SetYear(d, n)
    PROVE  Valid(x)
<1>1. PICK y \in FromOne(65535) : x = InYear(d, y)
  BY DEF SetYear
<1>2. y \in UpTo(65535)
  BY FromOneUpTo
<1> DEFINE moved == [d EXCEPT !.year = y]
<1>3. /\ moved \in DateTimes
      /\ moved.year = y /\ moved.month = d.month /\ moved.day = d.day
  BY <1>2, ValidFields, YearUpdate
<1>4. CASE ValidDate(y, d.month, d.day)
  BY <1>1, <1>3, <1>4 DEF InYear, Valid
<1>5. CASE ~ValidDate(y, d.month, d.day)
  <2> DEFINE january == [moved EXCEPT !.month = 1]
             first   == [january EXCEPT !.day = 1]
  <2>1. 1 \in FromOne(12) /\ 1 \in FromOne(31) /\ 1 \in UpTo(12) /\ 1 \in UpTo(31)
    BY OneIsFirst, FromOneUpTo
  <2> HIDE DEF moved
  <2>2. january \in DateTimes /\ january.year = y /\ january.month = 1
    BY <1>3, <2>1, MonthUpdate
  <2> HIDE DEF january
  <2>3. first \in DateTimes /\ first.year = y /\ first.month = 1 /\ first.day = 1
    BY <2>1, <2>2, DayUpdate
  <2>4. DaysInMonth(y, 1) \in 28..31
    BY <2>1, MonthLength
  <2>5. ValidDate(y, 1, 1)
    BY <2>1, <2>4, DayInMonthIsValid
  <2>6. x = first
    BY <1>1, <1>5 DEF InYear, january, moved
  <2> QED BY <2>3, <2>5, <2>6 DEF Valid
<1> QED BY <1>4, <1>5

LEMMA MonthSetterValid ==
    ASSUME NEW d, Valid(d), NEW n, NEW x \in SetMonth(d, n)
    PROVE  Valid(x)
<1>1. PICK m \in FromOne(12) : x = InMonth(d, m)
  BY DEF SetMonth
<1>2. m \in UpTo(12) /\ 1 \in UpTo(31) /\ 1 \in FromOne(31)
  BY OneIsFirst, FromOneUpTo
<1>3. DaysInMonth(d.year, m) \in 28..31
  BY MonthLength
<1> DEFINE moved == [d EXCEPT !.month = m]
           first == [moved EXCEPT !.day = 1]
<1>4. /\ moved \in DateTimes
      /\ moved.year = d.year /\ moved.month = m /\ moved.day = d.day
  BY <1>2, ValidFields, MonthUpdate
<1> HIDE DEF moved
<1>5. CASE d.day > DaysInMonth(d.year, m)
  <2>1. first \in DateTimes /\ first.year = d.year /\ first.month = m /\ first.day = 1
    BY <1>2, <1>4, DayUpdate
  <2>2. ValidDate(d.year, m, 1)
    BY <1>2, <1>3, ValidFields, DayInMonthIsValid
  <2>3. x = first
    BY <1>1, <1>5 DEF InMonth, moved
  <2> QED BY <2>1, <2>2, <2>3 DEF Valid
<1>6. CASE ~(d.day > DaysInMonth(d.year, m))
  <2>1. d.day <= DaysInMonth(d.year, m)
    BY <1>3, <1>6, ValidFields DEF FromOne, UpTo
  <2>2. ValidDate(d.year, m, d.day)
    BY <2>1, ValidFields, DayInMonthIsValid
  <2>3. x = moved
    BY <1>1, <1>6 DEF InMonth, moved
  <2> QED BY <1>4, <2>2, <2>3 DEF Valid
<1> QED BY <1>5, <1>6

LEMMA DaySetterValid ==
    ASSUME NEW d, Valid(d), NEW n, NEW x \in SetDay(d, n)
    PROVE  Valid(x)
<1>1. DaysInMonth(d.year, d.month) \in 28..31
  BY ValidFields, MonthLength
<1>2. PICK v \in FromOne(DaysInMonth(d.year, d.month)) : x = [d EXCEPT !.day = v]
  BY DEF SetDay, SetDayWithin
<1>3. v \in FromOne(31) /\ v <= DaysInMonth(d.year, d.month)
  BY <1>1 DEF FromOne, UpTo
<1>4. x \in DateTimes /\ x.year = d.year /\ x.month = d.month /\ x.day = v
  BY <1>2, <1>3, ValidFields, FromOneUpTo, DayUpdate
<1>5. ValidDate(d.year, d.month, v)
  BY <1>3, ValidFields, DayInMonthIsValid
<1> QED BY <1>4, <1>5 DEF Valid

LEMMA DayOfYearSetterValid ==
    ASSUME NEW d, Valid(d), NEW n, NEW x \in SetDayOfYear(d, n)
    PROVE  Valid(x)
<1>1. PICK y \in SetMonth(d, ReverseDayOfYear(d.year, n).month) :
        x \in SetDay(y, ReverseDayOfYear(d.year, n).day)
  BY DEF SetDayOfYear
<1> QED BY <1>1, MonthSetterValid, DaySetterValid

(* So do the setters of the time of day, inherited by date_time.           *)
LEMMA TimeSettersValid ==
    ASSUME NEW d, Valid(d), NEW n,
           NEW x \in SetHour(d, n) \cup SetMinute(d, n) \cup SetSecond(d, n)
                     \cup SetMillisecond(d, n)
    PROVE  Valid(x)
<1>1. x \in DateTimes /\ x.year = d.year /\ x.month = d.month /\ x.day = d.day
  <2>1. CASE x \in SetHour(d, n)
    BY <2>1, ValidFields DEF SetHour, DateTimes
  <2>2. CASE x \in SetMinute(d, n)
    BY <2>2, ValidFields DEF SetMinute, DateTimes
  <2>3. CASE x \in SetSecond(d, n)
    BY <2>3, ValidFields DEF SetSecond, DateTimes
  <2>4. CASE x \in SetMillisecond(d, n)
    BY <2>4, ValidFields DEF SetMillisecond, DateTimes
  <2> QED BY <2>1, <2>2, <2>3, <2>4
<1> QED BY <1>1 DEF Valid

-----------------------------------------------------------------------------
(* Every operation leaves through a setter.                                *)

LEMMA AddYearsValid ==
    ASSUME NEW d, Valid(d), NEW n, NEW x \in DateAddYears(d, n)
    PROVE  Valid(x)
BY YearSetterValid DEF DateAddYears

LEMMA AddMonthsValid ==
    ASSUME NEW d, Valid(d), NEW n, NEW x \in DateAddMonths(d, n)
    PROVE  Valid(x)
<1>1. CASE x = d
  BY <1>1
<1>2. CASE x # d
  <2> DEFINE sum == Rem(n, 12) + d.month
  <2>1. PICK y \in DateAddYears(d, Quot(n, 12) + Carry(sum, 12)) : x \in SetMonth(y, Left(sum, 12))
    BY <1>2 DEF DateAddMonths
  <2> QED BY <2>1, AddYearsValid, MonthSetterValid
<1> QED BY <1>1, <1>2

LEMMA AddDaysValid ==
    ASSUME NEW d, Valid(d), NEW n, NEW x \in DateAddDays(d, n)
    PROVE  Valid(x)
<1>1. CASE x = d
  BY <1>1
<1>2. CASE x # d
  <2> DEFINE r == RollYears(d.year, DayOfYear(d) + n, IF n > 0 THEN 1 ELSE -1)
  <2>1. ~Uncountable(d, n)
    BY DEF Uncountable, Valid
  <2>2. PICK y \in SetYear(d, r[1]) : x \in SetDayOfYear(y, r[2])
    BY <1>2, <2>1 DEF DateAddDays
  <2> QED BY <2>2, YearSetterValid, DayOfYearSetterValid
<1> QED BY <1>1, <1>2

LEMMA AddHoursValid ==
    ASSUME NEW d, Valid(d), NEW n, NEW x \in DateAddHours(d, n)
    PROVE  Valid(x)
<1>1. CASE x = d
  BY <1>1
<1>2. CASE x # d
  <2> DEFINE sum == Rem(n, 24) + d.hour
  <2>1. PICK y \in DateAddDays(d, Quot(n, 24) + Carry(sum, 24)) : x \in SetHour(y, Left(sum, 24))
    BY <1>2 DEF DateAddHours
  <2> QED BY <2>1, AddDaysValid, TimeSettersValid
<1> QED BY <1>1, <1>2

LEMMA AddMinutesValid ==
    ASSUME NEW d, Valid(d), NEW n, NEW x \in DateAddMinutes(d, n)
    PROVE  Valid(x)
<1>1. CASE x = d
  BY <1>1
<1>2. CASE x # d
  <2> DEFINE sum == Rem(n, 60) + d.minute
  <2>1. PICK y \in DateAddHours(d, Forward(Quot(n, 60) + Carry(sum, 60))) : x \in SetMinute(y, Left(sum, 60))
    BY <1>2 DEF DateAddMinutes
  <2> QED BY <2>1, AddHoursValid, TimeSettersValid
<1> QED BY <1>1, <1>2

LEMMA AddSecondsValid ==
    ASSUME NEW d, Valid(d), NEW n, NEW x \in DateAddSeconds(d, n)
    PROVE  Valid(x)
<1>1. CASE x = d
  BY <1>1
<1>2. CASE x # d
  <2> DEFINE sum == Rem(n, 60) + d.second
  <2>1. PICK y \in DateAddMinutes(d, Forward(Quot(n, 60) + Carry(sum, 60))) : x \in SetSecond(y, Left(sum, 60))
    BY <1>2 DEF DateAddSeconds
  <2> QED BY <2>1, AddMinutesValid, TimeSettersValid
<1> QED BY <1>1, <1>2

LEMMA AddMillisecondsValid ==
    ASSUME NEW d, Valid(d), NEW n, NEW x \in DateAddMilliseconds(d, n)
    PROVE  Valid(x)
<1>1. CASE x = d
  BY <1>1
<1>2. CASE x # d
  <2> DEFINE sum == Rem(n, 1000) + d.millisecond
  <2>1. PICK y \in DateAddSeconds(d, Forward(Quot(n, 1000) + Carry(sum, 1000))) : x \in SetMillisecond(y, Left(sum, 1000))
    BY <1>2 DEF DateAddMilliseconds
  <2> QED BY <2>1, AddSecondsValid, TimeSettersValid
<1> QED BY <1>1, <1>2

LEMMA AddPartsValid ==
    ASSUME NEW d, Valid(d), NEW days, NEW h, NEW m, NEW s, NEW ms,
           NEW x \in AddParts(d, days, h, m, s, ms)
    PROVE  Valid(x)
<1>1. PICK a, b, c, e : /\ a \in DateAddDays(d, days)
                        /\ b \in DateAddHours(a, h)
                        /\ c \in DateAddMinutes(b, m)
                        /\ e \in DateAddSeconds(c, s)
                        /\ x \in DateAddMilliseconds(e, ms)
  BY DEF AddParts
<1> QED BY <1>1, AddDaysValid, AddHoursValid, AddMinutesValid, AddSecondsValid,
           AddMillisecondsValid

LEMMA SpansValid ==
    ASSUME NEW d, Valid(d), NEW span,
           NEW x \in DateAdd(d, span) \cup DateSubtract(d, span)
    PROVE  Valid(x)
BY AddPartsValid DEF DateAdd, DateSubtract

LEMMA TimesValid ==
    ASSUME NEW d, Valid(d), NEW t,
           NEW x \in DateAddTime(d, t) \cup DateSubtractTime(d, t)
    PROVE  Valid(x)
BY AddPartsValid DEF DateAddTime, DateSubtractTime

-----------------------------------------------------------------------------
(* A call whose results are valid leaves the caller with valid objects.    *)

LEMMA StepValid == Next => CallsKeepValid
<1> SUFFICES ASSUME Next PROVE CallsKeepValid
  OBVIOUS
<1> USE DEF CallsKeepValid, Call
<1>1. ASSUME NEW n \in Amounts["years"], AddYears(n) PROVE CallsKeepValid
  BY <1>1, AddYearsValid DEF AddYears
<1>2. ASSUME NEW n \in Amounts["months"], AddMonths(n) PROVE CallsKeepValid
  BY <1>2, AddMonthsValid DEF AddMonths
<1>3. ASSUME NEW n \in Amounts["days"], AddDays(n) PROVE CallsKeepValid
  BY <1>3, AddDaysValid DEF AddDays
<1>4. ASSUME NEW n \in Amounts["hours"], AddHours(n) PROVE CallsKeepValid
  BY <1>4, AddHoursValid, ClockAddHoursValid DEF AddHours
<1>5. ASSUME NEW n \in Amounts["minutes"], AddMinutes(n) PROVE CallsKeepValid
  BY <1>5, AddMinutesValid, ClockAddMinutesValid DEF AddMinutes
<1>6. ASSUME NEW n \in Amounts["seconds"], AddSeconds(n) PROVE CallsKeepValid
  BY <1>6, AddSecondsValid, ClockAddSecondsValid DEF AddSeconds
<1>7. ASSUME NEW n \in Amounts["milliseconds"], AddMilliseconds(n) PROVE CallsKeepValid
  BY <1>7, AddMillisecondsValid, ClockAddMillisecondsValid DEF AddMilliseconds
<1>8. ASSUME NEW n \in Fields["year"], ChangeYear(n) PROVE CallsKeepValid
  BY <1>8, YearSetterValid DEF ChangeYear
<1>9. ASSUME NEW n \in Fields["month"], ChangeMonth(n) PROVE CallsKeepValid
  BY <1>9, MonthSetterValid DEF ChangeMonth
<1>10. ASSUME NEW n \in Fields["day"], ChangeDay(n) PROVE CallsKeepValid
  <2>1. PICK length \in LengthsRead(date) :
            Call("set", n, SetDayWithin(date, n, length), {clock})
    BY <1>10 DEF ChangeDay
  <2>2. ASSUME Valid(date)
        PROVE  SetDayWithin(date, n, length) = SetDay(date, n)
    <3>1. date.month \in DOMAIN MonthLengths
      BY <2>2, ValidFields DEF MonthLengths, FromOne, UpTo
    <3> QED BY <2>1, <3>1 DEF LengthsRead, SetDay
  <2> QED BY <2>1, <2>2, DaySetterValid
<1>11. ASSUME NEW n \in Fields["dayOfYear"], ChangeDayOfYear(n) PROVE CallsKeepValid
  BY <1>11, DayOfYearSetterValid, MonthSetterValid DEF ChangeDayOfYear
<1>12. CASE AddSpan
  <2> DEFINE dates == UNION {DateAdd(date, span) : span \in TimeBetween(date, origin)}
             clocks == UNION {TimeAdd(clock, span) : span \in TimeBetween(date, origin)}
  <2>1. Valid(date) => \A x \in dates : Valid(x)
    BY SpansValid
  <2>2. \A t \in clocks : t = clock
    BY DEF TimeAdd
  <2>3. Call("add", 0, dates, clocks)
    BY <1>12 DEF AddSpan
  <2> HIDE DEF dates, clocks
  <2> QED BY <2>1, <2>2, <2>3
<1>13. CASE SubtractSpan
  <2> DEFINE dates == UNION {DateSubtract(date, span) : span \in TimeBetween(date, origin)}
             clocks == UNION {TimeSubtract(clock, span) : span \in TimeBetween(date, origin)}
  <2>1. Valid(date) => \A x \in dates : Valid(x)
    BY SpansValid
  <2>2. \A t \in clocks : t = clock
    BY DEF TimeSubtract, TimeAdd
  <2>3. Call("subtract", 0, dates, clocks)
    BY <1>13 DEF SubtractSpan
  <2> HIDE DEF dates, clocks
  <2> QED BY <2>1, <2>2, <2>3
<1>14. CASE AddClock
  BY <1>14, TimesValid DEF AddClock
<1>15. CASE SubtractClock
  BY <1>15, TimesValid DEF SubtractClock
<1>16. ASSUME NEW f \in Starts, Assign(f) \/ AssignDate(f) PROVE CallsKeepValid
  BY <1>16 DEF Assign, AssignDate
<1> QED
  BY <1>1, <1>2, <1>3, <1>4, <1>5, <1>6, <1>7, <1>8, <1>9, <1>10, <1>11, <1>12, <1>13, <1>14, <1>15, <1>16 DEF Next

(* Whatever a caller adds, subtracts or sets by the setter of one field, a *)
(* date of the calendar stays one, and a time of day too: for all amounts  *)
(* and whatever the caller has constructed or assigned before.             *)
THEOREM FieldsStayValid == Spec => FieldsValid
BY StepValid, PTL DEF Spec, FieldsValid

-----------------------------------------------------------------------------
(* The time of day moves by exactly what was added.                        *)

LEMMA DayInMs == MsPerDay = 86400000
BY SMT DEF MsPerDay

LEMMA HoursMove ==
    ASSUME NEW n \in Int, AddHours(n)
    PROVE  ClockMoves
<1> SUFFICES ASSUME clock \in Times, NoLeapSecond(clock) PROVE ClockMoves
  BY DEF ClockMoves
<1>1. clock \in Times /\ clock.second < 60
  BY DEF NoLeapSecond
<1>2. /\ last' = [op |-> "hours", n |-> n, dateThrew |-> DateAddHours(date, n) = {},
                  clockThrew |-> TimeAddHours(clock, n) = {}]
      /\ clock' \in (IF TimeAddHours(clock, n) = {} THEN {clock} ELSE TimeAddHours(clock, n))
  BY DEF AddHours, Call
<1>3. last'.op = "hours" /\ last'.n = n /\ last'.clockThrew = (TimeAddHours(clock, n) = {})
  BY <1>2
<1>4. MsPer[last'.op] = MsPerHour
  BY <1>3 DEF MsPer
<1>5. CASE TimeAddHours(clock, n) = {}
  <2>1. n < -24
    BY <1>1, <1>5, HoursRefused
  <2>2. n * MsPerHour < -MsPerDay
    BY <2>1, DayInMs, SMT DEF MsPerHour
  <2> QED BY <1>3, <1>4, <1>5, <2>2 DEF ClockMoves
<1>6. CASE TimeAddHours(clock, n) # {}
  <2>1. clock' \in TimeAddHours(clock, n)
    BY <1>2, <1>6
  <2>2. (MsOf(clock') - MsOf(clock) - n * MsPerHour) % MsPerDay = 0
    BY <1>1, <2>1, HoursInMs
  <2> QED BY <1>3, <1>4, <1>6, <2>2 DEF ClockMoves
<1> QED BY <1>5, <1>6

LEMMA MinutesMove ==
    ASSUME NEW n \in Int, AddMinutes(n)
    PROVE  ClockMoves
<1> SUFFICES ASSUME clock \in Times, NoLeapSecond(clock) PROVE ClockMoves
  BY DEF ClockMoves
<1>1. clock \in Times /\ clock.second < 60
  BY DEF NoLeapSecond
<1>2. /\ last' = [op |-> "minutes", n |-> n, dateThrew |-> DateAddMinutes(date, n) = {},
                  clockThrew |-> TimeAddMinutes(clock, n) = {}]
      /\ clock' \in (IF TimeAddMinutes(clock, n) = {} THEN {clock} ELSE TimeAddMinutes(clock, n))
  BY DEF AddMinutes, Call
<1>3. last'.op = "minutes" /\ last'.n = n /\ last'.clockThrew = (TimeAddMinutes(clock, n) = {})
  BY <1>2
<1>4. MsPer[last'.op] = MsPerMin
  BY <1>3 DEF MsPer
<1>5. CASE TimeAddMinutes(clock, n) = {}
  <2>1. n < -1440
    BY <1>1, <1>5, MinutesRefused
  <2>2. n * MsPerMin < -MsPerDay
    BY <2>1, DayInMs, SMT DEF MsPerMin
  <2> QED BY <1>3, <1>4, <1>5, <2>2 DEF ClockMoves
<1>6. CASE TimeAddMinutes(clock, n) # {}
  <2>1. clock' \in TimeAddMinutes(clock, n)
    BY <1>2, <1>6
  <2>2. (MsOf(clock') - MsOf(clock) - n * MsPerMin) % MsPerDay = 0
    BY <1>1, <2>1, MinutesInMs
  <2> QED BY <1>3, <1>4, <1>6, <2>2 DEF ClockMoves
<1> QED BY <1>5, <1>6

LEMMA SecondsMove ==
    ASSUME NEW n \in Int, AddSeconds(n)
    PROVE  ClockMoves
<1> SUFFICES ASSUME clock \in Times, NoLeapSecond(clock) PROVE ClockMoves
  BY DEF ClockMoves
<1>1. clock \in Times /\ clock.second < 60
  BY DEF NoLeapSecond
<1>2. /\ last' = [op |-> "seconds", n |-> n, dateThrew |-> DateAddSeconds(date, n) = {},
                  clockThrew |-> TimeAddSeconds(clock, n) = {}]
      /\ clock' \in (IF TimeAddSeconds(clock, n) = {} THEN {clock} ELSE TimeAddSeconds(clock, n))
  BY DEF AddSeconds, Call
<1>3. last'.op = "seconds" /\ last'.n = n /\ last'.clockThrew = (TimeAddSeconds(clock, n) = {})
  BY <1>2
<1>4. MsPer[last'.op] = 1000
  BY <1>3 DEF MsPer
<1>5. CASE TimeAddSeconds(clock, n) = {}
  <2>1. n < -86400
    BY <1>1, <1>5, SecondsRefused
  <2>2. n * 1000 < -MsPerDay
    BY <2>1, DayInMs, SMT
  <2> QED BY <1>3, <1>4, <1>5, <2>2 DEF ClockMoves
<1>6. CASE TimeAddSeconds(clock, n) # {}
  <2>1. clock' \in TimeAddSeconds(clock, n)
    BY <1>2, <1>6
  <2>2. (MsOf(clock') - MsOf(clock) - n * 1000) % MsPerDay = 0
    BY <1>1, <2>1, SecondsInMs
  <2>3. last'.n * MsPer[last'.op] = n * 1000
    BY <1>3, <1>4
  <2>4. ~last'.clockThrew
    BY <1>3, <1>6
  <2> QED BY <2>2, <2>3, <2>4 DEF ClockMoves
<1> QED BY <1>5, <1>6

LEMMA MillisecondsMove ==
    ASSUME NEW n \in Int, AddMilliseconds(n)
    PROVE  ClockMoves
<1> SUFFICES ASSUME clock \in Times, NoLeapSecond(clock) PROVE ClockMoves
  BY DEF ClockMoves
<1>1. clock \in Times /\ clock.second < 60
  BY DEF NoLeapSecond
<1>2. /\ last' = [op |-> "milliseconds", n |-> n, dateThrew |-> DateAddMilliseconds(date, n) = {},
                  clockThrew |-> TimeAddMilliseconds(clock, n) = {}]
      /\ clock' \in (IF TimeAddMilliseconds(clock, n) = {} THEN {clock} ELSE TimeAddMilliseconds(clock, n))
  BY DEF AddMilliseconds, Call
<1>3. last'.op = "milliseconds" /\ last'.n = n /\ last'.clockThrew = (TimeAddMilliseconds(clock, n) = {})
  BY <1>2
<1>4. MsPer[last'.op] = 1
  BY <1>3 DEF MsPer
<1>5. CASE TimeAddMilliseconds(clock, n) = {}
  <2>1. n < -86400000
    BY <1>1, <1>5, MillisecondsRefused
  <2>2. n * 1 < -MsPerDay
    BY <2>1, DayInMs, SMT
  <2> QED BY <1>3, <1>4, <1>5, <2>2 DEF ClockMoves
<1>6. CASE TimeAddMilliseconds(clock, n) # {}
  <2>1. clock' \in TimeAddMilliseconds(clock, n)
    BY <1>2, <1>6
  <2>2. (MsOf(clock') - MsOf(clock) - n * 1) % MsPerDay = 0
    BY <1>1, <2>1, MillisecondsInMs
  <2> QED BY <1>3, <1>4, <1>6, <2>2 DEF ClockMoves
<1> QED BY <1>5, <1>6

(* The other operations are not additions to the time of day.              *)
LEMMA OthersMove ==
    ASSUME NEW op, op \notin DOMAIN MsPer, NEW n, NEW ds, NEW cs, Call(op, n, ds, cs)
    PROVE  ClockMoves
<1>1. last'.op = op
  BY DEF Call
<1> QED BY <1>1 DEF ClockMoves

LEMMA OtherOperations ==
    \A op \in {"years", "months", "days", "add", "subtract", "addTime", "subtractTime", "set",
            "assign"} :
        op \notin DOMAIN MsPer
BY DEF MsPer

LEMMA StepMoves == Next => ClockMoves
<1> SUFFICES ASSUME Next PROVE ClockMoves
  OBVIOUS
<1> USE OtherOperations, OthersMove
<1>0. \A unit \in Units : Amounts[unit] \subseteq Int
  BY CalendarAssumption DEF CalendarAssumption
<1>1. ASSUME NEW n \in Amounts["years"], AddYears(n) PROVE ClockMoves
  BY <1>1 DEF AddYears
<1>2. ASSUME NEW n \in Amounts["months"], AddMonths(n) PROVE ClockMoves
  BY <1>2 DEF AddMonths
<1>3. ASSUME NEW n \in Amounts["days"], AddDays(n) PROVE ClockMoves
  BY <1>3 DEF AddDays
<1>4. ASSUME NEW n \in Amounts["hours"], AddHours(n) PROVE ClockMoves
  BY <1>0, <1>4, HoursMove DEF Units
<1>5. ASSUME NEW n \in Amounts["minutes"], AddMinutes(n) PROVE ClockMoves
  BY <1>0, <1>5, MinutesMove DEF Units
<1>6. ASSUME NEW n \in Amounts["seconds"], AddSeconds(n) PROVE ClockMoves
  BY <1>0, <1>6, SecondsMove DEF Units
<1>7. ASSUME NEW n \in Amounts["milliseconds"], AddMilliseconds(n) PROVE ClockMoves
  BY <1>0, <1>7, MillisecondsMove DEF Units
<1>8. ASSUME NEW n \in Fields["year"], ChangeYear(n) PROVE ClockMoves
  BY <1>8 DEF ChangeYear
<1>9. ASSUME NEW n \in Fields["month"], ChangeMonth(n) PROVE ClockMoves
  BY <1>9 DEF ChangeMonth
<1>10. ASSUME NEW n \in Fields["day"], ChangeDay(n) PROVE ClockMoves
  BY <1>10 DEF ChangeDay
<1>11. ASSUME NEW n \in Fields["dayOfYear"], ChangeDayOfYear(n) PROVE ClockMoves
  BY <1>11 DEF ChangeDayOfYear
<1>12. CASE AddSpan
  BY <1>12 DEF AddSpan
<1>13. CASE SubtractSpan
  BY <1>13 DEF SubtractSpan
<1>14. CASE AddClock
  BY <1>14 DEF AddClock
<1>15. CASE SubtractClock
  BY <1>15 DEF SubtractClock
<1>16. ASSUME NEW f \in Starts, Assign(f) \/ AssignDate(f) PROVE ClockMoves
  BY <1>16 DEF Assign, AssignDate
<1> QED
  BY <1>1, <1>2, <1>3, <1>4, <1>5, <1>6, <1>7, <1>8, <1>9, <1>10, <1>11, <1>12, <1>13, <1>14,
     <1>15, <1>16 DEF Next

(* A time of day moves by exactly the amount added, modulo a day, for      *)
(* every amount; only an amount of more than a day backwards throws.       *)
THEOREM ClockStaysExact == Spec => ClockIsExact
BY StepMoves, PTL DEF Spec, ClockIsExact

-----------------------------------------------------------------------------
(***************************************************************************)
(* The ways to the server and back.                                        *)
(***************************************************************************)

(* Three fields and what follows them.                                     *)
LEMMA Followed ==
    ASSUME NEW s \in Seq(Nat), Len(s) = 3, NEW r \in Seq(Nat)
    PROVE  /\ s \o r \in Seq(Nat) /\ Len(r) \in Nat /\ Len(s \o r) = 3 + Len(r)
           /\ \A i \in 1..3 : (s \o r)[i] = s[i]
           /\ \A i \in 1..Len(r) : (s \o r)[3 + i] = r[i]
<1> DEFINE f == s \o r
<1>1. Len(r) \in Nat
  BY LenProperties
<1>2. /\ f \in Seq(Nat) /\ Len(f) = Len(s) + Len(r)
      /\ \A i \in 1..(Len(s) + Len(r)) :
            f[i] = IF i <= Len(s) THEN s[i] ELSE r[i - Len(s)]
  BY ConcatProperties
<1> HIDE DEF f
<1>3. ASSUME NEW i \in 1..Len(r)
      PROVE  f[3 + i] = r[i]
  <2>1. 3 + i \in 1..(Len(s) + Len(r)) /\ ~(3 + i <= Len(s)) /\ (3 + i) - Len(s) = i
    BY <1>1
  <2> QED BY <1>2, <2>1
<1>4. \A i \in 1..3 : f[i] = s[i]
  BY <1>1, <1>2
<1>5. /\ f \in Seq(Nat) /\ Len(r) \in Nat /\ Len(f) = 3 + Len(r)
      /\ \A i \in 1..3 : f[i] = s[i]
      /\ \A i \in 1..Len(r) : f[3 + i] = r[i]
  BY <1>1, <1>2, <1>3, <1>4
<1> QED BY <1>5 DEF f

(* What follows the date in a text is the text of the time.                *)
LEMMA AfterDate ==
    ASSUME NEW s \in Seq(Nat), Len(s) = 3, NEW r \in Seq(Nat), Len(r) > 0
    PROVE  SubSeq(s \o r, 4, Len(s \o r)) = r
<1> DEFINE f == s \o r
<1>1. /\ f \in Seq(Nat) /\ Len(r) \in Nat /\ Len(f) = 3 + Len(r)
      /\ \A i \in 1..Len(r) : f[3 + i] = r[i]
  BY Followed, Zenon
<1> HIDE DEF f
<1>2. \A i \in 4..Len(f) : f[i] \in Nat
  BY <1>1, ElementOfSeq
<1>3. /\ SubSeq(f, 4, Len(f)) \in Seq(Nat)
      /\ Len(SubSeq(f, 4, Len(f))) = IF 4 <= Len(f) THEN Len(f) - 4 + 1 ELSE 0
      /\ \A i \in 1..(Len(f) - 4 + 1) : SubSeq(f, 4, Len(f))[i] = f[4 + i - 1]
  BY <1>1, <1>2, SubSeqProperties
<1>4. Len(SubSeq(f, 4, Len(f))) = Len(r)
  BY <1>1, <1>3
<1>5. ASSUME NEW i \in 1..Len(r)
      PROVE  SubSeq(f, 4, Len(f))[i] = r[i]
  <2>1. i \in 1..(Len(f) - 4 + 1) /\ 4 + i - 1 = 3 + i
    BY <1>1
  <2> QED BY <1>1, <1>3, <2>1
<1>6. SubSeq(f, 4, Len(f)) = r
  BY <1>3, <1>4, <1>5, SeqEqual
<1> QED BY <1>6 DEF f

(* A text with the fields of a time is read as that time.                  *)
LEMMA TimeParsed ==
    ASSUME NEW t \in Times, NEW f \in Seq(Nat), Len(f) = 4, f[4] = t.millisecond,
           f[1] = t.hour, f[2] = t.minute, f[3] = t.second
    PROVE  TimeParse(f) = {t}
<1>1. t.hour < 24 /\ t.minute < 60 /\ t.second < 62 /\ t.millisecond < 65536
  BY DEF Times, UpTo
<1>2. t = [hour |-> t.hour, minute |-> t.minute, second |-> t.second,
           millisecond |-> t.millisecond]
  BY DEF Times
<1> QED BY <1>1, <1>2 DEF TimeParse

LEMMA NoMilliseconds ==
    ASSUME NEW t \in Times
    PROVE  [t EXCEPT !.millisecond = 0] =
             [hour |-> t.hour, minute |-> t.minute, second |-> t.second, millisecond |-> 0]
BY DEF Times

LEMMA ShortTimeParsed ==
    ASSUME NEW t \in Times, NEW f \in Seq(Nat), Len(f) = 3,
           f[1] = t.hour, f[2] = t.minute, f[3] = t.second
    PROVE  TimeParse(f) = {[t EXCEPT !.millisecond = 0]}
<1>1. t.hour < 24 /\ t.minute < 60 /\ t.second < 62
  BY DEF Times, UpTo
<1>2. TimeParse(f) = {[hour |-> t.hour, minute |-> t.minute, second |-> t.second,
                       millisecond |-> 0]}
  BY <1>1 DEF TimeParse
<1> QED BY <1>2, NoMilliseconds

(* A text with a date and the text of a time is read as both.              *)
LEMMA DateParsed ==
    ASSUME NEW d \in DateTimes, NEW r \in Seq(Nat), Len(r) > 0,
           NEW t, TimeParse(r) = {t}
    PROVE  DateParse(<<d.year, d.month, d.day>> \o r) =
             {[year |-> d.year, month |-> d.month, day |-> d.day, hour |-> t.hour,
               minute |-> t.minute, second |-> t.second, millisecond |-> t.millisecond]}
<1>1. PICK s : s = <<d.year, d.month, d.day>>
  OBVIOUS
<1>2. /\ d.year \in Nat /\ d.month \in Nat /\ d.day \in Nat
      /\ d.month < 13 /\ d.day < 32
  BY DEF DateTimes, UpTo
<1>3. /\ s \in Seq(Nat) /\ Len(s) = 3
      /\ s[1] = d.year /\ s[2] = d.month /\ s[3] = d.day
  BY <1>1, <1>2
<1> DEFINE f == s \o r
<1>5. /\ Len(f) > 3 /\ Len(f) \in Nat
      /\ f[1] = d.year /\ f[2] = d.month /\ f[3] = d.day
      /\ SubSeq(f, 4, Len(f)) = r
  <2>1. /\ Len(r) \in Nat /\ Len(f) = 3 + Len(r)
        /\ \A i \in 1..3 : f[i] = s[i]
    BY <1>3, Followed, Zenon
  <2>2. SubSeq(f, 4, Len(f)) = r
    BY <1>3, AfterDate, Zenon
  <2> HIDE DEF f
  <2> QED BY <1>3, <2>1, <2>2
<1> HIDE DEF f
<1>6. DateParse(f) =
        {[year |-> d.year, month |-> d.month, day |-> d.day, hour |-> v.hour,
          minute |-> v.minute, second |-> v.second, millisecond |-> v.millisecond] :
            v \in {w \in TimeParse(r) : d.month < 13 /\ d.day < 32}}
  <2> DEFINE field(i) == IF i <= Len(f) THEN f[i] ELSE 0
             rest == IF Len(f) > 3 THEN SubSeq(f, 4, Len(f)) ELSE <<0>>
  <2>1. DateParse(f) =
          {[year |-> field(1), month |-> field(2), day |-> field(3), hour |-> v.hour,
            minute |-> v.minute, second |-> v.second, millisecond |-> v.millisecond] :
              v \in {w \in TimeParse(rest) : field(2) < 13 /\ field(3) < 32}}
    BY DEF DateParse
  <2>2. field(1) = d.year /\ field(2) = d.month /\ field(3) = d.day /\ rest = r
    BY <1>5
  <2> HIDE DEF field, rest
  <2> QED BY <2>1, <2>2
<1> QED BY <1>1, <1>2, <1>6 DEF f

(* The parts of a second that a column keeps.                              *)
LEMMA KeptParts ==
    ASSUME NEW ms \in UpTo(999)
    PROVE  /\ Unit(0) = 1000000 /\ Unit(3) = 1000 /\ Unit(6) = 1
           /\ Unit(0) * ((ms * 1000) \div Unit(0)) = 0
           /\ Unit(3) * ((ms * 1000) \div Unit(3)) = ms * 1000
           /\ Unit(6) * ((ms * 1000) \div Unit(6)) = ms * 1000
           /\ (ms * 1000) \div 1000 = ms /\ U16(ms) = ms /\ U16(0 \div 1000) = 0
BY DEF Unit, UpTo, U16

LEMMA NarrowFields ==
    ASSUME NEW t \in Times
    PROVE  /\ U8(t.hour) = t.hour /\ U8(t.minute) = t.minute /\ U8(t.second) = t.second
           /\ t.hour \in Nat /\ t.minute \in Nat /\ t.second \in Nat /\ t.millisecond \in UpTo(999)
BY DEF Times, UpTo, U8

(* What a column has stored of a time, and what is read of it.             *)
LEMMA TimeStored ==
    ASSUME NEW t \in Times, NEW decimals \in {0, 3, 6}
    PROVE  /\ Rounded(MysqlTime(t), decimals) =
                [year |-> 0, month |-> 0, day |-> 0, hour |-> t.hour, minute |-> t.minute,
                 second |-> t.second,
                 second_part |-> 1000 * Kept(t, decimals).millisecond]
           /\ TimeOfMysql(Rounded(MysqlTime(t), decimals)) = Kept(t, decimals)
<1>1. PICK part \in {0, t.millisecond} :
        part = IF decimals = 0 THEN 0 ELSE t.millisecond
  OBVIOUS
<1>2. Kept(t, decimals).millisecond = part /\ 1000 * part = part * 1000
  BY <1>1, NarrowFields DEF Kept, Times, UpTo
<1>3. Unit(decimals) * ((t.millisecond * 1000) \div Unit(decimals)) = 1000 * part
  BY <1>1, NarrowFields, KeptParts DEF UpTo
<1>4. Rounded(MysqlTime(t), decimals) =
        [year |-> 0, month |-> 0, day |-> 0, hour |-> t.hour, minute |-> t.minute,
         second |-> t.second, second_part |-> 1000 * part]
  BY <1>3 DEF Rounded, MysqlTime
<1>5. U16((1000 * part) \div 1000) = part
  BY <1>1, NarrowFields DEF U16, UpTo
<1>6. TimeOfMysql(Rounded(MysqlTime(t), decimals)) =
        [hour |-> t.hour, minute |-> t.minute, second |-> t.second, millisecond |-> part]
  BY <1>4, <1>5, NarrowFields DEF TimeOfMysql
<1>7. Kept(t, decimals) =
        [hour |-> t.hour, minute |-> t.minute, second |-> t.second, millisecond |-> part]
  BY <1>1 DEF Kept, Times
<1> QED BY <1>2, <1>4, <1>6, <1>7

(* The text of a column with three decimals or none is read as what it     *)
(* stored.                                                                 *)
LEMMA ColumnText ==
    ASSUME NEW t \in Times, NEW decimals \in {0, 3}, NEW m,
           m.hour = t.hour, m.minute = t.minute, m.second = t.second,
           m.second_part = 1000 * Kept(t, decimals).millisecond
    PROVE  /\ TimeColumnText(m, decimals) \in Seq(Nat)
           /\ Len(TimeColumnText(m, decimals)) > 0
           /\ TimeParse(TimeColumnText(m, decimals)) = {Kept(t, decimals)}
<1>1. PICK s : s = <<m.hour, m.minute, m.second>>
  OBVIOUS
<1>2. /\ s \in Seq(Nat) /\ Len(s) = 3
      /\ s[1] = t.hour /\ s[2] = t.minute /\ s[3] = t.second
  BY <1>1, NarrowFields
<1>3. CASE decimals = 0
  <2>1. TimeColumnText(m, decimals) = s
    BY <1>1, <1>2, <1>3, ConcatEmptySeq DEF TimeColumnText
  <2> QED BY <1>2, <1>3, <2>1, ShortTimeParsed DEF Kept
<1>4. CASE decimals = 3
  <2>1. m.second_part \div Unit(decimals) = t.millisecond
    <3>1. m.second_part = 1000 * t.millisecond /\ Unit(decimals) = 1000
      BY <1>4, NarrowFields, KeptParts DEF Kept
    <3> QED BY <3>1, NarrowFields DEF UpTo
  <2>2. PICK r : r = <<t.millisecond>>
    OBVIOUS
  <2>3. r \in Seq(Nat) /\ Len(r) = 1 /\ r[1] = t.millisecond
    BY <2>2, NarrowFields DEF UpTo
  <2>4. TimeColumnText(m, decimals) = s \o r
    BY <1>1, <1>4, <2>1, <2>2 DEF TimeColumnText
  <2> DEFINE f == s \o r
  <2>5. s \in Seq(Nat) /\ Len(s) = 3 /\ r \in Seq(Nat)
    BY <1>2, <2>3
  <2>6. /\ f \in Seq(Nat) /\ Len(r) \in Nat /\ Len(f) = 3 + Len(r)
        /\ \A i \in 1..3 : f[i] = s[i]
        /\ \A i \in 1..Len(r) : f[3 + i] = r[i]
    BY <2>5, Followed, ZenonT(60)
  <2>7. TimeColumnText(m, decimals) = f
    BY <2>4
  <2> HIDE DEF f
  <2>8. /\ f \in Seq(Nat) /\ Len(f) = 4 /\ f[4] = t.millisecond
        /\ f[1] = t.hour /\ f[2] = t.minute /\ f[3] = t.second
    BY <1>2, <2>3, <2>6
  <2>9. TimeParse(f) = {t}
    BY <2>8, TimeParsed
  <2>10. Kept(t, decimals) = t
    BY <1>4 DEF Kept
  <2>11. Len(f) > 0
    BY <2>8
  <2> QED BY <2>7, <2>8, <2>9, <2>10, <2>11, Zenon
<1> QED BY <1>3, <1>4

LEMMA TimeOfDate ==
    ASSUME NEW d \in DateTimes
    PROVE  /\ TimeOf(d) \in Times
           /\ TimeOf(d).hour = d.hour /\ TimeOf(d).minute = d.minute
           /\ TimeOf(d).second = d.second /\ TimeOf(d).millisecond = d.millisecond
BY DEF TimeOf, Times, DateTimes

(* A date_time is its date and its time.                                   *)
LEMMA DateKept ==
    ASSUME NEW d \in DateTimes, NEW decimals \in {0, 3, 6}
    PROVE  LET t == Kept(TimeOf(d), decimals)
           IN  Kept(d, decimals) =
                 [year |-> d.year, month |-> d.month, day |-> d.day, hour |-> t.hour,
                  minute |-> t.minute, second |-> t.second, millisecond |-> t.millisecond]
<1>1. CASE decimals = 0
  BY <1>1 DEF Kept, DateTimes, TimeOf
<1>2. CASE decimals # 0
  BY <1>2 DEF Kept, DateTimes, TimeOf
<1> QED BY <1>1, <1>2

(* The date_time as the parameter that is sent.                            *)
LEMMA DateSent ==
    ASSUME NEW d \in DateTimes
    PROVE  DateMysqlTime(d) =
             [year |-> d.year, month |-> d.month, day |-> d.day, hour |-> d.hour,
              minute |-> d.minute, second |-> d.second, second_part |-> d.millisecond * 1000]
<1>1. PICK x : x = MysqlTime(d)
  OBVIOUS
<1>2. PICK a : a = [x EXCEPT !.year = d.year]
  OBVIOUS
<1>3. a = [year |-> d.year, month |-> 0, day |-> 0, hour |-> d.hour,
           minute |-> d.minute, second |-> d.second, second_part |-> d.millisecond * 1000]
  BY <1>1, <1>2 DEF MysqlTime
<1>4. PICK b : b = [a EXCEPT !.month = d.month]
  OBVIOUS
<1>5. b = [year |-> d.year, month |-> d.month, day |-> 0, hour |-> d.hour,
           minute |-> d.minute, second |-> d.second, second_part |-> d.millisecond * 1000]
  BY <1>3, <1>4
<1>6. PICK c : c = [b EXCEPT !.day = d.day]
  OBVIOUS
<1>7. c = [year |-> d.year, month |-> d.month, day |-> d.day, hour |-> d.hour,
           minute |-> d.minute, second |-> d.second, second_part |-> d.millisecond * 1000]
  BY <1>5, <1>6
<1> QED BY <1>1, <1>2, <1>4, <1>6, <1>7 DEF DateMysqlTime

(* What a column has stored of a date_time, and what is read of it.        *)
LEMMA DateStored ==
    ASSUME NEW d \in DateTimes, NEW decimals \in {0, 3, 6}
    PROVE  LET m == Rounded(DateMysqlTime(d), decimals)
               t == TimeOf(d)
           IN  /\ m = [year |-> d.year, month |-> d.month, day |-> d.day, hour |-> t.hour,
                       minute |-> t.minute, second |-> t.second,
                       second_part |-> 1000 * Kept(t, decimals).millisecond]
               /\ DateOfMysql(m) = Kept(d, decimals)
<1> DEFINE t == TimeOf(d)
           m == Rounded(DateMysqlTime(d), decimals)
           n == Rounded(MysqlTime(t), decimals)
<1>1. /\ t \in Times /\ t.hour = d.hour /\ t.minute = d.minute
      /\ t.second = d.second /\ t.millisecond = d.millisecond
  BY TimeOfDate
<1> HIDE DEF t
<1>2. /\ n = [year |-> 0, month |-> 0, day |-> 0, hour |-> t.hour, minute |-> t.minute,
              second |-> t.second, second_part |-> 1000 * Kept(t, decimals).millisecond]
      /\ TimeOfMysql(n) = Kept(t, decimals)
  BY <1>1, TimeStored
<1>3. MysqlTime(d) = MysqlTime(t)
  BY <1>1 DEF MysqlTime
<1> HIDE DEF m, n
<1>4. m = [year |-> d.year, month |-> d.month, day |-> d.day, hour |-> t.hour,
           minute |-> t.minute, second |-> t.second,
           second_part |-> 1000 * Kept(t, decimals).millisecond]
  <2>1. n.second_part = Unit(decimals) * ((t.millisecond * 1000) \div Unit(decimals))
    BY DEF n, Rounded, MysqlTime
  <2>2. DateMysqlTime(d) =
          [year |-> d.year, month |-> d.month, day |-> d.day, hour |-> t.hour,
           minute |-> t.minute, second |-> t.second, second_part |-> t.millisecond * 1000]
    BY <1>1, DateSent
  <2>3. m = [year |-> d.year, month |-> d.month, day |-> d.day, hour |-> t.hour,
             minute |-> t.minute, second |-> t.second, second_part |-> n.second_part]
    BY <2>1, <2>2 DEF m, Rounded
  <2> QED BY <1>2, <2>3
<1>5. TimeOfMysql(m) = TimeOfMysql(n)
  BY <1>2, <1>4 DEF TimeOfMysql
<1>6. U16(d.year) = d.year /\ U8(d.month) = d.month /\ U8(d.day) = d.day
  BY DEF DateTimes, UpTo, U16, U8
<1>7. PICK k : k = Kept(t, decimals)
  OBVIOUS
<1>8. TimeOfMysql(m) = k
  BY <1>2, <1>5, <1>7
<1>9. DateOfMysql(m) =
        [year |-> d.year, month |-> d.month, day |-> d.day, hour |-> k.hour,
         minute |-> k.minute, second |-> k.second, millisecond |-> k.millisecond]
  BY <1>4, <1>6, <1>8 DEF DateOfMysql
<1>10. Kept(d, decimals) =
        [year |-> d.year, month |-> d.month, day |-> d.day, hour |-> k.hour,
         minute |-> k.minute, second |-> k.second, millisecond |-> k.millisecond]
  BY <1>7, DateKept DEF t
<1> QED BY <1>4, <1>9, <1>10 DEF m, t

(* A date of the calendar and a time of day that a column holds come back  *)
(* as they were, to the column's decimals, as parameters and as text of    *)
(* three decimals or none; and a text str() writes is read back.           *)
THEOREM WaysThereAndBack == Spec => []RoundTrips
<1>1. ASSUME Valid(date)
      PROVE  DateParse(DateText(date, TRUE)) = {date}
  <2>1. date \in DateTimes
    BY <1>1 DEF Valid
  <2>2. PICK t \in Times : t = TimeOf(date)
    BY <2>1, TimeOfDate
  <2>3. PICK r : r = <<date.hour, date.minute, date.second, date.millisecond>>
    OBVIOUS
  <2>4. /\ t.hour = date.hour /\ t.minute = date.minute
        /\ t.second = date.second /\ t.millisecond = date.millisecond
    BY <2>1, <2>2, TimeOfDate
  <2>5. /\ r \in Seq(Nat) /\ Len(r) = 4
        /\ r[1] = t.hour /\ r[2] = t.minute /\ r[3] = t.second /\ r[4] = t.millisecond
    BY <2>3, <2>4, NarrowFields DEF UpTo
  <2>6. TimeParse(r) = {t}
    BY <2>5, TimeParsed
  <2>7. DateText(date, TRUE) = <<date.year, date.month, date.day>> \o r
    BY <2>3 DEF DateText, TimeText, TimeFields
  <2>8. r \in Seq(Nat) /\ Len(r) > 0
    BY <2>5
  <2>9. DateParse(<<date.year, date.month, date.day>> \o r) =
          {[year |-> date.year, month |-> date.month, day |-> date.day, hour |-> t.hour,
            minute |-> t.minute, second |-> t.second, millisecond |-> t.millisecond]}
    BY <2>1, <2>6, <2>8, DateParsed
  <2>10. date = [year |-> date.year, month |-> date.month, day |-> date.day,
                 hour |-> t.hour, minute |-> t.minute, second |-> t.second,
                 millisecond |-> t.millisecond]
    BY <2>1, <2>4 DEF DateTimes
  <2> QED BY <2>7, <2>9, <2>10
<1>2. ASSUME Valid(date), NEW decimals \in {0, 3, 6},
             NEW sent \in Stored(DateMysqlTime(date), decimals)
      PROVE  /\ DateOfMysql(sent) = Kept(date, decimals)
             /\ decimals < 6 =>
                  DateParse(DateColumnText(sent, decimals)) = {Kept(date, decimals)}
  <2>1. date \in DateTimes /\ sent = Rounded(DateMysqlTime(date), decimals)
    BY <1>2 DEF Valid, Stored
  <2>2. PICK t \in Times : t = TimeOf(date)
    BY <2>1, TimeOfDate
  <2>3. /\ DateOfMysql(sent) = Kept(date, decimals)
        /\ sent.year = date.year /\ sent.month = date.month /\ sent.day = date.day
        /\ sent.hour = t.hour /\ sent.minute = t.minute /\ sent.second = t.second
        /\ sent.second_part = 1000 * Kept(t, decimals).millisecond
    BY <2>1, <2>2, DateStored
  <2>4. ASSUME decimals < 6
        PROVE  DateParse(DateColumnText(sent, decimals)) = {Kept(date, decimals)}
    <3>1. decimals \in {0, 3}
      BY <2>4
    <3>2. PICK r : r = TimeColumnText(sent, decimals)
      OBVIOUS
    <3>3. PICK k : k = Kept(t, decimals)
      OBVIOUS
    <3>4. r \in Seq(Nat) /\ Len(r) > 0 /\ TimeParse(r) = {k}
      BY <2>3, <3>1, <3>2, <3>3, ColumnText
    <3>5. DateColumnText(sent, decimals) = <<date.year, date.month, date.day>> \o r
      BY <2>3, <3>2 DEF DateColumnText
    <3>6. DateParse(<<date.year, date.month, date.day>> \o r) =
            {[year |-> date.year, month |-> date.month, day |-> date.day, hour |-> k.hour,
              minute |-> k.minute, second |-> k.second, millisecond |-> k.millisecond]}
      BY <2>1, <3>4, DateParsed
    <3>7. Kept(date, decimals) =
            [year |-> date.year, month |-> date.month, day |-> date.day, hour |-> k.hour,
             minute |-> k.minute, second |-> k.second, millisecond |-> k.millisecond]
      BY <2>1, <2>2, <3>3, DateKept
    <3> QED BY <3>5, <3>6, <3>7
  <2> QED BY <2>3, <2>4
<1>3. ASSUME clock \in Times, NEW decimals \in {0, 3, 6},
             NEW sent \in Stored(MysqlTime(clock), decimals)
      PROVE  /\ TimeOfMysql(sent) = Kept(clock, decimals)
             /\ decimals < 6 =>
                  TimeParse(TimeColumnText(sent, decimals)) = {Kept(clock, decimals)}
  <2>1. sent = Rounded(MysqlTime(clock), decimals)
    BY DEF Stored
  <2>2. /\ TimeOfMysql(sent) = Kept(clock, decimals)
        /\ sent.hour = clock.hour /\ sent.minute = clock.minute
        /\ sent.second = clock.second
        /\ sent.second_part = 1000 * Kept(clock, decimals).millisecond
    BY <1>3, <2>1, TimeStored
  <2>3. decimals < 6 => decimals \in {0, 3}
    OBVIOUS
  <2> QED BY <1>3, <2>2, <2>3, ColumnText
<1>4. RoundTrips
  BY <1>1, <1>2, <1>3 DEF RoundTrips
<1> QED BY <1>4, PTL
=============================================================================
