---------------------------- MODULE FatTimeProofs ----------------------------
(***************************************************************************)
(* The count of days holds beyond the years a date can have: the closed    *)
(* formula of days_from_civil moves by one with every day of the calendar. *)
(***************************************************************************)
EXTENDS FatTime, TLAPS

\* Days before the 1st of March of a year, from the 1st of March of year 0 on.
March(year) ==
  (year \div 400) * 146097 + doe(year - (year \div 400) * 400, 0)

\* A year from March to March has the leap day its second part has.
LEMMA MarchToMarch ==
  ASSUME NEW year \in Nat
  PROVE  /\ IsLeap(year + 1) => March(year + 1) = March(year) + 366
         /\ ~IsLeap(year + 1) => March(year + 1) = March(year) + 365
<1> DEFINE era == year \div 400
           yoe == year - era * 400
<1>1. era \in Nat /\ yoe \in 0 .. 399 /\ year = 400 * era + yoe
  OBVIOUS
<1>2. CASE yoe < 399
  <2>1. (year + 1) \div 400 = era
    BY <1>1, <1>2
  <2>2. /\ (year + 1) % 4 = (yoe + 1) % 4
        /\ (year + 1) % 100 = (yoe + 1) % 100
        /\ (year + 1) % 400 = yoe + 1
    BY <1>1, <1>2
  <2>3. March(year + 1) - March(year)
          = 365 + ((yoe + 1) \div 4 - yoe \div 4) - ((yoe + 1) \div 100 - yoe \div 100)
    BY <1>1, <2>1 DEF March, doe
  <2>4. /\ (yoe + 1) \div 4 - yoe \div 4 = IF (yoe + 1) % 4 = 0 THEN 1 ELSE 0
        /\ (yoe + 1) \div 100 - yoe \div 100 = IF (yoe + 1) % 100 = 0 THEN 1 ELSE 0
    BY <1>1, <1>2
  <2>5. (yoe + 1) % 100 = 0 => (yoe + 1) % 4 = 0
    BY <1>1
  <2> QED
    BY <1>1, <1>2, <2>2, <2>3, <2>4, <2>5 DEF IsLeap, March, doe
<1>3. CASE yoe = 399
  <2>1. (year + 1) \div 400 = era + 1 /\ (year + 1) % 400 = 0
    BY <1>1, <1>3
  <2> QED
    BY <1>1, <1>3, <2>1 DEF March, doe, IsLeap
<1> QED
  BY <1>1, <1>2, <1>3

\* days_from_civil from the nearest 1st of March.
LEMMA CountedFromMarch ==
  ASSUME NEW year \in Nat \ {0}, NEW month \in 1 .. 12, NEW day \in Nat
  PROVE  /\ month > 2 => days_from_civil(year, month, day)
                           = March(year) + doy(month, day) - 719468
         /\ month <= 2 => days_from_civil(year, month, day)
                           = March(year - 1) + doy(month, day) - 719468
<1> DEFINE from == IF month <= 2 THEN year - 1 ELSE year
<1>1. from \in Nat /\ from \div 400 \in Nat /\ from - (from \div 400) * 400 \in Nat
  OBVIOUS
<1>2. doy(month, day) \in Int
  BY DEF doy
<1>3. days_from_civil(year, month, day)
        = (from \div 400) * 146097
            + doe(from - (from \div 400) * 400, doy(month, day)) - 719468
  BY DEF days_from_civil
<1>4. days_from_civil(year, month, day) = March(from) + doy(month, day) - 719468
  BY <1>1, <1>2, <1>3 DEF March, doe
<1> QED
  BY <1>4

\* Where the months begin in a year from March.
LEMMA DayOfYear ==
  ASSUME NEW day \in Nat
  PROVE  /\ doy(1, day) = 305 + day /\ doy(2, day) = 336 + day
         /\ doy(3, day) = day - 1 /\ doy(4, day) = 30 + day
         /\ doy(5, day) = 60 + day /\ doy(6, day) = 91 + day
         /\ doy(7, day) = 121 + day /\ doy(8, day) = 152 + day
         /\ doy(9, day) = 183 + day /\ doy(10, day) = 213 + day
         /\ doy(11, day) = 244 + day /\ doy(12, day) = 274 + day
BY DEF doy

-----------------------------------------------------------------------------
\* The calendar's date is a date, and its days are those of the formula.
IInv ==
  /\ days \in Nat /\ y \in Nat /\ y >= 1970 /\ m \in 1 .. 12
  /\ d \in 1 .. DaysIn(y, m)
  /\ days = days_from_civil(y, m, d)

LEMMA MonthLength ==
  ASSUME NEW year \in Nat, NEW month \in 1 .. 12
  PROVE  /\ DaysIn(year, month) \in Nat /\ DaysIn(year, month) >= 28 /\ DaysIn(year, month) <= 31
         /\ month = 2 => DaysIn(year, month) = IF IsLeap(year) THEN 29 ELSE 28
         /\ month \in {4, 6, 9, 11} => DaysIn(year, month) = 30
         /\ month \in {1, 3, 5, 7, 8, 10, 12} => DaysIn(year, month) = 31
BY DEF DaysIn

\* Within a month the formula counts days.
LEMMA CountsDays ==
  ASSUME NEW year \in Nat \ {0}, NEW month \in 1 .. 12, NEW from \in Nat, NEW to \in Nat
  PROVE  days_from_civil(year, month, to) = days_from_civil(year, month, from) + to - from
<1>1. /\ doy(month, from) \in Int
      /\ doy(month, to) = doy(month, from) + to - from
  BY DEF doy
<1>2. March(year) \in Int /\ March(year - 1) \in Int
  BY DEF March, doe
<1> QED
  BY <1>1, <1>2, CountedFromMarch

\* The 1st of the next month follows the last day of a month.
LEMMA CountsMonths ==
  ASSUME NEW year \in Nat \ {0}, NEW month \in 1 .. 11
  PROVE  days_from_civil(year, month + 1, 1)
           = days_from_civil(year, month, DaysIn(year, month)) + 1
<1> DEFINE last == DaysIn(year, month)
<1>1. last \in Nat
  BY MonthLength
<1>2. March(year) \in Int /\ March(year - 1) \in Int
  BY DEF March, doe
<1>3. CASE month = 2
  <2>1. March(year) = March(year - 1) + 337 + last
    <3>1. year - 1 \in Nat /\ (year - 1) + 1 = year
      OBVIOUS
    <3>2. last = IF IsLeap(year) THEN 29 ELSE 28
      BY <1>3, MonthLength
    <3>3. /\ IsLeap(year) => March(year) = March(year - 1) + 366
          /\ ~IsLeap(year) => March(year) = March(year - 1) + 365
      BY <3>1, MarchToMarch
    <3> QED
      BY <1>2, <3>2, <3>3
  <2>2. days_from_civil(year, 3, 1) = March(year) + doy(3, 1) - 719468
    BY CountedFromMarch
  <2>3. days_from_civil(year, 2, last) = March(year - 1) + doy(2, last) - 719468
    BY <1>1, CountedFromMarch
  <2>4. doy(3, 1) = 0 /\ doy(2, last) = 336 + last
    BY <1>1, DayOfYear
  <2> QED
    BY <1>1, <1>2, <1>3, <2>1, <2>2, <2>3, <2>4
<1>4. CASE month # 2
  <2>1. doy(month + 1, 1) = doy(month, last) + 1 /\ doy(month, last) \in Int
    <3>1. /\ month \in {4, 6, 9, 11} => last = 30
          /\ month \in {1, 3, 5, 7, 8, 10} => last = 31
          /\ month \in {1, 3, 4, 5, 6, 7, 8, 9, 10, 11}
      BY <1>4, MonthLength
    <3>2. doy(month + 1, 1) = doy(month, last) + 1
      BY <3>1 DEF doy
    <3>3. doy(month, last) \in Int
      BY <1>1 DEF doy
    <3> QED
      BY <3>2, <3>3
  <2>2. month + 1 \in 1 .. 12 /\ (month + 1 <= 2 <=> month <= 2)
    BY <1>4
  <2> QED
    BY <1>1, <1>2, <2>1, <2>2, CountedFromMarch
<1> QED
  BY <1>3, <1>4

LEMMA CountsYears ==
  ASSUME NEW year \in Nat \ {0}
  PROVE  days_from_civil(year + 1, 1, 1) = days_from_civil(year, 12, 31) + 1
<1>1. March(year) \in Int /\ year + 1 \in Nat \ {0} /\ (year + 1) - 1 = year
  BY DEF March, doe
<1>2. days_from_civil(year + 1, 1, 1) = March(year) + doy(1, 1) - 719468
  BY <1>1, CountedFromMarch
<1>3. days_from_civil(year, 12, 31) = March(year) + doy(12, 31) - 719468
  BY <1>1, CountedFromMarch
<1> QED
  BY <1>1, <1>2, <1>3, DayOfYear

LEMMA CountsThisMonth ==
  ASSUME IInv
  PROVE  \A to \in Nat : days_from_civil(y, m, to) = days + to - d
<1>1. /\ y \in Nat \ {0} /\ m \in 1 .. 12 /\ d \in Nat
      /\ days = days_from_civil(y, m, d)
  BY MonthLength DEF IInv
<1>2. \A year \in Nat \ {0}, month \in 1 .. 12, from \in Nat, to \in Nat :
        days_from_civil(year, month, to) = days_from_civil(year, month, from) + to - from
  BY CountsDays
<1> QED
  BY <1>1, <1>2, Zenon

LEMMA InitEstablishes == Init => IInv
<1> SUFFICES ASSUME Init PROVE IInv
  OBVIOUS
<1>1. days_from_civil(1970, 1, 1) = 0
  BY DEF days_from_civil, doy, doe
<1>2. 1 \in 1 .. DaysIn(1970, 1)
  BY MonthLength
<1> QED
  BY <1>1, <1>2 DEF Init, IInv

LEMMA NextPreserves == IInv /\ [Next]_vars => IInv'
<1> SUFFICES ASSUME IInv, [Next]_vars PROVE IInv'
  OBVIOUS
<1> USE DEF IInv
<1>1. CASE NextDay
  <2>1. d \in Nat /\ y \in Nat \ {0} /\ DaysIn(y, m) \in Nat
    BY MonthLength
  <2>2. days_from_civil(y, m, d + 1) = days + (d + 1) - d
    <3>1. d + 1 \in Nat
      BY <2>1
    <3> QED
      BY <3>1, CountsThisMonth
  <2> QED
    BY <1>1, <2>1, <2>2 DEF NextDay
<1>2. CASE NextMonth
  <2>1. m' \in 1 .. 12 /\ m \in 1 .. 11 /\ y' = y
    BY <1>2 DEF NextMonth
  <2>2. days_from_civil(y, m + 1, 1) = days + 1
    BY <1>2, <2>1, CountsMonths DEF NextMonth
  <2>3. DaysIn(y, m + 1) \in Nat /\ DaysIn(y, m + 1) >= 1
    BY <2>1, MonthLength
  <2> QED
    BY <1>2, <2>1, <2>2, <2>3 DEF NextMonth
<1>3. CASE NextYear
  <2>1. DaysIn(y, 12) = 31
    BY MonthLength
  <2>2. days_from_civil(y + 1, 1, 1) = days + 1
    BY <1>3, <2>1, CountsYears DEF NextYear
  <2>3. DaysIn(y + 1, 1) \in Nat /\ DaysIn(y + 1, 1) >= 1
    BY MonthLength
  <2> QED
    BY <1>3, <2>2, <2>3 DEF NextYear
<1>4. CASE UNCHANGED vars
  BY <1>4 DEF vars
<1> QED
  BY <1>1, <1>2, <1>3, <1>4 DEF Next

-----------------------------------------------------------------------------
LEMMA DecodesDays ==
  ASSUME NEW date, NEW time,
         date.year \in Nat, date.month \in Nat, date.day \in Nat,
         date.month # 0 \/ date.day # 0
  PROVE  decode(date, time).days
           = days_from_civil(1980 + date.year, clamp(date.month, 1, 12), clamp(date.day, 1, 31))
<1>1. date # [year |-> 0, month |-> 0, day |-> 0]
  OBVIOUS
<1> QED
  BY <1>1 DEF decode

\* The month clamped and the day clamped, of the fields a date can hold.
LEMMA Clamps ==
  ASSUME NEW k \in Nat
  PROVE  /\ 1 <= k /\ k <= 12 => clamp(k, 1, 12) = k
         /\ 13 <= k => clamp(k, 1, 12) = 12
         /\ 1 <= k /\ k <= 31 => clamp(k, 1, 31) = k
         /\ k = 0 => clamp(k, 1, 12) = 1 /\ clamp(k, 1, 31) = 1
BY DEF clamp, LesserOf

\* What the invariant says of today's date.
LEMMA Today ==
  ASSUME IInv
  PROVE  /\ y \in Nat \ {0} /\ days \in Nat /\ days = days_from_civil(y, m, d)
         /\ m \in Nat /\ 1 <= m /\ m <= 12 /\ d \in Nat /\ 1 <= d /\ d <= 31
         /\ clamp(m, 1, 12) = m /\ clamp(d, 1, 31) = d
<1>1. /\ y \in Nat \ {0} /\ days \in Nat /\ days = days_from_civil(y, m, d)
      /\ m \in Nat /\ 1 <= m /\ m <= 12
      /\ d \in Nat /\ 1 <= d /\ d <= DaysIn(y, m)
  BY MonthLength DEF IInv
<1>2. d <= 31
  BY <1>1, MonthLength DEF IInv
<1> QED
  BY <1>1, <1>2, Clamps

\* A date in the year of today decodes to what the formula makes of it.
LEMMA DecodesThisYear ==
  ASSUME IInv, y >= 1980, NEW date, NEW time, date.year = y - 1980,
         date.month \in Nat, date.day \in Nat, date.month # 0 \/ date.day # 0
  PROVE  decode(date, time).days
           = days_from_civil(y, clamp(date.month, 1, 12), clamp(date.day, 1, 31))
<1>1. date.year \in Nat /\ 1980 + date.year = y
  BY Today
<1>2. decode(date, time).days
        = days_from_civil(1980 + date.year, clamp(date.month, 1, 12), clamp(date.day, 1, 31))
  BY <1>1, DecodesDays
<1> QED
  BY <1>1, <1>2

LEMMA PackedFields ==
  ASSUME NEW day, NEW month
  PROVE  /\ Packed(day).year = y - 1980 /\ Packed(day).month = m /\ Packed(day).day = day
         /\ [Packed(day) EXCEPT !.month = month].year = y - 1980
         /\ [Packed(day) EXCEPT !.month = month].month = month
         /\ [Packed(day) EXCEPT !.month = month].day = day
BY DEF Packed

LEMMA DecodesCivil ==
  ASSUME NEW year \in Nat, year >= 1980, NEW month \in 1 .. 12,
         NEW day \in 1 .. DaysIn(year, month), NEW time
  PROVE  decode([year |-> year - 1980, month |-> month, day |-> day], time).days
           = days_from_civil(year, month, day)
<1> DEFINE date == [year |-> year - 1980, month |-> month, day |-> day]
<1>1. date.year \in Nat /\ 1980 + date.year = year /\ date.month = month /\ date.day = day
  OBVIOUS
<1>2. /\ month \in Nat /\ 1 <= month /\ month <= 12
      /\ day \in Nat /\ 1 <= day /\ day <= 31
  BY MonthLength
<1> HIDE DEF date
<1>3. decode(date, time).days
        = days_from_civil(1980 + date.year, clamp(date.month, 1, 12), clamp(date.day, 1, 31))
  BY <1>1, <1>2, DecodesDays
<1>4. decode(date, time).days = days_from_civil(year, month, day)
  BY <1>1, <1>2, <1>3, Clamps
<1> QED
  BY <1>4 DEF date

\* Today's date decodes to the days gone by, and so does tomorrow's tomorrow.
LEMMA DecodesToday ==
  ASSUME IInv, y >= 1980, NEW time
  PROVE  decode(Packed(d), time).days = days
BY DecodesCivil DEF IInv, Packed

LEMMA DecodesTomorrow ==
  ASSUME IInv', y' >= 1980, NEW time
  PROVE  decode(Packed(d)', time).days = days'
BY DecodesCivil DEF IInv, Packed

\* The calendar never leaves its days, whatever the last year (time.rs,
\* days_from_civil: "Valid for any in-range civil date").
THEOREM CalendarIsFormula == Spec => [](days = days_from_civil(y, m, d))
<1>1. IInv => days = days_from_civil(y, m, d)
  BY DEF IInv
<1> QED
  BY <1>1, InitEstablishes, NextPreserves, PTL DEF Spec

\* For every last year: dates decode to the days that went by, those the
\* calendar does not have included (time.rs, decode).
THEOREM DaysCounted == Spec => []DaysAreCounted
<1>1. IInv => DaysAreCounted
  <2> SUFFICES ASSUME IInv, y >= 1980 PROVE DaysAreCounted
    BY DEF DaysAreCounted
  <2>2. DayOf(Packed(d)) = days
    BY DecodesToday DEF DayOf
  <2>3. ASSUME d = DaysIn(y, m), NEW late \in d + 1 .. 31
        PROVE  DayOf(Packed(late)) = days + late - d
    <3>1. late \in Nat /\ 1 <= late /\ late <= 31 /\ d < late
      BY Today
    <3>2. DayOf(Packed(late)) = days_from_civil(y, clamp(m, 1, 12), clamp(late, 1, 31))
      <4>1. DayOf(Packed(late)) = days_from_civil(y, clamp(Packed(late).month, 1, 12),
                                                  clamp(Packed(late).day, 1, 31))
        BY <3>1, Today, PackedFields, DecodesThisYear DEF DayOf
      <4> QED
        BY <4>1, PackedFields
    <3>3. DayOf(Packed(late)) = days_from_civil(y, m, late)
      BY <3>1, <3>2, Today, Clamps
    <3>4. days_from_civil(y, m, late) = days + late - d
      BY <3>1, CountsThisMonth
    <3> QED
      BY <3>3, <3>4, Today
  <2>4. ASSUME d = 1 PROVE DayOf(Packed(0)) = days
    <3>1. DayOf(Packed(0)) = days_from_civil(y, clamp(Packed(0).month, 1, 12),
                                             clamp(Packed(0).day, 1, 31))
      BY Today, PackedFields, DecodesThisYear DEF DayOf
    <3>2. Packed(0).month = m /\ Packed(0).day = 0 /\ clamp(0, 1, 31) = 1
      BY PackedFields, Clamps
    <3> QED
      BY <2>4, <3>1, <3>2, Today
  <2>5. ASSUME NEW month \in Nat, clamp(month, 1, 12) = m
        PROVE  DayOf([Packed(d) EXCEPT !.month = month]) = days
    <3> DEFINE date == [Packed(d) EXCEPT !.month = month]
    <3>1. date.year = y - 1980 /\ date.month = month /\ date.day = d
      BY PackedFields
    <3> HIDE DEF date
    <3>2. DayOf(date) = days_from_civil(y, clamp(date.month, 1, 12), clamp(date.day, 1, 31))
      BY <3>1, Today, DecodesThisYear DEF DayOf
    <3>3. DayOf(date) = days
      BY <2>5, <3>1, <3>2, Today
    <3> QED
      BY <3>3 DEF date
  <2>6. ASSUME m = 12, NEW month \in 13 .. 15
        PROVE  DayOf([Packed(d) EXCEPT !.month = month]) = days
    <3>1. month \in Nat /\ clamp(month, 1, 12) = m
      BY <2>6, Clamps
    <3> QED
      BY <2>5, <3>1
  <2>7. ASSUME m = 1
        PROVE  DayOf([Packed(d) EXCEPT !.month = 0]) = days
    <3>1. clamp(0, 1, 12) = m
      BY <2>7, Clamps
    <3> QED
      BY <2>5, <3>1
  <2> QED
    BY <2>2, <2>3, <2>4, <2>6, <2>7 DEF DaysAreCounted
<1> QED
  BY <1>1, InitEstablishes, NextPreserves, PTL DEF Spec

-----------------------------------------------------------------------------
\* The fields of a time of the clock, the tenths split at 100.
LEMMA TimeFields ==
  ASSUME NEW t \in Time, IsTime(t)
  PROVE  /\ t.hour \in Nat /\ t.hour <= 23 /\ t.minute \in Nat /\ t.minute <= 59
         /\ t.two_sec \in Nat /\ t.two_sec <= 29
         /\ t.tenths \in Nat /\ t.tenths <= 199
         /\ t.tenths \div 100 \in Nat /\ t.tenths \div 100 <= 1
         /\ t.tenths % 100 \in Nat /\ t.tenths % 100 < 100
         /\ t.tenths = (t.tenths \div 100) * 100 + (t.tenths % 100)
<1>1. /\ t.hour \in Nat /\ t.hour <= 23 /\ t.minute \in Nat /\ t.minute <= 59
      /\ t.two_sec \in Nat /\ t.two_sec <= 29
      /\ t.tenths \in Nat /\ t.tenths <= 199
  BY DEF Time, IsTime
<1>2. \A k \in Nat : k <= 199 =>
        /\ k \div 100 \in Nat /\ k \div 100 <= 1
        /\ k % 100 \in Nat /\ k % 100 < 100
        /\ k = (k \div 100) * 100 + (k % 100)
  OBVIOUS
<1> QED
  BY <1>1, <1>2

Seconds(t) == t.hour * 3600 + t.minute * 60 + t.two_sec * 2 + t.tenths \div 100

\* What decode makes of the time of a day that is set.
LEMMA DecodesTime ==
  ASSUME IInv, y >= 1980, NEW t \in Time, IsTime(t)
  PROVE  /\ decode(Packed(d), t).secs = Seconds(t)
         /\ decode(Packed(d), t).subsec = t.tenths % 100
<1>1. Packed(d).month # 0
  BY Today, PackedFields
<1>2. Packed(d) # [year |-> 0, month |-> 0, day |-> 0]
  BY <1>1
<1>3. LesserOf(t.hour, 23) = t.hour /\ LesserOf(t.minute, 59) = t.minute
  BY TimeFields DEF LesserOf
<1> QED
  BY <1>2, <1>3 DEF decode, carry, Seconds

\* The clock of a day, in seconds and hundredths, is ordered like its fields.
LEMMA ClockOrder ==
  ASSUME NEW t \in Time, NEW u \in Time, IsTime(t), IsTime(u)
  PROVE  /\ Seconds(t) \in Nat /\ Seconds(t) < 86400
         /\ Earlier(t, u) =>
              \/ Seconds(t) < Seconds(u)
              \/ Seconds(t) = Seconds(u) /\ t.tenths % 100 < u.tenths % 100
<1> DEFINE q == t.tenths \div 100   p == t.tenths % 100
           r == u.tenths \div 100   s == u.tenths % 100
<1>1. /\ t.hour \in Nat /\ t.hour <= 23 /\ t.minute \in Nat /\ t.minute <= 59
      /\ t.two_sec \in Nat /\ t.two_sec <= 29
      /\ q \in Nat /\ q <= 1 /\ p \in Nat /\ p < 100 /\ t.tenths = q * 100 + p
  BY TimeFields
<1>2. /\ u.hour \in Nat /\ u.hour <= 23 /\ u.minute \in Nat /\ u.minute <= 59
      /\ u.two_sec \in Nat /\ u.two_sec <= 29
      /\ r \in Nat /\ r <= 1 /\ s \in Nat /\ s < 100 /\ u.tenths = r * 100 + s
  BY TimeFields
<1>3. /\ Seconds(t) = t.hour * 3600 + t.minute * 60 + t.two_sec * 2 + q
      /\ Seconds(u) = u.hour * 3600 + u.minute * 60 + u.two_sec * 2 + r
  BY DEF Seconds
<1> HIDE DEF q, p, r, s
<1>4. Seconds(t) \in Nat /\ Seconds(t) < 86400
  BY <1>1, <1>3
<1>5. Earlier(t, u) => Seconds(t) < Seconds(u) \/ (Seconds(t) = Seconds(u) /\ p < s)
  <2>1. CASE t.hour < u.hour
    BY <1>1, <1>2, <1>3, <2>1
  <2>2. CASE t.hour = u.hour /\ t.minute < u.minute
    BY <1>1, <1>2, <1>3, <2>2
  <2>3. CASE t.hour = u.hour /\ t.minute = u.minute /\ t.two_sec < u.two_sec
    BY <1>1, <1>2, <1>3, <2>3
  <2>4. CASE t.hour = u.hour /\ t.minute = u.minute /\ t.two_sec = u.two_sec
             /\ t.tenths < u.tenths
    <3>1. q < r \/ (q = r /\ p < s)
      BY <1>1, <1>2, <2>4
    <3> QED
      BY <1>1, <1>2, <1>3, <2>4, <3>1
  <2> QED
    BY <2>1, <2>2, <2>3, <2>4 DEF Earlier
<1> QED
  BY <1>4, <1>5 DEF p, s

\* For every set of times: decoding keeps the order of timestamps, within a day
\* and from day to day (time.rs, decode).
THEOREM OrderKept == Spec => OrderIsKept
<1>1. ASSUME IInv, IInv', [Next]_vars
      PROVE  [y >= 1980 => InOrder(Packed(d), Packed(d)')]_vars
  <2> SUFFICES ASSUME Next, y >= 1980,
                      NEW t \in Times, NEW u \in Times, IsTime(t), IsTime(u)
               PROVE  /\ Earlier(t, u) => Before(decode(Packed(d), t), decode(Packed(d), u))
                      /\ Before(decode(Packed(d), t), decode(Packed(d)', u))
                      /\ decode(Packed(d), t).secs < 86400
    BY <1>1 DEF InOrder
  <2>1. t \in Time /\ u \in Time
    BY TimeAssumption
  <2>2. days' = days + 1 /\ y' >= 1980
    BY <1>1 DEF Next, NextDay, NextMonth, NextYear, IInv
  <2>3. /\ decode(Packed(d), t).days = days
        /\ decode(Packed(d), u).days = days
        /\ days \in Nat
    BY <1>1, DecodesToday, Today
  <2>4. decode(Packed(d)', u).days = days + 1
    BY <1>1, <2>2, DecodesTomorrow
  <2>5. /\ decode(Packed(d), t).secs = Seconds(t)
        /\ decode(Packed(d), t).subsec = t.tenths % 100
        /\ decode(Packed(d), u).secs = Seconds(u)
        /\ decode(Packed(d), u).subsec = u.tenths % 100
    BY <1>1, <2>1, DecodesTime
  <2>6. /\ Seconds(t) < 86400
        /\ Earlier(t, u) =>
              \/ Seconds(t) < Seconds(u)
              \/ Seconds(t) = Seconds(u) /\ t.tenths % 100 < u.tenths % 100
    BY <2>1, ClockOrder
  <2>7. Before(decode(Packed(d), t), decode(Packed(d)', u))
    BY <2>3, <2>4 DEF Before
  <2>8. Earlier(t, u) => Before(decode(Packed(d), t), decode(Packed(d), u))
    BY <2>3, <2>5, <2>6 DEF Before
  <2> QED
    BY <2>5, <2>6, <2>7, <2>8
<1> QED
  BY <1>1, InitEstablishes, NextPreserves, PTL DEF Spec, OrderIsKept
=============================================================================
