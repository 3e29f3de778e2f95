------------------------------ MODULE FatTime ------------------------------
(***************************************************************************)
(* The decoding of a packed date and time (core/src/time.rs), against a    *)
(* calendar that counts: a day goes by at every step.                      *)
(*                                                                         *)
(* A date is its fields, as the shifts and masks of decode take them from  *)
(* the 16 bits.  Unix seconds are the pair of the day and the second of    *)
(* the day: together they pass TLC's integers.                             *)
(***************************************************************************)
EXTENDS Integers

CONSTANTS
  LastYear,     \* where the count of days stops
  Times         \* the times and tenths looked at on every day

Time == [hour : 0 .. 31, minute : 0 .. 63, two_sec : 0 .. 31, tenths : 0 .. 255]

ASSUME TimeAssumption ==
  LastYear \in Nat /\ \A t \in Times : t \in Time

VARIABLES
  days,         \* since 1970-01-01
  y, m, d       \* the date

vars == <<days, y, m, d>>

-----------------------------------------------------------------------------
LesserOf(a, b) == IF a <= b THEN a ELSE b
clamp(n, low, high) == IF n < low THEN low ELSE LesserOf(n, high)

\* Mutant: every fourth year a leap year, 2100 too.
doe_julian(yoe, doy) == yoe * 365 + yoe \div 4 + doy

\* The day of the era of 400 years.
doe(yoe, doy) == yoe * 365 + yoe \div 4 - yoe \div 100 + doy

\* The day of a year that begins in March.
doy(month, day) ==
  (153 * (IF month > 2 THEN month - 3 ELSE month + 9) + 2) \div 5 + day - 1

\* `era` is y / 400, truncated; the years are positive.
days_from_civil(year, month, day) ==
  LET shifted == IF month <= 2 THEN year - 1 ELSE year
      era == shifted \div 400
  IN  era * 146097 + doe(shifted - era * 400, doy(month, day)) - 719468

\* Mutant: the tenths left out of the seconds.
carry_none(tenths) == 0

\* Tenths count hundredths, up to 199 and beyond.
carry(tenths) == tenths \div 100

\* None for a date of 0.
Unset == [unset |-> TRUE]

\* FatTimestamp: [days, secs] for unix_seconds, subsec in units of 10 ms.
decode(date, time) ==
  IF date = [year |-> 0, month |-> 0, day |-> 0] THEN Unset
  ELSE [days |-> days_from_civil(1980 + date.year, clamp(date.month, 1, 12),
                                 clamp(date.day, 1, 31)),
        secs |-> LesserOf(time.hour, 23) * 3600 + LesserOf(time.minute, 59) * 60
                   + time.two_sec * 2 + carry(time.tenths),
        subsec |-> time.tenths % 100]

-----------------------------------------------------------------------------
\* The calendar.
IsLeap(year) == (year % 4 = 0 /\ year % 100 # 0) \/ year % 400 = 0

DaysIn(year, month) ==
  CASE month = 2 -> IF IsLeap(year) THEN 29 ELSE 28
    [] month \in {4, 6, 9, 11} -> 30
    [] OTHER -> 31

Init == days = 0 /\ y = 1970 /\ m = 1 /\ d = 1

NextDay ==
  /\ d < DaysIn(y, m)
  /\ d' = d + 1 /\ days' = days + 1
  /\ UNCHANGED <<y, m>>

NextMonth ==
  /\ d = DaysIn(y, m) /\ m < 12
  /\ d' = 1 /\ m' = m + 1 /\ days' = days + 1
  /\ UNCHANGED y

NextYear ==
  /\ d = DaysIn(y, m) /\ m = 12 /\ y < LastYear
  /\ d' = 1 /\ m' = 1 /\ y' = y + 1 /\ days' = days + 1

Next == NextDay \/ NextMonth \/ NextYear

Spec == Init /\ [][Next]_vars

-----------------------------------------------------------------------------
\* The date of a day, as FAT packs it from 1980 on.
Packed(day) == [year |-> y - 1980, month |-> m, day |-> day]

Midnight == [hour |-> 0, minute |-> 0, two_sec |-> 0, tenths |-> 0]

DayOf(date) == decode(date, Midnight).days

\* A date decodes to the number of days that went by.  Of the dates the
\* calendar does not have, the 29th to the 31st of a short month run on into
\* the next one, and a day or month of 0, a month of 13 to 15, give the nearest
\* there is (time.rs, decode: "Out-of-range fields are clamped rather than
\* rejected").
DaysAreCounted ==
  y >= 1980 =>
    /\ DayOf(Packed(d)) = days
    /\ d = DaysIn(y, m) => \A late \in d + 1 .. 31 : DayOf(Packed(late)) = days + late - d
    /\ d = 1 => DayOf(Packed(0)) = days
    /\ m = 12 => \A month \in 13 .. 15 :
         DayOf([Packed(d) EXCEPT !.month = month]) = days
    /\ m = 1 => DayOf([Packed(d) EXCEPT !.month = 0]) = days

\* Times of the clock; two_sec has room for 60 and 62 seconds as well.
IsTime(t) ==
  t.hour <= 23 /\ t.minute <= 59 /\ t.two_sec <= 29 /\ t.tenths <= 199

Earlier(t, u) ==
  \/ t.hour < u.hour
  \/ t.hour = u.hour /\ t.minute < u.minute
  \/ t.hour = u.hour /\ t.minute = u.minute /\ t.two_sec < u.two_sec
  \/ t.hour = u.hour /\ t.minute = u.minute /\ t.two_sec = u.two_sec /\ t.tenths < u.tenths

Before(s, t) ==
  \/ s.days < t.days
  \/ s.days = t.days /\ s.secs < t.secs
  \/ s.days = t.days /\ s.secs = t.secs /\ s.subsec < t.subsec

\* Timestamps decode in the order they were set in, within a day and from the
\* last of one day to the first of the next: a timeline sorted by the decoded
\* values is the one that was written (time.rs, decode).
InOrder(today, tomorrow) ==
  \A t, u \in { v \in Times : IsTime(v) } :
    /\ Earlier(t, u) => Before(decode(today, t), decode(today, u))
    /\ Before(decode(today, t), decode(tomorrow, u))
    /\ decode(today, t).secs < 86400

\* The order of timestamps on every day there is, and across midnight.
OrderIsKept == [][y >= 1980 => InOrder(Packed(d), Packed(d)')]_vars
=============================================================================
