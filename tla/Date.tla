--------------------------------- MODULE Date ---------------------------------
(***************************************************************************)
(* A Date (Timing/Date.h, Date.cpp): a time, the fields of its calendar,   *)
(* and a flag which says that the fields have changed since the time was   *)
(* computed.  A time is <<days since 1970, milliseconds of the day>>, for  *)
(* an int64_t of milliseconds; offsets are fixed ones, in milliseconds, or *)
(* GMT: the tables of Timezone are not modelled.                            *)
(***************************************************************************)
EXTENDS Integers, FiniteSets, FiniteSetsExt

CONSTANTS
  Times,     \* times given to update(): <<days, milliseconds>>
  Offsets,   \* offsets from GMT
  Years,     \* arguments of setYear()
  Days,      \* arguments of setDay()
  YearDays,  \* arguments of setYearDay()
  Hours,     \* arguments of setHour()
  MaxSets    \* bound: setters between two times

VARIABLES
  year, month, day,  \* _year, _month, _day
  clock,             \* _hour, _minute, _second and _millisecond, in milliseconds
  weekDay,           \* _weekDay: 0 is Sunday, 7 unknown
  offset,            \* _offset
  changed,           \* _changed
  time,              \* the Time under the Date
  moved,             \* the year or the month has changed under the day
  sets               \* setters called since update()

date == <<year, month, day, clock, weekDay, offset, changed, time>>
dateVars == <<date, moved, sets>>

DayLength == 86400000
HourLength == 3600000

\* The division and the remainder of C++, which round to zero.
Quotient(a, b) == IF a >= 0 THEN a \div b ELSE -((-a) \div b)
Remainder(a, b) == a - b * Quotient(a, b)

Plus(t, ms) == <<t[1] + (t[2] + ms) \div DayLength, (t[2] + ms) % DayLength>>

-----------------------------------------------------------------------------
(* The calendar *)

IsLeapYear(y) == y % 400 = 0 \/ (y % 4 = 0 /\ y % 100 # 0)

\* _MonthDays: days of the year before the month m.
MonthDays(leap, m) ==
  LET days == <<0, 31, 59, 90, 120, 151, 181, 212, 243, 273, 304, 334>>
  IN  days[m] + (IF leap /\ m > 2 THEN 1 ELSE 0)

\* Mutant of LeapYears: without the delay of the years before 1.
LeapYearsPositive(y) == Quotient(y, 4) - Quotient(y, 100) + Quotient(y, 400) - 477

LeapYears(y) ==
  Quotient(y, 4) - Quotient(y, 100) + Quotient(y, 400) - 477 - (IF y <= 0 THEN 1 ELSE 0)

\* The loop of update() on the number of years since 1970: every turn corrects the
\* days by the leap years that the last estimate has missed.
Settled[s \in Int \X Int \X Int] ==
  LET days == s[1]  y == s[2]  delta == s[3]
      next == Quotient(days, 366)
      missed == next - LeapYears(next + 1970)
  IN  IF next = y THEN <<y, days>> ELSE Settled[<<days - delta + missed, next, missed>>]

\* The month and the day of the n-th day of a year, from 1: setYearDay() and update().
MonthOf(leap, n) == 1 + Cardinality({m \in 2 .. 12 : n > MonthDays(leap, m)})

\* update(time, offset): the year, the month and the day of a number of days.
Fields(days) ==
  LET after == days >= 0
      s == Settled[<<IF after THEN days + 1 ELSE days, 0, 0>>]
      y0 == s[1] + 1970
      rest == Remainder(s[2], 366) + (IF ~after /\ y0 > 0 /\ IsLeapYear(y0) THEN 1 ELSE 0)
      y == IF ~after /\ rest < 0 THEN y0 - 1 ELSE y0
      leap == IsLeapYear(y)
      n == IF after THEN rest + (IF leap THEN 1 ELSE 0)
           ELSE rest + 1 + (IF rest + 1 > 0 THEN 0 ELSE IF leap THEN 366 ELSE 365)
      m == MonthOf(leap, n)
  IN  [year |-> y, month |-> m, day |-> n - MonthDays(leap, m)]

ComputeWeekDay(days) ==
  LET d == days + 4
  IN  IF d < 0 THEN Remainder(d + 1, 7) + 6 ELSE Remainder(d, 7)

\* time(): the days of the fields, as if d was a day of their month.
LocalDays(d) ==
  LET leap == IsLeapYear(year)
  IN  d - 1 + LeapYears(year) - (IF leap /\ year > 0 THEN 1 ELSE 0)
        + MonthDays(leap, month) + (year - 1970) * 365

TimeOf(d) == Plus(<<LocalDays(d), clock>>, -offset)
WeekDayOf(d) == ComputeWeekDay(Plus(<<LocalDays(d), clock>>, 0)[1])

\* setDay(): the day is cut to the length of the month.
Clamped(y, m, d) ==
  LET last == IF m = 2 THEN IF IsLeapYear(y) THEN 29 ELSE 28
              ELSE IF m < 8 THEN IF m % 2 = 0 THEN 30 ELSE 31
              ELSE IF m % 2 = 1 THEN 30 ELSE 31
  IN  IF d < 1 THEN 1 ELSE IF d > last THEN last ELSE d

-----------------------------------------------------------------------------
(* Operations *)

FromTime(t, off) ==
  LET local == Plus(t, off)  f == Fields(local[1]) IN
  /\ year' = f.year /\ month' = f.month /\ day' = f.day /\ clock' = local[2]
  /\ weekDay' = ComputeWeekDay(local[1])
  /\ offset' = off /\ time' = t /\ changed' = FALSE
  /\ moved' = FALSE

Update(t, off) == FromTime(t, off) /\ sets' = 0

\* The setters: a field which does not change leaves the time as it is.
Setter == sets < MaxSets /\ sets' = sets + 1
Changes(field, value) == changed' = (changed \/ field # value)

SetYear(y) ==
  /\ Setter /\ year' = y /\ Changes(year, y) /\ moved' = (moved \/ y # year)
  /\ UNCHANGED <<month, day, clock, weekDay, offset, time>>

SetMonth(m) ==
  /\ Setter /\ month' = m /\ Changes(month, m) /\ moved' = (moved \/ m # month)
  /\ UNCHANGED <<year, day, clock, weekDay, offset, time>>

SetDay(d) ==
  /\ Setter
  /\ day' = (IF d = day THEN d ELSE Clamped(year, month, d))
  /\ Changes(day, day') /\ moved' = (moved /\ d = day)
  /\ UNCHANGED <<year, month, clock, weekDay, offset, time>>

SetYearDay(n) ==
  LET leap == IsLeapYear(year)  m == MonthOf(leap, n)  d == n - MonthDays(leap, m) IN
  /\ Setter /\ month' = m
  /\ day' = (IF d = day THEN d ELSE Clamped(year, m, d))
  /\ changed' = (changed \/ month' # month \/ day' # day)
  /\ moved' = (moved /\ d = day)
  /\ UNCHANGED <<year, clock, weekDay, offset, time>>

\* setWeekDay(): the day moves within its week, and by a week back when the end of the
\* month has cut it. _day + delta is a uint8_t, which wraps before the first of the month.
SetWeekDay(w) ==
  LET delta == w - WeekDayOf(day)
      d == Clamped(year, month, (day + delta) % 256)
      back == Clamped(year, month, (d + (IF delta > 0 THEN delta - 7 ELSE delta + 7)) % 256)
  IN  /\ Setter /\ delta # 0
      /\ day' = IF WeekDayOf(d) = w THEN d ELSE back
      /\ time' = TimeOf(d) /\ weekDay' = WeekDayOf(d) /\ changed' = (day' # d)
      /\ moved' = FALSE
      /\ UNCHANGED <<year, month, clock, offset>>

SetHour(h) ==
  LET c == (IF h > 59 THEN 59 ELSE h) * HourLength + (clock % HourLength) IN
  /\ Setter /\ clock' = c /\ Changes(clock, c)
  /\ UNCHANGED <<year, month, day, weekDay, offset, time, moved>>

\* The milliseconds move the time themselves, unless it is to compute.
SetMillisecond(ms) ==
  LET c == clock - (clock % 1000) + ms IN
  /\ Setter /\ clock' = c
  /\ time' = IF changed THEN time ELSE Plus(time, c - clock)
  /\ UNCHANGED <<year, month, day, weekDay, offset, changed, moved>>

\* time(), and every getter which calls it.
GetTime ==
  /\ changed
  /\ time' = TimeOf(day) /\ changed' = FALSE /\ weekDay' = 7
  /\ UNCHANGED <<year, month, day, clock, offset, moved, sets>>

GetWeekDay ==
  /\ changed \/ weekDay = 7
  /\ time' = (IF changed THEN TimeOf(day) ELSE time) /\ changed' = FALSE
  /\ weekDay' = ComputeWeekDay(Plus(time', offset)[1])
  /\ UNCHANGED <<year, month, day, clock, offset, moved, sets>>

\* setOffset(): the fields stay, the time moves, now or when it is computed.
SetOffset(off) ==
  /\ Setter /\ offset' = off
  /\ time' = IF changed THEN time ELSE Plus(time, offset - off)
  /\ UNCHANGED <<year, month, day, clock, weekDay, changed, moved>>

DateInit ==
  \E t \in Times, off \in Offsets :
    LET local == Plus(t, off)  f == Fields(local[1]) IN
    /\ year = f.year /\ month = f.month /\ day = f.day /\ clock = local[2]
    /\ weekDay = ComputeWeekDay(local[1])
    /\ offset = off /\ time = t /\ changed = FALSE /\ moved = FALSE /\ sets = 0

DateNext ==
  \/ \E t \in Times, off \in Offsets : Update(t, off)
  \/ \E y \in Years : SetYear(y)
  \/ \E m \in 1 .. 12 : SetMonth(m)
  \/ \E d \in Days : SetDay(d)
  \/ \E n \in YearDays : SetYearDay(n)
  \/ \E w \in 0 .. 6 : SetWeekDay(w)
  \/ \E h \in Hours : SetHour(h)
  \/ \E ms \in {0, 999} : SetMillisecond(ms)
  \/ \E off \in Offsets : SetOffset(off)
  \/ GetTime \/ GetWeekDay

-----------------------------------------------------------------------------
(* Correctness *)

\* The reference: the Gregorian calendar, counted from its leap years and its months.
MonthLength(y, m) ==
  CASE m = 2 -> IF IsLeapYear(y) THEN 29 ELSE 28
    [] m \in {4, 6, 9, 11} -> 30
    [] OTHER -> 31
Before(y) == 365 * y + (y - 1) \div 4 - (y - 1) \div 100 + (y - 1) \div 400
DayNumber(y, m, d) ==
  Before(y) - Before(1970) + MapThenSumSet(LAMBDA k : MonthLength(y, k), 1 .. m - 1) + d - 1

\* Whatever is set, in whatever order: the time is the one of the fields in the Gregorian
\* calendar (a day beyond the end of its month counts into the next one), the fields of
\* a time are the only ones of that day, and the day of the week follows, before 1970
\* and before the year 1 too.
CalendarIsExact ==
  LET days == DayNumber(year, month, day) IN
  /\ month \in 1 .. 12 /\ day \in 1 .. 31
  /\ ~moved => day <= MonthLength(year, month)
  /\ ~changed => Plus(time, offset) = Plus(<<days, 0>>, clock)
  /\ ~changed /\ weekDay # 7 =>
       weekDay = (Plus(<<days, 0>>, clock)[1] + 4) % 7
=============================================================================
