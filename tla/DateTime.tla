------------------------------ MODULE DateTime ------------------------------
(***************************************************************************)
(* youth/core/DateTime: a point in time since the epoch, the additions to  *)
(* it, and the calendar that addMonths and addYears go through.            *)
(*                                                                         *)
(* m_microSecondsSinceEpoch is written in the mixed radix of days, seconds *)
(* of the day and microseconds of the second, which keeps it within TLC's  *)
(* integers.  The time zone is UTC.  localtime and mktime are external:    *)
(* they take days apart into a year, a month and a day of the month, and   *)
(* put them together, carrying days beyond the end of a month.             *)
(***************************************************************************)
EXTENDS Integers

CONSTANTS
  FirstYear, LastYear,  \* bound: the years that localtime looks at
  Starts,               \* the points in time that a program begins with
  Amounts,              \* the arguments of the additions
  MaxAdditions          \* bound: additions in a row

kMicroSecondsPerSecond == 1000 * 1000
SecondsPerDay == 24 * 60 * 60

DateTimes ==
  [day : Nat, sec : 0 .. SecondsPerDay - 1, usec : 0 .. kMicroSecondsPerSecond - 1]

ASSUME DateAssumption ==
  /\ FirstYear \in Nat /\ LastYear \in Nat
  /\ Starts \subseteq DateTimes
  /\ Amounts \subseteq Int
  /\ MaxAdditions \in Nat

VARIABLES
  moment,     \* a DateTime
  last,       \* history: the last addition, and what it was made to
  additions   \* how much of MaxAdditions is used

dateVars == <<moment, last, additions>>

-----------------------------------------------------------------------------
(* The additions of a fixed length                                         *)

\* addMicroSeconds: s seconds and u microseconds, with the carries of the radix
Plus(t, s, u) ==
  LET us == t.usec + u
      ss == t.sec + s + us \div kMicroSecondsPerSecond
  IN  [day |-> t.day + ss \div SecondsPerDay, sec |-> ss % SecondsPerDay,
       usec |-> us % kMicroSecondsPerSecond]

addMicroSeconds(t, n) == Plus(t, n \div kMicroSecondsPerSecond, n % kMicroSecondsPerSecond)
addMilliSeconds(t, n) == Plus(t, n \div 1000, (n % 1000) * 1000)
addSeconds(t, n) == Plus(t, n, 0)
addMinutes(t, n) == addSeconds(t, n * 60)
addHours(t, n) == addMinutes(t, n * 60)

addDays(t, n) == addHours(t, n * 24)
addWeeks(t, n) == addDays(t, n * 7)

-----------------------------------------------------------------------------
(* The calendar                                                            *)

\* Mutant: every fourth year is a leap year.
daysOfMonth_Julian(year, month) ==
  CASE month = 2 -> IF year % 4 = 0 THEN 29 ELSE 28
    [] month \in {4, 6, 9, 11} -> 30
    [] OTHER -> 31

\* daysOfMonth, months from 1
daysOfMonth(year, month) ==
  CASE month = 2 -> IF (year % 4 = 0 /\ year % 100 # 0) \/ year % 400 = 0 THEN 29 ELSE 28
    [] month \in {4, 6, 9, 11} -> 30
    [] OTHER -> 31

\* The days before January 1 of a year, and before a month (from 0) in it
LeapYears(y) == (y \div 4) - (y \div 100) + (y \div 400)
IsLeap(y) == LeapYears(y) - LeapYears(y - 1)
DaysBeforeYear(y) == 365 * (y - 1970) + LeapYears(y - 1) - LeapYears(1969)
DaysBeforeMonth(y, mon) ==
  <<0, 31, 59, 90, 120, 151, 181, 212, 243, 273, 304, 334>>[mon + 1]
    + (IF mon > 1 THEN IsLeap(y) ELSE 0)

\* mktime, of fields of which only the day may be beyond its range
mktime(tm) == DaysBeforeYear(tm.year) + DaysBeforeMonth(tm.year, tm.mon) + tm.mday - 1

\* localtime
localtime(day) ==
  LET y == CHOOSE x \in FirstYear .. LastYear :
             DaysBeforeYear(x) <= day /\ day < DaysBeforeYear(x + 1)
      m == CHOOSE x \in 0 .. 11 :
             /\ DaysBeforeYear(y) + DaysBeforeMonth(y, x) <= day
             /\ x = 11 \/ day < DaysBeforeYear(y) + DaysBeforeMonth(y, x + 1)
  IN  [year |-> y, mon |-> m, mday |-> day - DaysBeforeYear(y) - DaysBeforeMonth(y, m) + 1]

-----------------------------------------------------------------------------
(* addMonths and addYears                                                  *)

Lesser(a, b) == IF a < b THEN a ELSE b

\* The day is kept, or is the last of a shorter month.
Clamp(tm) == [tm EXCEPT !.mday = Lesser(@, daysOfMonth(tm.year, tm.mon + 1))]

\* Months beyond the year.  For months <= 0 the loop adds 12 until tm_mon is in
\* the year, that is -(mon \div 12) times.
Carry(year, mon, months) ==
  IF months > 0
  THEN [year |-> year + mon \div 12, mon |-> mon % 12]
  ELSE IF mon < 0
  THEN [year |-> year + mon \div 12, mon |-> mon - 12 * (mon \div 12)]
  ELSE [year |-> year, mon |-> mon]

MonthsLater(tm, months) ==
  LET c == Carry(tm.year, tm.mon + months, months)
  IN  Clamp([year |-> c.year, mon |-> c.mon, mday |-> tm.mday])

YearsLater(tm, years) == Clamp([tm EXCEPT !.year = @ + years])

\* addMonths: the seconds of the day go through mktime unchanged
addMonths(t, n) == [t EXCEPT !.day = mktime(MonthsLater(localtime(t.day), n))]

\* addYears keeps of the microseconds only what is left by "% 100000"
addYears(t, n) ==
  [t EXCEPT !.day = mktime(YearsLater(localtime(t.day), n)), !.usec = @ % 100000]

-----------------------------------------------------------------------------
(* A program that adds to a point in time, and to the result               *)

Sum(unit, t, n) ==
  CASE unit = "us" -> addMicroSeconds(t, n)
    [] unit = "ms" -> addMilliSeconds(t, n)
    [] unit = "second" -> addSeconds(t, n)
    [] unit = "minute" -> addMinutes(t, n)
    [] unit = "hour" -> addHours(t, n)
    [] unit = "day" -> addDays(t, n)
    [] unit = "week" -> addWeeks(t, n)
    [] unit = "month" -> addMonths(t, n)
    [] unit = "year" -> addYears(t, n)

Units == {"us", "ms", "second", "minute", "hour", "day", "week", "month", "year"}

DateTypeOK ==
  /\ moment \in DateTimes
  /\ last \in [unit : Units \cup {"none"}, n : Int, from : DateTimes]
  /\ additions \in 0 .. MaxAdditions

DateInit ==
  /\ moment \in Starts
  /\ last = [unit |-> "none", n |-> 0, from |-> moment]
  /\ additions = 0

DateAdd(unit, n) ==
  /\ additions < MaxAdditions
  /\ moment' = Sum(unit, moment, n)
  /\ last' = [unit |-> unit, n |-> n, from |-> moment]
  /\ additions' = additions + 1

DateNext == \E unit \in Units, n \in Amounts : DateAdd(unit, n)

-----------------------------------------------------------------------------
(* Properties                                                              *)

\* The months since year 0, and how many days the month of a date has
MonthNumber(tm) == 12 * tm.year + tm.mon
DaysIn(tm) ==
  IF tm.mon = 11 THEN 31
  ELSE DaysBeforeMonth(tm.year, tm.mon + 1) - DaysBeforeMonth(tm.year, tm.mon)

\* What the calendar says n months later: the month is that many away, and the
\* day is the same or the last one of the month.
CalendarMonths(from, to, n) ==
  LET a == localtime(from.day)
      b == localtime(to.day)
  IN  /\ MonthNumber(b) = MonthNumber(a) + n
      /\ b.mday = Lesser(a.mday, DaysIn(b))
      /\ to.sec = from.sec

(***************************************************************************)
(* addMonths and addYears agree with the calendar, in both directions,     *)
(* across leap days, ends of months and ends of years, also when one adds  *)
(* to a result; the day never runs over into the next month.  A day and a  *)
(* week later it is the same time of day, that many days on.  (addYears    *)
(* keeps the whole seconds only: see its remainder.)                       *)
(***************************************************************************)
CalendarRight ==
  CASE last.unit = "month" ->
         CalendarMonths(last.from, moment, last.n) /\ moment.usec = last.from.usec
    [] last.unit = "year" -> CalendarMonths(last.from, moment, 12 * last.n)
    [] last.unit = "day" -> moment = [last.from EXCEPT !.day = @ + last.n]
    [] last.unit = "week" -> moment = [last.from EXCEPT !.day = @ + 7 * last.n]
    [] OTHER -> TRUE
=============================================================================
