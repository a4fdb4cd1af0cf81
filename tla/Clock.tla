-------------------------------- MODULE Clock --------------------------------
(***************************************************************************)
(* The dates of the real time clock: rtc_get_time and rtc_set_time of      *)
(* drivers/cuda.c (those of drivers/pmu.c are the same).  The seconds of a *)
(* day are left out; a date is a record of year, month and day.            *)
(***************************************************************************)
EXTENDS Integers, FiniteSets, Functions, Tasks

CONSTANTS
  ClockYears,      \* years of the dates
  ClockLeapEnd     \* also the last day of leap years?

is_leap(year) == (year % 4 = 0 /\ year % 100 # 0) \/ year % 400 = 0

days_month(leap) == <<31, IF leap THEN 29 ELSE 28, 31, 30, 31, 30, 31, 31, 30, 31, 30, 31>>

\* The days of the months before m.
DaysBefore_Whole(leap, m) == FoldFunctionOnSet(+, 0, days_month(leap), 1 .. m)

DaysBefore(leap, m) == FoldFunctionOnSet(+, 0, days_month(leap), 1 .. m - 1)

\* The date that rtc_get_time makes of the days the clock has counted.
rtc_get_time(days) ==
  LET y    == (days * 100) \div 36525
      now  == days - (y * 36525) \div 100
      year == y + 1904
      leap == is_leap(year)
      month == CHOOSE m \in 1 .. 13 :
                 /\ m < 13 => now <= DaysBefore(leap, m + 1)
                 /\ \A k \in 1 .. m - 1 : now > DaysBefore(leap, k + 1)
  IN  [year |-> year, month |-> month, day |-> now - DaysBefore(leap, month)]

\* The days that rtc_set_time counts for a date.
rtc_set_time(date) ==
  ((date.year - 1904) * 36525) \div 100 + date.day + DaysBefore(is_leap(date.year), date.month)

-----------------------------------------------------------------------------
ClockTasks ==
  {t \in [op : {"date"}, date : [year : ClockYears, month : 1 .. 12, day : 1 .. 31]] :
     /\ t.date.day <= days_month(is_leap(t.date.year))[t.date.month]
     /\ ClockLeapEnd \/ ~(is_leap(t.date.year) /\ t.date.month = 12 /\ t.date.day = 31)}

\* The days from 1 January 1904 to a date.
DaysSince1904(date) ==
  (date.year - 1904) * 365 + Cardinality({y \in 1904 .. date.year - 1 : is_leap(y)})
  + DaysBefore(is_leap(date.year), date.month) + date.day - 1

ClockTask ==
  Compute("date", [back |-> rtc_get_time(rtc_set_time(task.date)),
                   shown |-> rtc_get_time(DaysSince1904(task.date))])

\* A date that is set with set-time is read back with get-time.
DatesKept == Computed("date") => result.back = task.date

\* "seconds since 01/01/1904": a clock that counts them shows the date.
DatesShown == Computed("date") => result.shown = task.date
=============================================================================
