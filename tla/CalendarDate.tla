--------------------------- MODULE CalendarDate ---------------------------
(***************************************************************************)
(* quant::Date: a civil date as year, month and day, and the arithmetic    *)
(* the calendar uses.  AddDays is the code's own loop; days_until and      *)
(* iso_weekday are mktime's, called for noon of both dates with tm_isdst = *)
(* 0, so that differences are whole days: they are given by the Gregorian  *)
(* day number.                                                             *)
(***************************************************************************)
EXTENDS Integers, Sequences

MonthLengths == <<31, 28, 31, 30, 31, 30, 31, 31, 30, 31, 30, 31>>

IsLeapYear(year) == year % 4 = 0 /\ (year % 100 # 0 \/ year % 400 = 0)

DaysInMonth(year, month) ==
  IF month = 2 /\ IsLeapYear(year) THEN 29 ELSE MonthLengths[month]

Date(year, month, day) == [year |-> year, month |-> month, day |-> day]

CivilDates ==
  {date \in [year : Nat \ {0}, month : 1 .. 12, day : Nat \ {0}] :
     date.day <= DaysInMonth(date.year, date.month)}

IsDate(date) == date \in CivilDates

(* One turn of Date::add_days.                                             *)
NextDay(date) ==
  IF date.day < DaysInMonth(date.year, date.month)
  THEN [date EXCEPT !.day = @ + 1]
  ELSE IF date.month < 12
       THEN Date(date.year, date.month + 1, 1)
       ELSE Date(date.year + 1, 1, 1)

AddDays(date, days) ==
  LET after[k \in 0 .. days] == IF k = 0 THEN date ELSE NextDay(after[k - 1])
  IN after[days]

(* Both keep the day of the month unless the new month is too short.       *)
Clamped(year, month, day) ==
  LET length == DaysInMonth(year, month)
  IN Date(year, month, IF day > length THEN length ELSE day)

AddMonths(date, months) ==
  LET total == date.year * 12 + date.month - 1 + months
  IN Clamped(total \div 12, (total % 12) + 1, date.day)

AddYears(date, years) == Clamped(date.year + years, date.month, date.day)

(* operator<                                                               *)
Before(a, b) ==
  \/ a.year < b.year
  \/ a.year = b.year /\ a.month < b.month
  \/ a.year = b.year /\ a.month = b.month /\ a.day < b.day

(* The number of the day, 1 for Monday 0001-01-01.                         *)
DaysBeforeMonth == <<0, 31, 59, 90, 120, 151, 181, 212, 243, 273, 304, 334>>

DayNumber(date) ==
  LET past == date.year - 1
  IN past * 365 + past \div 4 - past \div 100 + past \div 400
     + DaysBeforeMonth[date.month]
     + (IF date.month > 2 /\ IsLeapYear(date.year) THEN 1 ELSE 0)
     + date.day

DaysUntil(from, to) == DayNumber(to) - DayNumber(from)
IsoWeekday(date)    == ((DayNumber(date) - 1) % 7) + 1

(* The Sunday that ends the date's civil week.                             *)
SundayOf(date) == AddDays(date, 7 - IsoWeekday(date))
=============================================================================
