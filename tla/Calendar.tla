------------------------------- MODULE Calendar -------------------------------
(***************************************************************************)
(* The proleptic Gregorian calendar of Python's datetime and calendar      *)
(* modules, over the years FirstYear .. LastYear: a date is the number of  *)
(* days since 1970-01-01, and a moment a number of ticks, Day of them to a *)
(* date.  The tick stands for the finest unit an index is counted in.      *)
(* Everything here is code the repository calls and does not contain.      *)
(***************************************************************************)
EXTENDS Integers, Sequences, FiniteSets, FiniteSetsExt

CONSTANTS FirstYear, LastYear,   \* the years the model can look at
          Day                    \* ticks in a day

ASSUME CalendarAssumption ==
  /\ FirstYear \in 1971 .. 2399 /\ LastYear \in FirstYear .. 2399
  /\ Day \in Nat \ {0}

Years == FirstYear .. LastYear

IsLeap(y) == y % 4 = 0 /\ (y % 100 # 0 \/ y % 400 = 0)

(* calendar.monthrange(y, m)[1]                                            *)
LastDay(y, m) ==
  IF m = 2 THEN IF IsLeap(y) THEN 29 ELSE 28
  ELSE IF m \in {4, 6, 9, 11} THEN 30 ELSE 31

NewYear(y) ==
  365 * (y - 1970) + (y - 1969) \div 4 - (y - 1901) \div 100 + (y - 1601) \div 400

DaysBefore == <<0, 31, 59, 90, 120, 151, 181, 212, 243, 273, 304, 334>>

(* datetime.date(y, m, d)                                                  *)
Date(y, m, d) ==
  NewYear(y) + DaysBefore[m] + (IF m > 2 /\ IsLeap(y) THEN 1 ELSE 0) + d - 1

YearOf(date) ==
  LET early == 1970 + date \div 366
  IN  CHOOSE y \in early .. early + 1 : NewYear(y) <= date /\ date < NewYear(y + 1)

MonthOf(date) == LET y == YearOf(date)
                 IN  CHOOSE m \in 1 .. 12 :
                       Date(y, m, 1) <= date /\ date <= Date(y, m, LastDay(y, m))

DayOfMonth(date) == date - Date(YearOf(date), MonthOf(date), 1) + 1

(* Monday is 0; 1970-01-01 was a Thursday.                                 *)
Weekday(date) == (date + 3) % 7

(* A moment and its two halves.                                            *)
DateOf(moment) == moment \div Day
TimeOf(moment) == moment % Day
Moment(date, time) == date * Day + time
===============================================================================
