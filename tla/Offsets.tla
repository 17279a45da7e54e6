-------------------------------- MODULE Offsets --------------------------------
(***************************************************************************)
(* The offsets of src/python/firepanda/offsets.py: the dates each kind of  *)
(* offset lands on, how an offset moves a moment by any count of steps and *)
(* rolls it onto itself, business hours, and the points of a range.        *)
(*                                                                         *)
(* A rule is a record whose kind names the class and whose other fields    *)
(* are the class's own arguments.  An offset is a rule, a count and the    *)
(* normalize flag.                                                         *)
(***************************************************************************)
EXTENDS Calendar

CONSTANT Rules    \* the rules whose landing dates are looked up

Offset(rule, n) == [rule |-> rule, n |-> n, normalize |-> FALSE]

(* Rules, one constructor for each class.                                  *)
Monthly(every, anchor, first, business) ==
  [kind |-> "monthly", every |-> every, anchor |-> anchor,
   first |-> first, business |-> business, shift |-> 0]
SemiMonth(begin, day) ==
  [kind |-> "semimonth", begin |-> begin, day |-> day, shift |-> 0]
Week(weekday) == [kind |-> "week", weekday |-> weekday, shift |-> 0]
WeekOfMonth(week, weekday) ==
  [kind |-> "weekofmonth", week |-> week, weekday |-> weekday, shift |-> 0]
LastWeekOfMonth(weekday) ==
  [kind |-> "lastweek", weekday |-> weekday, shift |-> 0]
FiscalYear(weekday, month, nearest) ==
  [kind |-> "fiscal", weekday |-> weekday, month |-> month,
   nearest |-> nearest, shift |-> 0]
FiscalQuarter(weekday, month, nearest, extra) ==
  [kind |-> "fiscalquarter", weekday |-> weekday, month |-> month,
   nearest |-> nearest, extra |-> extra, shift |-> 0]
EasterRule(method) == [kind |-> "easter", method |-> method, shift |-> 0]
Business(mask, off, shift) ==
  [kind |-> "business", mask |-> mask, off |-> off, shift |-> shift]
BusinessMonthly(mask, off, first, shift) ==
  [kind |-> "businessmonthly", mask |-> mask, off |-> off,
   first |-> first, shift |-> shift]
BusinessHours(mask, off, spans, hour) ==
  [kind |-> "hours", mask |-> mask, off |-> off, spans |-> spans,
   hour |-> hour, shift |-> 0]
PlainWeek == [kind |-> "plainweek"]
TickRule == [kind |-> "tick"]
DayRule == [kind |-> "day"]

Weekdays == 0 .. 4

-----------------------------------------------------------------------------
(* The landing dates of one year, class by class.                          *)

Edge(days, first) == IF first THEN Min(days) ELSE Max(days)

DaysOf(y, m) == Date(y, m, 1) .. Date(y, m, LastDay(y, m))

MonthlyDates(r, y) ==
  {Edge({d \in DaysOf(y, m) : r.business => Weekday(d) < 5}, r.first) :
     m \in {m \in 1 .. 12 : (m - r.anchor) % r.every = 0}}

SemiMonthDates(r, y) ==
  UNION {{Date(y, m, r.day), Edge(DaysOf(y, m), r.begin)} : m \in 1 .. 12}

WeekDates(r, y) ==
  {d \in NewYear(y) .. NewYear(y + 1) - 1 : Weekday(d) = r.weekday}

WeekOfMonthDates(r, y) ==
  {Date(y, m, 1) + ((r.weekday - Weekday(Date(y, m, 1))) % 7) + 7 * r.week : m \in 1 .. 12}

LastWeekDates(r, y) ==
  {LET last == Date(y, m, LastDay(y, m))
   IN  last - ((Weekday(last) - r.weekday) % 7) : m \in 1 .. 12}

FiscalEnd(r, y) ==
  LET last == Date(y, r.month, LastDay(y, r.month))
      back == (Weekday(last) - r.weekday) % 7
  IN  last - back + IF r.nearest /\ back > 3 THEN 7 ELSE 0

(* Four quarters of thirteen weeks, one of fourteen in a year of 53.       *)
FiscalQuarterDates(r, y) ==
  LET from == FiscalEnd(r, y - 1)
      long == FiscalEnd(r, y) - from = 371
  IN  {from + 7 * (13 * q + IF long /\ q >= r.extra THEN 1 ELSE 0) : q \in 1 .. 4}

DaysIntoMarch(y, p) ==
  Date(y, 3 + (p + 26) \div 30, 1 + ((p + 27 + (p + 6) \div 40) % 31))

Easter(y, method) ==
  LET g == y % 19
      c == y \div 100
      h == (c - c \div 4 - (8 * c + 13) \div 25 + 19 * g + 15) % 30
      i == IF method < 3 THEN (19 * g + 15) % 30
           ELSE h - (h \div 28) * (1 - (h \div 28) * (29 \div (h + 1)) * ((21 - g) \div 11))
      j == IF method < 3 THEN (y + y \div 4 + i) % 7
           ELSE (y + y \div 4 + i + 2 - c + c \div 4) % 7
      e == IF method = 2 THEN 10 + (IF y > 1600 THEN c - 16 - (c - 16) \div 4 ELSE 0)
           ELSE 0
  IN  DaysIntoMarch(y, i - j + e)

Worked(r, date) == Weekday(date) \in r.mask /\ date \notin r.off

BusinessDates(r, y) == {d \in NewYear(y) .. NewYear(y + 1) - 1 : Worked(r, d)}

(* A month with no working day in it has no landing date.                  *)
BusinessMonthlyDates(r, y) ==
  {Edge(days, r.first) :
     days \in {{d \in DaysOf(y, m) : Worked(r, d)} : m \in 1 .. 12} \ {{}}}

Dates(r, y) ==
  CASE r.kind = "monthly"         -> MonthlyDates(r, y)
    [] r.kind = "semimonth"       -> SemiMonthDates(r, y)
    [] r.kind = "week"            -> WeekDates(r, y)
    [] r.kind = "weekofmonth"     -> WeekOfMonthDates(r, y)
    [] r.kind = "lastweek"        -> LastWeekDates(r, y)
    [] r.kind = "fiscal"          -> {FiscalEnd(r, y)}
    [] r.kind = "fiscalquarter"   -> FiscalQuarterDates(r, y)
    [] r.kind = "easter"          -> {Easter(y, r.method)}
    [] r.kind = "business"        -> BusinessDates(r, y)
    [] r.kind = "businessmonthly" -> BusinessMonthlyDates(r, y)

(* A date a year's rule gives may fall in the year before or after it.     *)
InYear(r, y) ==
  {d \in UNION {Dates(r, z) : z \in y - 1 .. y + 1} : YearOf(d) = y}

Landing == {"monthly", "semimonth", "week", "weekofmonth", "lastweek", "fiscal",
            "fiscalquarter", "easter", "business", "businessmonthly"}

Landings == [r \in {r \in Rules : r.kind \in Landing} |->
               UNION {InYear(r, y) : y \in Years}]

-----------------------------------------------------------------------------
(* Moving a moment.                                                        *)

Reach == 500    \* days: no two landing dates are farther apart

Nearest(landings, date, way) ==
  date + way * (CHOOSE k \in 1 .. Reach :
                  /\ date + way * k \in landings
                  /\ \A j \in 1 .. k - 1 : date + way * j \notin landings)

After(landings, date) == Nearest(landings, date, 1)
Before(landings, date) == Nearest(landings, date, -1)
Landed(landings, date) == date \in landings

Times(n, Step(_), from) ==
  LET walk[k \in 0 .. n] == IF k = 0 THEN from ELSE Step(walk[k - 1]) IN walk[n]

MoveDate(landings, n, date) ==
  CASE n > 0 -> Times(n, LAMBDA d : After(landings, d), date)
    [] n < 0 -> Times(-n, LAMBDA d : Before(landings, d), date)
    [] n = 0 -> IF Landed(landings, date) THEN date ELSE After(landings, date)

MoveEaster(r, n, moment) ==
  LET y == YearOf(DateOf(moment))
      this == Moment(Easter(y, r.method), 0)
      k == IF n >= 0 /\ moment < this THEN n - 1
           ELSE IF n < 0 /\ moment > this THEN n + 1 ELSE n
  IN  Moment(Easter(y + k, r.method), TimeOf(moment))

(* Working days.                                                           *)
StepDays(r, date, n) ==
  Times(IF n < 0 THEN -n ELSE n,
        LAMBDA d : IF n > 0 THEN Min({e \in d + 1 .. d + 14 : Worked(r, e)})
                   ELSE Max({e \in d - 14 .. d - 1 : Worked(r, e)}),
        date)

(* Business hours: the working time of the spans before a place in a day,  *)
(* and the moment of a working day that has so much of it behind it.       *)
Width(r, i) == r.spans[i][2] - r.spans[i][1]
Done(r, i) ==
  LET sum[k \in 0 .. Len(r.spans)] == IF k = 0 THEN 0 ELSE sum[k - 1] + Width(r, k)
  IN  sum[i - 1]
Length(r) == Done(r, Len(r.spans) + 1)

Spans(r) == DOMAIN r.spans

(* Slip: before the first opening less than nothing is done.               *)
PositionBeforeOpening(r, moment, forward) ==
  LET date == DateOf(moment)
      time == TimeOf(moment)
      ahead == {i \in Spans(r) : time < r.spans[i][2]}
      behind == {i \in Spans(r) : time > r.spans[i][1]}
  IN  IF Worked(r, date) /\ forward /\ ahead # {}
      THEN <<date, Done(r, Min(ahead)) + time - r.spans[Min(ahead)][1]>>
      ELSE IF Worked(r, date) /\ ~forward /\ behind # {}
      THEN LET i == Max(behind)
           IN  <<date, Done(r, i) + Min({time, r.spans[i][2]}) - r.spans[i][1]>>
      ELSE IF forward THEN <<StepDays(r, date, 1), 0>>
      ELSE <<StepDays(r, date, -1), Length(r)>>

(* Going forward a closing is outside the hours, going back an opening is. *)
Position(r, moment, forward) ==
  LET date == DateOf(moment)
      time == TimeOf(moment)
      ahead == {i \in Spans(r) : time < r.spans[i][2]}
      behind == {i \in Spans(r) : time > r.spans[i][1]}
  IN  IF Worked(r, date) /\ forward /\ ahead # {}
      THEN LET i == Min(ahead)
           IN  <<date, Done(r, i) + Max({time - r.spans[i][1], 0})>>
      ELSE IF Worked(r, date) /\ ~forward /\ behind # {}
      THEN LET i == Max(behind)
           IN  <<date, Done(r, i) + Min({time, r.spans[i][2]}) - r.spans[i][1]>>
      ELSE IF forward THEN <<StepDays(r, date, 1), 0>>
      ELSE <<StepDays(r, date, -1), Length(r)>>

Wall(r, date, done, forward) ==
  LET i == Min({i \in Spans(r) : \/ done - Done(r, i) < Width(r, i)
                                 \/ ~forward /\ done - Done(r, i) = Width(r, i)})
  IN  Moment(date, r.spans[i][1] + done - Done(r, i))

\* So much working time into a day and the days before or after it.
HoursFrom(r, date, total, forward) ==
  LET days == IF forward THEN total \div Length(r)
              ELSE -((-total) \div Length(r)) - 1
  IN  Wall(r, StepDays(r, date, days), total - days * Length(r), forward)

MoveHours(r, n, moment) ==
  LET at == Position(r, moment, n >= 0)
  IN  HoursFrom(r, at[1], at[2] + n * r.hour, n >= 0) + r.shift

Move(r, n, moment) ==
  CASE r.kind = "tick"      -> moment + n
    [] r.kind = "day"       -> moment + n * Day
    [] r.kind = "plainweek" -> moment + 7 * n * Day
    [] r.kind = "easter"    -> MoveEaster(r, n, moment)
    [] r.kind = "hours"     -> MoveHours(r, n, moment)
    [] OTHER -> Moment(MoveDate(Landings[r], n, DateOf(moment)), TimeOf(moment)) + r.shift

Normalized(moment, normalize) ==
  IF normalize THEN Moment(DateOf(moment), 0) ELSE moment

Apply(o, moment) == Normalized(Move(o.rule, o.n, moment), o.normalize)

On(r, moment) ==
  CASE r.kind \in {"tick", "day", "plainweek"} -> TRUE
    [] r.kind = "hours" ->
         /\ Worked(r, DateOf(moment))
         /\ \E i \in Spans(r) : r.spans[i][1] <= TimeOf(moment) /\ TimeOf(moment) <= r.spans[i][2]
    [] OTHER -> Landed(Landings[r], DateOf(moment))

IsOnOffset(o, moment) == (o.normalize => TimeOf(moment) = 0) /\ On(o.rule, moment)

(* Business hours roll to the next opening or the last closing, and every  *)
(* other offset by one of its own steps.                                   *)
Opening(r, moment, forward) ==
  LET at == Position(r, moment, forward) IN Wall(r, at[1], at[2], forward)

RollForward(o, moment) ==
  IF IsOnOffset(o, moment) THEN moment
  ELSE IF o.rule.kind = "hours" THEN Opening(o.rule, moment, TRUE)
  ELSE Apply([o EXCEPT !.n = 1], moment)

RollBack(o, moment) ==
  IF IsOnOffset(o, moment) THEN moment
  ELSE IF o.rule.kind = "hours" THEN Opening(o.rule, moment, FALSE)
  ELSE Apply([o EXCEPT !.n = -1], moment)
===============================================================================
