------------------------------- MODULE DateRange -------------------------------
(***************************************************************************)
(* date_range and bdate_range.  A frequency given as text is stepped by    *)
(* CalendarStep (src/python/firepanda/_calendar_steps.py) or by a whole    *)
(* number of ticks, a frequency given as an offset by the offset itself    *)
(* (_range_points in offsets.py): two calendars, written apart, that have  *)
(* to agree.                                                               *)
(*                                                                         *)
(* A frequency name is a code and, after the dash, a month or a weekday,   *)
(* none (-1) when it is left out.  An end or a count of periods that is    *)
(* not given is None.                                                      *)
(***************************************************************************)
EXTENDS Offsets, SequencesExt

None == -1

MaxPoints == 100    \* bound: no range of a calendar step is longer

(* A point, the next one and so on, up to the first that is over; Over is  *)
(* told how many points go before the one it judges.                       *)
Walk(first, Step(_), Over(_, _)) ==
  LET walk[k \in 0 .. MaxPoints] ==
        IF k = 0 THEN IF Over(first, 0) THEN <<>> ELSE <<first>>
        ELSE LET points == walk[k - 1]
                 next == Step(points[k])
             IN  IF Len(points) < k \/ Over(next, k) THEN points ELSE Append(points, next)
      Full(k) == Len(walk[k]) = k
  IN  walk[CHOOSE k \in 0 .. MaxPoints : Full(k) /\ \A j \in 0 .. k - 1 : ~Full(j)]

-----------------------------------------------------------------------------
(* The step a name reads as: calendar_step and its table of months.        *)

MonthStep(stride, anchor, first, business) ==
  [stride |-> stride, anchor |-> anchor, first |-> first, business |-> business]

MonthSteps ==
  [ME  |-> MonthStep(1, 12, FALSE, FALSE),  MS  |-> MonthStep(1, 1, TRUE, FALSE),
   BME |-> MonthStep(1, 12, FALSE, TRUE),   BMS |-> MonthStep(1, 1, TRUE, TRUE),
   QE  |-> MonthStep(3, 12, FALSE, FALSE),  QS  |-> MonthStep(3, 1, TRUE, FALSE),
   BQE |-> MonthStep(3, 12, FALSE, TRUE),   BQS |-> MonthStep(3, 1, TRUE, TRUE),
   YE  |-> MonthStep(12, 12, FALSE, FALSE), YS  |-> MonthStep(12, 1, TRUE, FALSE),
   BYE |-> MonthStep(12, 12, FALSE, TRUE),  BYS |-> MonthStep(12, 1, TRUE, TRUE)]

Monthlies == DOMAIN MonthSteps
Anchored == Monthlies \ {"ME", "MS", "BME", "BMS"}

Name(code, suffix) == [code |-> code, suffix |-> suffix]

(* mask and off are the business days of a C step: plain working days      *)
(* unless bdate_range puts its own on the step.                            *)
CalendarStep(name, n, mask, off) ==
  LET month == IF name.code \in Monthlies THEN MonthSteps[name.code] ELSE MonthStep(1, 12, FALSE, FALSE)
  IN  [kind |-> IF name.code \in {"B", "C"} THEN "B" ELSE IF name.code = "W" THEN "W" ELSE "M",
       n |-> n,
       weekday |-> IF name.code = "W" /\ name.suffix # None THEN name.suffix ELSE 6,
       stride |-> month.stride, first |-> month.first, business |-> month.business,
       anchor |-> IF name.code \in Anchored /\ name.suffix # None THEN name.suffix ELSE month.anchor,
       mask |-> mask, off |-> off]

(* A month counted from year zero, and its landing date: its first or last *)
(* day, or the nearest one inside that is no weekend.                      *)
Inwards(day, step, business) ==
  LET Stops(k) == ~business \/ Weekday(day + step * k) < 5
  IN  day + step * CHOOSE k \in 0 .. 2 : Stops(k) /\ \A j \in 0 .. k - 1 : ~Stops(j)

PickIn(y, m, s) == IF s.first THEN Inwards(Date(y, m, 1), 1, s.business)
                   ELSE Inwards(Date(y, m, LastDay(y, m)), -1, s.business)

Pick(s, month) == PickIn(month \div 12, (month % 12) + 1, s)

Counts(s, month) == ((month % 12) + 1 - s.anchor) % s.stride = 0

MonthNumber(date) == YearOf(date) * 12 + MonthOf(date) - 1

OnStep(s, date) ==
  CASE s.kind = "B" -> Worked(s, date)
    [] s.kind = "W" -> Weekday(date) = s.weekday
    [] s.kind = "M" -> Counts(s, MonthNumber(date)) /\ Pick(s, MonthNumber(date)) = date

Roll(s, date, forward) ==
  LET gap == (s.weekday - Weekday(date)) % 7
      at == MonthNumber(date)
      near == IF forward THEN {m \in at .. at + 24 : Counts(s, m) /\ Pick(s, m) >= date}
              ELSE {m \in at - 24 .. at : Counts(s, m) /\ Pick(s, m) <= date}
  IN  CASE OnStep(s, date) -> date
        [] ~OnStep(s, date) /\ s.kind = "B" -> StepDays(s, date, IF forward THEN 1 ELSE -1)
        [] ~OnStep(s, date) /\ s.kind = "W" -> date + (IF forward THEN gap ELSE gap - 7)
        [] ~OnStep(s, date) /\ s.kind = "M" -> Pick(s, Edge(near, forward))

(* Slip: a quarter is stepped by one month.                                *)
StepByMonths(s, date, count) ==
  CASE s.kind = "B" -> StepDays(s, date, count)
    [] s.kind = "W" -> date + 7 * count
    [] s.kind = "M" -> Pick(s, MonthNumber(date) + count)

StepBy(s, date, count) ==
  CASE s.kind = "B" -> StepDays(s, date, count)
    [] s.kind = "W" -> date + 7 * count
    [] s.kind = "M" -> Pick(s, MonthNumber(date) + count * s.stride)

(* The points along a step: from the start, up to the end or so many of    *)
(* them, or so many back from the end.                                     *)
StepPoints(s, first, last, periods) ==
  LET begin == Roll(s, DateOf(first), s.n > 0)
      finish == Roll(s, DateOf(last), s.n < 0)
      Past(date) == LET point == Moment(date, TimeOf(first))
                    IN  IF s.n > 0 THEN point > last ELSE point < last
      dates == Walk(begin, LAMBDA date : StepBy(s, date, s.n), LAMBDA date, k : Past(date))
  IN  IF first # None /\ periods # None
      THEN [k \in 1 .. periods |-> Moment(StepBy(s, begin, s.n * (k - 1)), TimeOf(first))]
      ELSE IF first # None THEN [k \in DOMAIN dates |-> Moment(dates[k], TimeOf(first))]
      ELSE [k \in 1 .. periods |->
              Moment(StepBy(s, finish, -s.n * (periods - k)), TimeOf(last))]

-----------------------------------------------------------------------------
(* The offset a name reads as: _parsed and _built.                         *)

OffsetRule(name) ==
  LET month == MonthSteps[name.code]
  IN  CASE name.code \in Anchored ->
             Monthly(month.stride,
                     IF name.suffix # None THEN name.suffix ELSE IF month.first THEN 1 ELSE 12,
                     month.first, month.business)
        [] name.code \in Monthlies \ Anchored ->
             Monthly(1, 1, month.first, month.business)
        [] name.code = "W" -> Week(IF name.suffix = None THEN 6 ELSE name.suffix)
        [] name.code \in {"B", "C"} -> Business(Weekdays, {}, 0)
        [] name.code = "D" -> DayRule
        [] name.code = "tick" -> TickRule

(* The points of a range stepped by an offset: _range_points.              *)
Beyond(point, end, n) == IF n > 0 THEN point > end ELSE point < end

RangePoints(o, first, last, periods) ==
  LET end == RollBack(o, last)
      Steps(step, from, Over(_, _)) == Walk(from, LAMBDA point : Apply(step, point), Over)
      Counted(point, k) == periods # None /\ k >= periods
  IN  IF first = None THEN Reverse(Steps([o EXCEPT !.n = -o.n], end, Counted))
      ELSE Steps(o, RollForward(o, first),
                 LAMBDA point, k : Counted(point, k) \/ (last # None /\ Beyond(point, end, o.n)))

(* The points of a fixed step: _points.                                    *)
FixedPoints(step, first, last, periods) ==
  IF first # None /\ last # None
  THEN [k \in 1 .. (IF step > 0 THEN Max({0, (last - first) \div step + 1})
                    ELSE Max({0, (first - last) \div (-step) + 1})) |-> first + (k - 1) * step]
  ELSE IF first # None THEN [k \in 1 .. periods |-> first + (k - 1) * step]
  ELSE [k \in 1 .. periods |-> last - (periods - k) * step]

(* inclusive drops an end that is a point of the range.                    *)
Trimmed(points, first, last, inclusive) ==
  LET left == IF points # <<>> /\ inclusive \in {"neither", "right"} /\ Head(points) = first
              THEN Tail(points) ELSE points
  IN  IF left # <<>> /\ inclusive \in {"neither", "left"} /\ left[Len(left)] = last
      THEN SubSeq(left, 1, Len(left) - 1) ELSE left

FixedLength == [tick |-> 1, D |-> Day]

TextRange(name, n, first, last, periods, inclusive, mask, off) ==
  Trimmed(IF name.code \in DOMAIN FixedLength
          THEN FixedPoints(n * FixedLength[name.code], first, last, periods)
          ELSE StepPoints(CalendarStep(name, n, mask, off), first, last, periods),
          first, last, inclusive)

OffsetRange(o, first, last, periods, inclusive) ==
  IF o.rule = TickRule \/ o.rule = DayRule
  THEN Trimmed(FixedPoints(o.n * (IF o.rule = DayRule THEN Day ELSE 1), first, last, periods),
               first, last, inclusive)
  ELSE Trimmed(RangePoints(o, first, last, periods), first, last, inclusive)

-----------------------------------------------------------------------------
(* The frequency a run of labels keeps (src/python/firepanda/_frequency.py,*)
(* infer_freq): the rule the steps between the labels and the places they  *)
(* have in their months spell, as an offset, or NoFreq.  The labels are    *)
(* moments on no zone's clock, so the stored and the wall readings are the *)
(* same numbers, and a tick is the only unit below a day.                  *)
NoFreq == [rule |-> [kind |-> "none"], n |-> 0, normalize |-> FALSE]

Gaps(values) == {values[i + 1] - values[i] : i \in 1 .. Len(values) - 1}

Mapped(labels, Field(_)) == [i \in DOMAIN labels |-> Field(DateOf(labels[i]))]

(* Every label at the start or the end of its month, a weekend's width off *)
(* for the business places; the first of the four that all of them keep.   *)
MonthPosition(labels) ==
  LET dates == {DateOf(labels[i]) : i \in DOMAIN labels}
      MonthEnd(d) == LastDay(YearOf(d), MonthOf(d))
      ce == \A d \in dates : DayOfMonth(d) = MonthEnd(d)
      be == \A d \in dates : \/ DayOfMonth(d) = MonthEnd(d)
                             \/ (MonthEnd(d) - DayOfMonth(d) < 3 /\ Weekday(d) = 4)
      cs == \A d \in dates : DayOfMonth(d) = 1
      bs == \A d \in dates : DayOfMonth(d) = 1 \/ (DayOfMonth(d) <= 3 /\ Weekday(d) = 0)
  IN  IF ce THEN "ce" ELSE IF be THEN "be" ELSE IF cs THEN "cs"
      ELSE IF bs THEN "bs" ELSE "none"

ByMonths(every, anchor, position, n) ==
  Offset(Monthly(every, anchor, position \in {"cs", "bs"}, position \in {"be", "bs"}), n)

ByDays(labels, step) ==
  IF (step \div Day) % 7 = 0
  THEN Offset(Week(Weekday(DateOf(labels[1]))), step \div (7 * Day))
  ELSE Offset(DayRule, step \div Day)

(* Slip: one day on or three, whatever the weekday.                        *)
BusinessDailyByGaps(labels) == Gaps(labels) = {Day, 3 * Day}

(* From Monday to Friday, one day on or three over a weekend.              *)
BusinessDaily(labels) ==
  /\ Gaps(labels) = {Day, 3 * Day}
  /\ \A i \in 2 .. Len(labels) :
       LET on == Weekday(DateOf(labels[i]))
           days == (labels[i] - labels[i - 1]) \div Day
       IN  (on = 0 /\ days = 3) \/ (on \in 1 .. 4 /\ days = 1)

WeekOfMonthRule(labels) ==
  LET weekdays == {Weekday(DateOf(labels[i])) : i \in DOMAIN labels}
      weeks == {(DayOfMonth(DateOf(labels[i])) - 1) \div 7 : i \in DOMAIN labels} \ {4}
  IN  IF Cardinality(weekdays) = 1 /\ Cardinality(weeks) = 1
      THEN Offset(WeekOfMonth(Min(weeks), Min(weekdays)), 1) ELSE NoFreq

DailyAt(labels, position) ==
  LET years == Mapped(labels, YearOf)
      months == Mapped(labels, MonthOf)
      yearGaps == Gaps(years)
      monthGaps == Gaps(Mapped(labels, MonthNumber))
      step == Min(monthGaps)
      month == months[1]
  IN  IF Cardinality(yearGaps) = 1 /\ (\A i \in DOMAIN months : months[i] = month)
         /\ position # "none"
      THEN ByMonths(12, month, position, Min(yearGaps))
      ELSE IF Cardinality(monthGaps) = 1 /\ step % 3 = 0 /\ position # "none"
      THEN ByMonths(3, CASE month % 3 = 0 -> 12 [] month % 3 = 2 -> 11 [] OTHER -> 10,
                    position, step \div 3)
      ELSE IF Cardinality(monthGaps) = 1 /\ position # "none"
      THEN ByMonths(1, 1, position, step)
      ELSE IF Cardinality(Gaps(labels)) = 1 THEN ByDays(labels, Min(Gaps(labels)))
      ELSE IF BusinessDaily(labels) THEN Offset(Business(Weekdays, {}, 0), 1)
      ELSE WeekOfMonthRule(labels)

Daily(labels) == DailyAt(labels, MonthPosition(labels))

(* Hours of nine to five are known by their steps: one to the next hour,   *)
(* and a night or a weekend to the next opening.                           *)
OfficeSteps(hour) == {{hour, 17 * hour}, {hour, 65 * hour}, {hour, 17 * hour, 65 * hour}}

OfficeHours == BusinessHours(Weekdays, {}, <<<<(Day * 9) \div 24, (Day * 17) \div 24>>>>,
                             Day \div 24)

Inferred(labels, spans) ==
  LET gaps == Gaps(labels)
      oneWay == (\A g \in gaps : g > 0) \/ (\A g \in gaps : g < 0)
      daily == Min(gaps) % Day = 0
  IN  IF Len(labels) < 3 \/ ~oneWay THEN NoFreq
      ELSE IF daily /\ spans
      THEN IF Cardinality(gaps) = 1 THEN ByDays(labels, Min(gaps)) ELSE NoFreq
      ELSE IF daily THEN Daily(labels)
      ELSE IF Day % 24 = 0 /\ gaps \in OfficeSteps(Day \div 24) THEN Offset(OfficeHours, 1)
      ELSE IF Cardinality(gaps) = 1 THEN Offset(TickRule, Min(gaps)) ELSE NoFreq

-----------------------------------------------------------------------------
(* The range an index is held against when it is given a frequency: as     *)
(* many points as it has labels, from the first of them (_conforming).     *)
Conforms(labels, freq, spans) ==
  labels # <<>> =>
    \/ Inferred(labels, spans) = freq
    \/ OffsetRange(freq, labels[1], None, Len(labels), "both") = labels
===============================================================================
