-------------------------------- MODULE Periods --------------------------------
(***************************************************************************)
(* Spans of time named by a frequency and their place among such spans     *)
(* (src/python/firepanda/_period.py), and rows labelled by them gathered   *)
(* into longer ones or spread over shorter ones (_period_resample.py).     *)
(*                                                                         *)
(* A frequency is a kind, the month or weekday a year, quarter or week     *)
(* ends on, and a count.  The kinds below a day are one kind here, "h", of *)
(* one tick.                                                               *)
(***************************************************************************)
EXTENDS Calendar

CONSTANTS Frequencies,   \* the frequencies of the rows
          Targets,       \* the frequencies they are moved to
          Moments        \* the moments the periods of the rows hold

VARIABLES period,        \* a row's period: freq and ordinal
          moved          \* what it was moved to and how
periodVars == <<period, moved>>

Freq(kind, anchor, n) == [kind |-> kind, anchor |-> anchor, n |-> n]

(* A week ends on a weekday, a year or a quarter on a month, and a count   *)
(* is positive.                                                            *)
FreqKinds == {"Y", "Q", "M", "W", "B", "D", "h"}
IsFreq(freq) ==
  /\ freq.kind \in FreqKinds
  /\ freq.anchor \in IF freq.kind = "W" THEN 0 .. 6 ELSE 1 .. 12
  /\ freq.n \in Nat \ {0}

ASSUME FrequenciesAssumption == \A freq \in Frequencies \cup Targets : IsFreq(freq)

(* Years are left on each side for the spans a moment is in.               *)
ASSUME MomentsAssumption ==
  \A freq \in Frequencies, moment \in Moments :
    /\ moment \in Int
    /\ DateOf(moment) \in NewYear(FirstYear + 1) .. NewYear(LastYear - freq.n) - 1

Long == {"Y", "Q", "M", "W"}     \* kinds whose fields are those of their last day
UnitLength == [D |-> Day, h |-> 1]

(* The ordinal of the period that holds a moment.  A weekend has no        *)
(* business day: it goes on to the next one, or back.                      *)
Ordinal(freq, moment, back) ==
  LET date == DateOf(moment)
      year == YearOf(date)
      month == MonthOf(date)
      fiscal == year + IF month > freq.anchor THEN 1 ELSE 0
      weekday == Weekday(date)
      worked == IF weekday <= 4 THEN date
                ELSE IF back THEN date + 4 - weekday ELSE date + 7 - weekday
  IN  CASE freq.kind = "Y" -> fiscal - 1970
        [] freq.kind = "Q" -> (fiscal - 1970) * 4 + ((month - freq.anchor - 1) % 12) \div 3
        [] freq.kind = "M" -> (year - 1970) * 12 + month - 1
        [] freq.kind = "W" -> (date + ((freq.anchor - weekday) % 7) - 3) \div 7 + 1
        [] freq.kind = "B" -> ((worked + 4) \div 7) * 5 + ((worked + 4) % 7) - 4
        [] OTHER           -> moment \div UnitLength[freq.kind]

(* The first day of a period of a week or longer.                          *)
FirstDay(freq, ordinal) ==
  LET guess == 7 * (ordinal - 1) + 3
      month == CASE freq.kind = "Y" -> (ordinal + 1970) * 12 + freq.anchor - 12
                 [] freq.kind = "Q" -> (ordinal \div 4 + 1970) * 12 + freq.anchor - 1
                                       - 3 * (3 - (ordinal % 4)) - 2
                 [] OTHER           -> ordinal + 1970 * 12
  IN  IF freq.kind = "W" THEN guess + ((freq.anchor - Weekday(guess)) % 7) - 6
      ELSE Date(month \div 12, (month % 12) + 1, 1)

(* The first moment of a period and the one just past it.                  *)
Bounds(freq, ordinal) ==
  LET worked == ((ordinal + 3) \div 5) * 7 + ((ordinal + 3) % 5) - 3
  IN  CASE freq.kind = "B" -> <<worked * Day, (worked + 1) * Day>>
        [] freq.kind \in DOMAIN UnitLength ->
             <<ordinal * UnitLength[freq.kind], (ordinal + 1) * UnitLength[freq.kind]>>
        [] OTHER -> <<FirstDay(freq, ordinal) * Day, FirstDay(freq, ordinal + 1) * Day>>

(* The moments a period of any count spans.                                *)
Starts(p) == Bounds(p.freq, p.ordinal)[1]
Stops(p) == Bounds(p.freq, p.ordinal + p.freq.n - 1)[2]

(* Slip: the end of a period is the start of the next.                     *)
AsFreqPastEnd(p, freq, end) ==
  [freq |-> freq,
   ordinal |-> Ordinal(freq, IF end THEN Stops(p) ELSE Starts(p),
                       IF p.freq.kind \in Long THEN end ELSE ~end)]

AsFreq(p, freq, end) ==
  LET instant == IF end THEN Stops(p) - 1 ELSE Starts(p)
      back == IF p.freq.kind \in Long THEN end ELSE ~end
  IN  [freq |-> freq, ordinal |-> Ordinal(freq, instant, back)]

(* The fiscal year and quarter a period reads, and the month a fiscal      *)
(* quarter starts in, for a year that ends in ruleMonth.                   *)
FieldsMoment(p) ==
  IF p.freq.kind \in Long
  THEN Moment(DateOf(Bounds(p.freq, p.ordinal)[2] - 1), 0) ELSE Bounds(p.freq, p.ordinal)[1]

QuarterOf(p) ==
  IF p.freq.kind = "Q" THEN <<p.ordinal \div 4 + 1970, (p.ordinal % 4) + 1>>
  ELSE LET date == DateOf(FieldsMoment(p))
       IN  <<YearOf(date), (MonthOf(date) - 1) \div 3 + 1>>

Quartered(year, quarter, ruleMonth) ==
  LET month == ((ruleMonth + (quarter - 1) * 3) % 12) + 1
  IN  <<IF month > ruleMonth THEN year - 1 ELSE year, month>>

FromQuarter(freq, year, quarter) ==
  LET at == Quartered(year, quarter, IF freq.kind \in {"Y", "Q"} THEN freq.anchor ELSE 12)
  IN  [freq |-> freq, ordinal |-> Ordinal(freq, Moment(Date(at[1], at[2], 1), 0), FALSE)]

-----------------------------------------------------------------------------
(* Whether rows of one frequency are gathered into another, or spread.     *)

DayKinds == {"D", "C", "B", "h"}
Finer(kind) == IF kind \in {"B", "C", "D"} THEN {kind, "h"} ELSE IF kind = "h" THEN {"h"} ELSE {}
Conform(source, target) == source.anchor % 3 = target.anchor % 3

SubPeriod(source, target) ==
  CASE target.kind = "Y" ->
         IF source.kind = "Q" THEN Conform(source, target) ELSE source.kind \in DayKinds \cup {"M"}
    [] target.kind = "Q" -> source.kind \in DayKinds \cup {"M"}
    [] target.kind = "M" -> source.kind \in DayKinds
    [] target.kind = "W" ->
         source.kind \in DayKinds \/ (source.kind = "W" /\ source.anchor = target.anchor)
    [] OTHER -> source.kind \in Finer(target.kind)

SuperPeriod(source, target) ==
  CASE source.kind = "Y" ->
         CASE target.kind = "Y" -> source.anchor = target.anchor
           [] target.kind = "Q" -> Conform(source, target)
           [] OTHER -> target.kind \in DayKinds \cup {"M"}
    [] source.kind \in {"Q", "M"} ->
         target.kind \in DayKinds \cup (IF source.kind = "Q" THEN {"M"} ELSE {})
    [] source.kind = "W" ->
         target.kind \in DayKinds \/ (target.kind = "W" /\ source.anchor = target.anchor)
    [] source.kind \in {"B", "C", "D"} -> target.kind \in DayKinds
    [] OTHER -> target.kind \in Finer(source.kind)

SameName(a, b) == a.kind = b.kind /\ a.anchor = b.anchor

(* Rows are gathered on bins of so many ordinals, laid from the lowest.    *)
BinLabel(p, lowest) ==
  [p EXCEPT !.ordinal = lowest + ((p.ordinal - lowest) \div p.freq.n) * p.freq.n]

-----------------------------------------------------------------------------
NotMoved == [how |-> "unmoved"]

(* Period.asfreq on its own.                                               *)
Convert ==
  \E freq \in Targets, end \in BOOLEAN :
    moved' = [how |-> IF end THEN "end" ELSE "start", to |-> AsFreq(period, freq, end)]

(* The bin of the row in a resample whose first row's period is earlier by *)
(* some periods.                                                           *)
Gather ==
  \E freq \in Targets, end \in BOOLEAN, earlier \in 0 .. 2 :
    /\ ~SameName(period.freq, freq) /\ SubPeriod(period.freq, freq)
    /\ LET to == AsFreq(period, freq, end)
       IN  moved' = [how |-> "gathered", to |-> BinLabel(to, to.ordinal - earlier)]

(* The periods a row is spread over: from its own, at the start or the end *)
(* as the convention says, to the one that holds its end.                  *)
Spread ==
  \E freq \in Targets, end \in BOOLEAN :
    /\ SameName(period.freq, freq) \/ ~SubPeriod(period.freq, freq)
    /\ SameName(period.freq, freq) \/ SuperPeriod(period.freq, freq)
    /\ moved' = [how |-> "spread", to |-> AsFreq(period, freq, end),
                 last |-> AsFreq(period, freq, TRUE)]

(* A whole number moves a period by so many of its own spans.              *)
StepPeriod ==
  \E count \in {-2, -1, 1, 3} :
    moved' = [how |-> "stepped", count |-> count,
              to |-> [period EXCEPT !.ordinal = period.ordinal + count * period.freq.n]]

PeriodInit ==
  /\ \E freq \in Frequencies, moment \in Moments :
       period = [freq |-> freq, ordinal |-> Ordinal(freq, moment, FALSE)]
  /\ moved = NotMoved

PeriodNext ==
  /\ moved = NotMoved
  /\ UNCHANGED period
  /\ Convert \/ Gather \/ Spread \/ StepPeriod

PeriodSpec == PeriodInit /\ [][PeriodNext]_periodVars
-----------------------------------------------------------------------------
Weekend(moment) == Weekday(DateOf(moment)) > 4

(* A weekend has no business day and rows of several spans no single bin,  *)
(* so these are set aside.                                                 *)
NoSingleBin(to) ==
  \/ to.freq.kind = "B" /\ (Weekend(Starts(period)) \/ Weekend(Stops(period) - 1))
  \/ moved.how = "gathered" /\ period.freq.n > 1
  \/ moved.how = "spread" /\ to.freq.n > 1

BoundsReadBack ==
  LET one == Bounds(period.freq, period.ordinal)
  IN  /\ Ordinal(period.freq, one[1], FALSE) = period.ordinal
      /\ Ordinal(period.freq, one[2] - 1, FALSE) = period.ordinal
      /\ Ordinal(period.freq, one[1] - 1, TRUE) = period.ordinal - 1
      /\ Ordinal(period.freq, one[2], FALSE) = period.ordinal + 1
      /\ period.freq.kind = "Q" =>
           FromQuarter(period.freq, QuarterOf(period)[1], QuarterOf(period)[2]) = period

(* Periods nest: both ends of a period read back as its ordinal, the       *)
(* moments just outside as its neighbours', and a quarter read off it      *)
(* names it again; a row gathered into a longer period lies inside the bin *)
(* it is put in, a row spread over shorter ones is spread inside itself,   *)
(* and the next period starts where one stops.                             *)
PeriodsNest ==
  /\ BoundsReadBack
  /\ moved.how = "gathered" /\ ~NoSingleBin(moved.to) =>
       Starts(moved.to) <= Starts(period) /\ Stops(period) <= Stops(moved.to)
  /\ moved.how = "spread" /\ ~NoSingleBin(moved.to) =>
       /\ Starts(period) <= Starts(moved.to) /\ Stops(moved.last) <= Stops(period)
       /\ moved.to.ordinal <= moved.last.ordinal
  /\ moved.how = "stepped" /\ moved.count = 1 /\ period.freq.kind # "B" =>
       Starts(moved.to) = Stops(period)
===============================================================================
