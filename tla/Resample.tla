-------------------------------- MODULE Resample --------------------------------
(***************************************************************************)
(* Resampling rows labelled by moments (src/python/firepanda/_resample.py):*)
(* a rule cuts time into bins, every row gets a bin number, and what is    *)
(* asked of the bins is answered under their labels.  A rule is a fixed    *)
(* step of ticks, a step of whole days, or a calendar offset.              *)
(***************************************************************************)
EXTENDS DateRange, Reindexing

CONSTANTS Series,     \* the moments of the rows, in the rows' order
          Askings     \* the arguments of resample: rule, step, closed, label, origin, shift

VARIABLES times,      \* the rows
          arguments,  \* the arguments
          resampler,  \* the bins (NotBuilt before resample is called)
          answer      \* the last thing asked of the bins
resampleVars == <<times, arguments, resampler, answer>>

(* A rule of days and a calendar rule are counted on the clock, from       *)
(* midnight, and no origin or offset moves them.                           *)
IsCalendar(ask) == ask.rule.kind \notin {"tick", "day"}
IsDays(ask) == ask.rule.kind = "day"

EndsPeriod(ask) ==
  \/ ask.rule.kind = "week"
  \/ ask.rule.kind = "monthly" /\ ~ask.rule.first

(* Periods are closed and named on the right unless the caller says, and   *)
(* so are bins counted back from an end.                                   *)
ClosesRight(ask) ==
  IF ask.closed # "unsaid" THEN ask.closed = "right"
  ELSE (IsCalendar(ask) /\ EndsPeriod(ask)) \/ ask.origin \in {"end", "end_day"}

NamesRight(ask) ==
  IF ask.label # "unsaid" THEN ask.label = "right"
  ELSE (IsCalendar(ask) /\ EndsPeriod(ask)) \/ ask.origin \in {"end", "end_day"}

FirstRow(rows) == Min({rows[i] : i \in DOMAIN rows})
LastRow(rows) == Max({rows[i] : i \in DOMAIN rows})
Midnight(moment) == Moment(DateOf(moment), 0)

-----------------------------------------------------------------------------
(* The bins of a calendar rule: its landing dates around the rows.         *)

CalendarMarks(rows, ask) ==
  LET o == Offset(ask.rule, ask.n)
      first == Midnight(FirstRow(rows))
      from == IF ClosesRight(ask) THEN Apply([o EXCEPT !.n = -o.n], first)
              ELSE RollBack(o, first)
  IN  OffsetRange(o, from, Apply(o, Midnight(LastRow(rows))), None, "both")

(* Slip: a bin ends when its last day begins.                              *)
CalendarEdgesAtMidnight(marks, ask) == marks

(* A bin closed on its end day holds every moment of that day.             *)
CalendarEdges(marks, ask) ==
  IF EndsPeriod(ask) /\ ClosesRight(ask)
  THEN [i \in DOMAIN marks |-> marks[i] + Day - 1] ELSE marks

BinsBetween(rows, ask, marks) ==
  LET edges == CalendarEdges(marks, ask)
      right == ClosesRight(ask)
      spare == EndsPeriod(ask) /\ Len(edges) > 1 /\ edges[Len(edges) - 1] > LastRow(rows)
      kept == Len(marks) - IF spare THEN 1 ELSE 0
      Place(m) == Cardinality({i \in 1 .. kept : IF right THEN edges[i] < m ELSE edges[i] <= m})
      codes == [i \in DOMAIN rows |-> Place(rows[i]) - 1]
  IN  [codes |-> codes, marks |-> SubSeq(marks, 1, kept), origin |-> 0, step |-> 1,
       first |-> Min({codes[i] : i \in DOMAIN rows}), count |-> kept - 1]

CalendarBins(rows, ask) == BinsBetween(rows, ask, CalendarMarks(rows, ask))

-----------------------------------------------------------------------------
(* The bins of a fixed step.                                               *)

(* end and end_day count whole steps back from the last row or the         *)
(* midnight after it, one step more when bins close on the left.           *)
Anchor(rows, ask) ==
  LET first == FirstRow(rows)
      end == IF ask.origin = "end" THEN LastRow(rows) ELSE -((-LastRow(rows)) \div Day) * Day
  IN  CASE ask.origin = "epoch"     -> 0
        [] ask.origin = "start"     -> first
        [] ask.origin = "start_day" -> Midnight(first)
        [] ask.origin \in {"end", "end_day"} ->
             end - ((end - first) \div ask.step + IF ClosesRight(ask) THEN 0 ELSE 1) * ask.step

FixedBins(rows, ask) ==
  LET right == ClosesRight(ask)
      start == IF IsDays(ask) THEN Midnight(FirstRow(rows)) ELSE Anchor(rows, ask) + ask.shift
      codes == [i \in DOMAIN rows |->
                  IF right THEN -((start - rows[i]) \div ask.step) - 1
                  ELSE (rows[i] - start) \div ask.step]
      all == {codes[i] : i \in DOMAIN rows}
      first == IF IsDays(ask) THEN IF right THEN -1 ELSE 0 ELSE Min(all)
  IN  [codes |-> codes, marks |-> <<>>, origin |-> start, step |-> ask.step, first |-> first,
       count |-> IF IsDays(ask) THEN (Midnight(LastRow(rows)) - start) \div ask.step - first + 1
                 ELSE Max(all) - first + 1]

NoBins == [codes |-> <<>>, marks |-> <<>>, origin |-> 0, step |-> 1, first |-> 0, count |-> 0]
NotBuilt == [NoBins EXCEPT !.count = -1]
NoAnswer == [of |-> "nothing"]

Bins(rows, ask) ==
  IF rows = <<>> THEN NoBins
  ELSE IF IsCalendar(ask) THEN CalendarBins(rows, ask) ELSE FixedBins(rows, ask)

(* The moment that labels a bin; extra is 1 for its right edge.            *)
Stamp(b, code, extra) ==
  IF b.marks # <<>> THEN b.marks[code - b.first + extra + 1]
  ELSE b.origin + (code + extra) * b.step

Edges(b, extra) == [i \in 1 .. b.count |-> Stamp(b, b.first + i - 1, extra)]

Labels(b, ask) == Edges(b, IF NamesRight(ask) THEN 1 ELSE 0)

RowsOf(b, code) == {i \in DOMAIN b.codes : b.codes[i] = code}

-----------------------------------------------------------------------------
(* What is asked of the bins.                                              *)

Resampled ==
  /\ resampler = NotBuilt
  /\ resampler' = Bins(times, arguments)
  /\ UNCHANGED <<times, arguments, answer>>

(* The group by answers the bins that have rows; when there are fewer of   *)
(* them than bins they are put on every bin, and the labels are laid on    *)
(* them one by one.                                                        *)
Reduce ==
  /\ resampler # NotBuilt
  /\ LET b == resampler
         found == {b.codes[i] : i \in DOMAIN b.codes}
         listed == IF Cardinality(found) < b.count THEN [i \in 1 .. b.count |-> b.first + i - 1]
                   ELSE SetToSortSeq(found, <)
     IN  answer' = [of |-> "reduce", labels |-> Labels(b, arguments),
                    values |-> [i \in DOMAIN listed |-> RowsOf(b, listed[i])]]
  /\ UNCHANGED <<times, arguments, resampler>>

(* The rows put back on the edges of the bins: the right ones for bins     *)
(* closed on the right, whichever side names them.                         *)
Upsample ==
  /\ resampler # NotBuilt
  /\ \E method \in Methods, limit \in {Unlimited, 1} :
       /\ method = "exact" => limit = Unlimited
       /\ LET edges == Edges(resampler, IF ClosesRight(arguments) THEN 1 ELSE 0)
          IN  answer' = [of |-> method, labels |-> edges, limit |-> limit,
                         values |-> Positions(times, edges, method, limit, Unlimited)]
  /\ UNCHANGED <<times, arguments, resampler>>

(* Every row gets what its bin answers.                                    *)
Transform ==
  /\ resampler # NotBuilt
  /\ answer' = [of |-> "transform", labels |-> times,
                values |-> [i \in DOMAIN times |-> RowsOf(resampler, resampler.codes[i])]]
  /\ UNCHANGED <<times, arguments, resampler>>

ResampleInit == times \in Series /\ arguments \in Askings /\ resampler = NotBuilt /\ answer = NoAnswer

ResampleNext == Resampled \/ Reduce \/ Upsample \/ Transform

ResampleSpec == ResampleInit /\ [][ResampleNext]_resampleVars
-----------------------------------------------------------------------------
(* The stretch of time the bin of one number stands for, as its two labels *)
(* tell a reader: a right edge that ends a period is the whole of its day. *)
Within(b, code, moment) ==
  LET whole == IF IsCalendar(arguments) /\ EndsPeriod(arguments) /\ ClosesRight(arguments) THEN Day - 1 ELSE 0
      low == Stamp(b, code, 0) + whole
      high == Stamp(b, code, 1) + whole
  IN  IF ClosesRight(arguments) THEN low < moment /\ moment <= high ELSE low <= moment /\ moment < high

(* The rows under each label of a reduction are the rows whose moments lie *)
(* in the bin of that label, and no row is under no label.                 *)
RowsAreInTheirBins ==
  answer.of = "reduce" =>
    /\ Len(answer.values) = Len(answer.labels)
    /\ UNION {answer.values[k] : k \in DOMAIN answer.values} = DOMAIN times
    /\ \A k \in DOMAIN answer.values : \A i \in answer.values[k] :
         Within(resampler, resampler.first + k - 1, times[i])
===============================================================================
