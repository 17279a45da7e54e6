--------------------------------- MODULE MCTime ---------------------------------
(***************************************************************************)
(* The modules of dates and frequencies on small instances, one of them in *)
(* each behaviour: the one that part names takes its steps and the others  *)
(* rest.                                                                   *)
(***************************************************************************)
EXTENDS HeldFreq, Resample, Ranges, Periods

VARIABLE part
vars == <<part, heldVars, resampleVars, rangeVars, periodVars>>

MonthlyRules ==
  {Monthly(1, 1, f, b) : f, b \in BOOLEAN} \cup
  {Monthly(3, a, f, b) : a \in {1, 10, 11, 12}, f, b \in BOOLEAN} \cup
  {Monthly(12, a, f, b) : a \in 1 .. 12, f, b \in BOOLEAN}

FourDays == {0, 1, 2, 3, 6}     \* a week mask: no Friday, no Saturday
MarchFourth == {Date(2024, 3, 4)}

Fiscals ==
  {FiscalYear(5, m, nearest) : m \in {1, 12}, nearest \in BOOLEAN} \cup
  {FiscalQuarter(5, m, TRUE, 4) : m \in {1, 12}}
OnlyOffsets ==
  Fiscals \cup {SemiMonth(b, 15) : b \in BOOLEAN} \cup
  {LastWeekOfMonth(4), WeekOfMonth(1, 2), EasterRule(3), BusinessMonthly(FourDays, MarchFourth, TRUE, 0)}

MCRules ==
  MonthlyRules \cup OnlyOffsets
  \cup {Week(d) : d \in 0 .. 6} \cup {WeekOfMonth(w, d) : w \in 0 .. 3, d \in 0 .. 6}
  \cup {Business(Weekdays, {}, 0), Business(FourDays, MarchFourth, 0)}

-----------------------------------------------------------------------------
(* Indexes that hold a frequency.                                          *)

HeldNames == {Name("B", None), Name("ME", None), Name("W", 2), Name("D", None), Name("tick", None)}

Wednesday == Moment(Date(2024, 3, 6), 0)

Indexed(name, n, start, periods) ==
  Index(TextRange(name, n, start, None, periods, "both", Weekdays, {}),
        Offset(OffsetRule(name), n))

MCMade ==
  {Indexed(name, 1, Wednesday, k) : name \in HeldNames, k \in {0, 3}} \cup
  {Indexed(Name("B", None), n, Wednesday + Day, 3) : n \in {1, 2}} \cup
  {Indexed(Name("tick", None), 2, Wednesday, 2),
   Indexed(Name("ME", None), -1, Wednesday + 60 * Day, 3),
   Spanning(<<0, 2 * Day, 4 * Day>>, Offset(DayRule, 2)), Spanning(<<5, 4, 3>>, Offset(TickRule, -1))}

(* A label an insert offers is on the offset the index holds.              *)
March == {Moment(d, 0) : d \in Date(2024, 3, 1) .. Date(2024, 3, 31)}

MCOffered(freq, spans) ==
  IF spans THEN {-Day, 2, 6 * Day}
  ELSE IF ~Holds(freq) \/ Fixed(freq) THEN {Moment(Date(2024, 3, d), 0) : d \in {5, 7}}
  ELSE {m \in March : IsOnOffset(freq, m)}

MCLengths == {-Day, 1}
MCHorizon == Moment(Date(2024, 2, 28), 0) .. Moment(Date(2024, 5, 31), 5)

-----------------------------------------------------------------------------
(* Series to resample and the arguments of resample.                       *)

NewYearsDay == Moment(Date(2024, 1, 1), 0)
MonthsEnd == 31 * Day - 1

MCSeries ==
  {<<>>, <<NewYearsDay + 3>>, <<NewYearsDay + 9, NewYearsDay>>} \cup
  {<<NewYearsDay + a, NewYearsDay + a + b, NewYearsDay + a + b + c>> :
     a \in {0, MonthsEnd}, b \in {0, Day - 1}, c \in {0, 1, 33 * Day}}

Asking(r, n, step, closed, label, origin, shift) ==
  [rule |-> r, n |-> n, step |-> step, closed |-> closed, label |-> label,
   origin |-> origin, shift |-> shift]

Said == {"unsaid", "left", "right"}

MCAskings ==
  {Asking(OffsetRule(name), n, 0, closed, label, "start_day", 0) :
     name \in {Name("ME", None), Name("MS", None), Name("W", None), Name("B", None), Name("QE", None)},
     n \in {1, 2}, closed \in {"unsaid", "left"}, label \in {"unsaid", "left"}} \cup
  {Asking(TickRule, 1, step, closed, label, origin, shift) :
     step \in {18, 36}, closed \in Said, label \in {"unsaid", "right"},
     origin \in {"epoch", "start", "start_day", "end", "end_day"}, shift \in {0, -2}} \cup
  {Asking(DayRule, 1, step, closed, label, "start_day", 0) :
     step \in {Day, 2 * Day}, closed \in Said, label \in Said}

(* Bins closed on the right under rules that do not end periods.           *)
RightAskings ==
  {Asking(OffsetRule(Name(code, None)), 1, 0, "right", label, "start_day", 0) :
     code \in {"MS", "B"}, label \in {"unsaid", "right"}}

-----------------------------------------------------------------------------
(* Calls of date_range and bdate_range, and offices.                       *)

RangeNames == HeldNames \cup {Name("BMS", None), Name("QE", 1), Name("BQS", None), Name("BYE", 6)}
Begins == {Moment(Date(2024, 2, 27), 0), Moment(Date(2024, 2, 29), 10), Moment(Date(2024, 3, 2), 20)}

Request(name, n, first, last, periods, inclusive, mask, off) ==
  [name |-> name, n |-> n, first |-> first, last |-> last, periods |-> periods,
   inclusive |-> inclusive, mask |-> mask, off |-> off]

MCOffices ==
  {BusinessHours(Weekdays, {Date(2024, 3, 1)}, <<<<9, 12>>, <<13, 17>>>>, 1),
   BusinessHours({0, 1, 2, 3, 4, 5}, {}, <<<<9, 17>>>>, 1)}

MCRequests ==
  {Request(name, n, first, None, 4, "both", Weekdays, {}) :
     name \in RangeNames, n \in {-2, -1, 1, 2}, first \in Begins} \cup
  {Request(name, n, None, last, 2, "both", Weekdays, {}) :
     name \in RangeNames, n \in {-1, 1}, last \in Begins} \cup
  {Request(name, n, first, first + d * Day, None, side, Weekdays, {}) :
     name \in RangeNames, n \in {-1, 2}, first \in Begins, d \in {-40, 0, 50},
     side \in {"both", "neither"}} \cup
  {Request(Name("C", None), n, first, None, 4, "both", FourDays, MarchFourth) :
     n \in {-1, 1, 2}, first \in Begins} \cup
  {Request([code |-> "offset", rule |-> rule], n, first, None, 4, "both", Weekdays, {}) :
     rule \in OnlyOffsets \cup MCOffices \cup {PlainWeek}, n \in {-1, 1, 2}, first \in Begins}

MCHours == {-9, -1, 1, 16}

-----------------------------------------------------------------------------
(* Periods.                                                                *)

MCFrequencies ==
  {Freq("Y", 12, 1), Freq("Y", 6, 1), Freq("Q", 12, 1), Freq("Q", 1, 1), Freq("Q", 2, 2),
   Freq("M", 12, 1), Freq("M", 12, 2), Freq("W", 6, 1), Freq("W", 2, 1), Freq("B", 12, 1),
   Freq("D", 12, 1), Freq("D", 12, 3), Freq("h", 12, 1)}

MCMoments == {Moment(Date(2024, m, d), 0) + d : m \in {1, 2, 6, 12}, d \in {1, 2, 3, 28}}

-----------------------------------------------------------------------------
HeldRests == index = Index(<<>>, NoFreq) /\ calls = 0

ResampleRests ==
  /\ times = <<>> /\ resampler = NotBuilt /\ answer = NoAnswer
  /\ arguments = Asking(TickRule, 1, 7, "left", "left", "epoch", 0)

RangesRest ==
  /\ request = Request(Name("D", None), 1, Wednesday, None, 0, "both", Weekdays, {})
  /\ made = NotMade /\ asked = NotAsked

PeriodsRest ==
  period = [freq |-> Freq("D", 12, 1), ordinal |-> 0] /\ moved = NotMoved

Init ==
  \/ part = "held" /\ HeldInit /\ ResampleRests /\ RangesRest /\ PeriodsRest
  \/ part = "resample" /\ HeldRests /\ ResampleInit /\ RangesRest /\ PeriodsRest
  \/ part = "ranges" /\ HeldRests /\ ResampleRests /\ RangeInit /\ PeriodsRest
  \/ part = "periods" /\ HeldRests /\ ResampleRests /\ RangesRest /\ PeriodInit

Next ==
  /\ UNCHANGED part
  /\ \/ part = "held" /\ HeldNext /\ UNCHANGED <<resampleVars, rangeVars, periodVars>>
     \/ part = "resample" /\ ResampleNext /\ UNCHANGED <<heldVars, rangeVars, periodVars>>
     \/ part = "ranges" /\ RangeNext /\ UNCHANGED <<heldVars, resampleVars, periodVars>>
     \/ part = "periods" /\ PeriodNext /\ UNCHANGED <<heldVars, resampleVars, rangeVars>>

Spec == Init /\ [][Next]_vars
===============================================================================
