--------------------------------- MODULE Ranges ---------------------------------
(***************************************************************************)
(* One call of date_range or bdate_range at a time: its range when the     *)
(* frequency is given as text and when it is given as an offset, and what  *)
(* is done with the labels it makes: their frequency is read off them, or  *)
(* business hours are counted from one of them.                            *)
(***************************************************************************)
EXTENDS DateRange

CONSTANTS Requests,   \* calls: name, n, first, last, periods, inclusive, mask, off
          Offices,    \* the rules of business hours that are counted
          Hours       \* how many of them

VARIABLES request, made, asked
rangeVars == <<request, made, asked>>

NotMade == [text |-> <<>>, offset |-> <<>>]
NotAsked == [what |-> "nothing"]

(* The offset a caller would give instead of the text.  Some offsets have  *)
(* no text that date_range steps by: their code is "offset".               *)
RequestedRule(r) ==
  CASE r.name.code = "C"      -> Business(r.mask, r.off, 0)
    [] r.name.code = "offset" -> r.name.rule
    [] OTHER                  -> OffsetRule(r.name)

CalledByText(r) ==
  TextRange(r.name, r.n, r.first, r.last, r.periods, r.inclusive, r.mask, r.off)

CalledByOffset(r) ==
  OffsetRange(Offset(RequestedRule(r), r.n), r.first, r.last, r.periods, r.inclusive)

Call ==
  /\ made = NotMade
  /\ made' = [text |-> IF request.name.code = "offset" THEN <<>> ELSE CalledByText(request),
              offset |-> CalledByOffset(request)]
  /\ UNCHANGED <<request, asked>>

(* infer_freq of the labels, or of all but one of them.                    *)
Infer ==
  /\ made.offset # <<>>
  /\ \E kept \in {made.offset} \cup {Tail(made.offset)} :
       asked' = [what |-> "inferred", labels |-> kept, freq |-> Inferred(kept, FALSE)]
  /\ UNCHANGED <<request, made>>

Count ==
  /\ made.offset # <<>>
  /\ \E office \in Offices, hours \in Hours :
       asked' = [what |-> "counted", rule |-> office, hours |-> hours, from |-> made.offset[1],
                 to |-> Apply(Offset(office, hours), made.offset[1])]
  /\ UNCHANGED <<request, made>>

(* The roll of business hours to an opening or a closing.                  *)
RollHours ==
  /\ made.offset # <<>>
  /\ \E office \in Offices, forward \in BOOLEAN :
       asked' = [what |-> IF forward THEN "opened" ELSE "closed", rule |-> office,
                 from |-> made.offset[1],
                 to |-> IF forward THEN RollForward(Offset(office, 1), made.offset[1])
                        ELSE RollBack(Offset(office, 1), made.offset[1])]
  /\ UNCHANGED <<request, made>>

RangeInit == request \in Requests /\ made = NotMade /\ asked = NotAsked

RangeNext == Call \/ Infer \/ Count \/ RollHours

RangeSpec == RangeInit /\ [][RangeNext]_rangeVars
-----------------------------------------------------------------------------
Lands(moment) == moment # None => On(RequestedRule(request), moment)

(* The two calendars agree: a frequency steps along the same points given  *)
(* as text and given as an offset.  A backward step is set aside from ends *)
(* that are not on the offset, where the two are written to differ, and an *)
(* end is at the start's time of day.                                      *)
RangesAgree ==
  request.name.code # "offset" /\ (request.n > 0 \/ (Lands(request.first) /\ Lands(request.last))) => made.text = made.offset

(* A frequency read off the labels makes the labels again.  The week of    *)
(* the month is set aside: it leaves fifth weeks out of what it reads.     *)
InferredRegenerates ==
  asked.what = "inferred" /\ asked.freq # NoFreq /\ asked.freq.rule.kind # "weekofmonth" =>
    OffsetRange(asked.freq, asked.labels[1], None, Len(asked.labels), "both") = asked.labels

(* The tick from a moment to the next is worked in an office.              *)
OpenAt(rule, moment) ==
  /\ Worked(rule, DateOf(moment))
  /\ \E i \in Spans(rule) : rule.spans[i][1] <= TimeOf(moment) /\ TimeOf(moment) < rule.spans[i][2]

WorkedTicks(rule, low, high) == Cardinality({m \in low .. high - 1 : OpenAt(rule, m)})

(* Business hours are counted in worked time: between the moment and where *)
(* it is moved to lies the time that was asked for and no more, and the    *)
(* place is one where work goes on (or, going back, has just gone on).     *)
HoursAreWorked ==
  /\ asked.what = "counted" /\ asked.hours >= 0 =>
       /\ WorkedTicks(asked.rule, asked.from, asked.to) = asked.hours * asked.rule.hour
       /\ asked.to >= asked.from /\ OpenAt(asked.rule, asked.to)
  /\ asked.what = "counted" /\ asked.hours < 0 =>
       /\ WorkedTicks(asked.rule, asked.to, asked.from) = -asked.hours * asked.rule.hour
       /\ asked.to <= asked.from /\ OpenAt(asked.rule, asked.to - 1)
  /\ asked.what = "opened" =>
       WorkedTicks(asked.rule, asked.from, asked.to) = 0 /\ asked.to >= asked.from
  /\ asked.what = "closed" =>
       WorkedTicks(asked.rule, asked.to, asked.from) = 0 /\ asked.to <= asked.from
===============================================================================
