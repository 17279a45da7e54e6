-------------------------------- MODULE HeldFreq --------------------------------
(***************************************************************************)
(* An index of instants and the frequency it passes on from operation to   *)
(* operation (src/python/firepanda/_held_freq.py, in front of IndexMixin). *)
(* The frequency is never looked up from the labels again: every operation *)
(* decides by its arguments whether it can still be true of the answer.    *)
(***************************************************************************)
EXTENDS DateRange, SequencesExt

CONSTANTS Made,        \* the indexes date_range makes: labels and freq
          Offered(_, _),\* the labels an insert offers an index of a frequency
          Lengths,     \* the lengths added to the labels
          MaxLabels,   \* bound: no operation is tried on a longer index
          MaxCalls,    \* bound: how many operations follow one another
          Horizon      \* bound: the moments labels may reach

VARIABLES index,  \* the labels and the frequency they hold
          calls   \* operations so far
heldVars == <<index, calls>>

(* An index of instants, or of spans of time between them.                 *)
Index(labels, freq) == [labels |-> labels, freq |-> freq, spans |-> FALSE]
Spanning(labels, freq) == [labels |-> labels, freq |-> freq, spans |-> TRUE]

Holding(labels, freq) == [index EXCEPT !.labels = labels, !.freq = freq]

Others == {other \in Made : other.spans = index.spans}

Holds(freq) == freq # NoFreq
Fixed(freq) == freq.rule \in {TickRule, DayRule}
Back(freq) == [freq EXCEPT !.n = -freq.n]

(* The step of the slice some positions make (none: 0), as numpy finds it. *)
StepOf(positions, size) ==
  LET step == positions[2] - positions[1]
  IN  IF \E i \in DOMAIN positions : positions[i] \notin 0 .. size - 1 THEN 0
      ELSE IF Len(positions) < 2 THEN 1
      ELSE IF \A i \in 1 .. Len(positions) - 1 : positions[i + 1] - positions[i] = step
      THEN step ELSE 0

(* Whether the kept positions sit together.                                *)
OneRun(kept) == kept = {} \/ Max(kept) - Min(kept) + 1 = Cardinality(kept)

(* Slip: a stride keeps the step of what it strides over.                  *)
ScaledAnyway(freq, factor) == IF factor = 0 THEN NoFreq ELSE freq

Scaled(freq, factor) ==
  IF factor = 0 \/ ~Holds(freq) THEN NoFreq ELSE [freq EXCEPT !.n = freq.n * factor]

At(labels, positions) == [i \in DOMAIN positions |-> labels[positions[i] + 1]]

Rising(kept) == SetToSortSeq(kept, <)

Increasing(labels) == \A i \in 1 .. Len(labels) - 1 : labels[i] <= labels[i + 1]

SortedIf(labels, sort) == IF sort THEN SortSeq(labels, <) ELSE labels

Distinct(labels) ==
  FoldLeft(LAMBDA seen, label : IF label \in ToSet(seen) THEN seen ELSE Append(seen, label),
           <<>>, labels)

Without(labels, gone) == SelectSeq(labels, LAMBDA label : label \notin gone)

InferredOf(labels) == Inferred(labels, index.spans)
-----------------------------------------------------------------------------
(* Taking labels by position.                                              *)

Taken(positions) ==
  index' = Holding(At(index.labels, positions),
                   Scaled(index.freq, StepOf(positions, Len(index.labels))))

Take == \E positions \in BoundedSeq(0 .. Len(index.labels) - 1, 3) : Taken(positions)

(* A slice is resolved against the length and walks by its step.           *)
Slice ==
  \E start \in 0 .. Len(index.labels), stop \in -1 .. Len(index.labels), step \in {-2, -1, 1, 2} :
    LET count == IF step > 0 THEN (stop - start + step - 1) \div step
                 ELSE (start - stop - step - 1) \div (-step)
        positions == [i \in 1 .. Max({0, count}) |-> start + (i - 1) * step]
    IN  /\ step < 0 => start < Len(index.labels)
        /\ step > 0 => stop >= 0
        /\ index' = Holding(At(index.labels, positions), Scaled(index.freq, step))

Mask ==
  \E kept \in SUBSET (0 .. Len(index.labels) - 1) :
    index' = Holding(At(index.labels, Rising(kept)),
                     IF OneRun(kept) THEN index.freq ELSE NoFreq)

SortValues ==
  \E ascending \in BOOLEAN :
    Taken(SortSeq([i \in DOMAIN index.labels |-> i - 1],
                  LAMBDA i, j : LET a == index.labels[i + 1]
                                    b == index.labels[j + 1]
                                IN  \/ a = b /\ i < j
                                    \/ IF ascending THEN a < b ELSE b < a))

-----------------------------------------------------------------------------
(* Leaving labels out and putting one in.                                  *)

Deleted(gone, kept) ==
  index' = Holding(At(index.labels, Rising((0 .. Len(index.labels) - 1) \ gone)),
                   IF kept THEN index.freq ELSE NoFreq)

Delete ==
  LET size == Len(index.labels)
  IN  \/ \E loc \in 0 .. size - 1 : Deleted({loc}, loc \in {0, size - 1})
      \/ \E positions \in BoundedSeq(0 .. size - 1, 2) :
           Deleted(ToSet(positions),
                   /\ StepOf(positions, size) = 1
                   /\ \/ positions = <<>>
                      \/ Head(positions) = 0
                      \/ positions[Len(positions)] + 1 = size)
      \/ \E start \in 0 .. size, stop \in 0 .. size :
           Deleted(start .. stop - 1, start = 0 \/ stop = size)

Insert ==
  LET labels == index.labels
      size == Len(labels)
      freq == index.freq
  IN  \E loc \in 0 .. size, item \in Offered(freq, index.spans) :
        LET kept == IF size = 0 THEN Fixed(freq) \/ IsOnOffset(freq, item)
                    ELSE IF loc = 0 THEN Apply(freq, item) = labels[1]
                    ELSE IF loc = size THEN Apply(Back(freq), item) = labels[size]
                    ELSE FALSE
        IN  index' = Holding(InsertAt(labels, loc + 1, item),
                             IF Holds(freq) /\ kept THEN freq ELSE NoFreq)

-----------------------------------------------------------------------------
(* An index beside another one.                                            *)

Copies(labels, label) == Cardinality({i \in DOMAIN labels : labels[i] = label})

UnionLabels(left, right, sort) ==
  IF right = <<>> \/ left = right THEN left
  ELSE IF left = <<>> THEN right
  ELSE SortedIf(FlattenSeq([i \in DOMAIN Distinct(left \o right) |->
                LET label == Distinct(left \o right)[i]
                IN  [k \in 1 .. Max({Copies(left, label), Copies(right, label)}) |-> label]]),
              sort)

Union(other, sort) ==
  LET made == UnionLabels(index.labels, other.labels, sort)
      freq == IF other.labels = <<>> \/ other.labels = index.labels THEN index.freq
              ELSE IF index.labels = <<>> THEN other.freq
              ELSE IF Holds(index.freq) /\ other.freq = index.freq /\ Conforms(made, index.freq, index.spans)
              THEN index.freq ELSE InferredOf(made)
  IN  index' = Holding(made, freq)

Intersection(other, sort) ==
  LET same == other.labels = index.labels
      made == IF same THEN Distinct(index.labels)
              ELSE SortedIf(SelectSeq(Distinct(index.labels),
                                    LAMBDA label : label \in ToSet(other.labels)), sort)
      fast == /\ Holds(index.freq) /\ other.freq = index.freq /\ index.freq.n = 1
              /\ Increasing(index.labels)
  IN  index' = Holding(made, IF same \/ fast THEN index.freq ELSE InferredOf(made))

Difference(other, sort) ==
  LET made == SortedIf(Distinct(Without(index.labels, ToSet(other.labels))), sort)
      left == {i \in DOMAIN index.labels : index.labels[i] \in ToSet(made)}
      kept == (~sort \/ Increasing(index.labels)) /\ OneRun(left)
  IN  index' = Holding(made, IF kept THEN index.freq ELSE NoFreq)

SymmetricDifference(other, sort) ==
  LET made == SortedIf(Distinct(Without(index.labels, ToSet(other.labels))
                              \o Without(other.labels, ToSet(index.labels))), sort)
  IN  index' = Holding(made, IF Holds(index.freq) THEN InferredOf(made) ELSE NoFreq)

AppendOther(other) ==
  LET full == SelectSeq(<<index, other>>, LAMBDA piece : piece.labels # <<>>)
      kept == /\ Holds(index.freq)
              /\ \A i \in DOMAIN full : full[i].freq = index.freq
              /\ Len(full) = 2 =>
                   Apply(index.freq, index.labels[Len(index.labels)]) = other.labels[1]
  IN  index' = Holding(index.labels \o other.labels, IF kept THEN index.freq ELSE NoFreq)

-----------------------------------------------------------------------------
(* Moving every label, and holding another frequency.                      *)

Every(Moved(_)) == [i \in DOMAIN index.labels |-> Moved(index.labels[i])]

(* The name of a held rule as shift reads it back from its text.           *)
Shifted(freq, label, count) ==
  LET s == [CalendarStep(Name("B", None), freq.n, Weekdays, {}) EXCEPT
              !.kind = CASE freq.rule.kind = "monthly" -> "M"
                         [] freq.rule.kind = "week" -> "W"
                         [] OTHER -> "B",
              !.stride = IF freq.rule.kind = "monthly" THEN freq.rule.every ELSE 1,
              !.anchor = IF freq.rule.kind = "monthly" THEN freq.rule.anchor ELSE 1,
              !.first = freq.rule.kind = "monthly" /\ freq.rule.first,
              !.business = freq.rule.kind = "monthly" /\ freq.rule.business,
              !.weekday = IF freq.rule.kind = "week" THEN freq.rule.weekday ELSE 6]
      date == DateOf(label)
      from == IF OnStep(s, date) THEN date ELSE Roll(s, date, count >= 0)
      steps == IF OnStep(s, date) THEN count
               ELSE IF count > 0 THEN count - 1 ELSE Min({count + 1, 0})
  IN  IF Fixed(freq) THEN Apply([freq EXCEPT !.n = freq.n * count], label)
      ELSE Moment(StepBy(s, from, steps), TimeOf(label))

Shift ==
  /\ Holds(index.freq)
  /\ index.freq.rule.kind \in {"tick", "day", "monthly", "week", "business"}
  /\ \E count \in {-1, 1} :
       index' = [index EXCEPT !.labels =
                   Every(LAMBDA label : Shifted(index.freq, label, count))]

(* A length added to instants keeps a fixed step only.                     *)
AddLength ==
  \E length \in Lengths :
    index' = Holding(Every(LAMBDA label : label + length),
                     IF index.spans \/ Fixed(index.freq) THEN index.freq ELSE NoFreq)

(* A length less spans, and an instant less instants, run the other way;   *)
(* an instant and spans are instants.                                      *)
SubtractFrom ==
  \E from \in IF index.spans THEN Lengths ELSE ToSet(index.labels) :
    index' = Spanning(Every(LAMBDA label : from - label),
                      IF index.spans \/ Fixed(index.freq) THEN Back(index.freq) ELSE NoFreq)

LessInstant ==
  /\ ~index.spans
  /\ \E from \in ToSet(index.labels) :
       index' = Spanning(Every(LAMBDA label : label - from),
                         IF Fixed(index.freq) THEN index.freq ELSE NoFreq)

PlusInstant ==
  /\ index.spans
  /\ \E from \in {Min(Horizon)} : index' = Index(Every(LAMBDA label : from + label), index.freq)

(* A step is scaled with its spans; a half is no step when it is no whole  *)
(* number of ticks.                                                        *)
Ticks(freq) == freq.n * IF freq.rule = DayRule THEN Day ELSE 1

Multiply ==
  /\ index.spans
  /\ \/ \E factor \in {-1, 0, 2} :
          index' = Holding(Every(LAMBDA label : factor * label), Scaled(index.freq, factor))
     \/ index' = Holding(Every(LAMBDA label : label \div 2),
                         IF Holds(index.freq) /\ Ticks(index.freq) % 2 = 0
                         THEN Offset(TickRule, Ticks(index.freq) \div 2) ELSE NoFreq)

Normalize ==
  LET made == Every(LAMBDA label : Moment(DateOf(label), 0))
  IN  /\ ~index.spans
      /\ index' = Holding(made, InferredOf(made))

SetFreq(other) ==
  /\ Conforms(index.labels, other.freq, index.spans)
  /\ index' = [index EXCEPT !.freq = other.freq]

(* A copy with no label twice, and what an index makes of another's labels.*)
Unique == index' = Holding(Distinct(index.labels), index.freq)

Reindex(other) == index' = other

(* Some labels replaced by one.                                            *)
PutMask ==
  \E mask \in SUBSET DOMAIN index.labels, value \in Offered(index.freq, index.spans) :
    index' = Holding([i \in DOMAIN index.labels |->
                        IF i \in mask THEN value ELSE index.labels[i]],
                     IF mask = {} THEN index.freq ELSE NoFreq)

Repeat == index' = [index EXCEPT !.freq = NoFreq]

HeldInit == index \in Made /\ calls = 0

HeldNext ==
  /\ calls < MaxCalls /\ calls' = calls + 1
  /\ Len(index.labels) <= MaxLabels
  /\ \/ Take \/ Slice \/ Mask \/ SortValues
     \/ Delete \/ Insert
     \/ \E other \in Others :
          \/ \E sort \in BOOLEAN :
               \/ Union(other, sort) \/ Intersection(other, sort)
               \/ Difference(other, sort) \/ SymmetricDifference(other, sort)
          \/ AppendOther(other) \/ SetFreq(other) \/ Reindex(other)
     \/ Shift \/ AddLength \/ SubtractFrom \/ LessInstant \/ PlusInstant \/ Multiply
     \/ Normalize \/ Unique \/ PutMask \/ Repeat
  /\ index'.spans \/ ToSet(index'.labels) \subseteq Horizon

HeldSpec == HeldInit /\ [][HeldNext]_heldVars
-----------------------------------------------------------------------------
(* The frequency an index holds is true of its labels: every label but the *)
(* last, moved by the frequency, is the next one.  Labels at several times *)
(* of day are set aside under a calendar rule: infer_freq looks for the    *)
(* rule of their dates as soon as the smallest gap is a whole number of    *)
(* days.                                                                   *)
SameTimeOfDay(labels) == \A i \in DOMAIN labels : TimeOf(labels[i]) = TimeOf(labels[1])

FreqIsTrue ==
  Holds(index.freq) /\ (Fixed(index.freq) \/ SameTimeOfDay(index.labels)) =>
    \A i \in 1 .. Len(index.labels) - 1 : Apply(index.freq, index.labels[i]) = index.labels[i + 1]

(* Moving the labels one step of the frequency puts each where its         *)
(* neighbour was.                                                          *)
ShiftStepsAlong ==
  [][Shift => \/ \A i \in 1 .. Len(index.labels) - 1 : index.labels[i] = index'.labels[i + 1]
              \/ \A i \in 1 .. Len(index.labels) - 1 : index'.labels[i] = index.labels[i + 1]]_heldVars
===============================================================================
