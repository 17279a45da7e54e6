------------------------------- MODULE RangeIndex -------------------------------
(***************************************************************************)
(* An index of evenly stepped whole numbers                                *)
(* (src/python/firepanda/_range_index.py): the labels written out and the  *)
(* three numbers they stand for beside them.  Every operation answers a    *)
(* range again when the labels of its answer are an even step, and a plain *)
(* index otherwise.                                                        *)
(***************************************************************************)
EXTENDS Reindexing, SequencesExt

CONSTANTS Ranges, Others, MaxSteps, MaxLength, Far

VARIABLES rangeIndex, plain, steps
rangeIndexVars == <<rangeIndex, plain, steps>>

Triple(start, stop, step) == [start |-> start, stop |-> stop, step |-> step]
Triples == [start : Int, stop : Int, step : Int \ {0}]
NoTriple == Triple(0, 0, 0)

Size(r) ==
  IF r.step > 0 THEN (IF r.stop > r.start THEN (r.stop - r.start + r.step - 1) \div r.step ELSE 0)
  ELSE IF r.start > r.stop THEN (r.start - r.stop - r.step - 1) \div (-r.step) ELSE 0

Points(r) == [i \in 1 .. Size(r) |-> r.start + (i - 1) * r.step]

Plain(labels) == [range |-> NoTriple, labels |-> labels]
Ranged(r) == [range |-> r, labels |-> Points(r)]
IsRanged(index) == index.range # NoTriple

\* A range takes a step, and an index has labels, its own or a range's.
ASSUME RangesAssumption ==
  /\ Ranges \subseteq Triples /\ MaxLength \in Nat
  /\ \A other \in Others :
       \/ other.labels \in Seq(Int) /\ other = Plain(other.labels)
       \/ other.range \in Triples /\ other = Ranged(other.range)

-----------------------------------------------------------------------------
(* Back to a range.                                                        *)

EvenlyStepped(labels) ==
  /\ labels[2] # labels[1]
  /\ \A i \in 1 .. Len(labels) - 1 : labels[i + 1] - labels[i] = labels[2] - labels[1]

(* No labels are the empty range, and one keeps the step it came from.     *)
AsRange(labels, step) ==
  IF labels = <<>> THEN Triple(0, 0, 1)
  ELSE IF Len(labels) = 1 THEN Triple(labels[1], labels[1] + step, step)
  ELSE IF EvenlyStepped(labels)
  THEN Triple(labels[1], Last(labels) + labels[2] - labels[1], labels[2] - labels[1])
  ELSE NoTriple

Kept(labels, index) ==
  IF ~IsRanged(index) THEN Plain(labels)
  ELSE LET found == AsRange(labels, index.range.step)
       IN  IF found = NoTriple THEN Plain(labels) ELSE Ranged(found)

-----------------------------------------------------------------------------
(* Two ranges meet.                                                        *)

(* The triple r[::-1] answers.                                             *)
Backwards(r) == Triple(r.start + (Size(r) - 1) * r.step, r.start - r.step, -r.step)

(* Euclid's algorithm: the divisor and the factor on the first number.     *)
ExtendedGcd(a, b) ==
  LET quotient(s) == s.old \div s.r
      next(s) == [old |-> s.r, r |-> s.old - quotient(s) * s.r,
                  oldFactor |-> s.factor, factor |-> s.oldFactor - quotient(s) * s.factor]
      pass[n \in 0 .. b] ==
        IF n = 0 THEN [old |-> a, r |-> b, oldFactor |-> 1, factor |-> 0]
        ELSE IF pass[n - 1].r = 0 THEN pass[n - 1] ELSE next(pass[n - 1])
  IN  <<pass[b].old, pass[b].oldFactor>>

Rising(r) == IF r.step < 0 THEN Backwards(r) ELSE r

(* Slip: rounded down, to a label before both have begun.                  *)
FirstSharedBelow(solution, low, step) == solution + step * ((low - solution) \div step)

(* The first label of both that is not before either begins.               *)
FirstShared(solution, low, step) == solution + step * (-((solution - low) \div step))

RangesMet(mine, theirs) ==
  LET first == Rising(mine)
      second == Rising(theirs)
      low == Max({first.start, second.start})
      high == Min({first.stop, second.stop})
      found == ExtendedGcd(first.step, second.step)
      gcd == found[1]
      step == (first.step * second.step) \div gcd
      solution == first.start + (((second.start - first.start) * first.step) \div gcd) * found[2]
      met == Triple(FirstShared(solution, low, step), high, step)
  IN  IF high <= low \/ (first.start - second.start) % gcd # 0 THEN Triple(0, 0, 1)
      ELSE IF mine.step < 0 /\ theirs.step < 0 THEN Backwards(met) ELSE met

-----------------------------------------------------------------------------
(* What a plain index answers.                                             *)

Copies(labels, label) == Cardinality({i \in DOMAIN labels : labels[i] = label})
FirstOnes(labels) == {i \in DOMAIN labels : \A j \in 1 .. i - 1 : labels[j] # labels[i]}
Once(labels) == AtPlaces(labels, FirstOnes(labels))
InOrder(labels) ==
  LET order == Sorted(DOMAIN labels, LAMBDA i, j :
                 labels[i] < labels[j] \/ (labels[i] = labels[j] /\ i < j))
  IN  [k \in DOMAIN order |-> labels[order[k]]]
Either(labels, other) ==      \* a label is there as often as in the side that has it more often
  FlattenSeq([i \in DOMAIN Once(labels \o other) |->
    LET label == Once(labels \o other)[i]
    IN  [c \in 1 .. Max({Copies(labels, label), Copies(other, label)}) |-> label]])

PlainUnion(labels, other) ==
  IF other = <<>> \/ labels = other THEN labels
  ELSE IF labels = <<>> THEN other
  ELSE InOrder(Either(labels, other))

PlainIntersection(labels, other) ==
  AtPlaces(labels, {i \in FirstOnes(labels) : labels[i] \in ToSet(other)})
PlainDifference(labels, other) ==
  InOrder(AtPlaces(labels, {i \in FirstOnes(labels) : labels[i] \notin ToSet(other)}))
PlainSymmetric(labels, other) ==
  LET all == labels \o other
      inBoth == ToSet(labels) \cap ToSet(other)
  IN  InOrder(AtPlaces(all, {i \in FirstOnes(all) : all[i] \notin inBoth}))

-----------------------------------------------------------------------------
Answer(index, labels) ==
  /\ Len(index.labels) <= MaxLength /\ \A i \in DOMAIN index.labels : index.labels[i] \in -Far .. Far
  /\ rangeIndex' = index /\ plain' = labels /\ steps' = steps + 1

Answered(labels) == Answer(Kept(labels, rangeIndex), labels)

Placed == DOMAIN rangeIndex.labels

(* Slicing is done on the three numbers: r[from : to : by] with both ends  *)
(* inside the range.                                                       *)
Slice ==
  \E by \in {-2, -1, 1, 2}, from, to \in 0 .. MaxLength :
    LET n == Len(rangeIndex.labels)
        r == rangeIndex.range
        low == IF by > 0 THEN from ELSE Min({n, to}) - 1
        high == IF by > 0 THEN Min({n, to}) ELSE from - 1
        taken == [i \in 1 .. Size(Triple(low, high, by)) |-> rangeIndex.labels[low + (i - 1) * by + 1]]
    IN  /\ from <= n
        /\ IF IsRanged(rangeIndex)
           THEN Answer(Ranged(Triple(r.start + low * r.step, r.start + high * r.step, by * r.step)), taken)
           ELSE Answer(Plain(taken), taken)

Take == \E at \in UNION {[1 .. k -> Placed] : k \in 1 .. 3} :
          Answered([i \in DOMAIN at |-> rangeIndex.labels[at[i]]])

Delete == \E at \in Placed : Answered(RemoveAt(rangeIndex.labels, at))

Insert == \E at \in 1 .. Len(rangeIndex.labels) + 1, label \in -2 .. 4 :
            Answered(InsertAt(rangeIndex.labels, at, label))

Append_ == \E other \in Others : Answered(rangeIndex.labels \o other.labels)

Union_ == \E other \in Others : Answered(PlainUnion(rangeIndex.labels, other.labels))

Difference == \E other \in Others : Answered(PlainDifference(rangeIndex.labels, other.labels))

SymmetricDifference == \E other \in Others : Answered(PlainSymmetric(rangeIndex.labels, other.labels))

(* Two ranges meet by arithmetic, in rising order unless both fall.        *)
Intersection ==
  \E other \in Others :
    LET shared == PlainIntersection(rangeIndex.labels, other.labels)
        rising == InOrder(shared)
        falls == rangeIndex.range.step < 0 /\ other.range.step < 0
    IN  IF IsRanged(rangeIndex) /\ IsRanged(other)
        THEN Answer(Ranged(RangesMet(rangeIndex.range, other.range)),
                    IF falls THEN Reverse(rising) ELSE rising)
        ELSE Answered(shared)

SortValues == \E rising \in BOOLEAN :
  Answered(IF rising THEN InOrder(rangeIndex.labels) ELSE Reverse(InOrder(rangeIndex.labels)))

Unique == Answered(Once(rangeIndex.labels))

(* Arithmetic by a whole number.                                           *)
Arithmetic ==
  \E op \in {"add", "rsub", "mul", "floordiv"}, k \in {-2, 1, 2} :
    Answered([i \in Placed |->
      LET label == rangeIndex.labels[i]
      IN  CASE op = "add" -> label + k [] op = "rsub" -> k - label
            [] op = "mul" -> label * k
            [] OTHER -> IF k > 0 THEN label \div k ELSE (-label) \div (-k)])

(* Repeating answers a plain index, whatever the labels.                   *)
Repeat ==
  \E n \in 0 .. 2 :
    LET labels == FlattenSeq([i \in Placed |-> [c \in 1 .. n |-> rangeIndex.labels[i]]])
    IN  Answer(Plain(labels), labels)

RangeIndexInit ==
  /\ \E r \in Ranges : rangeIndex = Ranged(r) /\ plain = Points(r)
  /\ steps = 0

RangeIndexNext ==
  /\ steps < MaxSteps
  /\ \/ Slice \/ Take \/ Delete \/ Insert \/ Append_ \/ Union_ \/ Difference
     \/ SymmetricDifference \/ Intersection \/ SortValues \/ Unique \/ Arithmetic \/ Repeat

RangeIndexSpec == RangeIndexInit /\ [][RangeIndexNext]_rangeIndexVars
-----------------------------------------------------------------------------
(* A range stands for the labels the operations give a list of labels,     *)
(* through any chain of them: no answer worked out from the three numbers  *)
(* (a slice, two ranges meeting) or read back into three numbers differs   *)
(* from the labels an index that writes them all out would have.           *)
RangeIsItsLabels == rangeIndex.labels = plain
===============================================================================
