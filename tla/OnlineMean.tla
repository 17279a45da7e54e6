---------------------------- MODULE OnlineMean ------------------------------
(***************************************************************************)
(* _online.py: ewm(alpha=0.5).online(), a mean that is fed rows in calls.  *)
(* One column: the others are the same beside it.  A number is a fraction  *)
(* and a weight a count of halves of halves, 2 ^ Depth of which are one.   *)
(***************************************************************************)
EXTENDS Integers, Sequences, SequencesExt, FiniteSetsExt

CONSTANTS Numbers,      \* the naturals a row may hold, a gap beside them
          MaxRows,      \* bound: how many rows are fed before a reset
          Mins          \* the values of min_periods

Gap == <<>>             \* NaN
One == 2 ^ (MaxRows + 1)

VARIABLES window,       \* adjust, ignore_na and min_periods
          old_weight,   \* _old_weights
          last,         \* _last: the last row shown, nothing before there is one
          fed,          \* ghost: the rows since the window was made or reset
          again,        \* ghost: whether mean() began over them without a reset
          shown         \* what the call answered for them

vars == <<window, old_weight, last, fed, again, shown>>

gcd[p \in Nat \X Nat] == IF p[2] = 0 THEN p[1] ELSE gcd[<<p[2], p[1] % p[2]>>]
Ratio(n, d) == LET g == gcd[<<n, d>>] IN <<n \div g, d \div g>>
Cells == {Gap} \cup {<<n, 1>> : n \in Numbers}

NewWeight(w) == IF w.adjust THEN One ELSE One \div 2

\* (weight * average + new_weight * value) / (weight + new_weight)
Blend(w, weight, average, x) ==
  Ratio(weight * average[1] * x[2] + NewWeight(w) * x[1] * average[2],
        average[2] * x[2] * (weight + NewWeight(w)))

\* Slip: a gap never takes weight away.
RowIgnoringGaps(w, s, x) ==
  LET weight == s.weight \div 2 IN
  IF x = Gap THEN s
  ELSE IF s.average = Gap THEN [s EXCEPT !.average = x, !.seen = @ + 1]
  ELSE [weight |-> IF w.adjust THEN weight + One ELSE One, seen |-> s.seen + 1,
        average |-> Blend(w, weight, s.average, x)]

\* The turn of a row in _run.
Row(w, s, x) ==
  LET weight == s.weight \div 2 IN
  IF s.average = Gap
  THEN IF x = Gap THEN s ELSE [s EXCEPT !.average = x, !.seen = @ + 1]
  ELSE IF x = Gap
  THEN IF w.ignore_na THEN s ELSE [s EXCEPT !.weight = weight]
  ELSE [weight |-> IF w.adjust THEN weight + One ELSE One, seen |-> s.seen + 1,
        average |-> Blend(w, weight, s.average, x)]

Shown(w, s) == IF s.seen >= w.least THEN s.average ELSE Gap

Start(weight, x) == [average |-> x, weight |-> weight,
                     seen |-> IF x = Gap THEN 0 ELSE 1]

\* _run: the states after each row, the first of them given.
Run(w, weight, rows) ==
  LET state[i \in 1 .. Len(rows)] ==
        IF i = 1 THEN Start(weight, rows[1]) ELSE Row(w, state[i - 1], rows[i])
  IN  state

Init == /\ window \in [adjust : BOOLEAN, ignore_na : BOOLEAN, least : Mins]
        /\ old_weight = One /\ last = <<>>
        /\ fed = <<>> /\ again = FALSE /\ shown = <<>>

Answer(rows, skip) ==
  LET states == Run(window, old_weight, rows)
      result == [i \in DOMAIN states |-> Shown(window, states[i])]
  IN  /\ old_weight' = Last(states).weight
      /\ last' = <<Last(result)>>
      /\ shown' = SubSeq(result, skip + 1, Len(result))
      /\ UNCHANGED window

\* mean(), over the window's own rows: what the weights were is not forgotten.
Mean(rows) == /\ rows # <<>> /\ Len(fed) + Len(rows) <= MaxRows
              /\ Answer(rows, 0)
              /\ fed' = fed \o rows
              /\ again' = (last # <<>>)

\* Slip: the first row fed is taken for the last one shown.
UpdateFromScratch(rows) == /\ last # <<>> /\ rows # <<>>
                           /\ Len(fed) + Len(rows) <= MaxRows
                           /\ Answer(rows, 0)
                           /\ fed' = fed \o rows /\ UNCHANGED again

\* mean(update=rows): the last row shown goes before them.
Update(rows) == /\ last # <<>>
                /\ Len(fed) + Len(rows) <= MaxRows
                /\ Answer(last \o rows, 1)
                /\ fed' = fed \o rows /\ UNCHANGED again

Reset == /\ old_weight' = One /\ last' = <<>>
         /\ fed' = <<>> /\ again' = FALSE /\ shown' = <<>>
         /\ UNCHANGED window

Next == \/ \E n \in 0 .. MaxRows : \E rows \in [1 .. n -> Cells] :
             Mean(rows) \/ Update(rows)
        \/ Reset

Spec == Init /\ [][Next]_vars
-----------------------------------------------------------------------------
\* The mean of the first n rows fed by its definition: the weight of a row
\* halves with every row after it, the gaps not counted if they are ignored.
Halvings(n, i) ==
  IF window.ignore_na
  THEN Len(SelectSeq(SubSeq(fed, i + 1, n), LAMBDA x : x # Gap)) ELSE n - i

MeanOf(n) ==
  LET here == {i \in 1 .. n : fed[i] # Gap}
      weight(i) == One \div 2 ^ Halvings(n, i)
  IN  IF here = {} THEN Gap
      ELSE Ratio(MapThenSumSet(LAMBDA i : weight(i) * fed[i][1], here),
                 MapThenSumSet(weight, here))

(***************************************************************************)
(* "mean(update=...) carries on from where the last call stopped instead   *)
(* of starting over": what a call shows for its rows is what one call over *)
(* every row fed so far shows for them, wherever the rows were cut and the *)
(* gaps fell, so long as one row is enough to be shown and mean() is not   *)
(* asked twice.                                                            *)
(***************************************************************************)
Uncut == fed # <<>> /\ ~again /\ window.least <= 1
Place(i) == Len(fed) - Len(shown) + i

CutsAgree ==
  Uncut => LET whole == Run(window, One, fed)
           IN  \A i \in DOMAIN shown : shown[i] = Shown(window, whole[Place(i)])

\* It is the weighted mean itself too, for an adjusted window.
CarriesOn ==
  /\ CutsAgree
  /\ Uncut /\ window.adjust => \A i \in DOMAIN shown : shown[i] = MeanOf(Place(i))
=============================================================================
