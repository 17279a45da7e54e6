--------------------------------- MODULE Merges ---------------------------------
(***************************************************************************)
(* merge, merge_asof and merge_ordered                                     *)
(* (src/python/firepanda/_pandas.py): which row of the left frame goes     *)
(* beside which row of the right one, and in which order.  A row is the    *)
(* tuple of its key columns, which the core's join pairs by SQL's rule (a  *)
(* missing key pairs with nothing) and pandas by its own (with a missing   *)
(* key).                                                                   *)
(***************************************************************************)
EXTENDS IndexJoin

CONSTANTS Frames, Tolerances

VARIABLES frames, merged
mergeVars == <<frames, merged>>

NotMerged == [of |-> "nothing"]
Validations == {"1:1", "1:m", "m:1", "m:m"}

Column(rows, c) == [i \in DOMAIN rows |-> rows[i][c]]
Positioned(rows) == [i \in DOMAIN rows |-> <<i - 1>>]
HasGap(rows, c) == \E i \in DOMAIN rows : rows[i][c] = Gap

KeyBefore(a, b) ==
  \E c \in DOMAIN a : Before(a[c], b[c]) /\ \A d \in 1 .. c - 1 : a[d] = b[d]

-----------------------------------------------------------------------------
(* A missing key on both sides is filled with a value neither side holds,  *)
(* for the core's join to pair it with a missing key, and emptied after.   *)
Present(left, right, c) == (ToSet(Column(left, c)) \cup ToSet(Column(right, c))) \ {Gap}

(* Slip: the highest key itself stands for a missing one.                  *)
HighestKey(left, right, c) ==
  IF Present(left, right, c) = {} THEN 0 ELSE Max(Present(left, right, c))

StandIn(left, right, c) ==
  IF Present(left, right, c) = {} THEN 0 ELSE Max(Present(left, right, c)) + 1

Filled(rows, left, right) ==
  [i \in DOMAIN rows |-> [c \in DOMAIN rows[i] |->
     IF rows[i][c] = Gap /\ HasGap(left, c) /\ HasGap(right, c) THEN StandIn(left, right, c)
     ELSE rows[i][c]]]

Emptied(key, left, right) ==
  [c \in DOMAIN key |-> IF HasGap(left, c) /\ HasGap(right, c) /\ key[c] = StandIn(left, right, c)
                        THEN Gap ELSE key[c]]

(* The core's join: in left row order, the right rows nothing paired with  *)
(* at the end; a right join is a left join with the sides exchanged.       *)
Meeting(left, right, i) ==
  IF Gap \in ToSet(left[i]) THEN <<>>
  ELSE SelectSeq([j \in DOMAIN right |-> j - 1], LAMBDA j : right[j + 1] = left[i])

JoinLeft(left, right, keepsLeft) ==
  FlattenSeq([i \in DOMAIN left |->
    LET found == Meeting(left, right, i)
    IN  IF found = <<>> THEN (IF keepsLeft THEN <<<<i - 1, Nowhere>>>> ELSE <<>>)
        ELSE [k \in DOMAIN found |-> <<i - 1, found[k]>>]])

JoinOn(left, right, how) ==
  LET pairs == JoinLeft(left, right, how # "inner")
      flipped == JoinLeft(right, left, TRUE)
      paired == {pairs[k][2] : k \in DOMAIN pairs}
      unpaired == SelectSeq([j \in DOMAIN right |-> <<Nowhere, j - 1>>], LAMBDA p : p[2] \notin paired)
  IN  IF how = "right" THEN [k \in DOMAIN flipped |-> <<flipped[k][2], flipped[k][1]>>]
      ELSE IF how = "outer" THEN pairs \o unpaired ELSE pairs

KeyOf(left, right, pair) == IF pair[1] # Nowhere THEN left[pair[1] + 1] ELSE right[pair[2] + 1]

MergeSorted(rows) ==
  LET order == Sorted(DOMAIN rows, LAMBDA a, b :
        KeyBefore(rows[a].key, rows[b].key) \/ (~KeyBefore(rows[b].key, rows[a].key) /\ a < b))
  IN  [k \in DOMAIN order |-> rows[order[k]]]

KeysInOrder(rows, sorts) == IF sorts THEN MergeSorted(rows) ELSE rows

MergedRows(left, right, how, sort) ==
  LET l == Filled(left, left, right)
      r == Filled(right, left, right)
      row(pair) == [left |-> pair[1], right |-> pair[2],
                    key |-> Emptied(KeyOf(l, r, pair), left, right)]
      pairs == JoinOn(l, r, how)
  IN  KeysInOrder([k \in DOMAIN pairs |-> row(pairs[k])], sort \/ how = "outer")

(* Keys that repeat where validate says they do not are refused, a missing *)
(* key being a key like another.                                           *)
Validated(left, right, validate) ==
  /\ validate \in {"1:1", "1:m"} => Distinct(left)
  /\ validate \in {"1:1", "m:1"} => Distinct(right)

Indicated(row) == IF row.right = Nowhere THEN "left_only" ELSE IF row.left = Nowhere THEN "right_only" ELSE "both"

(* The labels of the answer: the key when both sides are keyed on their    *)
(* labels, those of the side keyed on a column when one is, missing where  *)
(* that side has no row.                                                   *)
MergedLabels(rows, labelled) ==
  [k \in DOMAIN rows |->
     LET place == IF labelled = "right" THEN rows[k].left ELSE rows[k].right
     IN  CASE labelled = "neither" -> <<k - 1>>
           [] labelled = "both" -> rows[k].key
           [] OTHER -> IF place = Nowhere THEN <<Gap>> ELSE <<place>>]

Merge ==
  \E how \in Hows, sort \in BOOLEAN, validate \in Validations, labelled \in {"neither", "both", "left", "right"} :
    /\ merged' = IF Validated(frames.left, frames.right, validate)
                 THEN LET rows == MergedRows(frames.left, frames.right, how, sort)
                      IN  [of |-> "merge", how |-> how, sorts |-> sort \/ how = "outer",
                           validate |-> validate, rows |-> rows, labelled |-> labelled,
                           labels |-> MergedLabels(rows, labelled)]
                 ELSE [of |-> "refused"]
    /\ UNCHANGED frames

(* The rows of one side that found no partner.                             *)
MergeAnti ==
  \E side \in {"left", "right"}, sort \in BOOLEAN :
    /\ merged' = [of |-> "anti", side |-> side,
                  rows |-> SelectSeq(MergedRows(frames.left, frames.right, side, sort),
                                     LAMBDA row : Indicated(row) = IF side = "left" THEN "left_only"
                                                                   ELSE "right_only")]
    /\ UNCHANGED frames

(* Every row beside every row, by a key that is the same on all of them.   *)
MergeCross ==
  LET constant(rows) == [i \in DOMAIN rows |-> <<1>>]
  IN  /\ merged' = [of |-> "cross", rows |-> MergedRows(constant(frames.left), constant(frames.right), "inner", FALSE)]
      /\ UNCHANGED frames

-----------------------------------------------------------------------------
(* merge_asof: the first column is the key and the second the groups.      *)

BisectLeft(keys, key) == Cardinality({i \in DOMAIN keys : keys[i] < key})
BisectRight(keys, key) == Cardinality({i \in DOMAIN keys : keys[i] <= key})

(* Slip: an equal key is looked for on the wrong side of its run.          *)
AsofBackAtFirst(keys, key, exact) == (IF exact THEN BisectLeft(keys, key) ELSE BisectRight(keys, key)) - 1

AsofBack(keys, key, exact) == (IF exact THEN BisectRight(keys, key) ELSE BisectLeft(keys, key)) - 1
AsofForth(keys, key, exact) == IF exact THEN BisectLeft(keys, key) ELSE BisectRight(keys, key)

AsofMatch(key, keys, direction, exact, tolerance) ==
  LET near(found) == found \in 0 .. Len(keys) - 1
                     /\ (tolerance = Unlimited \/ Distance(keys[found + 1], key) <= tolerance)
      back == IF direction # "forward" /\ near(AsofBack(keys, key, exact)) THEN AsofBack(keys, key, exact)
              ELSE Nowhere
      forth == IF direction # "backward" /\ near(AsofForth(keys, key, exact)) THEN AsofForth(keys, key, exact)
               ELSE Nowhere
  IN  IF back # Nowhere /\ forth # Nowhere
      THEN (IF key - keys[back + 1] <= keys[forth + 1] - key THEN back ELSE forth)
      ELSE IF back # Nowhere THEN back ELSE forth

(* The pairing is handed to merge, a left join on the matched row.         *)
AsofRows(left, right, byGroup, direction, exact, tolerance) ==
  LET rows(i) == SelectSeq([j \in DOMAIN right |-> j - 1],
                           LAMBDA j : byGroup => right[j + 1][2] = left[i][2])
      match(i) == AsofMatch(left[i][1], [k \in DOMAIN rows(i) |-> right[rows(i)[k] + 1][1]],
                            direction, exact, tolerance)
      matched == [i \in DOMAIN left |-> <<IF match(i) = Nowhere THEN Gap ELSE rows(i)[match(i) + 1]>>]
  IN  MergedRows(matched, Positioned(right), "left", FALSE)

MergeAsof ==
  \E direction \in {"backward", "forward", "nearest"}, exact, byGroup \in BOOLEAN, tolerance \in Tolerances :
    /\ byGroup => ~HasGap(frames.left, 2) /\ ~HasGap(frames.right, 2)
    /\ merged' = IF Rises(Column(frames.left, 1)) /\ Rises(Column(frames.right, 1))
                 THEN [of |-> "asof", direction |-> direction, exact |-> exact, byGroup |-> byGroup,
                       tolerance |-> tolerance,
                       rows |-> AsofRows(frames.left, frames.right, byGroup, direction, exact, tolerance)]
                 ELSE [of |-> "refused"]
    /\ UNCHANGED frames

-----------------------------------------------------------------------------
(* merge_ordered: one sorted merge on the first column, filled forward.    *)

(* Slip: a row without a match is not carried over to the next one.        *)
CarriedOnce(rows, k) == IF rows[k] = Nowhere /\ k > 1 THEN rows[k - 1] ELSE rows[k]

(* The last row of a side at or above an answer row.                       *)
Carried(rows, k) ==
  LET there == {i \in 1 .. k : rows[i] # Nowhere}
  IN  IF there = {} THEN Nowhere ELSE rows[Max(there)]

OrderedRows(rows, lefts, rights, fill) ==
  LET lrows == [k \in DOMAIN rows |-> IF rows[k].left = Nowhere THEN Nowhere ELSE lefts[rows[k].left + 1]]
      rrows == [k \in DOMAIN rows |-> IF rows[k].right = Nowhere THEN Nowhere ELSE rights[rows[k].right + 1]]
  IN  [k \in DOMAIN rows |-> [key |-> rows[k].key,
                              left |-> IF fill THEN Carried(lrows, k) ELSE lrows[k],
                              right |-> IF fill THEN Carried(rrows, k) ELSE rrows[k]]]

OrderedPair(left, right, lefts, rights, how, fill) ==
  LET keys(rows, places) == [k \in DOMAIN places |-> <<rows[places[k] + 1][1]>>]
  IN  OrderedRows(MergedRows(keys(left, lefts), keys(right, rights), how, TRUE), lefts, rights, fill)

(* One side is split by its second column, each piece merged with the rows *)
(* of the other side that share its value, or with all of them when the    *)
(* other side lacks the column, and the pieces are stacked.                *)
OrderedPieces(left, right, how, fill, by, shared) ==
  LET grouped == IF by = "left" THEN left ELSE right
      other == IF by = "left" THEN right ELSE left
      values == Column(grouped, 2)
      groups == Sorted(ToSet(values) \ {Gap}, LAMBDA a, b : FirstAt(values, a) < FirstAt(values, b))
      against(g) == IF shared THEN RowsWith(Column(other, 2), g) ELSE [j \in DOMAIN other |-> j - 1]
      alone(g) == [k \in DOMAIN RowsWith(values, g) |->
                     LET row == RowsWith(values, g)[k]
                     IN  [key |-> <<grouped[row + 1][1]>>,
                          left |-> IF by = "left" THEN row ELSE Nowhere,
                          right |-> IF by = "right" THEN row ELSE Nowhere]]
  IN  FlattenSeq([g \in DOMAIN groups |->
        IF shared /\ against(groups[g]) = <<>> THEN alone(groups[g])
        ELSE LET places(side) == IF by = side THEN RowsWith(values, groups[g]) ELSE against(groups[g])
             IN  OrderedPair(left, right, places("left"), places("right"), how, fill)])

MergeOrdered ==
  \E how \in Hows, fill, shared \in BOOLEAN, by \in {"none", "left", "right"} :
    /\ by # "none" => ToSet(Column(IF by = "left" THEN frames.left ELSE frames.right, 2)) \ {Gap} # {}
    /\ merged' = [of |-> "ordered", how |-> how, fill |-> fill, by |-> by,
                  rows |-> IF by = "none"
                           THEN OrderedPair(frames.left, frames.right, [i \in DOMAIN frames.left |-> i - 1],
                                            [j \in DOMAIN frames.right |-> j - 1], how, fill)
                           ELSE OrderedPieces(frames.left, frames.right, how, fill, by, shared)]
    /\ UNCHANGED frames

MergeInit == frames \in Frames /\ merged = NotMerged

MergeNext == merged = NotMerged /\ (Merge \/ MergeAnti \/ MergeCross \/ MergeAsof \/ MergeOrdered)

MergeSpec == MergeInit /\ [][MergeNext]_mergeVars
-----------------------------------------------------------------------------
PairsIn(rows) == {<<rows[k].left, rows[k].right>> : k \in DOMAIN rows}
OneRowEach(rows) == Cardinality(PairsIn(rows)) = Len(rows)

(* A merge pairs a missing key with a missing key and otherwise nothing it *)
(* should not, although the join below it never does: its rows are the     *)
(* join's and each is there once, under the key the sides have; an anti    *)
(* merge answers the rows without a partner and a cross merge all pairs.   *)
(* What was validated one to one multiplies no row.                        *)
MergesPairTheirRows ==
  LET left == frames.left
      right == frames.right
      rows == merged.rows
  IN  /\ merged.of \in {"merge", "anti", "cross"} => OneRowEach(rows)
      /\ merged.of = "cross" => PairsIn(rows) = {i - 1 : i \in DOMAIN left} \X {j - 1 : j \in DOMAIN right}
      /\ merged.of = "anti" =>
           PairsIn(rows) = IF merged.side = "left" THEN Lonely(left, right) \X {Nowhere}
                           ELSE {Nowhere} \X Lonely(right, left)
      /\ merged.of = "merge" =>
           /\ PairsIn(rows) = Partners(left, right, merged.how)
           /\ \A k \in DOMAIN rows : rows[k].key = KeyOf(left, right, <<rows[k].left, rows[k].right>>)
           /\ \A k \in 1 .. Len(rows) - 1 :
                /\ merged.sorts => ~KeyBefore(rows[k + 1].key, rows[k].key)
                /\ ~merged.sorts /\ merged.how \in {"left", "inner"} => rows[k].left <= rows[k + 1].left
                /\ ~merged.sorts /\ merged.how = "right" => rows[k].right <= rows[k + 1].right
           /\ merged.validate = "1:1" => \A k, n \in DOMAIN rows :
                k # n => /\ rows[k].left = rows[n].left => rows[k].left = Nowhere
                         /\ rows[k].right = rows[n].right => rows[k].right = Nowhere

(* The right rows an asof merge may put beside a left row.                 *)
InReach(i) ==
  {j \in DOMAIN frames.right :
     LET gap == frames.left[i][1] - frames.right[j][1]
     IN  /\ merged.byGroup => frames.right[j][2] = frames.left[i][2]
         /\ CASE merged.direction = "backward" -> gap >= 0 [] merged.direction = "forward" -> gap <= 0
              [] OTHER -> TRUE
         /\ gap # 0 \/ merged.exact
         /\ merged.tolerance = Unlimited \/ Distance(gap, 0) <= merged.tolerance}

(* An asof merge keeps every left row once and in order, and puts beside   *)
(* it a right row no other in reach is nearer than: of two as near the     *)
(* earlier key, of equal keys the last going back and the first going on.  *)
AsofReadsTheNearest ==
  merged.of = "asof" =>
    /\ [k \in DOMAIN merged.rows |-> merged.rows[k].left] = [i \in DOMAIN frames.left |-> i - 1]
    /\ \A i \in DOMAIN frames.left :
         LET key == frames.left[i][1]
             found == merged.rows[i].right
             far(j) == Distance(key, frames.right[j][1])
         IN  IF InReach(i) = {} THEN found = Nowhere
             ELSE /\ found + 1 \in InReach(i)
                  /\ \A j \in InReach(i) :
                       \/ far(found + 1) < far(j)
                       \/ far(found + 1) = far(j) /\
                          (CASE frames.right[found + 1][1] < frames.right[j][1] -> TRUE
                             [] frames.right[found + 1][1] > frames.right[j][1] -> FALSE
                             [] OTHER -> IF frames.right[j][1] <= key /\ merged.direction # "forward"
                                         THEN j <= found + 1 ELSE j >= found + 1)

(* A filled outer ordered merge reads each side as of the key of the row:  *)
(* the rows shown have the last key of that side at or before it, so no    *)
(* row shows what comes later and none is skipped.                         *)
OrderedReadsAsOf ==
  merged.of = "ordered" /\ merged.fill /\ merged.by = "none" /\ merged.how = "outer" =>
    \A k \in DOMAIN merged.rows :
      LET key == merged.rows[k].key[1]
          isAsOf(rows, shown) ==
            LET reached == {i \in DOMAIN rows : ~Before(key, rows[i][1])}
            IN  IF reached = {} THEN shown = Nowhere
                ELSE shown + 1 \in reached /\ \A i \in reached : ~Before(rows[shown + 1][1], rows[i][1])
      IN  isAsOf(frames.left, merged.rows[k].left) /\ isAsOf(frames.right, merged.rows[k].right)
===============================================================================
