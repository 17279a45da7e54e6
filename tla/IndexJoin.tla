------------------------------- MODULE IndexJoin -------------------------------
(***************************************************************************)
(* The labels two indexes line up on and the position each answer row has  *)
(* on either side (src/python/firepanda/_index_join.py and Index.join of   *)
(* _pandas.py): by walking two sorted indexes, by pairing groups of equal  *)
(* labels, or by looking every label up in the other index.                *)
(***************************************************************************)
EXTENDS Reindexing, SequencesExt

CONSTANTS Sides

\* Labels are numbers, a missing one among them.
ASSUME SidesAssumption == Sides \subseteq [left : Seq(Int), right : Seq(Int)]

VARIABLES sides, joined
joinVars == <<sides, joined>>

Hows == {"left", "right", "inner", "outer"}

Whole == <<-3>>     \* the answer for a side that comes back whole, in its order
NotJoined == [how |-> "none"]

Distinct(labels) == Cardinality(ToSet(labels)) = Len(labels)
Before(a, b) == a # Gap /\ (b = Gap \/ a < b)
Opposite(how) == IF how = "left" THEN "right" ELSE IF how = "right" THEN "left" ELSE how

(* The positions, from 0, that sort the labels stably with gaps at the end. *)
Ordered(labels) ==
  LET order == Sorted(DOMAIN labels, LAMBDA i, j :
                 Before(labels[i], labels[j]) \/ (~Before(labels[j], labels[i]) /\ i < j))
  IN  [k \in DOMAIN order |-> order[k] - 1]

Taken(labels, places) == [k \in DOMAIN places |-> labels[places[k] + 1]]
IndexerFor(own, target) == Positions(own, target, "exact", Unlimited, Unlimited)

-----------------------------------------------------------------------------
(* The merge join.                                                         *)

FirstAt(labels, label) == CHOOSE i \in DOMAIN labels : labels[i] = label /\ \A j \in 1 .. i - 1 : labels[j] # label

(* The groups in the order of their labels, or as the labels are first     *)
(* seen, the right side first in an inner join of numbers; gaps are last.  *)
Groups(left, right, sort, rightFirst) ==
  LET seen == IF rightFirst THEN right \o left ELSE left \o right
  IN  Sorted(ToSet(seen), LAMBDA a, b :
        IF sort \/ a = Gap \/ b = Gap THEN Before(a, b) ELSE FirstAt(seen, a) < FirstAt(seen, b))

RowsWith(labels, label) ==
  LET found == Sorted({i \in DOMAIN labels : labels[i] = label}, <)
  IN  [k \in DOMAIN found |-> found[k] - 1]

PairsOf(ls, rs, how) ==
  LET n == Len(rs)
  IN  IF ls # <<>> /\ rs # <<>>
      THEN [k \in 1 .. Len(ls) * n |-> <<ls[((k - 1) \div n) + 1], rs[((k - 1) % n) + 1]>>]
      ELSE IF ls # <<>> /\ how \in {"left", "outer"} THEN [k \in DOMAIN ls |-> <<ls[k], Nowhere>>]
      ELSE IF rs # <<>> /\ how = "outer" THEN [k \in DOMAIN rs |-> <<Nowhere, rs[k]>>]
      ELSE <<>>

(* Slip: the shortcut is taken for any number of pairs.                    *)
RevertedAlways(pairs, leftSorted) ==
  [row \in DOMAIN leftSorted |-> pairs[CHOOSE at \in DOMAIN leftSorted : leftSorted[at] = row - 1]]

(* The pairs put back in the order of the left rows.  As many pairs as     *)
(* left rows are taken for one pair of each left row.                      *)
Reverted(pairs, leftSorted) ==
  IF Len(pairs) = Len(leftSorted)
  THEN [row \in DOMAIN pairs |-> pairs[CHOOSE at \in DOMAIN leftSorted : leftSorted[at] = row - 1]]
  ELSE LET order == Sorted(DOMAIN pairs, LAMBDA i, j :
                      pairs[i][1] < pairs[j][1] \/ (pairs[i][1] = pairs[j][1] /\ i < j))
       IN  [k \in DOMAIN order |-> pairs[order[k]]]

PairsByGroup(left, right, how, sort, numeric) ==
  LET groups == Groups(left, right, sort, how = "inner" /\ ~sort /\ numeric)
      pairs == FlattenSeq([g \in DOMAIN groups |-> PairsOf(RowsWith(left, groups[g]), RowsWith(right, groups[g]), how)])
      leftSorted == FlattenSeq([g \in DOMAIN groups |-> RowsWith(left, groups[g])])
  IN  IF how # "outer" /\ ~sort THEN Reverted(pairs, leftSorted) ELSE pairs

MergedPairs(left, right, how, sort, numeric) ==
  LET flipped(pairs) == [k \in DOMAIN pairs |-> <<pairs[k][2], pairs[k][1]>>]
  IN  IF how = "right" THEN flipped(PairsByGroup(right, left, "left", sort, numeric))
      ELSE PairsByGroup(left, right, how, sort, numeric)

-----------------------------------------------------------------------------
(* The paths of a join.                                                    *)

JoinAnswer(labels, mine, theirs) == [labels |-> labels, mine |-> mine, theirs |-> theirs]

Picked(left, right, pairs) ==
  [k \in DOMAIN pairs |-> IF pairs[k][1] # Nowhere THEN left[pairs[k][1] + 1] ELSE right[pairs[k][2] + 1]]

JoinedEmpty(left, right, how, sort) ==
  LET keep(side) ==      \* the other side has no labels
        IF how \in {side, "outer"}
        THEN LET own == IF side = "left" THEN left ELSE right
                 missing == [i \in DOMAIN own |-> Nowhere]
             IN  IF sort /\ ~Rises(own) THEN <<Taken(own, Ordered(own)), Ordered(own), missing>>
                 ELSE <<own, Whole, missing>>
        ELSE <<<<>>, <<>>, Whole>>
  IN  IF right # <<>> THEN JoinAnswer(keep("right")[1], keep("right")[3], keep("right")[2])
      ELSE JoinAnswer(keep("left")[1], keep("left")[2], keep("left")[3])

(* Two sorted indexes, one of them without repeats.                        *)
Shortened(left, right, pairs) ==
  LET shorter(found, own) == IF found = [i \in DOMAIN own |-> i - 1] THEN Whole ELSE found
      mine == shorter([k \in DOMAIN pairs |-> pairs[k][1]], left)
      theirs == shorter([k \in DOMAIN pairs |-> pairs[k][2]], right)
  IN  JoinAnswer(IF mine = Whole THEN left ELSE IF theirs = Whole THEN right
                 ELSE Picked(left, right, pairs), mine, theirs)

JoinedSorted(left, right, how) ==
  IF left = right THEN JoinAnswer(left, Whole, Whole)
  ELSE IF how = "left" /\ Distinct(right) THEN JoinAnswer(left, Whole, IndexerFor(right, left))
  ELSE IF how = "right" /\ Distinct(left) THEN JoinAnswer(right, IndexerFor(left, right), Whole)
  ELSE Shortened(left, right, MergedPairs(left, right, how, TRUE, FALSE))

JoinedMerge(left, right, how, sort) ==
  LET pairs == MergedPairs(left, right, how, sort, TRUE)
  IN  JoinAnswer(Picked(left, right, pairs), [k \in DOMAIN pairs |-> pairs[k][1]],
             [k \in DOMAIN pairs |-> pairs[k][2]])

(* Two indexes without repeats, each label looked up on both sides.        *)
JoinedLookedUp(left, right, how, sort) ==
  LET inOrder(own) == Taken(own, Ordered(own))
      shared == AtPlaces(left, {i \in DOMAIN left : left[i] \in ToSet(right)})
      every == left \o AtPlaces(right, {j \in DOMAIN right : right[j] \notin ToSet(left)})
      labels == IF how = "left" THEN left ELSE IF how = "right" THEN right
                ELSE IF how = "outer" THEN inOrder(every)
                ELSE IF sort THEN inOrder(shared) ELSE shared
  IN  IF sort /\ how = "left" THEN JoinAnswer(inOrder(left), Ordered(left), IndexerFor(right, inOrder(left)))
      ELSE IF sort /\ how = "right" THEN JoinAnswer(inOrder(right), IndexerFor(left, inOrder(right)), Ordered(right))
      ELSE JoinAnswer(labels, IF how = "left" THEN Whole ELSE IndexerFor(left, labels),
                  IF how = "right" THEN Whole ELSE IndexerFor(right, labels))

(* Indexes of two types are joined as their common type, and sort is then  *)
(* dropped.                                                                *)
Sorts(left, right, how, sort, alike) ==
  how = "outer" \/ (sort /\ (alike \/ left = <<>> \/ right = <<>>))

Joined(left, right, how, sort, alike) ==
  LET sorts == Sorts(left, right, how, sort, alike)
  IN  IF left = <<>> \/ right = <<>> THEN JoinedEmpty(left, right, how, sorts)
      ELSE IF Rises(left) /\ Rises(right) /\ (Distinct(left) \/ Distinct(right))
      THEN JoinedSorted(left, right, how)
      ELSE IF ~Distinct(left) \/ ~Distinct(right) THEN JoinedMerge(left, right, how, sorts)
      ELSE JoinedLookedUp(left, right, how, sorts)

Join ==
  \E how \in Hows, sort, alike \in BOOLEAN :
    /\ joined' = [how |-> how, sorts |-> Sorts(sides.left, sides.right, how, sort, alike),
                  answer |-> Joined(sides.left, sides.right, how, sort, alike)]
    /\ UNCHANGED sides

JoinInit == sides \in Sides /\ joined = NotJoined

JoinNext == joined = NotJoined /\ Join

JoinSpec == JoinInit /\ [][JoinNext]_joinVars
-----------------------------------------------------------------------------
(* The rows of a join: every two rows of equal labels, a gap equal to a    *)
(* gap, and the rows without a partner of the sides how keeps.             *)
Matches(left, right) ==
  {<<i - 1, j - 1>> : i \in DOMAIN left, j \in DOMAIN right} \cap
  UNION {{<<i - 1, j - 1>> : j \in {j \in DOMAIN right : right[j] = left[i]}} : i \in DOMAIN left}
Lonely(left, right) == {i - 1 : i \in {i \in DOMAIN left : left[i] \notin ToSet(right)}}
Partners(left, right, how) ==
  Matches(left, right)
  \cup (IF how \in {"left", "outer"} THEN Lonely(left, right) \X {Nowhere} ELSE {})
  \cup (IF how \in {"right", "outer"} THEN {Nowhere} \X Lonely(right, left) ELSE {})

PlacesOf(indexer, own) == IF indexer = Whole THEN [i \in DOMAIN own |-> i - 1] ELSE indexer

(* Whichever path is taken, the rows of a join are those of the join and   *)
(* each is there once, every row has the label of the rows it stands for,  *)
(* an outer or sorted join comes in label order, and an unsorted left or   *)
(* right join in the order of the side it keeps.                           *)
JoinsPairTheirRows ==
  joined # NotJoined =>
    LET answer == joined.answer
        mine == PlacesOf(answer.mine, sides.left)
        theirs == PlacesOf(answer.theirs, sides.right)
        pairs == {<<mine[k], theirs[k]>> : k \in DOMAIN mine}
    IN  /\ Len(mine) = Len(theirs) /\ Len(answer.labels) = Len(mine)
        /\ pairs = Partners(sides.left, sides.right, joined.how)
        /\ Cardinality(pairs) = Len(mine)
        /\ \A k \in DOMAIN mine :
             /\ mine[k] # Nowhere => answer.labels[k] = sides.left[mine[k] + 1]
             /\ theirs[k] # Nowhere => answer.labels[k] = sides.right[theirs[k] + 1]
        /\ \A k \in 1 .. Len(mine) - 1 :
             /\ joined.sorts => ~Before(answer.labels[k + 1], answer.labels[k])
             /\ ~joined.sorts /\ joined.how = "left" => mine[k] <= mine[k + 1]
             /\ ~joined.sorts /\ joined.how = "right" => theirs[k] <= theirs[k + 1]
===============================================================================
