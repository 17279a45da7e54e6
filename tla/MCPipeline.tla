----------------------------- MODULE MCPipeline -----------------------------
(***************************************************************************)
(* Instances of Pipeline: frames of no rows to three, in one chunk, in     *)
(* several, and in one too tall for a morsel, under every line of two      *)
(* operators and under the longer lines in which one operator stands       *)
(* between two that matter to each other.  A bound stands only where the   *)
(* plan writes one, on a sort whose limit is the next operator, but for    *)
(* projections.                                                            *)
(***************************************************************************)
EXTENDS Pipeline

keepOnes == [kind |-> "filter", keep |-> {1}]
failTwos == [kind |-> "compute", bad |-> {2}]
failNulls == [kind |-> "compute", bad |-> {0}]
project == [kind |-> "project"]
secondRow == [kind |-> "limit", n |-> 1, skip |-> 1, bounded |-> TRUE]
firstTwo == [kind |-> "limit", n |-> 2, skip |-> 0, bounded |-> TRUE]
noRows == [kind |-> "limit", n |-> 0, skip |-> 0, bounded |-> TRUE]
skipOne == [kind |-> "limit", n |-> 0, skip |-> 1, bounded |-> FALSE]
sortAll == [kind |-> "sort", bound |-> -1]
sortTwo == [kind |-> "sort", bound |-> 2]
reduce == [kind |-> "reduce", folds |-> FALSE]
reduceFold == [kind |-> "reduce", folds |-> TRUE]
unique == [kind |-> "unique"]
leftJoin == [kind |-> "join", build |-> <<1, 1, 0>>, keeps |-> TRUE,
             hits |-> FALSE]
rightJoin == [kind |-> "join", build |-> <<2, 1>>, keeps |-> FALSE,
              hits |-> TRUE]
beside == [kind |-> "positional", height |-> 2]

Ops1 == {keepOnes, failTwos, project, secondRow, firstTwo, skipOne, sortAll, reduceFold,
         unique, leftJoin, rightJoin, beside}

MCLines ==
  {<<>>} \cup {<<a>> : a \in Ops1}
         \cup {<<a, b>> : a \in Ops1, b \in Ops1}
         \cup {<<a, sortTwo, secondRow>> : a \in Ops1}
         \cup {<<leftJoin, rightJoin, secondRow>>, <<keepOnes, reduce>>,
               <<rightJoin, reduce, beside>>, <<failTwos, project, reduce>>,
               <<failTwos, sortAll, noRows>>, <<noRows, beside>>,
               <<sortTwo, secondRow, rightJoin>>, <<unique, secondRow, beside>>,
               <<rightJoin, failNulls, firstTwo>>, <<sortTwo, project, secondRow>>}

Heights == {<<>>, <<0>>, <<2>>, <<3>>, <<1, 2>>, <<1, 1, 1>>, <<2, 2>>}

\* A frame of these chunk heights with these keys.
Frame(heights, keys) ==
  LET before == [c \in 0 .. Len(heights) |->
                   FoldLeft(LAMBDA a, b : a + b, 0, SubSeq(heights, 1, c))]
  IN  [c \in DOMAIN heights |->
         [i \in 1 .. heights[c] |->
            [key |-> keys[before[c - 1] + i], id |-> <<before[c - 1] + i>>]]]
MCFrames ==
  {Frame(h, k) : h \in Heights \ {<<2, 2>>}, k \in [1 .. 3 -> {1, 2}]}
    \cup {Frame(<<1, 2>>, k) : k \in [1 .. 3 -> Keys]}
    \cup {Frame(<<2, 2>>, k) : k \in {<<2, 2, 1, 1>>, <<1, 2, 1, 2>>}}
-----------------------------------------------------------------------------
(***************************************************************************)
(* A node counts and holds no more than it was told to: a limit passes and *)
(* drops at most its bounds over all the batches, and a sort with a bound  *)
(* never holds more than twice the bound, or the floor, between chunks.    *)
(***************************************************************************)
NodesStayInBounds == TypeOK /\ SortHoldsABound
=============================================================================
