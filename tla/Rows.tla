-------------------------------- MODULE Rows --------------------------------
(***************************************************************************)
(* Rows, and the questions an operator of exec/node.mojo asks about them.  *)
(*                                                                         *)
(* A row is [key |-> k, id |-> ids]: the value an operator reads and which *)
(* source rows it came from.  Key 0 is the null.  An operator is a record  *)
(* whose kind says which of the parameters below it has:                   *)
(*   filter      keep     the keys the predicate is true on                *)
(*   compute     bad      the keys the expression raises on                *)
(*   project              nothing a row tells apart                        *)
(*   limit       n, skip, bounded                                          *)
(*   sort        bound    how many rows the limit above wants, or -1       *)
(*   reduce      folds    whether folds_by_morsel() says yes               *)
(*   unique                                                                *)
(*   join        build    the keys of the build side's rows                *)
(*               keeps    LEFT, OUTER: a row that pairs with none survives *)
(*               hits     RIGHT, OUTER: so does a build row                *)
(*   positional  height   the rows of the frame it holds                   *)
(***************************************************************************)
EXTENDS Integers, Sequences, SequencesExt

Null == 0
Keys == {Null, 1, 2}
KeyOrder == <<1, 2, Null>>          \* ascending, nulls last
Row == [key : Keys, id : Seq(Nat)]

Least(a, b) == IF a < b THEN a ELSE b
Most(a, b) == IF a > b THEN a ELSE b

\* The elements of a sequence at some places, in the order they came.
At(s, places) ==
  LET upto[n \in 0 .. Len(s)] ==
        IF n = 0 THEN <<>>
        ELSE IF n \in places THEN Append(upto[n - 1], s[n]) ELSE upto[n - 1]
  IN  upto[Len(s)]

WithKey(rows, keys) == At(rows, {i \in DOMAIN rows : rows[i].key \in keys})

\* The rows in key order, rows of one key in the order they came.
Sorted(rows) ==
  FlattenSeq([i \in DOMAIN KeyOrder |-> WithKey(rows, {KeyOrder[i]})])

\* The first n rows, or all of them if they are fewer.
FirstRows(rows, n) == SubSeq(rows, 1, Least(n, Len(rows)))

\* top_rows: the first n in key order, ties kept in order of position.
TopRows(rows, n) == FirstRows(Sorted(rows), n)

\* The first row of every key; a null is a key like another.
FirstOfEachKey(rows) ==
  At(rows, {i \in DOMAIN rows : \A j \in 1 .. i - 1 : rows[j].key # rows[i].key})

\* COUNT and FIRST over a column: how many values are not null, and the first.
NotNull(rows) == WithKey(rows, Keys \ {Null})
CountAndFirst(rows) ==
  LET values == NotNull(rows)
  IN  [count |-> Len(values),
       first |-> IF values = <<>> THEN Null ELSE values[1].key]
Summary(s) == <<[key |-> s.first, id |-> <<s.count>>]>>

\* The build rows a row pairs with: a null pairs with nothing.
Pairs(op, row, j) == row.key # Null /\ op.build[j] = row.key
Partners(op, row) ==
  At([j \in DOMAIN op.build |-> j], {j \in DOMAIN op.build : Pairs(op, row, j)})

\* The rows a join answers one probe row with, 0 for no build row.
Joined(op, row) ==
  LET partners == Partners(op, row)
      at == IF partners = <<>> /\ op.keeps THEN <<0>> ELSE partners
  IN  [j \in DOMAIN at |-> [key |-> row.key, id |-> Append(row.id, at[j])]]

AllJoined(op, rows) ==
  FlattenSeq([i \in DOMAIN rows |-> Joined(op, rows[i])])

Used(op, rows) ==
  {j \in DOMAIN op.build : \E i \in DOMAIN rows : Pairs(op, rows[i], j)}

\* The build rows that are not in used, their probe side null.
Unpaired(op, used) ==
  LET left == At([j \in DOMAIN op.build |-> j], DOMAIN op.build \ used)
  IN  [i \in DOMAIN left |-> [key |-> Null, id |-> <<0, left[i]>>]]

\* Rows put beside the rows of another frame from the one after seen on.
Beside(op, seen, rows) ==
  [i \in DOMAIN rows |->
     [key |-> rows[i].key,
      id  |-> Append(rows[i].id,
                     IF seen + i <= op.height THEN seen + i ELSE 0)]]

\* The rows of that frame nothing was put beside.
Leftover(op, seen) ==
  [i \in 1 .. Most(0, op.height - seen) |->
     [key |-> Null, id |-> <<0, seen + i>>]]
=============================================================================
