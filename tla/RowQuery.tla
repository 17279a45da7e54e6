------------------------------ MODULE RowQuery ------------------------------
(***************************************************************************)
(* What a line of operators promises: the answer it gives over the rows as *)
(* one sequence, whatever chunks they came in, whatever order the machine  *)
(* worked on them in and however many of them were never read.  A line may *)
(* fail only if an expression raises on a row that reaches it, of all the  *)
(* rows or of as many from the front as are enough for the answer.         *)
(***************************************************************************)
EXTENDS Integers, Sequences, Rows

VARIABLES line,         \* the operators
          given,        \* the rows of the source
          outcome,      \* "running", "answered" or "failed"
          answer        \* the rows answered

\* One operator over all of its input at once.  A bound on a sort is only an
\* opportunity: the limit above it does the cutting.
Whole(op) ==
  [rows \in Seq(Row) |->
     CASE op.kind = "filter" -> WithKey(rows, op.keep)
       [] op.kind \in {"compute", "project"} -> rows
       [] op.kind = "limit" ->
            SubSeq(rows, op.skip + 1,
                   IF op.bounded THEN Least(Len(rows), op.skip + op.n)
                                 ELSE Len(rows))
       [] op.kind = "sort" -> Sorted(rows)
       [] op.kind = "reduce" -> Summary(CountAndFirst(rows))
       [] op.kind = "unique" -> FirstOfEachKey(rows)
       [] op.kind = "join" ->
            AllJoined(op, rows)
              \o (IF op.hits THEN Unpaired(op, Used(op, rows)) ELSE <<>>)
       [] op.kind = "positional" ->
            Beside(op, 0, rows) \o Leftover(op, Len(rows))]

\* The rows after each operator, given those before the first.
After(rows) ==
  LET after[i \in 0 .. Len(line)] ==
        IF i = 0 THEN rows ELSE Whole(line[i])[after[i - 1]]
  IN  after

Answers(rows) == After(rows)[Len(line)]

Raises(rows) ==
  LET after == After(rows)
  IN  \E i \in DOMAIN line :
        /\ line[i].kind = "compute"
        /\ \E j \in DOMAIN after[i - 1] : after[i - 1][j].key \in line[i].bad

Init == outcome = "running" /\ answer = <<>>

\* So many of the rows are enough for the answer.
Enough(n) == Answers(SubSeq(given, 1, n)) = Answers(given)

\* Nothing raises on rows that are enough.
Answer == /\ outcome = "running"
          /\ outcome' = "answered"
          /\ answer' = Answers(given)
          /\ \E n \in 0 .. Len(given) :
                Enough(n) /\ ~ Raises(SubSeq(given, 1, n))
          /\ UNCHANGED <<line, given>>

\* An expression raises on rows that are enough, on all of them if need be.
Fail == /\ outcome = "running"
        /\ outcome' = "failed"
        /\ \E n \in 0 .. Len(given) :
              Enough(n) /\ Raises(SubSeq(given, 1, n))
        /\ UNCHANGED <<line, given, answer>>

Next == Answer \/ Fail

Spec == Init /\ [][Next]_<<line, given, outcome, answer>>
=============================================================================
