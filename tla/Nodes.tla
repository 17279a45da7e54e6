------------------------------- MODULE Nodes --------------------------------
(***************************************************************************)
(* exec/node.mojo: what a node holds, what it does with a chunk and what   *)
(* it hands back at the end.                                               *)
(*                                                                         *)
(* A chunk is a sequence of rows; an Optional[Chunk] is a sequence of at   *)
(* most one chunk.  Everything a node writes is in one record, so that a   *)
(* node is a function of its record and the chunk.  The operators modelled *)
(* stand for their families: filter, compute, project and a join without   *)
(* hits for every row local node, unique for every node that holds its     *)
(* input and computes the answer of it whole.                              *)
(***************************************************************************)
EXTENDS Integers, Sequences, SequencesExt, Rows

CONSTANT TOPN_FLOOR     \* the rows a bounded sort holds before it compacts

None == <<>>
Some(chunk) == <<chunk>>

\* The operators of exec/node.mojo, by the parameters they are made with.
Operators ==
  [kind : {"filter"}, keep : SUBSET Keys]
    \cup [kind : {"compute"}, bad : SUBSET Keys]
    \cup [kind : {"project", "unique"}]
    \cup [kind : {"limit"}, n : Nat, skip : Nat, bounded : BOOLEAN]
    \cup [kind : {"sort"}, bound : Int]
    \cup [kind : {"reduce"}, folds : BOOLEAN]
    \cup [kind : {"join"}, build : Seq(Keys), keeps : BOOLEAN, hits : BOOLEAN]
    \cup [kind : {"positional"}, height : Nat]

\* A node nothing has gone through.
Fresh == [emitted |-> 0,        \* Limit
          dropped |-> 0,
          held    |-> <<>>,     \* Sort, Unique: the rows kept
          sizes   |-> <<>>,     \* Sort: the heights of the chunks that came
          output  |-> <<>>,     \* Sort, Unique: the chunks to hand back
          ran     |-> FALSE,    \* breakers; Join._drained
          state   |-> None,     \* Reduce: the running answer, once started
          used    |-> {},       \* Join._hit
          seen    |-> 0]        \* Positional._seen

\* What a call leaves: the node, what it emits, and whether it raised.
Emit(node, out) == [node |-> node, out |-> out, raised |-> FALSE]
Raise(node) == [node |-> node, out |-> None, raised |-> TRUE]

LimitReached(op, node) == op.bounded /\ node.emitted >= op.n

\* Limit.process
LimitProcess(op, node, chunk) ==
  IF LimitReached(op, node) THEN Emit(node, None)
  ELSE LET start == Least(op.skip - node.dropped, Len(chunk))
           passed == [node EXCEPT !.dropped = @ + start]
           rest == Len(chunk) - start
           take == IF op.bounded THEN Least(rest, op.n - node.emitted) ELSE rest
       IN  IF op.skip > node.dropped /\ start = Len(chunk)
           THEN Emit(passed, None)
           ELSE Emit([passed EXCEPT !.emitted = @ + take],
                     Some(SubSeq(chunk, start + 1, start + take)))

\* Slip: the sort compacts only when the rows it held before were too many.
SortProcessLate(op, node, chunk) ==
  LET all == node.held \o chunk
      over == op.bound >= 0 /\ Len(node.held) > Most(2 * op.bound, TOPN_FLOOR)
  IN  Emit([node EXCEPT !.sizes = Append(@, Len(chunk)),
                        !.held = IF over THEN TopRows(all, op.bound) ELSE all],
           None)

\* Sort.process and _compact
SortProcess(op, node, chunk) ==
  LET all == node.held \o chunk
      over == op.bound >= 0 /\ Len(all) > Most(2 * op.bound, TOPN_FLOOR)
  IN  Emit([node EXCEPT !.sizes = Append(@, Len(chunk)),
                        !.held = IF over THEN TopRows(all, op.bound) ELSE all],
           None)

\* The rows of a sort cut at some heights, as far as they go.
CutAt(sizes) ==
  LET before[c \in 0 .. Len(sizes)] ==
        IF c = 0 THEN 0 ELSE before[c - 1] + sizes[c]
  IN  [rows \in Seq(Row) |->
         At([c \in DOMAIN sizes |->
               SubSeq(rows, before[c - 1] + 1, Least(before[c], Len(rows)))],
            {c \in DOMAIN sizes : before[c - 1] < Len(rows)})]

\* Sort._order: the sorted rows, cut at the heights the input had.
SortedChunks(op, node) ==
  CutAt(node.sizes)[IF op.bound >= 0 /\ op.bound < Len(node.held)
                    THEN TopRows(node.held, op.bound)
                    ELSE Sorted(node.held)]

\* Reduce.partial: nothing for a chunk of no rows.
Partial(chunk) == IF chunk = <<>> THEN None ELSE <<CountAndFirst(chunk)>>

\* Reduce.absorb: counts are added, the first value that is not null stays.
Absorb(node, p) ==
  LET s == node.state[1]
  IN  [node EXCEPT !.state =
         IF @ = None THEN <<p>>
         ELSE <<[count |-> s.count + p.count,
                 first |-> IF s.first # Null THEN s.first ELSE p.first]>>]

\* Reduce.process
ReduceProcess(node, chunk) ==
  LET p == Partial(chunk)
  IN  Emit(IF p = None THEN node ELSE Absorb(node, p[1]), None)

\* Join.process and track: a chunk that pairs with nothing is not handed on.
JoinProcess(op, node, chunk) ==
  LET rows == AllJoined(op, chunk)
  IN  Emit([node EXCEPT !.used = IF op.hits THEN @ \cup Used(op, chunk) ELSE @],
           IF rows = <<>> THEN None ELSE Some(rows))

\* Positional.process
PositionalProcess(op, node, chunk) ==
  IF chunk = <<>> THEN Emit(node, None)
  ELSE Emit([node EXCEPT !.seen = @ + Len(chunk)],
            Some(Beside(op, node.seen, chunk)))

\* node_process
Process(op, node, chunk) ==
  CASE op.kind = "filter" ->
         LET rows == WithKey(chunk, op.keep)
         IN  Emit(node, IF rows = <<>> THEN None ELSE Some(rows))
    [] op.kind = "compute" ->
         IF \E i \in DOMAIN chunk : chunk[i].key \in op.bad
         THEN Raise(node) ELSE Emit(node, Some(chunk))
    [] op.kind = "project" -> Emit(node, Some(chunk))
    [] op.kind = "limit" -> LimitProcess(op, node, chunk)
    [] op.kind = "sort" -> SortProcess(op, node, chunk)
    [] op.kind = "reduce" -> ReduceProcess(node, chunk)
    [] op.kind = "unique" ->
         Emit([node EXCEPT !.held = @ \o chunk], None)
    [] op.kind = "join" -> JoinProcess(op, node, chunk)
    [] op.kind = "positional" -> PositionalProcess(op, node, chunk)

\* Hands back the next chunk of the output, if there is one.
Pop(node) == IF node.output = <<>> THEN Emit(node, None)
             ELSE Emit([node EXCEPT !.output = Tail(@)], Some(Head(node.output)))

\* A breaker computes its output the first time it is asked.
Settled(node, chunks) ==
  IF node.ran THEN node
  ELSE [node EXCEPT !.ran = TRUE, !.output = chunks, !.held = <<>>]

\* Join.finish
JoinFinish(op, node) ==
  LET rows == Unpaired(op, node.used)
  IN  IF ~ op.hits \/ node.ran THEN Emit(node, None)
      ELSE Emit([node EXCEPT !.ran = TRUE],
                IF rows = <<>> THEN None ELSE Some(rows))

\* node_finish
Finish(op, node) ==
  CASE op.kind = "sort" -> Pop(Settled(node, SortedChunks(op, node)))
    [] op.kind = "unique" ->
         Pop(Settled(node, Some(FirstOfEachKey(node.held))))
    [] op.kind = "reduce" ->
         IF node.ran THEN Emit(node, None)
         ELSE Emit([node EXCEPT !.ran = TRUE, !.state = None],
                   Some(Summary(IF node.state = None THEN CountAndFirst(<<>>)
                                ELSE node.state[1])))
    [] op.kind = "join" -> JoinFinish(op, node)
    [] op.kind = "positional" ->
         LET rows == Leftover(op, node.seen)
         IN  IF rows = <<>> THEN Emit(node, None)
             ELSE Emit([node EXCEPT !.seen = op.height], Some(rows))
    [] OTHER -> Emit(node, None)

\* node_status is FINISHED
Finished(op, node) ==
  CASE op.kind = "limit" -> LimitReached(op, node)
    [] op.kind \in {"sort", "unique"} -> node.ran /\ node.output = <<>>
    [] op.kind = "reduce" -> node.ran
    [] OTHER -> FALSE

\* node_ends_early, node_is_breaker, node_computes_per_row
EndsEarly(op) == op.kind = "limit"
IsBreaker(op) == op.kind \in {"sort", "reduce", "unique"}
ComputesPerRow(op) == op.kind \in {"filter", "compute", "join"}

\* Slip: a join that notes the build rows it used counts as row local.
IsRowLocalAnyJoin(op) == op.kind \in {"filter", "compute", "project", "join"}

\* node_is_row_local
IsRowLocal(op) == \/ op.kind \in {"filter", "compute", "project"}
                  \/ op.kind = "join" /\ ~ op.hits

\* node_apply: refuses a node that carries state between chunks.
Apply(op, node, chunk) ==
  IF op.kind \in {"filter", "compute", "project"}
     \/ (op.kind = "join" /\ ~ op.hits)
  THEN Process(op, node, chunk)
  ELSE Raise(node)
=============================================================================
