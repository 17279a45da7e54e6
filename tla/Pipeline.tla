------------------------------ MODULE Pipeline ------------------------------
(***************************************************************************)
(* exec/pipeline.mojo: one run of a pipeline.                              *)
(*                                                                         *)
(* The calling thread reads the source, pushes chunks through the line and *)
(* asks the nodes to finish.  When the front of the line is row local, and *)
(* nothing can stop the source, it reads a batch at a time and the workers *)
(* run the chunks of the batch through that prefix in any order, each into *)
(* a slot of its own; the calling thread then pushes the slots through the *)
(* rest in source order, one operator a step.                              *)
(***************************************************************************)
EXTENDS Nodes, FiniteSets

CONSTANTS Lines,                    \* the lines of operators to run
          Frames,                   \* the frames to run them over, in chunks
          WorkerCount,              \* worker_count()
          BATCH_CHUNKS_PER_WORKER,
          MORSEL_ROWS

ASSUME Sizes == /\ WorkerCount \in Nat \ {0}
                /\ BATCH_CHUNKS_PER_WORKER \in Nat \ {0}
                /\ MORSEL_ROWS \in Nat \ {0}
                /\ TOPN_FLOOR \in Nat

\* A frame comes in chunks of rows.
ASSUME Inputs == /\ Lines \subseteq Seq(Operators)
                 /\ Frames \subseteq Seq(Seq(Row))

\* The limits pass and _lower_sort: a sort is given a bound for the limit that
\* cuts what it hands back, with nothing but projections between the two.
CutAbove(l, i, rows) ==
  \E j \in DOMAIN l :
     /\ j > i /\ l[j].kind = "limit" /\ l[j].bounded
     /\ l[j].skip + l[j].n <= rows
     /\ \A k \in i + 1 .. j - 1 : l[k].kind = "project"

ASSUME SortsAreCut ==
  \A l \in Lines : \A i \in DOMAIN l :
     l[i].kind = "sort" /\ l[i].bound >= 0 => CutAbove(l, i, l[i].bound)

VARIABLES line,         \* Pipeline.operators, their parameters
          given,        \* the rows of the frame
          cuttable,     \* Scan.cuttable: no column is nested
          source,       \* the chunks still to be handed out
          phase,        \* where the calling thread is
          lead,         \* how many leading operators the workers run
          nodes,        \* Pipeline.operators, what each holds
          taken,        \* the batch
          made,         \* one slot per chunk of the batch
          todo,         \* the slots no worker has taken
          lost,         \* the slots whose body raised
          at,           \* the slot being drained, or the node finishing
          hand,         \* the chunk being pushed
          pos,          \* the operator it is handed to next
          then,         \* the phase the push goes back to
          sink          \* the chunks collected

job == <<line, given, cuttable>>
batch == <<taken, made, todo, lost>>
push == <<hand, pos, then>>
vars == <<job, source, phase, lead, nodes, batch, at, push, sink>>

Ops == DOMAIN line

Init == /\ line \in Lines
        /\ source \in Frames
        /\ given = FlattenSeq(source)
        /\ cuttable \in BOOLEAN
        /\ phase = "call"
        /\ lead = 0
        /\ nodes = [i \in Ops |-> Fresh]
        /\ taken = <<>> /\ made = <<>> /\ todo = {} /\ lost = {}
        /\ at = 1
        /\ hand = <<>> /\ pos = 1 /\ then = "serial"
        /\ sink = <<>>
-----------------------------------------------------------------------------
\* Scan.cut: a chunk taller than a morsel becomes windows of a morsel each.
Pieces(chunk) ==
  [p \in 1 .. Most(1, (Len(chunk) + MORSEL_ROWS - 1) \div MORSEL_ROWS) |->
     SubSeq(chunk, (p - 1) * MORSEL_ROWS + 1,
            Least(p * MORSEL_ROWS, Len(chunk)))]
Morsels(chunks) ==
  IF cuttable THEN FlattenSeq([i \in DOMAIN chunks |-> Pieces(chunks[i])])
  ELSE chunks

\* Slip: the leading operators are handed out whatever comes after them.
PrefixLeadPastLimits ==
  LET run == {n \in 0 .. Len(line) : \A i \in 1 .. n : IsRowLocal(line[i])}
      longest == CHOOSE n \in run : \A m \in run : m <= n
  IN  IF \E i \in 1 .. longest : ComputesPerRow(line[i]) THEN longest ELSE 0

\* _prefix_lead: a limit before the first breaker can still stop the source.
PrefixLead ==
  LET run == {n \in 0 .. Len(line) : \A i \in 1 .. n : IsRowLocal(line[i])}
      longest == CHOOSE n \in run : \A m \in run : m <= n
      stops(i) == EndsEarly(line[i]) /\ \A j \in 1 .. i : ~ IsBreaker(line[j])
  IN  IF \E i \in Ops : stops(i) THEN 0
      ELSE IF \E i \in 1 .. longest : ComputesPerRow(line[i]) THEN longest
      ELSE 0

\* _parallel_lead
ParallelLead(chunks) ==
  IF WorkerCount < 2 \/ Len(chunks) < 2 THEN 0 ELSE PrefixLead

\* _folds_source and _fold_at
FoldsSource == line # <<>> /\ line[1].kind = "reduce" /\ line[1].folds
Folding == lead < Len(line) /\ line[lead + 1].kind = "reduce"

\* A call of _push with a chunk, from operator i on, and what follows it.
Push(i, chunk, next) == /\ hand' = chunk
                        /\ pos' = i
                        /\ then' = next
                        /\ phase' = "push"

\* The front half of run(): cut the source, choose the route.
Start ==
  /\ phase = "call"
  /\ source' = IF WorkerCount > 1 /\ (FoldsSource \/ PrefixLead > 0)
               THEN Morsels(source) ELSE source
  /\ lead' = ParallelLead(source')
  /\ phase' = IF \/ lead' > 0
                 \/ FoldsSource /\ WorkerCount > 1 /\ Len(source') > 1
              THEN "read" ELSE "serial"
  /\ UNCHANGED <<job, nodes, batch, at, push, sink>>

\* _finished: one finished operator makes everything before it useless.
NothingMore == \E i \in Ops : Finished(line[i], nodes[i])

SerialStep == /\ phase = "serial"
              /\ ~ NothingMore
              /\ source # <<>>
              /\ Push(1, Head(source), "serial")
              /\ source' = Tail(source)
              /\ UNCHANGED <<job, lead, nodes, batch, at, sink>>

\* Slip: an empty source does not end the loop.
SerialStopOnlyFinished ==
  /\ phase = "serial"
  /\ NothingMore
  /\ phase' = "finish"
  /\ UNCHANGED <<job, source, lead, nodes, batch, at, push, sink>>

SerialStop == /\ phase = "serial"
              /\ NothingMore \/ source = <<>>
              /\ phase' = "finish"
              /\ UNCHANGED <<job, source, lead, nodes, batch, at, push, sink>>
-----------------------------------------------------------------------------
\* _run_batched: read a few chunks per worker, or leave at the end.
ReadBatch ==
  LET count == Least(Len(source), WorkerCount * BATCH_CHUNKS_PER_WORKER)
  IN  /\ phase = "read"
      /\ count > 0
      /\ taken' = SubSeq(source, 1, count)
      /\ source' = SubSeq(source, count + 1, Len(source))
      /\ made' = [c \in 1 .. count |-> None]
      /\ todo' = 1 .. count
      /\ phase' = "head"
      /\ UNCHANGED <<job, lead, nodes, lost, at, push, sink>>

SourceDone == /\ phase = "read"
              /\ source = <<>>
              /\ phase' = "finish"
              /\ UNCHANGED <<job, source, lead, nodes, batch, at, push, sink>>

\* _apply_prefix: one chunk through the leading operators, which are shared.
Prefix(chunk) ==
  LET through[j \in 0 .. lead] ==
        IF j = 0 THEN Emit(Fresh, Some(chunk))
        ELSE IF through[j - 1].raised \/ through[j - 1].out = None
        THEN through[j - 1]
        ELSE Apply(line[j], nodes[j], through[j - 1].out[1])
  IN  through[lead]

\* A worker of parallel_morsels runs the body of _run_head on one chunk.
Crew == Least(Len(taken), WorkerCount)
RunHead(c) ==
  /\ phase = "head"
  /\ c \in todo
  /\ Cardinality(lost) < Crew
  /\ \E r \in {Prefix(taken[c])} :
        /\ todo' = todo \ {c}
        /\ lost' = IF r.raised THEN lost \cup {c} ELSE lost
        /\ made' = [made EXCEPT ![c] = IF Folding /\ r.out # None
                                       THEN Partial(r.out[1]) ELSE r.out]
  /\ UNCHANGED <<job, source, phase, lead, nodes, taken, at, push, sink>>

\* Every chunk has been run, or every worker has left with a failure.
HeadOver == todo = {} \/ Cardinality(lost) = Crew

HeadRaises == /\ phase = "head"
              /\ HeadOver
              /\ lost # {}
              /\ phase' = "failed"
              /\ UNCHANGED <<job, source, lead, nodes, batch, at, push, sink>>

HeadReturns == /\ phase = "head"
               /\ HeadOver
               /\ lost = {}
               /\ phase' = "drain"
               /\ at' = 1
               /\ UNCHANGED <<job, source, lead, nodes, batch, push, sink>>

\* Slip: the slots are drained from the last to the first.
DrainBackwards ==
  LET slot == made[Len(made) + 1 - at]
      next == IF at = Len(made) THEN "read" ELSE "drain"
  IN  /\ phase = "drain"
      /\ at' = IF at = Len(made) THEN 1 ELSE at + 1
      /\ IF slot # None /\ ~ Folding
         THEN Push(lead + 1, slot[1], next) /\ UNCHANGED nodes
         ELSE /\ nodes' = IF slot = None THEN nodes
                          ELSE [nodes EXCEPT ![lead + 1] = Absorb(@, slot[1])]
              /\ phase' = next
              /\ UNCHANGED push
      /\ UNCHANGED <<job, source, lead, batch, sink>>

\* What came out of the prefix is merged, or pushed on, in source order.
Drain ==
  LET slot == made[at]
      next == IF at = Len(made) THEN "read" ELSE "drain"
  IN  /\ phase = "drain"
      /\ at' = IF at = Len(made) THEN 1 ELSE at + 1
      /\ IF slot # None /\ ~ Folding
         THEN Push(lead + 1, slot[1], next) /\ UNCHANGED nodes
         ELSE /\ nodes' = IF slot = None THEN nodes
                          ELSE [nodes EXCEPT ![lead + 1] = Absorb(@, slot[1])]
              /\ phase' = next
              /\ UNCHANGED push
      /\ UNCHANGED <<job, source, lead, batch, sink>>
-----------------------------------------------------------------------------
\* _push: the chunk goes through the operators until one swallows it.
PushNode ==
  /\ phase = "push"
  /\ pos \in Ops
  /\ \E r \in {Process(line[pos], nodes[pos], hand)} :
        /\ nodes' = [nodes EXCEPT ![pos] = r.node]
        /\ phase' = IF r.raised THEN "failed"
                    ELSE IF r.out = None THEN then ELSE "push"
        /\ hand' = IF r.out = None THEN <<>> ELSE r.out[1]
  /\ pos' = pos + 1
  /\ UNCHANGED <<job, source, lead, batch, at, then, sink>>

PushSink == /\ phase = "push"
            /\ pos \notin Ops
            /\ sink' = Append(sink, hand)
            /\ hand' = <<>>
            /\ phase' = then
            /\ UNCHANGED <<job, source, lead, nodes, batch, at, pos, then>>
-----------------------------------------------------------------------------
\* The back half of run(): each node in turn gives up what it held.
FinishNode ==
  /\ phase = "finish"
  /\ at \in Ops
  /\ \E r \in {Finish(line[at], nodes[at])} :
        /\ nodes' = [nodes EXCEPT ![at] = r.node]
        /\ IF r.out = None
           THEN at' = at + 1 /\ UNCHANGED <<phase, push>>
           ELSE Push(at + 1, r.out[1], "finish") /\ UNCHANGED at
  /\ UNCHANGED <<job, source, lead, batch, sink>>

Return == /\ phase = "finish"
          /\ at \notin Ops
          /\ phase' = "answered"
          /\ UNCHANGED <<job, source, lead, nodes, batch, at, push, sink>>

Next == \/ Start
        \/ SerialStep
        \/ SerialStop
        \/ ReadBatch
        \/ SourceDone
        \/ \E c \in DOMAIN taken : RunHead(c)
        \/ HeadRaises
        \/ HeadReturns
        \/ Drain
        \/ PushNode
        \/ PushSink
        \/ FinishNode
        \/ Return

Spec == Init /\ [][Next]_vars

\* The calling thread and its workers run as long as they have something to do.
FairSpec == Spec /\ WF_vars(Next)
-----------------------------------------------------------------------------
Ended == phase \in {"answered", "failed"}

\* The driver is where it can be, and a limit never counts past its bounds.
TypeOK ==
  /\ phase \in {"call", "serial", "read", "head", "drain", "push",
                "finish", "answered", "failed"}
  /\ lead \in 0 .. Len(line)
  /\ then \in {"serial", "read", "drain", "finish"}
  /\ pos \in 1 .. Len(line) + 1
  /\ at \in 1 .. Most(Len(line), Len(made)) + 1
  /\ Len(made) = Len(taken) /\ todo \cup lost \subseteq DOMAIN made
  /\ \A i \in Ops : line[i].kind = "limit" =>
        /\ nodes[i].dropped <= line[i].skip
        /\ line[i].bounded => nodes[i].emitted <= line[i].n

\* A sort with a bound never holds more than twice the bound, or the floor,
\* between two chunks, however many rows the source has.
SortHoldsABound ==
  \A i \in Ops : line[i].kind = "sort" /\ line[i].bound >= 0 =>
     Len(nodes[i].held) <= Most(2 * line[i].bound, TOPN_FLOOR)

\* A limit no breaker stands before stops the source: once it has what it was
\* asked for, no further chunk is read and none is cut, by whichever route the
\* line is run.
LimitStopsTheSource ==
  [][source' # source =>
       ~ \E i \in Ops : /\ EndsEarly(line[i])
                        /\ \A j \in 1 .. i : ~ IsBreaker(line[j])
                        /\ Finished(line[i], nodes[i])]_vars

\* Every run ends.
EventuallyEnds == <>Ended

\* The parallel route, the serial route, early stops and compaction all give
\* the answer of the line over the rows as one sequence.
Query == INSTANCE RowQuery
           WITH outcome <- IF Ended THEN phase ELSE "running",
                answer <- IF phase = "answered" THEN FlattenSeq(sink) ELSE <<>>
ImplementsRowQuery == Query!Spec
=============================================================================
