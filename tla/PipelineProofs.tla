--------------------------- MODULE PipelineProofs ---------------------------
(***************************************************************************)
(* Proofs about Pipeline for any lines of operators, frames, workers and   *)
(* batches.                                                                *)
(*                                                                         *)
(* Nodes stay in their bounds.  The invariant types everything the driver  *)
(* holds: what a node can be (Shapes), what it can be for its operator     *)
(* (Fits), what a slot of the batch can be, and where "at" points in each  *)
(* phase.  Whatever an operator does leaves a node that fits it            *)
(* (ProcessLeaves, FinishLeaves), which rests on what the operators on     *)
(* rows return; those are recursive functions, and what they return is     *)
(* proved by induction over a length (NatSets).                            *)
(*                                                                         *)
(* A limit stops the source by whichever route the line is run.  The       *)
(* serial route asks before each chunk.  The batched one never asks: it is *)
(* sound because a line it is taken for has no limit that could answer,    *)
(* and neither has a line whose source is cut.                             *)
(*                                                                         *)
(* A pipeline implements RowQuery.  Gives says which rows a node has still *)
(* to give if certain rows come and no more; what an operator does over    *)
(* all its rows is what it would give from the start.  A node that takes a *)
(* chunk gives now what it has then no longer to give (ProcessFlows), and  *)
(* so does one that is asked to finish (FinishFlows).  So the invariant    *)
(* (FInv) need only say that rows were taken by each operator, such that   *)
(* what it handed on and what it has still to give are what it does to     *)
(* them, and that those the first took are the front of the frame.  What   *)
(* the workers left in a slot is its chunk through the leading operators,  *)
(* which keep nothing: draining it is those operators taking the chunk.    *)
(* Two things are not as RowQuery has them until the end: a sort with a    *)
(* bound gives fewer rows, made good by the limit above (FlowAfter), and   *)
(* of a source that was stopped only a front was read (FrontIsEnough).     *)
(***************************************************************************)
EXTENDS MCPipeline, TLAPS, SequenceTheorems, FiniteSetTheorems, WellFoundedInduction

(* Induction over the naturals, for a set in the place of a predicate. *)
LEMMA NatSets ==
  ASSUME NEW S, 0 \in S, \A k \in Nat : k \in S => k + 1 \in S
  PROVE  \A k \in Nat : k \in S
<1> DEFINE T == {k \in Nat : k \notin S}
<1>1. SUFFICES ASSUME T # {} PROVE FALSE
  OBVIOUS
<1>2. PICK m \in T : \A k \in T : ~ (k < m)
  <2> DEFINE R == {ss \in Nat \X Nat : ss[1] < ss[2]}
  <2>1. IsWellFoundedOn(R, Nat)
    BY NatLessThanWellFounded DEF OpToRel
  <2>2. \A x, y \in Nat : x < y => <<x, y>> \in R
    OBVIOUS
  <2> HIDE DEF R
  <2>3. \E x \in T : \A y \in T : ~ (<<y, x>> \in R)
    BY <1>1, <2>1, WFMin DEF R
  <2>4. QED
    BY <2>2, <2>3
<1>3. m # 0 /\ m - 1 \in Nat /\ m - 1 \notin S
  BY <1>2
<1>4. QED
  BY <1>2, <1>3
-----------------------------------------------------------------------------
(* Sequences of sequences end to end. *)

\* f runs through the first n of them.
Flattens(seqs, n, f) ==
  f = [i \in 1 .. n |-> IF i = 1 THEN seqs[i] ELSE f[i - 1] \o seqs[i]]

LEMMA FlattensOn ==
  ASSUME NEW seqs, NEW n, NEW f, Flattens(seqs, n, f), NEW i \in 1 .. n
  PROVE  f[i] = IF i = 1 THEN seqs[i] ELSE f[i - 1] \o seqs[i]
BY Zenon DEF Flattens

LEMMA FlattenGoes ==
  ASSUME NEW seqs, Len(seqs) \in Nat \ {0}
  PROVE  \E f : /\ Flattens(seqs, Len(seqs), f)
                /\ FlattenSeq(seqs) = f[Len(seqs)]
<1> DEFINE K == {n \in Nat : \E f : Flattens(seqs, n, f)}
<1>1. 0 \in K
  <2>1. Flattens(seqs, 0, [i \in 1 .. 0 |-> 0])
    BY DEF Flattens
  <2>2. QED
    BY <2>1
<1>2. \A k \in Nat : k \in K => k + 1 \in K
  <2>1. SUFFICES ASSUME NEW k \in Nat, k \in K
                 PROVE  \E f : Flattens(seqs, k + 1, f)
    OBVIOUS
  <2>2. PICK f : Flattens(seqs, k, f)
    BY <2>1
  <2> DEFINE g == [i \in 1 .. k + 1 |->
                     IF i = 1 THEN seqs[i] ELSE f[i - 1] \o seqs[i]]
  <2>3. \A i \in 1 .. k : g[i] = f[i]
    BY <2>2, FlattensOn
  <2>4. \A i \in 1 .. k + 1 : i # 1 => i - 1 \in 1 .. k
    OBVIOUS
  <2>5. g = [i \in 1 .. k + 1 |->
               IF i = 1 THEN seqs[i] ELSE g[i - 1] \o seqs[i]]
    BY <2>3, <2>4
  <2>6. Flattens(seqs, k + 1, g)
    BY <2>5 DEF Flattens
  <2>7. QED
    BY <2>6
<1> HIDE DEF K
<1>3. Len(seqs) \in K
  BY <1>1, <1>2, NatSets
<1>4. \E f : Flattens(seqs, Len(seqs), f)
  BY <1>3 DEF K
<1> DEFINE h == CHOOSE f : Flattens(seqs, Len(seqs), f)
<1>5. Flattens(seqs, Len(seqs), h)
  BY <1>4
<1>6. FlattenSeq(seqs) = h[Len(seqs)]
  BY DEF FlattenSeq, Flattens
<1>7. QED
  BY <1>5, <1>6

LEMMA FlattenNone == FlattenSeq(<<>>) = <<>>
  BY DEF FlattenSeq

\* One sequence more is put at the end.
LEMMA FlattenMore ==
  ASSUME NEW S, NEW seqs \in Seq(Seq(S)), NEW s \in Seq(S)
  PROVE  FlattenSeq(Append(seqs, s)) = FlattenSeq(seqs) \o s
<1> DEFINE n == Len(seqs)
           more == Append(seqs, s)
<1>1. /\ more \in Seq(Seq(S)) /\ Len(more) = n + 1 /\ n \in Nat
      /\ \A i \in 1 .. n : more[i] = seqs[i]
      /\ more[n + 1] = s
  BY AppendProperties
<1> HIDE DEF n, more
<1>2. PICK g : Flattens(more, n + 1, g) /\ FlattenSeq(more) = g[n + 1]
  BY <1>1, FlattenGoes
<1>3. CASE n = 0
  <2>1. seqs = <<>>
    BY <1>3 DEF n
  <2>2. FlattenSeq(seqs) = <<>>
    BY <2>1, FlattenNone
  <2>3. g[n + 1] = more[n + 1]
    BY <1>2, <1>3, FlattensOn
  <2>4. QED
    <3>1. FlattenSeq(more) = s
      BY <1>1, <1>2, <2>3
    <3>2. <<>> \o s = s
      BY ConcatEmptySeq
    <3>3. QED
      BY <2>2, <3>1, <3>2 DEF more
<1>4. CASE n # 0
  <2>1. PICK f : Flattens(seqs, n, f) /\ FlattenSeq(seqs) = f[n]
    BY <1>1, <1>4, FlattenGoes DEF n
  <2> DEFINE K == {k \in Nat : k \in 1 .. n => g[k] = f[k]}
  <2>2. 0 \in K
    OBVIOUS
  <2>3. \A k \in Nat : k \in K => k + 1 \in K
    <3>1. SUFFICES ASSUME NEW k \in Nat, k \in K, k + 1 \in 1 .. n
                   PROVE  g[k + 1] = f[k + 1]
      OBVIOUS
    <3> DEFINE m == k + 1
    <3>0. m \in 1 .. n /\ m \in 1 .. n + 1 /\ m - 1 = k
      BY <1>1, <3>1
    <3> HIDE DEF m
    <3>2. /\ g[m] = IF m = 1 THEN more[m] ELSE g[m - 1] \o more[m]
          /\ f[m] = IF m = 1 THEN seqs[m] ELSE f[m - 1] \o seqs[m]
      BY <3>0, <1>2, <2>1, FlattensOn
    <3>3. more[m] = seqs[m]
      BY <3>0, <1>1
    <3>4. m # 1 => g[m - 1] = f[m - 1]
      <4>1. m # 1 => k \in 1 .. n
        BY <1>1, <3>0
      <4>2. QED
        BY <3>0, <3>1, <4>1
    <3>5. g[m] = f[m]
      BY <3>2, <3>3, <3>4
    <3>6. QED
      BY <3>5 DEF m
  <2> HIDE DEF K
  <2>4. g[n] = f[n]
    <3>1. n \in K
      BY <1>1, <2>2, <2>3, NatSets
    <3>2. QED
      BY <1>1, <1>4, <3>1 DEF K
  <2>5. g[n + 1] = g[n] \o more[n + 1]
    <3> DEFINE m == n + 1
    <3>1. m \in 1 .. m /\ m # 1 /\ m - 1 = n /\ Flattens(more, m, g)
      BY <1>1, <1>2, <1>4
    <3> HIDE DEF m
    <3>2. g[m] = g[m - 1] \o more[m]
      <4>1. m \in 1 .. m /\ Flattens(more, m, g)
        BY <3>1
      <4>2. g[m] = IF m = 1 THEN more[m] ELSE g[m - 1] \o more[m]
        BY ONLY <4>1, FlattensOn
      <4>3. QED
        BY <3>1, <4>2
    <3>3. g[m] = g[n] \o more[m]
      BY <3>1, <3>2
    <3>4. QED
      BY <3>3 DEF m
  <2>6. QED
    BY <1>1, <1>2, <2>1, <2>4, <2>5 DEF more
<1>5. QED
  BY <1>3, <1>4 DEF more

\* Every sequence is empty or a shorter one with an element more.
LEMMA ShorterByOne ==
  ASSUME NEW S, NEW k \in Nat, NEW seq \in Seq(S), Len(seq) = k + 1
  PROVE  \E s \in Seq(S), e \in S : seq = Append(s, e) /\ Len(s) = k
<1>1. seq # <<>>
  OBVIOUS
<1>2. PICK s \in Seq(S), e \in S : seq = Append(s, e)
  BY <1>1, SequenceEmptyOrAppend
<1>3. Len(s) = k
  BY <1>2, AppendProperties
<1>4. QED
  BY <1>2, <1>3

LEMMA FlattenIs ==
  ASSUME NEW S, NEW seqs \in Seq(Seq(S))
  PROVE  FlattenSeq(seqs) \in Seq(S)
<1> DEFINE K == {n \in Nat : \A ss \in Seq(Seq(S)) :
                               Len(ss) = n => FlattenSeq(ss) \in Seq(S)}
<1>1. 0 \in K
  BY FlattenNone
<1>2. \A k \in Nat : k \in K => k + 1 \in K
  <2>1. SUFFICES ASSUME NEW k \in Nat, k \in K,
                        NEW ss \in Seq(Seq(S)), Len(ss) = k + 1
                 PROVE  FlattenSeq(ss) \in Seq(S)
    OBVIOUS
  <2>2. PICK rest \in Seq(Seq(S)), s \in Seq(S) : ss = Append(rest, s) /\ Len(rest) = k
    BY <2>1, ShorterByOne
  <2>3. FlattenSeq(rest) \in Seq(S)
    BY <2>1, <2>2
  <2>4. QED
    BY <2>2, <2>3, FlattenMore, ConcatProperties
<1> HIDE DEF K
<1>3. Len(seqs) \in K
  BY <1>1, <1>2, NatSets
<1>4. QED
  BY <1>3 DEF K
-----------------------------------------------------------------------------
(* The elements of a sequence at some places. *)

\* f gathers those among the first n.
Gathers(s, places, n, f) ==
  f = [i \in 0 .. n |-> IF i = 0 THEN <<>>
                        ELSE IF i \in places THEN Append(f[i - 1], s[i])
                        ELSE f[i - 1]]

LEMMA GathersOn ==
  ASSUME NEW s, NEW places, NEW n, NEW f, Gathers(s, places, n, f), NEW i \in 0 .. n
  PROVE  f[i] = IF i = 0 THEN <<>>
                ELSE IF i \in places THEN Append(f[i - 1], s[i])
                ELSE f[i - 1]
BY Zenon DEF Gathers

LEMMA AtGoes ==
  ASSUME NEW s, NEW places, Len(s) \in Nat
  PROVE  \E f : Gathers(s, places, Len(s), f) /\ At(s, places) = f[Len(s)]
<1> DEFINE K == {n \in Nat : \E f : Gathers(s, places, n, f)}
<1>1. 0 \in K
  <2>1. Gathers(s, places, 0, [i \in 0 .. 0 |-> <<>>])
    BY DEF Gathers
  <2>2. QED
    BY <2>1
<1>2. \A k \in Nat : k \in K => k + 1 \in K
  <2>1. SUFFICES ASSUME NEW k \in Nat, k \in K
                 PROVE  \E f : Gathers(s, places, k + 1, f)
    OBVIOUS
  <2>2. PICK f : Gathers(s, places, k, f)
    BY <2>1
  <2> DEFINE g == [i \in 0 .. k + 1 |->
                     IF i = 0 THEN <<>>
                     ELSE IF i \in places THEN Append(f[i - 1], s[i])
                     ELSE f[i - 1]]
  <2>3. \A i \in 0 .. k : g[i] = f[i]
    BY <2>2, GathersOn
  <2>4. \A i \in 0 .. k + 1 : i # 0 => i - 1 \in 0 .. k
    OBVIOUS
  <2>5. g = [i \in 0 .. k + 1 |->
               IF i = 0 THEN <<>>
               ELSE IF i \in places THEN Append(g[i - 1], s[i])
               ELSE g[i - 1]]
    BY <2>3, <2>4
  <2>6. Gathers(s, places, k + 1, g)
    BY <2>5 DEF Gathers
  <2>7. QED
    BY <2>6
<1> HIDE DEF K
<1>3. Len(s) \in K
  BY <1>1, <1>2, NatSets
<1>4. \E f : Gathers(s, places, Len(s), f)
  BY <1>3 DEF K
<1> DEFINE h == CHOOSE f : Gathers(s, places, Len(s), f)
<1>5. Gathers(s, places, Len(s), h)
  BY <1>4
<1>6. At(s, places) = h[Len(s)]
  BY DEF At, Gathers
<1>7. QED
  BY <1>5, <1>6

LEMMA AtNone ==
  ASSUME NEW places
  PROVE  At(<<>>, places) = <<>>
<1>1. Len(<<>>) = 0
  OBVIOUS
<1>2. PICK f : Gathers(<<>>, places, 0, f) /\ At(<<>>, places) = f[0]
  BY <1>1, AtGoes
<1>3. QED
  BY <1>2 DEF Gathers

\* One element more; what is asked of the earlier places is as before.
LEMMA AtMore ==
  ASSUME NEW S, NEW s \in Seq(S), NEW e \in S, NEW places, NEW before,
         \A i \in 1 .. Len(s) : i \in places <=> i \in before
  PROVE  At(Append(s, e), places) =
           IF Len(s) + 1 \in places THEN Append(At(s, before), e)
           ELSE At(s, before)
<1> DEFINE n == Len(s)
           more == Append(s, e)
<1>1. /\ more \in Seq(S) /\ Len(more) = n + 1 /\ n \in Nat
      /\ \A i \in 1 .. n : more[i] = s[i]
      /\ more[n + 1] = e
  BY AppendProperties
<1> HIDE DEF n, more
<1>2. PICK g : Gathers(more, places, n + 1, g) /\ At(more, places) = g[n + 1]
  <2>1. Len(more) \in Nat
    BY <1>1
  <2>2. \E g : Gathers(more, places, Len(more), g) /\ At(more, places) = g[Len(more)]
    BY <2>1, AtGoes
  <2>3. QED
    BY <1>1, <2>2
<1>3. PICK f : Gathers(s, before, n, f) /\ At(s, before) = f[n]
  BY <1>1, AtGoes DEF n
<1> DEFINE K == {k \in Nat : k \in 0 .. n => g[k] = f[k]}
<1>4. 0 \in K
  BY <1>1, <1>2, <1>3, GathersOn
<1>5. \A k \in Nat : k \in K => k + 1 \in K
  <2>1. SUFFICES ASSUME NEW k \in Nat, k \in K, k + 1 \in 0 .. n
                 PROVE  g[k + 1] = f[k + 1]
    OBVIOUS
  <2> DEFINE m == k + 1
  <2>2. m \in 1 .. n /\ m \in 0 .. n /\ m \in 0 .. n + 1 /\ m # 0 /\ m - 1 = k
    BY <1>1, <2>1
  <2> HIDE DEF m
  <2>3. /\ g[m] = IF m \in places THEN Append(g[m - 1], more[m]) ELSE g[m - 1]
        /\ f[m] = IF m \in before THEN Append(f[m - 1], s[m]) ELSE f[m - 1]
    BY <2>2, <1>2, <1>3, GathersOn
  <2>4. more[m] = s[m] /\ g[m - 1] = f[m - 1] /\ (m \in places <=> m \in before)
    BY <1>1, <2>1, <2>2 DEF n
  <2>5. g[m] = f[m]
    BY <2>3, <2>4
  <2>6. QED
    BY <2>5 DEF m
<1> HIDE DEF K
<1>6. g[n] = f[n]
  <2>1. n \in K
    BY <1>1, <1>4, <1>5, NatSets
  <2>2. QED
    BY <1>1, <2>1 DEF K
<1>7. g[n + 1] = IF n + 1 \in places THEN Append(g[n], more[n + 1]) ELSE g[n]
  <2>1. n + 1 \in 0 .. n + 1 /\ n + 1 # 0 /\ (n + 1) - 1 = n
    BY <1>1
  <2>2. QED
    BY <1>2, <2>1, GathersOn
<1>8. QED
  BY <1>1, <1>2, <1>3, <1>6, <1>7 DEF n, more

LEMMA AtIs ==
  ASSUME NEW S, NEW s \in Seq(S), NEW places
  PROVE  At(s, places) \in Seq(S) /\ Len(At(s, places)) <= Len(s)
<1> DEFINE K == {n \in Nat : \A t \in Seq(S) : Len(t) = n =>
                   At(t, places) \in Seq(S) /\ Len(At(t, places)) <= n}
<1>1. 0 \in K
  BY AtNone
<1>2. \A k \in Nat : k \in K => k + 1 \in K
  <2>1. SUFFICES ASSUME NEW k \in Nat, k \in K, NEW t \in Seq(S), Len(t) = k + 1
                 PROVE  At(t, places) \in Seq(S) /\ Len(At(t, places)) <= k + 1
    OBVIOUS
  <2>2. PICK r \in Seq(S), e \in S : t = Append(r, e) /\ Len(r) = k
    BY <2>1, ShorterByOne
  <2>3. At(r, places) \in Seq(S) /\ Len(At(r, places)) <= k
    BY <2>1, <2>2
  <2>4. At(t, places) = Append(At(r, places), e) \/ At(t, places) = At(r, places)
    BY <2>2, AtMore
  <2>5. QED
    BY <2>3, <2>4, AppendProperties, LenProperties
<1> HIDE DEF K
<1>3. Len(s) \in K
  BY <1>1, <1>2, NatSets
<1>4. QED
  BY <1>3 DEF K
-----------------------------------------------------------------------------
(* What a node holds and what it hands on. *)

Opt(S) == {None} \cup {Some(x) : x \in S}
Tallies == [count : Nat, first : Keys]
Shapes == [emitted : Nat, dropped : Nat, held : Seq(Row), sizes : Seq(Nat),
           output : Seq(Seq(Row)), ran : BOOLEAN, state : Opt(Tallies),
           used : SUBSET Nat, seen : Nat]

\* A limit counts no further than its bounds, and a sort with a bound holds
\* no more than twice the bound, or the floor.
Within(op, node) ==
  /\ op.kind = "limit" => /\ node.dropped <= op.skip
                          /\ op.bounded => node.emitted <= op.n
  /\ op.kind = "sort" /\ op.bound >= 0 =>
       Len(node.held) <= Most(2 * op.bound, TOPN_FLOOR)

Fits(op, node) == node \in Shapes /\ Within(op, node)

\* What a call of an operator may leave.
Leaves(op, r) == /\ Fits(op, r.node)
                 /\ r.out \in Opt(Seq(Row))
                 /\ r.raised \in BOOLEAN

LEMMA WithKeyIs ==
  ASSUME NEW rows \in Seq(Row), NEW keys
  PROVE  WithKey(rows, keys) \in Seq(Row)
BY AtIs DEF WithKey

LEMMA SortedIs ==
  ASSUME NEW rows \in Seq(Row)
  PROVE  Sorted(rows) \in Seq(Row)
<1> DEFINE parts == [i \in DOMAIN KeyOrder |-> WithKey(rows, {KeyOrder[i]})]
<1>1. DOMAIN KeyOrder = 1 .. 3
  BY DEF KeyOrder
<1>2. \A i \in 1 .. 3 : WithKey(rows, {KeyOrder[i]}) \in Seq(Row)
  BY WithKeyIs
<1>3. parts \in Seq(Seq(Row))
  BY <1>1, <1>2
<1> HIDE DEF parts
<1>4. FlattenSeq(parts) \in Seq(Row)
  BY <1>3, FlattenIs
<1>5. QED
  BY <1>4 DEF Sorted, parts

LEMMA FirstRowsAre ==
  ASSUME NEW rows \in Seq(Row), NEW n \in Nat
  PROVE  FirstRows(rows, n) \in Seq(Row) /\ Len(FirstRows(rows, n)) <= n
<1>1. Least(n, Len(rows)) \in Nat /\ Least(n, Len(rows)) <= Len(rows)
      /\ Least(n, Len(rows)) <= n
  BY DEF Least
<1>2. \A i \in 1 .. Least(n, Len(rows)) : rows[i] \in Row
  BY <1>1
<1>3. QED
  BY <1>1, <1>2, SubSeqProperties DEF FirstRows

LEMMA FirstOfEachKeyIs ==
  ASSUME NEW rows \in Seq(Row)
  PROVE  FirstOfEachKey(rows) \in Seq(Row)
BY AtIs DEF FirstOfEachKey

LEMMA CountAndFirstIs ==
  ASSUME NEW rows \in Seq(Row)
  PROVE  CountAndFirst(rows) \in Tallies
<1> DEFINE some == NotNull(rows)
<1>1. some \in Seq(Row)
  BY WithKeyIs DEF NotNull
<1> HIDE DEF some
<1>2. Len(some) \in Nat /\ (some # <<>> => some[1] \in Row)
  BY <1>1
<1>3. (IF some = <<>> THEN Null ELSE some[1].key) \in Keys
  BY <1>2 DEF Row, Keys
<1>4. QED
  BY <1>2, <1>3 DEF CountAndFirst, Tallies, some

LEMMA SummaryIs ==
  ASSUME NEW s \in Tallies
  PROVE  Summary(s) \in Seq(Row)
<1>1. s.first \in Keys /\ <<s.count>> \in Seq(Nat)
  BY DEF Tallies
<1>2. [key |-> s.first, id |-> <<s.count>>] \in Row
  BY <1>1 DEF Row
<1>3. QED
  BY <1>2 DEF Summary

LEMMA AtPlaces ==
  ASSUME NEW S, NEW s \in Seq(S), NEW places
  PROVE  At([j \in DOMAIN s |-> j], places) \in Seq(Nat)
<1>1. [j \in DOMAIN s |-> j] \in Seq(Nat)
  OBVIOUS
<1>2. QED
  BY <1>1, AtIs

LEMMA JoinedIs ==
  ASSUME NEW op \in Operators, op.kind = "join", NEW row \in Row
  PROVE  Joined(op, row) \in Seq(Row)
<1>1. op.build \in Seq(Keys)
  BY DEF Operators
<1>2. Partners(op, row) \in Seq(Nat)
  BY <1>1, AtPlaces DEF Partners
<1> DEFINE at_ == IF Partners(op, row) = <<>> /\ op.keeps THEN <<0>>
                  ELSE Partners(op, row)
<1>3. at_ \in Seq(Nat)
  BY <1>2
<1> HIDE DEF at_
<1>4. row.key \in Keys /\ row.id \in Seq(Nat)
  BY DEF Row
<1>5. ASSUME NEW j \in 1 .. Len(at_)
      PROVE  [key |-> row.key, id |-> Append(row.id, at_[j])] \in Row
  BY <1>3, <1>4 DEF Row
<1>6. [j \in DOMAIN at_ |-> [key |-> row.key, id |-> Append(row.id, at_[j])]]
        \in Seq(Row)
  BY <1>3, <1>5
<1>7. QED
  BY <1>6 DEF Joined, at_

LEMMA AllJoinedIs ==
  ASSUME NEW op \in Operators, op.kind = "join", NEW rows \in Seq(Row)
  PROVE  AllJoined(op, rows) \in Seq(Row)
<1> DEFINE parts == [i \in DOMAIN rows |-> Joined(op, rows[i])]
<1>1. \A i \in DOMAIN rows : Joined(op, rows[i]) \in Seq(Row)
  BY JoinedIs
<1>2. parts \in Seq(Seq(Row))
  BY <1>1
<1> HIDE DEF parts
<1>3. FlattenSeq(parts) \in Seq(Row)
  BY <1>2, FlattenIs
<1>4. QED
  BY <1>3 DEF AllJoined, parts

LEMMA UnpairedIs ==
  ASSUME NEW op \in Operators, op.kind = "join", NEW used
  PROVE  Unpaired(op, used) \in Seq(Row)
<1> DEFINE left == At([j \in DOMAIN op.build |-> j], DOMAIN op.build \ used)
<1>1. op.build \in Seq(Keys)
  BY DEF Operators
<1>2. left \in Seq(Nat)
  BY <1>1, AtPlaces
<1> HIDE DEF left
<1>3. ASSUME NEW i \in 1 .. Len(left)
      PROVE  [key |-> Null, id |-> <<0, left[i]>>] \in Row
  <2>1. <<0, left[i]>> \in Seq(Nat)
    BY <1>2
  <2>2. QED
    BY <2>1 DEF Row, Keys
<1>4. [i \in DOMAIN left |-> [key |-> Null, id |-> <<0, left[i]>>]] \in Seq(Row)
  BY <1>2, <1>3
<1>5. QED
  BY <1>4 DEF Unpaired, left

LEMMA UsedAre ==
  ASSUME NEW op \in Operators, op.kind = "join", NEW rows
  PROVE  Used(op, rows) \in SUBSET Nat
<1>1. op.build \in Seq(Keys)
  BY DEF Operators
<1>2. QED
  BY <1>1 DEF Used

LEMMA BesideIs ==
  ASSUME NEW op, NEW seen \in Nat, NEW rows \in Seq(Row)
  PROVE  Beside(op, seen, rows) \in Seq(Row) /\ Len(Beside(op, seen, rows)) = Len(rows)
<1>1. ASSUME NEW i \in 1 .. Len(rows)
      PROVE  [key |-> rows[i].key,
              id |-> Append(rows[i].id, IF seen + i <= op.height THEN seen + i ELSE 0)]
               \in Row
  <2>1. rows[i].key \in Keys /\ rows[i].id \in Seq(Nat)
    <3>1. rows[i] \in Row
      BY ElementOfSeq
    <3>2. QED
      BY <3>1 DEF Row
  <2>2. (IF seen + i <= op.height THEN seen + i ELSE 0) \in Nat
    OBVIOUS
  <2>3. Append(rows[i].id, IF seen + i <= op.height THEN seen + i ELSE 0) \in Seq(Nat)
    BY <2>1, <2>2, AppendProperties
  <2>4. QED
    BY <2>1, <2>3 DEF Row
<1>2. QED
  BY <1>1 DEF Beside

LEMMA LeftoverIs ==
  ASSUME NEW op \in Operators, op.kind = "positional", NEW seen \in Nat
  PROVE  Leftover(op, seen) \in Seq(Row)
<1>1. op.height \in Nat
  BY DEF Operators
<1>2. Most(0, op.height - seen) \in Nat
  BY <1>1 DEF Most
<1>3. ASSUME NEW i \in 1 .. Most(0, op.height - seen)
      PROVE  [key |-> Null, id |-> <<0, seen + i>>] \in Row
  <2>1. <<0, seen + i>> \in Seq(Nat)
    BY <1>2
  <2>2. QED
    BY <2>1 DEF Row, Keys
<1>4. QED
  BY <1>2, <1>3 DEF Leftover

LEMMA OptIs ==
  ASSUME NEW S
  PROVE  /\ None \in Opt(S)
         /\ \A x \in S : Some(x) \in Opt(S) /\ Some(x) # None /\ Some(x)[1] = x
         /\ \A o \in Opt(S) : o # None => o[1] \in S
BY DEF Opt, None, Some

\* A call that leaves the node as it was.
LEMMA LeavesTheNode ==
  ASSUME NEW op, NEW node, Fits(op, node), NEW out \in Opt(Seq(Row))
  PROVE  Leaves(op, Emit(node, out))
BY DEF Leaves, Emit

LEMMA LimitLeaves ==
  ASSUME NEW op \in Operators, op.kind = "limit", NEW node, Fits(op, node),
         NEW chunk \in Seq(Row)
  PROVE  Leaves(op, LimitProcess(op, node, chunk))
<1> DEFINE start == Least(op.skip - node.dropped, Len(chunk))
           passed == [node EXCEPT !.dropped = @ + start]
           rest == Len(chunk) - start
           take == IF op.bounded THEN Least(rest, op.n - node.emitted) ELSE rest
           full == [passed EXCEPT !.emitted = @ + take]
<1>1. op.skip \in Nat /\ op.n \in Nat /\ op.bounded \in BOOLEAN
  BY DEF Operators
<1>2. node.dropped \in Nat /\ node.emitted \in Nat /\ node.dropped <= op.skip
      /\ (op.bounded => node.emitted <= op.n)
  BY DEF Fits, Within, Shapes
<1>3. Len(chunk) \in Nat
  OBVIOUS
<1>4. start \in Nat /\ start <= Len(chunk) /\ node.dropped + start <= op.skip
  BY <1>1, <1>2, <1>3 DEF Least
<1> HIDE DEF start
<1>5. take \in Nat /\ start + take <= Len(chunk)
      /\ (op.bounded => node.emitted + take <= op.n)
  BY <1>1, <1>2, <1>3, <1>4 DEF Least
<1> HIDE DEF take
<1>6. /\ passed \in Shapes /\ passed.dropped = node.dropped + start
      /\ passed.emitted = node.emitted
  <2>1. node \in Shapes /\ node.dropped + start \in Nat
    BY <1>2, <1>4 DEF Fits
  <2>2. QED
    BY <2>1 DEF Shapes
<1>12. full = [passed EXCEPT !.emitted = node.emitted + take]
  BY <1>6
<1> HIDE DEF passed
<1>7. /\ full \in Shapes /\ full.dropped = node.dropped + start
      /\ full.emitted = node.emitted + take
  <2>1. node.emitted + take \in Nat
    BY <1>2, <1>5
  <2>2. QED
    BY <1>6, <1>12, <2>1 DEF Shapes
<1> HIDE DEF full
<1>13. Fits(op, passed) /\ Fits(op, full)
  BY <1>1, <1>2, <1>4, <1>5, <1>6, <1>7 DEF Fits, Within
<1>8. SubSeq(chunk, start + 1, start + take) \in Seq(Row)
  BY <1>3, <1>4, <1>5, SubSeqProperties
<1>9. Some(SubSeq(chunk, start + 1, start + take)) \in Opt(Seq(Row))
  BY <1>8, OptIs
<1>10. LimitProcess(op, node, chunk) \in
         {Emit(node, None), Emit(passed, None),
          Emit(full, Some(SubSeq(chunk, start + 1, start + take)))}
  BY DEF LimitProcess, start, take, rest, passed, full
<1>11. QED
  BY <1>9, <1>10, <1>13, LeavesTheNode, OptIs

LEMMA SortLeaves ==
  ASSUME NEW op \in Operators, op.kind = "sort", NEW node, Fits(op, node),
         NEW chunk \in Seq(Row)
  PROVE  Leaves(op, SortProcess(op, node, chunk))
<1> DEFINE all == node.held \o chunk
           over == op.bound >= 0 /\ Len(all) > Most(2 * op.bound, TOPN_FLOOR)
           held == IF over THEN TopRows(all, op.bound) ELSE all
           after == [node EXCEPT !.sizes = Append(@, Len(chunk)), !.held = held]
<1>1. op.bound \in Int /\ TOPN_FLOOR \in Nat
  BY Sizes DEF Operators
<1>2. node.held \in Seq(Row) /\ node.sizes \in Seq(Nat)
  BY DEF Fits, Shapes
<1>3. all \in Seq(Row) /\ Len(all) \in Nat
  BY <1>2
<1>4. Append(node.sizes, Len(chunk)) \in Seq(Nat)
  BY <1>2
<1> HIDE DEF all
<1>5. over => TopRows(all, op.bound) \in Seq(Row)
              /\ Len(TopRows(all, op.bound)) <= op.bound
  BY <1>1, <1>3, SortedIs, FirstRowsAre DEF TopRows
<1>6. held \in Seq(Row)
      /\ (op.bound >= 0 => Len(held) <= Most(2 * op.bound, TOPN_FLOOR))
  <2>1. CASE over
    <3>1. op.bound >= 0 /\ held = TopRows(all, op.bound)
      BY <2>1
    <3>2. op.bound <= Most(2 * op.bound, TOPN_FLOOR)
      BY <1>1, <3>1 DEF Most
    <3>3. Len(held) \in Nat /\ Len(held) <= op.bound /\ held \in Seq(Row)
      BY <1>5, <2>1, <3>1
    <3>4. Most(2 * op.bound, TOPN_FLOOR) \in Int
      BY <1>1 DEF Most
    <3> HIDE DEF held
    <3>5. QED
      BY <1>1, <3>2, <3>3, <3>4
  <2>2. CASE ~over
    <3>1. held = all
      BY <2>2
    <3>2. Most(2 * op.bound, TOPN_FLOOR) \in Int
      BY <1>1 DEF Most
    <3>3. QED
      BY <1>1, <1>3, <2>2, <3>1, <3>2
  <2>3. QED
    BY <2>1, <2>2
<1> HIDE DEF held
<1>7. after \in Shapes /\ after.held = held
  BY <1>2, <1>4, <1>6 DEF Fits, Shapes
<1> HIDE DEF after
<1>8. Fits(op, after)
  BY <1>6, <1>7 DEF Fits, Within
<1>9. SortProcess(op, node, chunk) = Emit(after, None)
  BY DEF SortProcess, after, held, over, all
<1>10. QED
  BY <1>8, <1>9, LeavesTheNode, OptIs

LEMMA AbsorbFits ==
  ASSUME NEW op, NEW node, Fits(op, node), NEW p \in Tallies
  PROVE  Fits(op, Absorb(node, p))
<1> DEFINE s == node.state[1]
           merged == <<[count |-> s.count + p.count,
                        first |-> IF s.first # Null THEN s.first ELSE p.first]>>
           state == IF node.state = None THEN <<p>> ELSE merged
<1>1. node \in Shapes /\ node.state \in Opt(Tallies)
  BY DEF Fits, Shapes
<1>2. node.state # None => s \in Tallies
  BY <1>1, OptIs
<1>3. node.state # None => merged \in Opt(Tallies)
  <2>1. SUFFICES ASSUME node.state # None PROVE merged \in Opt(Tallies)
    OBVIOUS
  <2>2. s \in Tallies
    BY <1>2, <2>1
  <2> HIDE DEF s
  <2>3. [count |-> s.count + p.count,
         first |-> IF s.first # Null THEN s.first ELSE p.first] \in Tallies
    BY <2>2 DEF Tallies
  <2>4. QED
    BY <2>3 DEF Opt, Some
<1>4. state \in Opt(Tallies)
  BY <1>3 DEF Opt, Some
<1>5. Absorb(node, p) = [node EXCEPT !.state = state]
  BY <1>1 DEF Absorb, Shapes
<1> HIDE DEF state
<1>6. QED
  BY <1>1, <1>4, <1>5 DEF Fits, Within, Shapes

LEMMA PartialIs ==
  ASSUME NEW chunk \in Seq(Row)
  PROVE  Partial(chunk) \in Opt(Tallies)
BY CountAndFirstIs, OptIs DEF Partial, Some

LEMMA ReduceLeaves ==
  ASSUME NEW op, NEW node, Fits(op, node), NEW chunk \in Seq(Row)
  PROVE  Leaves(op, ReduceProcess(node, chunk))
<1>1. Partial(chunk) \in Opt(Tallies)
  BY PartialIs
<1>2. Partial(chunk) # None => Fits(op, Absorb(node, Partial(chunk)[1]))
  BY <1>1, OptIs, AbsorbFits
<1>3. QED
  BY <1>2, LeavesTheNode, OptIs DEF ReduceProcess

LEMMA JoinLeaves ==
  ASSUME NEW op \in Operators, op.kind = "join", NEW node, Fits(op, node),
         NEW chunk \in Seq(Row)
  PROVE  Leaves(op, JoinProcess(op, node, chunk))
<1> DEFINE used == IF op.hits THEN node.used \cup Used(op, chunk) ELSE node.used
           after == [node EXCEPT !.used = used]
           rows == AllJoined(op, chunk)
           out == IF rows = <<>> THEN None ELSE Some(rows)
<1>1. node \in Shapes /\ used \in SUBSET Nat
  BY UsedAre DEF Fits, Shapes
<1> HIDE DEF used
<1>2. Fits(op, after)
  BY <1>1 DEF Fits, Within, Shapes
<1>3. out \in Opt(Seq(Row))
  BY AllJoinedIs, OptIs
<1>4. JoinProcess(op, node, chunk) = Emit(after, out)
  BY <1>1 DEF JoinProcess, used, Shapes
<1> HIDE DEF after, out
<1>5. QED
  BY <1>2, <1>3, <1>4, LeavesTheNode

LEMMA PositionalLeaves ==
  ASSUME NEW op \in Operators, op.kind = "positional", NEW node, Fits(op, node),
         NEW chunk \in Seq(Row)
  PROVE  Leaves(op, PositionalProcess(op, node, chunk))
<1> DEFINE after == [node EXCEPT !.seen = @ + Len(chunk)]
           out == Some(Beside(op, node.seen, chunk))
<1>1. node \in Shapes /\ node.seen \in Nat
  BY DEF Fits, Shapes
<1>2. Fits(op, after)
  <2>1. after \in Shapes
    <3>1. node.seen + Len(chunk) \in Nat
      BY <1>1
    <3>2. QED
      BY <1>1, <3>1 DEF Shapes
  <2>2. Within(op, after)
    BY DEF Within
  <2>3. QED
    BY <2>1, <2>2 DEF Fits
<1>3. out \in Opt(Seq(Row))
  BY <1>1, BesideIs, OptIs
<1>4. PositionalProcess(op, node, chunk) \in {Emit(node, None), Emit(after, out)}
  BY DEF PositionalProcess
<1> HIDE DEF after, out
<1>5. QED
  BY <1>2, <1>3, <1>4, LeavesTheNode, OptIs

(* A chunk through any operator. *)
LEMMA ProcessLeaves ==
  ASSUME NEW op \in Operators, NEW node, Fits(op, node), NEW chunk \in Seq(Row)
  PROVE  Leaves(op, Process(op, node, chunk))
<1>1. CASE op.kind = "filter"
  <2>1. WithKey(chunk, op.keep) \in Seq(Row)
    BY WithKeyIs
  <2>2. QED
    BY <1>1, <2>1, LeavesTheNode, OptIs DEF Process
<1>2. CASE op.kind = "compute"
  <2>1. Leaves(op, Raise(node))
    BY OptIs DEF Leaves, Raise
  <2>2. QED
    BY <1>2, <2>1, LeavesTheNode, OptIs DEF Process
<1>3. CASE op.kind = "project"
  BY <1>3, LeavesTheNode, OptIs DEF Process
<1>4. CASE op.kind = "limit"
  BY <1>4, LimitLeaves DEF Process
<1>5. CASE op.kind = "sort"
  BY <1>5, SortLeaves DEF Process
<1>6. CASE op.kind = "reduce"
  BY <1>6, ReduceLeaves DEF Process
<1>7. CASE op.kind = "unique"
  <2> DEFINE after == [node EXCEPT !.held = @ \o chunk]
  <2>1. Fits(op, after)
    <3>1. node \in Shapes /\ node.held \in Seq(Row)
      BY DEF Fits, Shapes
    <3>2. node.held \o chunk \in Seq(Row)
      BY <3>1
    <3>3. QED
      BY <1>7, <3>1, <3>2 DEF Fits, Within, Shapes
  <2>2. Process(op, node, chunk) = Emit(after, None)
    BY <1>7 DEF Process
  <2> HIDE DEF after
  <2>3. QED
    BY <2>1, <2>2, LeavesTheNode, OptIs
<1>8. CASE op.kind = "join"
  BY <1>8, JoinLeaves DEF Process
<1>9. CASE op.kind = "positional"
  BY <1>9, PositionalLeaves DEF Process
<1>10. op.kind \in {"filter", "compute", "project", "limit", "sort", "reduce",
                    "unique", "join", "positional"}
  BY DEF Operators
<1>11. QED
  BY <1>1, <1>2, <1>3, <1>4, <1>5, <1>6, <1>7, <1>8, <1>9, <1>10

(* The heights so far. *)
Heightens(sizes, n, f) ==
  f = [c \in 0 .. n |-> IF c = 0 THEN 0 ELSE f[c - 1] + sizes[c]]

LEMMA HeightensOn ==
  ASSUME NEW sizes, NEW n, NEW f, Heightens(sizes, n, f), NEW c \in 0 .. n
  PROVE  f[c] = IF c = 0 THEN 0 ELSE f[c - 1] + sizes[c]
BY Zenon DEF Heightens

LEMMA HeightsAre ==
  ASSUME NEW sizes \in Seq(Nat), NEW f, Heightens(sizes, Len(sizes), f)
  PROVE  /\ \A c \in 0 .. Len(sizes) : f[c] \in Nat
         /\ f[0] = 0
         /\ \A c \in 1 .. Len(sizes) : f[c] = f[c - 1] + sizes[c]
<1> DEFINE K == {k \in Nat : k \in 0 .. Len(sizes) => f[k] \in Nat}
<1>1. f[0] = 0
  BY HeightensOn
<1>2. \A c \in 1 .. Len(sizes) : f[c] = f[c - 1] + sizes[c]
  BY HeightensOn
<1>3. 0 \in K
  BY <1>1
<1>4. \A k \in Nat : k \in K => k + 1 \in K
  <2>1. SUFFICES ASSUME NEW k \in Nat, k \in K, k + 1 \in 0 .. Len(sizes)
                 PROVE  f[k + 1] \in Nat
    OBVIOUS
  <2>2. k + 1 \in 1 .. Len(sizes) /\ f[k] \in Nat /\ (k + 1) - 1 = k
    BY <2>1
  <2>3. f[k + 1] = f[k] + sizes[k + 1]
    BY <1>2, <2>2
  <2>4. QED
    BY <2>2, <2>3
<1> HIDE DEF K
<1>5. \A k \in Nat : k \in K
  BY <1>3, <1>4, NatSets
<1>6. QED
  BY <1>1, <1>2, <1>5 DEF K

LEMMA CutAtGoes ==
  ASSUME NEW sizes \in Seq(Nat), NEW rows \in Seq(Row)
  PROVE  \E f : /\ Heightens(sizes, Len(sizes), f)
                /\ CutAt(sizes)[rows] =
                     At([c \in DOMAIN sizes |->
                           SubSeq(rows, f[c - 1] + 1, Least(f[c], Len(rows)))],
                        {c \in DOMAIN sizes : f[c - 1] < Len(rows)})
<1> DEFINE K == {n \in Nat : \E f : Heightens(sizes, n, f)}
<1>1. 0 \in K
  <2>1. Heightens(sizes, 0, [i \in 0 .. 0 |-> 0])
    BY DEF Heightens
  <2>2. QED
    BY <2>1
<1>2. \A k \in Nat : k \in K => k + 1 \in K
  <2>1. SUFFICES ASSUME NEW k \in Nat, k \in K
                 PROVE  \E f : Heightens(sizes, k + 1, f)
    OBVIOUS
  <2>2. PICK f : Heightens(sizes, k, f)
    BY <2>1
  <2> DEFINE g == [i \in 0 .. k + 1 |-> IF i = 0 THEN 0 ELSE f[i - 1] + sizes[i]]
  <2>3. \A i \in 0 .. k : g[i] = f[i]
    BY <2>2, HeightensOn
  <2>4. \A i \in 0 .. k + 1 : i # 0 => i - 1 \in 0 .. k
    OBVIOUS
  <2>5. g = [i \in 0 .. k + 1 |-> IF i = 0 THEN 0 ELSE g[i - 1] + sizes[i]]
    BY <2>3, <2>4
  <2>6. Heightens(sizes, k + 1, g)
    BY <2>5 DEF Heightens
  <2>7. QED
    BY <2>6
<1> HIDE DEF K
<1>3. Len(sizes) \in K
  <2>1. \A k \in Nat : k \in K
    BY <1>1, <1>2, NatSets
  <2>2. Len(sizes) \in Nat
    OBVIOUS
  <2>3. QED
    BY <2>1, <2>2
<1>4. \E f : Heightens(sizes, Len(sizes), f)
  BY <1>3 DEF K
<1> DEFINE h == CHOOSE f : Heightens(sizes, Len(sizes), f)
<1>5. Heightens(sizes, Len(sizes), h)
  BY <1>4
<1>6. CutAt(sizes)[rows] =
        At([c \in DOMAIN sizes |->
              SubSeq(rows, h[c - 1] + 1, Least(h[c], Len(rows)))],
           {c \in DOMAIN sizes : h[c - 1] < Len(rows)})
  BY DEF CutAt, Heightens
<1>7. QED
  BY <1>5, <1>6

LEMMA CutAtIs ==
  ASSUME NEW sizes \in Seq(Nat), NEW rows \in Seq(Row)
  PROVE  CutAt(sizes)[rows] \in Seq(Seq(Row))
<1>1. PICK f : /\ Heightens(sizes, Len(sizes), f)
               /\ CutAt(sizes)[rows] =
                     At([c \in DOMAIN sizes |->
                           SubSeq(rows, f[c - 1] + 1, Least(f[c], Len(rows)))],
                        {c \in DOMAIN sizes : f[c - 1] < Len(rows)})
  BY CutAtGoes
<1>2. \A c \in 0 .. Len(sizes) : f[c] \in Nat
  BY <1>1, HeightsAre
<1>3. ASSUME NEW c \in 1 .. Len(sizes)
      PROVE  SubSeq(rows, f[c - 1] + 1, Least(f[c], Len(rows))) \in Seq(Row)
  <2>1. f[c] \in Nat /\ f[c - 1] \in Nat /\ Len(rows) \in Nat
    BY <1>2
  <2>2. Least(f[c], Len(rows)) \in Nat /\ Least(f[c], Len(rows)) <= Len(rows)
    BY <2>1 DEF Least
  <2>3. QED
    BY <2>1, <2>2, SubSeqProperties
<1> DEFINE cut(c) == SubSeq(rows, f[c - 1] + 1, Least(f[c], Len(rows)))
           parts == [c \in DOMAIN sizes |-> cut(c)]
<1>4. \A c \in 1 .. Len(sizes) : cut(c) \in Seq(Row)
  BY <1>3
<1>5. CutAt(sizes)[rows] = At(parts, {c \in DOMAIN sizes : f[c - 1] < Len(rows)})
  BY <1>1
<1> HIDE DEF cut
<1>6. parts \in Seq(Seq(Row))
  <2>1. DOMAIN sizes = 1 .. Len(sizes) /\ Len(sizes) \in Nat
    OBVIOUS
  <2>2. QED
    BY ONLY <1>4, <2>1
<1> HIDE DEF parts
<1>7. QED
  BY <1>5, <1>6, AtIs

LEMMA PopLeaves ==
  ASSUME NEW op, NEW node, Fits(op, node)
  PROVE  Leaves(op, Pop(node))
<1> DEFINE after == [node EXCEPT !.output = Tail(@)]
<1>1. CASE node.output = <<>>
  BY <1>1, LeavesTheNode, OptIs DEF Pop
<1>2. CASE node.output # <<>>
  <2>1. /\ node \in Shapes /\ node.output \in Seq(Seq(Row))
    BY DEF Fits, Shapes
  <2>2. Head(node.output) \in Seq(Row) /\ Tail(node.output) \in Seq(Seq(Row))
    BY <1>2, <2>1, HeadTailProperties
  <2>3. after \in Shapes
    BY <2>1, <2>2 DEF Shapes
  <2>4. Fits(op, after)
    BY <2>3 DEF Fits, Within
  <2>5. Pop(node) = Emit(after, Some(Head(node.output)))
    BY <1>2 DEF Pop
  <2> HIDE DEF after
  <2>6. QED
    BY <2>2, <2>4, <2>5, LeavesTheNode, OptIs
<1>3. QED
  BY <1>1, <1>2

LEMMA SettledFits ==
  ASSUME NEW op, op.kind # "limit",
         op.kind = "sort" => op.bound \in Int,
         NEW node, Fits(op, node), NEW chunks \in Seq(Seq(Row))
  PROVE  Fits(op, Settled(node, chunks))
<1> DEFINE after == [node EXCEPT !.ran = TRUE, !.output = chunks, !.held = <<>>]
<1>1. after \in Shapes /\ after.held = <<>>
  <2>1. node \in Shapes /\ <<>> \in Seq(Row)
    BY EmptySeq DEF Fits
  <2>2. QED
    BY <2>1 DEF Shapes
<1>2. op.kind = "sort" => Most(2 * op.bound, TOPN_FLOOR) >= 0
                          /\ Most(2 * op.bound, TOPN_FLOOR) \in Int
  BY Sizes DEF Most
<1> HIDE DEF after
<1>3. Fits(op, after)
  BY <1>1, <1>2 DEF Fits, Within
<1>4. QED
  BY <1>3 DEF Settled, after

LEMMA SortedChunksAre ==
  ASSUME NEW op \in Operators, op.kind = "sort", NEW node, Fits(op, node)
  PROVE  SortedChunks(op, node) \in Seq(Seq(Row))
<1>1. node.held \in Seq(Row) /\ node.sizes \in Seq(Nat) /\ op.bound \in Int
  BY DEF Fits, Shapes, Operators
<1>2. Sorted(node.held) \in Seq(Row)
  BY <1>1, SortedIs
<1>3. op.bound >= 0 => TopRows(node.held, op.bound) \in Seq(Row)
  BY <1>1, <1>2, FirstRowsAre DEF TopRows
<1>4. QED
  BY <1>1, <1>2, <1>3, CutAtIs DEF SortedChunks

(* The end of any operator. *)
LEMMA FinishLeaves ==
  ASSUME NEW op \in Operators, NEW node, Fits(op, node)
  PROVE  Leaves(op, Finish(op, node))
<1>1. CASE op.kind = "sort"
  <2>1. Fits(op, Settled(node, SortedChunks(op, node)))
    BY <1>1, SortedChunksAre, SettledFits DEF Operators
  <2>2. QED
    BY <1>1, <2>1, PopLeaves DEF Finish
<1>2. CASE op.kind = "unique"
  <2>1. node.held \in Seq(Row)
    BY DEF Fits, Shapes
  <2>2. FirstOfEachKey(node.held) \in Seq(Row)
    BY <2>1, FirstOfEachKeyIs
  <2>3. Some(FirstOfEachKey(node.held)) \in Seq(Seq(Row))
    BY <2>2 DEF Some
  <2>4. Fits(op, Settled(node, Some(FirstOfEachKey(node.held))))
    BY <1>2, <2>3, SettledFits
  <2>5. QED
    BY <1>2, <2>4, PopLeaves DEF Finish
<1>3. CASE op.kind = "reduce"
  <2> DEFINE after == [node EXCEPT !.ran = TRUE, !.state = None]
             tally == IF node.state = None THEN CountAndFirst(<<>>) ELSE node.state[1]
  <2>1. node \in Shapes /\ node.state \in Opt(Tallies)
    BY DEF Fits, Shapes
  <2>2. tally \in Tallies
    <3>1. CountAndFirst(<<>>) \in Tallies
      BY CountAndFirstIs, EmptySeq
    <3>2. QED
      BY <2>1, <3>1, OptIs
  <2>3. after \in Shapes
    BY <2>1, OptIs DEF Shapes
  <2>4. Fits(op, after)
    BY <1>3, <2>3 DEF Fits, Within
  <2>5. Some(Summary(tally)) \in Opt(Seq(Row))
    BY <2>2, SummaryIs, OptIs
  <2>6. Finish(op, node) \in {Emit(node, None), Emit(after, Some(Summary(tally)))}
    BY <1>3 DEF Finish
  <2> HIDE DEF after, tally
  <2>7. QED
    BY <2>4, <2>5, <2>6, LeavesTheNode, OptIs
<1>4. CASE op.kind = "join"
  <2> DEFINE after == [node EXCEPT !.ran = TRUE]
             rows == Unpaired(op, node.used)
             out == IF rows = <<>> THEN None ELSE Some(rows)
  <2>1. after \in Shapes
    BY DEF Fits, Shapes
  <2>2. Fits(op, after)
    BY <1>4, <2>1 DEF Fits, Within
  <2>3. out \in Opt(Seq(Row))
    BY <1>4, UnpairedIs, OptIs
  <2>4. Finish(op, node) \in {Emit(node, None), Emit(after, out)}
    BY <1>4 DEF Finish, JoinFinish
  <2> HIDE DEF after, out
  <2>5. QED
    BY <2>2, <2>3, <2>4, LeavesTheNode, OptIs
<1>5. CASE op.kind = "positional"
  <2> DEFINE after == [node EXCEPT !.seen = op.height]
             rows == Leftover(op, node.seen)
  <2>1. node.seen \in Nat /\ op.height \in Nat
    BY <1>5 DEF Fits, Shapes, Operators
  <2>2. after \in Shapes
    BY <2>1 DEF Fits, Shapes
  <2>3. Fits(op, after)
    BY <1>5, <2>2 DEF Fits, Within
  <2>4. Some(rows) \in Opt(Seq(Row))
    BY <1>5, <2>1, LeftoverIs, OptIs
  <2>5. Finish(op, node) \in {Emit(node, None), Emit(after, Some(rows))}
    BY <1>5 DEF Finish
  <2> HIDE DEF after, rows
  <2>6. QED
    BY <2>3, <2>4, <2>5, LeavesTheNode, OptIs
<1>6. CASE op.kind \notin {"sort", "unique", "reduce", "join", "positional"}
  BY <1>6, LeavesTheNode, OptIs DEF Finish
<1>7. QED
  BY <1>1, <1>2, <1>3, <1>4, <1>5, <1>6
-----------------------------------------------------------------------------
(* What the driver holds. *)

\* What a worker leaves in a slot: a tally where the reduce folds the batch.
Slots == IF Folding THEN Opt(Tallies) ELSE Opt(Seq(Row))

NodesFit == DOMAIN nodes = Ops /\ \A i \in Ops : Fits(line[i], nodes[i])

ChunksAre == /\ source \in Seq(Seq(Row))
             /\ taken \in Seq(Seq(Row))
             /\ hand \in Seq(Row)
             /\ made \in [1 .. Len(taken) -> Slots]
             /\ todo \cup lost \subseteq 1 .. Len(taken)

\* Where the calling thread is, and what "at" counts there.
Serving == \/ phase \in {"call", "serial", "read"}
           \/ phase = "push" /\ then \in {"serial", "read"}
Emptying == \/ phase \in {"head", "drain"}
            \/ phase = "push" /\ then = "drain"
PlacesAre == /\ phase \in {"call", "serial", "read", "head", "drain", "push",
                           "finish", "answered", "failed"}
             /\ lead \in 0 .. Len(line)
             /\ then \in {"serial", "read", "drain", "finish"}
             /\ pos \in 1 .. Len(line) + 1
             /\ at \in 1 .. Most(Len(line), Len(taken)) + 1
             /\ phase = "call" => taken = <<>>
             /\ phase \notin {"head", "failed"} => lost = {}
             /\ Serving \/ phase = "head" => at = 1
             /\ Emptying => at \in 1 .. Len(taken)
             /\ phase \in {"finish", "answered"} => at \in 1 .. Len(line) + 1
             /\ phase = "push" /\ then = "finish" => at \in Ops

PInv == line \in Lines /\ NodesFit /\ ChunksAre /\ PlacesAre
-----------------------------------------------------------------------------
LEMMA LineIs ==
  ASSUME line \in Lines
  PROVE  /\ line \in Seq(Operators) /\ Len(line) \in Nat
         /\ Ops = 1 .. Len(line)
         /\ \A i \in Ops : line[i] \in Operators
<1>1. line \in Seq(Operators)
  BY Inputs
<1>2. QED
  BY <1>1, ElementOfSeq, LenProperties DEF Ops

LEMMA FreshFits ==
  ASSUME NEW op \in Operators
  PROVE  Fits(op, Fresh)
<1>1. /\ <<>> \in Seq(Row) /\ <<>> \in Seq(Nat) /\ <<>> \in Seq(Seq(Row))
      /\ None \in Opt(Tallies)
  BY OptIs
<1>2. Fresh \in Shapes
  BY <1>1 DEF Fresh, Shapes
<1>3. Len(Fresh.held) = 0 /\ Fresh.dropped = 0 /\ Fresh.emitted = 0
  BY DEF Fresh
<1>4. op.kind = "limit" => op.skip \in Nat /\ op.n \in Nat
  BY DEF Operators
<1>5. op.kind = "sort" => 0 <= Most(2 * op.bound, TOPN_FLOOR)
  <2>1. op.kind = "sort" => op.bound \in Int
    BY DEF Operators
  <2>2. QED
    BY <2>1, Sizes DEF Most
<1>6. QED
  BY <1>2, <1>3, <1>4, <1>5 DEF Fits, Within

(* Some numbers up to a bound have a largest. *)
LEMMA HasLargest ==
  ASSUME NEW N \in Nat, NEW T \in SUBSET (0 .. N), T # {}
  PROVE  \E n \in T : \A m \in T : m <= n
<1> DEFINE K == {k \in Nat : \A S \in SUBSET (0 .. k) :
                               S # {} => \E n \in S : \A m \in S : m <= n}
<1>1. 0 \in K
  <2>1. ASSUME NEW S \in SUBSET (0 .. 0), S # {}
        PROVE  \E n \in S : \A m \in S : m <= n
    <3>1. \A m \in S : m = 0
      BY <2>1
    <3>2. 0 \in S
      BY <2>1, <3>1
    <3>3. QED
      BY <3>1, <3>2
  <2>2. QED
    BY <2>1
<1>2. \A k \in Nat : k \in K => k + 1 \in K
  <2>1. SUFFICES ASSUME NEW k \in Nat, k \in K,
                        NEW S \in SUBSET (0 .. k + 1), S # {}
                 PROVE  \E n \in S : \A m \in S : m <= n
    OBVIOUS
  <2>2. CASE k + 1 \in S
    BY <2>2
  <2>3. CASE k + 1 \notin S
    <3>1. S \in SUBSET (0 .. k)
      BY <2>3
    <3>2. QED
      BY <2>1, <3>1
  <2>4. QED
    BY <2>2, <2>3
<1> HIDE DEF K
<1>3. N \in K
  BY <1>1, <1>2, NatSets
<1>4. QED
  BY <1>3 DEF K

LEMMA LeadIs ==
  ASSUME line \in Lines, NEW chunks
  PROVE  PrefixLead \in 0 .. Len(line) /\ ParallelLead(chunks) \in 0 .. Len(line)
<1> DEFINE run == {n \in 0 .. Len(line) : \A i \in 1 .. n : IsRowLocal(line[i])}
           longest == CHOOSE n \in run : \A m \in run : m <= n
<1>1. Len(line) \in Nat
  BY LineIs
<1>2. 0 \in run
  BY <1>1
<1> HIDE DEF run
<1>3. run \in SUBSET (0 .. Len(line))
  BY DEF run
<1>4. \E n \in run : \A m \in run : m <= n
  BY <1>1, <1>2, <1>3, HasLargest
<1>5. longest \in run
  BY <1>4
<1> HIDE DEF longest
<1>6. longest \in 0 .. Len(line)
  BY <1>3, <1>5
<1>7. PrefixLead \in {0, longest}
  BY DEF PrefixLead, run, longest
<1>8. PrefixLead \in 0 .. Len(line)
  BY <1>1, <1>6, <1>7
<1>9. QED
  BY <1>1, <1>8 DEF ParallelLead

LEMMA PiecesAre ==
  ASSUME NEW chunk \in Seq(Row)
  PROVE  Pieces(chunk) \in Seq(Seq(Row))
<1> DEFINE count == Most(1, (Len(chunk) + MORSEL_ROWS - 1) \div MORSEL_ROWS)
           piece(p) == SubSeq(chunk, (p - 1) * MORSEL_ROWS + 1,
                              Least(p * MORSEL_ROWS, Len(chunk)))
<1>1. Len(chunk) \in Nat /\ MORSEL_ROWS \in Nat \ {0}
  BY Sizes
<1>2. count \in Nat
  <2>1. (Len(chunk) + MORSEL_ROWS - 1) \div MORSEL_ROWS \in Int
    BY <1>1
  <2>2. QED
    BY <2>1 DEF Most
<1>3. ASSUME NEW p \in 1 .. count PROVE piece(p) \in Seq(Row)
  <2> DEFINE a == (p - 1) * MORSEL_ROWS
             b == p * MORSEL_ROWS
             e == Least(b, Len(chunk))
  <2>1. a \in Nat /\ b \in Nat
    BY <1>1, <1>2
  <2>2. e \in Nat /\ e <= Len(chunk)
    BY <1>1, <2>1 DEF Least
  <2> HIDE DEF a, e
  <2>3. SubSeq(chunk, a + 1, e) \in Seq(Row)
    BY <1>1, <2>1, <2>2, SubSeqProperties
  <2>4. QED
    BY <2>3 DEF a, e
<1> HIDE DEF piece
<1>4. [p \in 1 .. count |-> piece(p)] \in Seq(Seq(Row))
  BY <1>2, <1>3
<1>5. Pieces(chunk) = [p \in 1 .. count |-> piece(p)]
  BY DEF Pieces, piece
<1>6. QED
  BY <1>4, <1>5

LEMMA MorselsAre ==
  ASSUME NEW chunks \in Seq(Seq(Row))
  PROVE  Morsels(chunks) \in Seq(Seq(Row))
<1> DEFINE parts == [i \in DOMAIN chunks |-> Pieces(chunks[i])]
<1>1. \A i \in 1 .. Len(chunks) : Pieces(chunks[i]) \in Seq(Seq(Row))
  BY PiecesAre, ElementOfSeq
<1>2. parts \in Seq(Seq(Seq(Row)))
  BY <1>1
<1> HIDE DEF parts
<1>3. FlattenSeq(parts) \in Seq(Seq(Row))
  BY <1>2, FlattenIs
<1>4. QED
  BY <1>3 DEF Morsels, parts

(* A chunk through the leading operators. *)
Goes(chunk, n, f) ==
  f = [j \in 0 .. n |->
         IF j = 0 THEN Emit(Fresh, Some(chunk))
         ELSE IF f[j - 1].raised \/ f[j - 1].out = None
         THEN f[j - 1]
         ELSE Apply(line[j], nodes[j], f[j - 1].out[1])]

LEMMA GoesOn ==
  ASSUME NEW chunk, NEW n, NEW f, Goes(chunk, n, f), NEW j \in 0 .. n
  PROVE  f[j] = IF j = 0 THEN Emit(Fresh, Some(chunk))
                ELSE IF f[j - 1].raised \/ f[j - 1].out = None
                THEN f[j - 1]
                ELSE Apply(line[j], nodes[j], f[j - 1].out[1])
BY Zenon DEF Goes

LEMMA PrefixGoes ==
  ASSUME NEW chunk, lead \in Nat
  PROVE  \E f : Goes(chunk, lead, f) /\ Prefix(chunk) = f[lead]
<1> DEFINE K == {n \in Nat : \E f : Goes(chunk, n, f)}
<1>1. 0 \in K
  <2>1. Goes(chunk, 0, [i \in 0 .. 0 |-> Emit(Fresh, Some(chunk))])
    BY DEF Goes
  <2>2. QED
    BY <2>1
<1>2. \A k \in Nat : k \in K => k + 1 \in K
  <2>1. SUFFICES ASSUME NEW k \in Nat, k \in K
                 PROVE  \E f : Goes(chunk, k + 1, f)
    OBVIOUS
  <2>2. PICK f : Goes(chunk, k, f)
    BY <2>1
  <2> DEFINE g == [j \in 0 .. k + 1 |->
                     IF j = 0 THEN Emit(Fresh, Some(chunk))
                     ELSE IF f[j - 1].raised \/ f[j - 1].out = None
                     THEN f[j - 1]
                     ELSE Apply(line[j], nodes[j], f[j - 1].out[1])]
  <2>3. \A j \in 0 .. k : g[j] = f[j]
    BY <2>2, GoesOn
  <2>4. \A j \in 0 .. k + 1 : j # 0 => j - 1 \in 0 .. k
    OBVIOUS
  <2>5. g = [j \in 0 .. k + 1 |->
               IF j = 0 THEN Emit(Fresh, Some(chunk))
               ELSE IF g[j - 1].raised \/ g[j - 1].out = None
               THEN g[j - 1]
               ELSE Apply(line[j], nodes[j], g[j - 1].out[1])]
    BY <2>3, <2>4
  <2>6. Goes(chunk, k + 1, g)
    BY <2>5 DEF Goes
  <2>7. QED
    BY <2>6
<1> HIDE DEF K
<1>3. \E f : Goes(chunk, lead, f)
  <2>1. lead \in K
    BY <1>1, <1>2, NatSets
  <2>2. QED
    BY <2>1 DEF K
<1> DEFINE h == CHOOSE f : Goes(chunk, lead, f)
<1>4. Goes(chunk, lead, h)
  BY <1>3
<1>5. Prefix(chunk) = h[lead]
  BY DEF Prefix, Goes
<1>6. QED
  BY <1>4, <1>5

LEMMA ApplyLeaves ==
  ASSUME NEW op \in Operators, NEW node, Fits(op, node), NEW chunk \in Seq(Row)
  PROVE  Leaves(op, Apply(op, node, chunk))
<1>1. Leaves(op, Raise(node))
  BY OptIs DEF Leaves, Raise
<1>2. QED
  BY <1>1, ProcessLeaves DEF Apply

LEMMA PrefixIs ==
  ASSUME line \in Lines, NodesFit, lead \in 0 .. Len(line), NEW chunk \in Seq(Row)
  PROVE  Prefix(chunk).out \in Opt(Seq(Row)) /\ Prefix(chunk).raised \in BOOLEAN
<1>0. lead \in Nat /\ \A k \in 1 .. lead : k \in Ops
  BY LineIs
<1>1. PICK f : Goes(chunk, lead, f) /\ Prefix(chunk) = f[lead]
  BY <1>0, PrefixGoes
<1> DEFINE K == {k \in Nat : k \in 0 .. lead =>
                   f[k].out \in Opt(Seq(Row)) /\ f[k].raised \in BOOLEAN}
<1>2. 0 \in K
  <2>1. f[0] = Emit(Fresh, Some(chunk))
    BY <1>0, <1>1, GoesOn
  <2>2. Some(chunk) \in Opt(Seq(Row))
    BY OptIs
  <2>3. f[0].out \in Opt(Seq(Row)) /\ f[0].raised \in BOOLEAN
    BY <2>1, <2>2 DEF Emit
  <2>4. QED
    BY <2>3
<1>3. \A k \in Nat : k \in K => k + 1 \in K
  <2>1. SUFFICES ASSUME NEW k \in Nat, k \in K, k + 1 \in 0 .. lead
                 PROVE  f[k + 1].out \in Opt(Seq(Row)) /\ f[k + 1].raised \in BOOLEAN
    OBVIOUS
  <2> DEFINE j == k + 1
  <2>2. j \in 0 .. lead /\ j # 0 /\ j - 1 = k /\ j \in Ops /\ k \in 0 .. lead
    BY <1>0, <2>1
  <2> HIDE DEF j
  <2>3. f[k].out \in Opt(Seq(Row)) /\ f[k].raised \in BOOLEAN
    BY <2>1, <2>2
  <2>4. f[j] = IF f[k].raised \/ f[k].out = None THEN f[k]
               ELSE Apply(line[j], nodes[j], f[k].out[1])
    BY <1>1, <2>2, GoesOn
  <2>5. f[k].out # None => Leaves(line[j], Apply(line[j], nodes[j], f[k].out[1]))
    BY <2>2, <2>3, OptIs, ApplyLeaves, LineIs DEF NodesFit
  <2>6. f[j].out \in Opt(Seq(Row)) /\ f[j].raised \in BOOLEAN
    BY <2>3, <2>4, <2>5 DEF Leaves
  <2>7. QED
    BY <2>6 DEF j
<1> HIDE DEF K
<1>4. lead \in K
  BY <1>0, <1>2, <1>3, NatSets
<1>5. QED
  BY <1>0, <1>1, <1>4 DEF K
-----------------------------------------------------------------------------
(* Every step. *)

LEMMA InitHolds ==
  ASSUME Init
  PROVE  PInv
<1>1. line \in Lines /\ source \in Seq(Seq(Row))
  BY Inputs DEF Init
<1>2. Len(line) \in Nat /\ \A i \in Ops : line[i] \in Operators
  BY <1>1, LineIs
<1>3. NodesFit
  BY <1>2, FreshFits DEF Init, NodesFit
<1>4. /\ taken = <<>> /\ made = <<>> /\ hand = <<>> /\ todo = {} /\ lost = {}
      /\ phase = "call" /\ then = "serial" /\ lead = 0 /\ pos = 1 /\ at = 1
  BY DEF Init
<1>5. ChunksAre
  <2>1. <<>> \in Seq(Seq(Row)) /\ <<>> \in Seq(Row) /\ Len(<<>>) = 0
    OBVIOUS
  <2>2. <<>> \in [1 .. 0 -> Slots]
    OBVIOUS
  <2>3. QED
    BY <1>1, <1>4, <2>1, <2>2 DEF ChunksAre
<1>6. PlacesAre
  <2>1. 1 \in 1 .. Most(Len(line), Len(taken)) + 1
    BY <1>2, <1>4 DEF Most
  <2>2. QED
    BY <1>2, <1>4, <2>1 DEF PlacesAre, Serving, Emptying
<1>7. QED
  BY <1>1, <1>3, <1>5, <1>6 DEF PInv

LEMMA SlotsStay ==
  ASSUME UNCHANGED <<line, lead>>
  PROVE  Slots' = Slots
BY DEF Slots, Folding

LEMMA NodesStay ==
  ASSUME UNCHANGED <<line, nodes>>, NodesFit
  PROVE  NodesFit'
BY DEF NodesFit, Ops

\* What the invariant says of the numbers a step needs.
LEMMA Bounds ==
  ASSUME PInv
  PROVE  /\ Len(line) \in Nat /\ Len(taken) \in Nat
         /\ Ops = 1 .. Len(line)
         /\ Most(Len(line), Len(taken)) \in Nat
         /\ Len(line) <= Most(Len(line), Len(taken))
         /\ Len(taken) <= Most(Len(line), Len(taken))
         /\ Len(made) = Len(taken)
<1>1. Len(line) \in Nat /\ Ops = 1 .. Len(line)
  BY LineIs DEF PInv
<1>2. Len(taken) \in Nat
  BY DEF PInv, ChunksAre
<1> DEFINE n == Len(taken)
<1>3. n \in Nat /\ made \in [1 .. n -> Slots]
  BY <1>2 DEF PInv, ChunksAre
<1> HIDE DEF n
<1>4. Len(made) = n
  BY <1>3
<1>5. QED
  BY <1>1, <1>2, <1>4 DEF Most, n

LEMMA StartFits ==
  ASSUME PInv, Start
  PROVE  PInv'
<1>1. /\ UNCHANGED <<line, nodes, taken, made, todo, lost, at, hand, pos, then>>
      /\ phase = "call" /\ phase' \in {"read", "serial"}
  BY DEF Start, job, batch, push
<1>2. taken = <<>> /\ at = 1
  BY <1>1 DEF PInv, PlacesAre, Serving
<1>3. lead' \in 0 .. Len(line)
  BY LeadIs DEF Start, PInv
<1>4. source' \in Seq(Seq(Row))
  BY MorselsAre DEF Start, PInv, ChunksAre
<1>5. made' \in [1 .. Len(taken') -> Slots']
  <2>1. made \in [1 .. 0 -> Slots]
    BY <1>2 DEF PInv, ChunksAre
  <2>2. made \in [1 .. 0 -> Slots']
    BY <2>1
  <2>3. QED
    BY <1>1, <1>2, <2>2
<1>6. ChunksAre'
  BY <1>1, <1>4, <1>5 DEF PInv, ChunksAre
<1>7. PlacesAre'
  BY <1>1, <1>2, <1>3, Bounds DEF PInv, PlacesAre, Serving, Emptying, Ops
<1>8. QED
  BY <1>1, <1>6, <1>7, NodesStay DEF PInv

LEMMA SerialFits ==
  ASSUME PInv, SerialStep \/ SerialStop
  PROVE  PInv'
<1>1. /\ UNCHANGED <<line, lead, nodes, taken, made, todo, lost, at>>
      /\ phase = "serial"
  BY DEF SerialStep, SerialStop, job, batch
<1>2. CASE SerialStep
  <2>1. /\ source # <<>> /\ source' = Tail(source) /\ hand' = Head(source)
        /\ pos' = 1 /\ then' = "serial" /\ phase' = "push"
    BY <1>2 DEF SerialStep, Push
  <2>2. source' \in Seq(Seq(Row)) /\ hand' \in Seq(Row)
    BY <2>1, HeadTailProperties DEF PInv, ChunksAre
  <2>3. ChunksAre'
    BY <1>1, <2>2, SlotsStay DEF PInv, ChunksAre
  <2>4. PlacesAre'
    BY <1>1, <2>1, Bounds DEF PInv, PlacesAre, Serving, Emptying, Ops
  <2>5. QED
    BY <1>1, <2>3, <2>4, NodesStay DEF PInv
<1>3. CASE SerialStop
  <2>1. UNCHANGED <<source, hand, pos, then>> /\ phase' = "finish"
    BY <1>3 DEF SerialStop, push
  <2>2. ChunksAre'
    BY <1>1, <2>1, SlotsStay DEF PInv, ChunksAre
  <2>3. PlacesAre'
    BY <1>1, <2>1, Bounds DEF PInv, PlacesAre, Serving, Emptying, Ops
  <2>4. QED
    BY <1>1, <2>2, <2>3, NodesStay DEF PInv
<1>4. QED
  BY <1>2, <1>3

LEMMA ReadFits ==
  ASSUME PInv, ReadBatch
  PROVE  PInv'
<1> DEFINE count == Least(Len(source), WorkerCount * BATCH_CHUNKS_PER_WORKER)
<1>1. source \in Seq(Seq(Row)) /\ Len(source) \in Nat
  BY DEF PInv, ChunksAre
<1>2. count \in Nat /\ count <= Len(source)
  <2>1. WorkerCount * BATCH_CHUNKS_PER_WORKER \in Nat
    BY Sizes
  <2>2. QED
    BY <1>1, <2>1 DEF Least
<1>3. /\ count > 0
      /\ taken' = SubSeq(source, 1, count)
      /\ source' = SubSeq(source, count + 1, Len(source))
      /\ made' = [c \in 1 .. count |-> None]
      /\ todo' = 1 .. count
      /\ phase = "read" /\ phase' = "head"
      /\ UNCHANGED <<line, lead, nodes, lost, at, hand, pos, then>>
  BY DEF ReadBatch, job, push
<1> HIDE DEF count
<1>4. taken' \in Seq(Seq(Row)) /\ Len(taken') = count
  BY <1>1, <1>2, <1>3, SubSeqProperties
<1>5. source' \in Seq(Seq(Row))
  BY <1>1, <1>2, <1>3, SubSeqProperties
<1>6. None \in Slots'
  BY OptIs DEF Slots
<1>7. ChunksAre'
  <2>1. lost = {}
    BY <1>3 DEF PInv, PlacesAre
  <2>2. QED
    BY <1>3, <1>4, <1>5, <1>6, <2>1 DEF PInv, ChunksAre
<1>8. PlacesAre'
  BY <1>2, <1>3, <1>4, Bounds DEF PInv, PlacesAre, Serving, Emptying, Ops, Most
<1>9. QED
  BY <1>3, <1>7, <1>8, NodesStay DEF PInv

LEMMA SourceDoneFits ==
  ASSUME PInv, SourceDone
  PROVE  PInv'
<1>1. /\ UNCHANGED <<line, source, lead, nodes, taken, made, todo, lost, at, hand,
                     pos, then>>
      /\ phase = "read" /\ phase' = "finish"
  BY DEF SourceDone, job, batch, push
<1>2. ChunksAre'
  BY <1>1, SlotsStay DEF PInv, ChunksAre
<1>3. PlacesAre'
  BY <1>1, Bounds DEF PInv, PlacesAre, Serving, Emptying, Ops
<1>4. QED
  BY <1>1, <1>2, <1>3, NodesStay DEF PInv

LEMMA RunHeadFits ==
  ASSUME PInv, NEW c \in DOMAIN taken, RunHead(c)
  PROVE  PInv'
<1>1. /\ UNCHANGED <<line, source, phase, lead, nodes, taken, at, hand, pos, then>>
      /\ phase = "head" /\ c \in todo
  BY DEF RunHead, job, push
<1>2. PICK r \in {Prefix(taken[c])} :
        /\ todo' = todo \ {c}
        /\ lost' = IF r.raised THEN lost \cup {c} ELSE lost
        /\ made' = [made EXCEPT ![c] = IF Folding /\ r.out # None
                                       THEN Partial(r.out[1]) ELSE r.out]
  BY DEF RunHead
<1>3. taken[c] \in Seq(Row) /\ c \in 1 .. Len(taken)
  BY DEF PInv, ChunksAre
<1>4. r.out \in Opt(Seq(Row))
  BY <1>2, <1>3, PrefixIs DEF PInv, PlacesAre
<1>5. (IF Folding /\ r.out # None THEN Partial(r.out[1]) ELSE r.out) \in Slots
  <2>1. r.out # None => Partial(r.out[1]) \in Opt(Tallies)
    BY <1>4, OptIs, PartialIs
  <2>2. None \in Opt(Tallies)
    BY OptIs
  <2>3. QED
    BY <1>4, <2>1, <2>2 DEF Slots
<1>6. made' \in [1 .. Len(taken) -> Slots]
  BY <1>2, <1>5 DEF PInv, ChunksAre
<1>7. todo' \cup lost' \subseteq 1 .. Len(taken)
  BY <1>2, <1>3 DEF PInv, ChunksAre
<1>8. ChunksAre'
  BY <1>1, <1>6, <1>7, SlotsStay DEF PInv, ChunksAre
<1>9. PlacesAre'
  BY <1>1 DEF PInv, PlacesAre, Serving, Emptying, Ops
<1>10. QED
  BY <1>1, <1>8, <1>9, NodesStay DEF PInv

LEMMA HeadFits ==
  ASSUME PInv, HeadRaises \/ HeadReturns
  PROVE  PInv'
<1>1. /\ UNCHANGED <<line, source, lead, nodes, taken, made, todo, lost, hand, pos,
                     then>>
      /\ phase = "head"
      /\ \/ phase' = "failed" /\ at' = at
         \/ phase' = "drain" /\ at' = 1 /\ lost = {}
  BY DEF HeadRaises, HeadReturns, job, batch, push
<1>2. ChunksAre'
  BY <1>1, SlotsStay DEF PInv, ChunksAre
<1>3. PlacesAre'
  BY <1>1, Bounds DEF PInv, PlacesAre, Serving, Emptying, Ops
<1>4. QED
  BY <1>1, <1>2, <1>3, NodesStay DEF PInv

LEMMA DrainFits ==
  ASSUME PInv, Drain
  PROVE  PInv'
<1> DEFINE slot == made[at]
           next == IF at = Len(made) THEN "read" ELSE "drain"
<1>1. /\ UNCHANGED <<line, source, lead, taken, made, todo, lost>>
      /\ phase = "drain"
      /\ at' = IF at = Len(made) THEN 1 ELSE at + 1
      /\ IF slot # None /\ ~ Folding
         THEN Push(lead + 1, slot[1], next) /\ UNCHANGED nodes
         ELSE /\ nodes' = IF slot = None THEN nodes
                          ELSE [nodes EXCEPT ![lead + 1] = Absorb(@, slot[1])]
              /\ phase' = next
              /\ UNCHANGED push
  BY DEF Drain, job, batch
<1>2. at \in 1 .. Len(taken) /\ Len(made) = Len(taken) /\ Len(taken) \in Nat
  BY <1>1, Bounds DEF PInv, PlacesAre, Emptying
<1>3. slot \in Slots
  BY <1>2 DEF PInv, ChunksAre
<1> HIDE DEF slot
<1>4. \/ at = Len(taken) /\ at' = 1 /\ next = "read"
      \/ at + 1 \in 1 .. Len(taken) /\ at' = at + 1 /\ next = "drain"
  BY <1>1, <1>2
<1> HIDE DEF next
<1>5. CASE slot # None /\ ~ Folding
  <2>1. /\ hand' = slot[1] /\ pos' = lead + 1 /\ then' = next /\ phase' = "push"
        /\ UNCHANGED nodes
    BY <1>1, <1>5 DEF Push
  <2>2. slot[1] \in Seq(Row)
    BY <1>3, <1>5, OptIs DEF Slots
  <2>3. ChunksAre'
    BY <1>1, <2>1, <2>2, SlotsStay DEF PInv, ChunksAre
  <2>4. PlacesAre'
    BY <1>1, <1>2, <1>4, <2>1, Bounds DEF PInv, PlacesAre, Serving, Emptying, Ops
  <2>5. QED
    BY <1>1, <2>1, <2>3, <2>4, NodesStay DEF PInv
<1>6. CASE ~ (slot # None /\ ~ Folding)
  <2>1. /\ nodes' = IF slot = None THEN nodes
                    ELSE [nodes EXCEPT ![lead + 1] = Absorb(@, slot[1])]
        /\ phase' = next /\ UNCHANGED <<hand, pos, then>>
    BY <1>1, <1>6 DEF push
  <2>2. slot # None => slot[1] \in Tallies
    BY <1>3, <1>6, OptIs DEF Slots
  <2>3. NodesFit'
    <3>1. slot # None => lead + 1 \in Ops
      BY <1>6, LineIs DEF Folding, PInv, PlacesAre
    <3>2. slot # None => Fits(line[lead + 1], Absorb(nodes[lead + 1], slot[1]))
      BY <2>2, <3>1, AbsorbFits DEF PInv, NodesFit
    <3>3. QED
      BY <1>1, <2>1, <3>1, <3>2 DEF PInv, NodesFit, Ops
  <2>4. ChunksAre'
    BY <1>1, <2>1, SlotsStay DEF PInv, ChunksAre
  <2>5. PlacesAre'
    BY <1>1, <1>2, <1>4, <2>1, Bounds DEF PInv, PlacesAre, Serving, Emptying, Ops
  <2>6. QED
    BY <1>1, <2>3, <2>4, <2>5 DEF PInv
<1>7. QED
  BY <1>5, <1>6

LEMMA PushNodeFits ==
  ASSUME PInv, PushNode
  PROVE  PInv'
<1>1. /\ UNCHANGED <<line, source, lead, taken, made, todo, lost, at, then>>
      /\ phase = "push" /\ pos \in Ops /\ pos' = pos + 1
  BY DEF PushNode, job, batch
<1>2. PICK r \in {Process(line[pos], nodes[pos], hand)} :
        /\ nodes' = [nodes EXCEPT ![pos] = r.node]
        /\ phase' = IF r.raised THEN "failed"
                    ELSE IF r.out = None THEN then ELSE "push"
        /\ hand' = IF r.out = None THEN <<>> ELSE r.out[1]
  BY DEF PushNode
<1>3. Leaves(line[pos], r)
  BY <1>1, <1>2, LineIs, ProcessLeaves DEF PInv, NodesFit, ChunksAre
<1>4. NodesFit'
  BY <1>1, <1>2, <1>3 DEF PInv, NodesFit, Leaves, Ops
<1>5. hand' \in Seq(Row)
  BY <1>2, <1>3, OptIs DEF Leaves
<1>6. ChunksAre'
  BY <1>1, <1>5, SlotsStay DEF PInv, ChunksAre
<1>7. phase' \in {"failed", "push", then}
  BY <1>2
<1>8. PlacesAre'
  BY <1>1, <1>7, Bounds DEF PInv, PlacesAre, Serving, Emptying, Ops
<1>9. QED
  BY <1>1, <1>4, <1>6, <1>8 DEF PInv

LEMMA PushSinkFits ==
  ASSUME PInv, PushSink
  PROVE  PInv'
<1>1. /\ UNCHANGED <<line, source, lead, nodes, taken, made, todo, lost, at, pos,
                     then>>
      /\ phase = "push" /\ phase' = then /\ hand' = <<>>
  BY DEF PushSink, job, batch
<1>2. <<>> \in Seq(Row)
  OBVIOUS
<1>3. ChunksAre'
  BY <1>1, <1>2, SlotsStay DEF PInv, ChunksAre
<1>4. PlacesAre'
  BY <1>1, Bounds DEF PInv, PlacesAre, Serving, Emptying, Ops
<1>5. QED
  BY <1>1, <1>3, <1>4, NodesStay DEF PInv

LEMMA FinishFits ==
  ASSUME PInv, FinishNode
  PROVE  PInv'
<1>1. /\ UNCHANGED <<line, source, lead, taken, made, todo, lost>>
      /\ phase = "finish" /\ at \in Ops
  BY DEF FinishNode, job, batch
<1>2. PICK r \in {Finish(line[at], nodes[at])} :
        /\ nodes' = [nodes EXCEPT ![at] = r.node]
        /\ IF r.out = None
           THEN at' = at + 1 /\ UNCHANGED <<phase, push>>
           ELSE Push(at + 1, r.out[1], "finish") /\ UNCHANGED at
  BY DEF FinishNode
<1>3. Leaves(line[at], r)
  BY <1>1, <1>2, LineIs, FinishLeaves DEF PInv, NodesFit
<1>4. NodesFit'
  BY <1>1, <1>2, <1>3 DEF PInv, NodesFit, Leaves, Ops
<1>5. \/ at' = at + 1 /\ UNCHANGED <<phase, hand, pos, then>>
      \/ /\ r.out # None /\ hand' = r.out[1] /\ pos' = at + 1
         /\ then' = "finish" /\ phase' = "push" /\ at' = at
  BY <1>2 DEF Push, push
<1>6. hand' \in Seq(Row)
  BY <1>3, <1>5, OptIs DEF Leaves, PInv, ChunksAre
<1>7. ChunksAre'
  BY <1>1, <1>6, SlotsStay DEF PInv, ChunksAre
<1>8. PlacesAre'
  BY <1>1, <1>5, Bounds DEF PInv, PlacesAre, Serving, Emptying, Ops
<1>9. QED
  BY <1>1, <1>4, <1>7, <1>8 DEF PInv

LEMMA ReturnFits ==
  ASSUME PInv, Return \/ UNCHANGED vars
  PROVE  PInv'
<1>1. /\ UNCHANGED <<line, source, lead, nodes, taken, made, todo, lost, at, hand,
                     pos, then>>
      /\ phase' = phase \/ (phase = "finish" /\ phase' = "answered")
  BY DEF Return, vars, job, batch, push
<1>2. ChunksAre'
  BY <1>1, SlotsStay DEF PInv, ChunksAre
<1>3. PlacesAre'
  BY <1>1, Bounds DEF PInv, PlacesAre, Serving, Emptying, Ops
<1>4. QED
  BY <1>1, <1>2, <1>3, NodesStay DEF PInv

LEMMA StepFits ==
  ASSUME PInv, [Next]_vars
  PROVE  PInv'
BY StartFits, SerialFits, ReadFits, SourceDoneFits, RunHeadFits, HeadFits,
   DrainFits, PushNodeFits, PushSinkFits, FinishFits, ReturnFits DEF Next

LEMMA FitsInBounds ==
  ASSUME PInv
  PROVE  NodesStayInBounds
<1>1. TypeOK
  BY Bounds DEF PInv, PlacesAre, ChunksAre, NodesFit, Fits, Within, TypeOK
<1>2. SortHoldsABound
  BY DEF PInv, NodesFit, Fits, Within, SortHoldsABound
<1>3. QED
  BY <1>1, <1>2 DEF NodesStayInBounds

(***************************************************************************)
(* Limit.process, Sort._compact and the driver of run(): over any line of  *)
(* operators and any frame, whatever the batches and the order the workers *)
(* take, a limit never passes or drops more than it was asked to, and a    *)
(* sort with a bound never holds more than twice the bound, or the floor.  *)
(***************************************************************************)
THEOREM NodesAreInBounds == Spec => []NodesStayInBounds
<1>1. Init => PInv
  BY InitHolds
<1>2. PInv /\ [Next]_vars => PInv'
  BY StepFits
<1>3. PInv => NodesStayInBounds
  BY FitsInBounds
<1>4. QED
  BY <1>1, <1>2, <1>3, PTL DEF Spec
-----------------------------------------------------------------------------
\* An operator that can stop the source: a limit with no breaker before it.
Stops(i) == EndsEarly(line[i]) /\ \A j \in 1 .. i : ~IsBreaker(line[j])
NothingStops == \A i \in Ops : ~Stops(i)

\* The phases of the batched route, and of the pushes that go back to it.
Batched == \/ phase \in {"read", "head", "drain"}
           \/ phase = "push" /\ then \in {"read", "drain"}

\* The batched route is taken for lines that nothing can stop.
RInv == /\ line \in Lines
        /\ then \in {"serial", "read", "drain", "finish"}
        /\ Batched => NothingStops
-----------------------------------------------------------------------------
\* The two reasons to leave the serial route.
LEMMA RouteHasNoLimit ==
  ASSUME line \in Lines, PrefixLead > 0 \/ FoldsSource
  PROVE  NothingStops
<1>1. CASE PrefixLead > 0
  BY <1>1 DEF PrefixLead, NothingStops, Stops
<1>2. CASE FoldsSource
  <2>1. IsBreaker(line[1])
    BY <1>2 DEF FoldsSource, IsBreaker
  <2>2. \A i \in Ops : 1 \in 1 .. i
    BY LineIs
  <2>3. QED
    BY <2>1, <2>2 DEF NothingStops, Stops
<1>3. QED
  BY <1>1, <1>2

LEMMA StartKeeps ==
  ASSUME RInv, Start
  PROVE  RInv' /\ (source' # source => NothingStops)
<1>1. UNCHANGED <<line, then>> /\ phase' \in {"read", "serial"}
  BY DEF Start, job, push
<1>2. phase' = "read" => PrefixLead > 0 \/ FoldsSource
  BY DEF Start, ParallelLead
<1>3. source' # source => PrefixLead > 0 \/ FoldsSource
  BY DEF Start
<1>4. phase' = "read" \/ source' # source => NothingStops
  BY <1>2, <1>3, RouteHasNoLimit DEF RInv
<1>5. QED
  BY <1>1, <1>4 DEF RInv, Batched, NothingStops, Stops, Ops

\* The steps of a push go back to the phase they were made from.
LEMMA PushKeeps ==
  ASSUME RInv, PushNode \/ PushSink
  PROVE  RInv' /\ source' = source
<1>1. UNCHANGED <<line, then, source>> /\ phase = "push"
      /\ phase' \in {"failed", "push", then}
  BY DEF PushNode, PushSink, job
<1>2. Batched' => Batched
  BY <1>1 DEF RInv, Batched
<1>3. QED
  BY <1>1, <1>2 DEF RInv, NothingStops, Stops, Ops

\* The steps of the batched route stay on it.
LEMMA BatchKeeps ==
  ASSUME RInv, \/ ReadBatch \/ SourceDone
               \/ \E c \in DOMAIN taken : RunHead(c)
               \/ HeadRaises \/ HeadReturns \/ Drain
  PROVE  RInv' /\ NothingStops
<1>1. UNCHANGED line /\ phase \in {"read", "head", "drain"}
  BY DEF ReadBatch, SourceDone, RunHead, HeadRaises, HeadReturns, Drain, job
<1>2. then' \in {then, "read", "drain"}
  <2>1. CASE Drain
    BY <2>1 DEF Drain, Push, push
  <2>2. CASE ~Drain
    BY <2>2 DEF ReadBatch, SourceDone, RunHead, HeadRaises, HeadReturns, push
  <2>3. QED
    BY <2>1, <2>2
<1>3. NothingStops
  BY <1>1 DEF RInv, Batched
<1>4. QED
  BY <1>1, <1>2, <1>3 DEF RInv, NothingStops, Stops, Ops

LEMMA SerialKeeps ==
  ASSUME RInv, \/ SerialStep \/ SerialStop \/ FinishNode \/ Return
  PROVE  RInv' /\ (source' # source => ~NothingMore)
<1>1. UNCHANGED line /\ (source' # source => ~NothingMore)
  BY DEF SerialStep, SerialStop, FinishNode, Return, job
<1>2. /\ phase' \in {"push", "finish", "answered"}
      /\ then' = then \/ then' \in {"serial", "finish"}
      /\ phase' = "push" => then' \in {"serial", "finish"}
  BY DEF SerialStep, SerialStop, FinishNode, Return, Push, push
<1>3. QED
  BY <1>1, <1>2 DEF RInv, Batched

LEMMA StepKeeps ==
  ASSUME RInv, [Next]_vars
  PROVE  /\ RInv'
         /\ source' # source => NothingStops \/ ~NothingMore
<1>1. CASE UNCHANGED vars
  BY <1>1 DEF vars, job, push, RInv, Batched, NothingStops, Stops, Ops
<1>2. CASE Next
  BY <1>2, StartKeeps, PushKeeps, BatchKeeps, SerialKeeps DEF Next
<1>3. QED
  BY <1>1, <1>2
-----------------------------------------------------------------------------
(***************************************************************************)
(* _finished and _prefix_lead: once a limit with no breaker before it has  *)
(* what it was asked for, no chunk is read any more and the source is not  *)
(* cut, for any line, any frame and any number of workers.                 *)
(***************************************************************************)
THEOREM SourceIsStopped == Spec => LimitStopsTheSource
<1>1. Init => RInv
  BY DEF Init, RInv, Batched
<1>2. RInv /\ [Next]_vars => RInv'
  BY StepKeeps
<1>3. RInv /\ [Next]_vars =>
        [source' # source =>
           ~ \E i \in Ops : /\ EndsEarly(line[i])
                            /\ \A j \in 1 .. i : ~ IsBreaker(line[j])
                            /\ Finished(line[i], nodes[i])]_vars
  BY StepKeeps DEF NothingStops, Stops, NothingMore
<1>4. QED
  BY <1>1, <1>2, <1>3, PTL DEF Spec, LimitStopsTheSource
-----------------------------------------------------------------------------
(***************************************************************************)
(* Sequences of rows end to end, and the rows of some keys.                *)
(***************************************************************************)

(* Induction over sequences, for a set in the place of a predicate. *)
LEMMA SeqSets ==
  ASSUME NEW S, NEW T, <<>> \in T,
         \A s \in Seq(S), e \in S : s \in T => Append(s, e) \in T
  PROVE  \A s \in Seq(S) : s \in T
<1> DEFINE K == {n \in Nat : \A s \in Seq(S) : Len(s) = n => s \in T}
<1>1. 0 \in K
  BY EmptySeq
<1>2. \A k \in Nat : k \in K => k + 1 \in K
  <2>1. SUFFICES ASSUME NEW k \in Nat, k \in K, NEW s \in Seq(S), Len(s) = k + 1
                 PROVE  s \in T
    OBVIOUS
  <2>2. PICK r \in Seq(S), e \in S : s = Append(r, e) /\ Len(r) = k
    BY <2>1, ShorterByOne
  <2>3. QED
    BY <2>1, <2>2
<1> HIDE DEF K
<1>3. \A k \in Nat : k \in K
  BY <1>1, <1>2, NatSets
<1>4. SUFFICES ASSUME NEW s \in Seq(S) PROVE s \in T
  OBVIOUS
<1>5. Len(s) \in K
  BY <1>3, LenProperties
<1>6. QED
  BY <1>5 DEF K
-----------------------------------------------------------------------------
(* Sequences of sequences end to end. *)
LEMMA FlattenOne ==
  ASSUME NEW S, NEW s \in Seq(S)
  PROVE  FlattenSeq(<<s>>) = s
<1>1. <<>> \in Seq(Seq(S)) /\ Append(<<>>, s) = <<s>>
  OBVIOUS
<1>2. FlattenSeq(<<s>>) = FlattenSeq(<<>>) \o s
  BY <1>1, FlattenMore
<1>3. QED
  BY <1>2, FlattenNone, ConcatEmptySeq

\* An element more is put at the end of what stands before.
LEMMA AppendJoins ==
  ASSUME NEW S, NEW a \in Seq(S), NEW s \in Seq(S), NEW e \in S
  PROVE  a \o Append(s, e) = Append(a \o s, e) /\ a \o s \in Seq(S)
<1>1. Append(s, e) = s \o <<e>> /\ <<e>> \in Seq(S)
  BY AppendIsConcat
<1>2. a \o s \in Seq(S)
  BY ConcatProperties
<1>3. Append(a \o s, e) = (a \o s) \o <<e>>
  BY <1>2, AppendIsConcat
<1>4. QED
  BY <1>1, <1>2, <1>3, ConcatAssociative

LEMMA FlattenJoin ==
  ASSUME NEW S, NEW a \in Seq(Seq(S)), NEW b \in Seq(Seq(S))
  PROVE  FlattenSeq(a \o b) = FlattenSeq(a) \o FlattenSeq(b)
<1> DEFINE T == {t \in Seq(Seq(S)) : FlattenSeq(a \o t) = FlattenSeq(a) \o FlattenSeq(t)}
<1>0. FlattenSeq(a) \in Seq(S)
  BY FlattenIs
<1>1. <<>> \in T
  <2>1. a \o <<>> = a /\ <<>> \in Seq(Seq(S))
    BY ConcatEmptySeq
  <2>2. FlattenSeq(a) \o <<>> = FlattenSeq(a)
    BY <1>0, ConcatEmptySeq
  <2>3. QED
    BY <2>1, <2>2, FlattenNone
<1>2. \A t \in Seq(Seq(S)), e \in Seq(S) : t \in T => Append(t, e) \in T
  <2>1. SUFFICES ASSUME NEW t \in Seq(Seq(S)), NEW e \in Seq(S), t \in T
                 PROVE  Append(t, e) \in T
    OBVIOUS
  <2>2. Append(t, e) \in Seq(Seq(S))
    BY AppendProperties
  <2>3. a \o Append(t, e) = Append(a \o t, e) /\ a \o t \in Seq(Seq(S))
    BY AppendJoins
  <2>4. FlattenSeq(Append(a \o t, e)) = FlattenSeq(a \o t) \o e
    BY <2>3, FlattenMore
  <2>5. FlattenSeq(Append(t, e)) = FlattenSeq(t) \o e
    BY FlattenMore
  <2>6. FlattenSeq(t) \in Seq(S)
    BY FlattenIs
  <2>7. (FlattenSeq(a) \o FlattenSeq(t)) \o e = FlattenSeq(a) \o (FlattenSeq(t) \o e)
    BY <1>0, <2>6, ConcatAssociative
  <2>8. FlattenSeq(a \o t) = FlattenSeq(a) \o FlattenSeq(t)
    BY <2>1
  <2>9. FlattenSeq(a \o Append(t, e)) = FlattenSeq(a) \o FlattenSeq(Append(t, e))
    BY <2>3, <2>4, <2>5, <2>7, <2>8
  <2>10. QED
    BY <2>2, <2>9
<1> HIDE DEF T
<1>3. b \in T
  BY <1>1, <1>2, SeqSets
<1>4. QED
  BY <1>3 DEF T

\* The first of them, and the others.
LEMMA FlattenHead ==
  ASSUME NEW S, NEW a \in Seq(Seq(S)), a # <<>>
  PROVE  FlattenSeq(a) = Head(a) \o FlattenSeq(Tail(a))
<1>1. Head(a) \in Seq(S) /\ Tail(a) \in Seq(Seq(S))
  BY HeadTailProperties
<1>2. <<Head(a)>> \in Seq(Seq(S)) /\ a = <<Head(a)>> \o Tail(a)
  <2>1. <<Head(a)>> \in Seq(Seq(S))
    BY <1>1
  <2>2. /\ Len(a) \in Nat \ {0} /\ Len(<<Head(a)>>) = 1
        /\ <<Head(a)>>[1] = a[1]
    BY EmptySeq
  <2>3. /\ <<Head(a)>> \o Tail(a) \in Seq(Seq(S))
        /\ Len(<<Head(a)>> \o Tail(a)) = Len(a)
        /\ \A i \in 1 .. Len(a) : (<<Head(a)>> \o Tail(a))[i] = a[i]
    <3>1. Len(Tail(a)) = Len(a) - 1 /\ \A i \in 1 .. Len(a) - 1 : Tail(a)[i] = a[i + 1]
      BY HeadTailProperties
    <3>2. /\ <<Head(a)>> \o Tail(a) \in Seq(Seq(S))
          /\ Len(<<Head(a)>> \o Tail(a)) = 1 + (Len(a) - 1)
          /\ \A i \in 1 .. 1 + (Len(a) - 1) : (<<Head(a)>> \o Tail(a))[i] =
                 IF i <= 1 THEN <<Head(a)>>[i] ELSE Tail(a)[i - 1]
      BY <1>1, <2>1, <2>2, <3>1, ConcatProperties
    <3>3. \A i \in 1 .. Len(a) : i > 1 => i - 1 \in 1 .. Len(a) - 1
      BY <2>2
    <3>4. QED
      BY <2>2, <3>1, <3>2, <3>3
  <2>4. QED
    BY <2>1, <2>3, SeqEqual
<1>3. FlattenSeq(a) = FlattenSeq(<<Head(a)>>) \o FlattenSeq(Tail(a))
  BY <1>1, <1>2, FlattenJoin
<1>4. QED
  BY <1>1, <1>3, FlattenOne
-----------------------------------------------------------------------------
(* The rows of some keys. *)
LEMMA WithKeyNothing ==
  ASSUME NEW keys
  PROVE  WithKey(<<>>, keys) = <<>>
BY AtNone DEF WithKey

LEMMA WithKeyMore ==
  ASSUME NEW rows \in Seq(Row), NEW e \in Row, NEW keys
  PROVE  WithKey(Append(rows, e), keys) =
           IF e.key \in keys THEN Append(WithKey(rows, keys), e)
           ELSE WithKey(rows, keys)
<1> DEFINE more == Append(rows, e)
           places == {i \in DOMAIN more : more[i].key \in keys}
           before == {i \in DOMAIN rows : rows[i].key \in keys}
<1>1. /\ Len(more) = Len(rows) + 1 /\ Len(rows) \in Nat
      /\ DOMAIN more = 1 .. Len(rows) + 1 /\ DOMAIN rows = 1 .. Len(rows)
      /\ \A i \in 1 .. Len(rows) : more[i] = rows[i]
      /\ more[Len(rows) + 1] = e
  BY AppendProperties
<1>2. \A i \in 1 .. Len(rows) : i \in places <=> i \in before
  BY <1>1
<1>3. Len(rows) + 1 \in places <=> e.key \in keys
  BY <1>1
<1> HIDE DEF places, before
<1>4. At(more, places) = IF Len(rows) + 1 \in places
                         THEN Append(At(rows, before), e) ELSE At(rows, before)
  BY <1>2, AtMore
<1>5. QED
  BY <1>3, <1>4 DEF WithKey, places, before

LEMMA WithKeyJoin ==
  ASSUME NEW a \in Seq(Row), NEW b \in Seq(Row), NEW keys
  PROVE  WithKey(a \o b, keys) = WithKey(a, keys) \o WithKey(b, keys)
<1> DEFINE w(s) == WithKey(s, keys)
           T == {t \in Seq(Row) : w(a \o t) = w(a) \o w(t)}
<1>0. \A s \in Seq(Row) : w(s) \in Seq(Row)
  BY WithKeyIs
<1>1. <<>> \in T
  <2>1. a \o <<>> = a /\ <<>> \in Seq(Row) /\ w(a) \o <<>> = w(a)
    BY <1>0, ConcatEmptySeq
  <2>2. QED
    BY <2>1, WithKeyNothing
<1>2. \A t \in Seq(Row), e \in Row : t \in T => Append(t, e) \in T
  <2>1. SUFFICES ASSUME NEW t \in Seq(Row), NEW e \in Row, t \in T
                 PROVE  Append(t, e) \in T
    OBVIOUS
  <2>2. Append(t, e) \in Seq(Row)
    BY AppendProperties
  <2>3. a \o Append(t, e) = Append(a \o t, e) /\ a \o t \in Seq(Row)
    BY AppendJoins
  <2>4. w(Append(a \o t, e)) = IF e.key \in keys THEN Append(w(a \o t), e) ELSE w(a \o t)
    BY <2>3, WithKeyMore
  <2>5. w(Append(t, e)) = IF e.key \in keys THEN Append(w(t), e) ELSE w(t)
    BY WithKeyMore
  <2>6. w(a) \o Append(w(t), e) = Append(w(a) \o w(t), e)
    BY <1>0, AppendJoins
  <2> HIDE DEF w
  <2>7. w(a \o Append(t, e)) = w(a) \o w(Append(t, e))
    BY <2>1, <2>3, <2>4, <2>5, <2>6
  <2>8. QED
    BY <2>2, <2>7
<1> HIDE DEF T
<1>3. b \in T
  BY <1>1, <1>2, SeqSets
<1>4. QED
  BY <1>3 DEF T

\* Whose key they have.
LEMMA WithKeyHas ==
  ASSUME NEW rows \in Seq(Row), NEW keys
  PROVE  \A i \in 1 .. Len(WithKey(rows, keys)) : WithKey(rows, keys)[i].key \in keys
<1> DEFINE w(s) == WithKey(s, keys)
           T == {t \in Seq(Row) : \A i \in 1 .. Len(w(t)) : w(t)[i].key \in keys}
<1>0. \A s \in Seq(Row) : w(s) \in Seq(Row)
  BY WithKeyIs
<1>1. <<>> \in T
  <2>1. w(<<>>) = <<>> /\ Len(<<>>) = 0 /\ <<>> \in Seq(Row)
    BY WithKeyNothing
  <2> HIDE DEF w
  <2>2. QED
    BY <2>1
<1>2. \A t \in Seq(Row), e \in Row : t \in T => Append(t, e) \in T
  <2>1. SUFFICES ASSUME NEW t \in Seq(Row), NEW e \in Row, t \in T
                 PROVE  Append(t, e) \in T
    OBVIOUS
  <2>2. Append(t, e) \in Seq(Row) /\ w(t) \in Seq(Row)
    BY <1>0, AppendProperties
  <2>3. w(Append(t, e)) = IF e.key \in keys THEN Append(w(t), e) ELSE w(t)
    BY WithKeyMore
  <2> HIDE DEF w
  <2>4. \A i \in 1 .. Len(w(t)) : w(t)[i].key \in keys
    BY <2>1
  <2>5. CASE e.key \in keys
    <3> DEFINE z == Append(w(t), e)
    <3>1. /\ Len(z) = Len(w(t)) + 1 /\ Len(w(t)) \in Nat
          /\ \A i \in 1 .. Len(w(t)) : z[i] = w(t)[i]
          /\ z[Len(w(t)) + 1] = e
      BY <2>2, AppendProperties
    <3> HIDE DEF z
    <3>2. \A i \in 1 .. Len(z) : z[i].key \in keys
      BY <2>4, <2>5, <3>1
    <3>3. QED
      BY <2>2, <2>3, <2>5, <3>2 DEF z
  <2>6. CASE e.key \notin keys
    BY <2>1, <2>2, <2>3, <2>6
  <2>7. QED
    BY <2>5, <2>6
<1> HIDE DEF T
<1>3. rows \in T
  BY <1>1, <1>2, SeqSets
<1>4. QED
  BY <1>3 DEF T

\* All of them, or none.
LEMMA WithKeyAll ==
  ASSUME NEW rows \in Seq(Row), NEW keys
  PROVE  /\ (\A i \in 1 .. Len(rows) : rows[i].key \in keys) =>
              WithKey(rows, keys) = rows
         /\ (\A i \in 1 .. Len(rows) : rows[i].key \notin keys) =>
              WithKey(rows, keys) = <<>>
<1> DEFINE w(s) == WithKey(s, keys)
           T == {t \in Seq(Row) :
                   /\ (\A i \in 1 .. Len(t) : t[i].key \in keys) => w(t) = t
                   /\ (\A i \in 1 .. Len(t) : t[i].key \notin keys) => w(t) = <<>>}
<1>1. <<>> \in T
  <2>1. w(<<>>) = <<>> /\ <<>> \in Seq(Row)
    BY WithKeyNothing
  <2> HIDE DEF w
  <2>2. QED
    BY <2>1
<1>2. \A t \in Seq(Row), e \in Row : t \in T => Append(t, e) \in T
  <2>1. SUFFICES ASSUME NEW t \in Seq(Row), NEW e \in Row, t \in T
                 PROVE  Append(t, e) \in T
    OBVIOUS
  <2> DEFINE z == Append(t, e)
  <2>2. /\ z \in Seq(Row) /\ Len(z) = Len(t) + 1 /\ Len(t) \in Nat
        /\ \A i \in 1 .. Len(t) : z[i] = t[i]
        /\ z[Len(t) + 1] = e
    BY AppendProperties
  <2>3. w(z) = IF e.key \in keys THEN Append(w(t), e) ELSE w(t)
    BY WithKeyMore
  <2> HIDE DEF w
  <2>4. ASSUME \A i \in 1 .. Len(z) : z[i].key \in keys PROVE w(z) = z
    <3>1. (\A i \in 1 .. Len(t) : t[i].key \in keys) /\ e.key \in keys
      <4>1. \A i \in 1 .. Len(t) : i \in 1 .. Len(z)
        BY <2>2
      <4>2. Len(t) + 1 \in 1 .. Len(z)
        BY <2>2
      <4> HIDE DEF z
      <4>3. QED
        BY <2>2, <2>4, <4>1, <4>2
    <3>2. QED
      BY <2>1, <2>3, <3>1
  <2>5. ASSUME \A i \in 1 .. Len(z) : z[i].key \notin keys PROVE w(z) = <<>>
    <3>1. (\A i \in 1 .. Len(t) : t[i].key \notin keys) /\ e.key \notin keys
      <4>1. \A i \in 1 .. Len(t) : i \in 1 .. Len(z)
        BY <2>2
      <4>2. Len(t) + 1 \in 1 .. Len(z)
        BY <2>2
      <4> HIDE DEF z
      <4>3. QED
        BY <2>2, <2>5, <4>1, <4>2
    <3>2. QED
      BY <2>1, <2>3, <3>1
  <2> HIDE DEF z
  <2>6. z \in T
    BY <2>2, <2>4, <2>5
  <2>7. QED
    BY <2>6 DEF z
<1> HIDE DEF T
<1>3. rows \in T
  BY <1>1, <1>2, SeqSets
<1>4. QED
  BY <1>3 DEF T
-----------------------------------------------------------------------------
(***************************************************************************)
(* The operators on rows that come in two parts.                           *)
(***************************************************************************)

\* What a place of two sequences end to end holds.
LEMMA JoinAt ==
  ASSUME NEW S, NEW a \in Seq(S), NEW b \in Seq(S)
  PROVE  /\ a \o b \in Seq(S) /\ Len(a \o b) = Len(a) + Len(b)
         /\ Len(a) \in Nat /\ Len(b) \in Nat
         /\ DOMAIN (a \o b) = 1 .. Len(a) + Len(b)
         /\ DOMAIN a = 1 .. Len(a) /\ DOMAIN b = 1 .. Len(b)
         /\ \A i \in 1 .. Len(a) : (a \o b)[i] = a[i]
         /\ \A i \in 1 .. Len(b) : (a \o b)[Len(a) + i] = b[i]
<1> DEFINE c == a \o b
<1>1. /\ c \in Seq(S) /\ Len(c) = Len(a) + Len(b)
      /\ \A i \in 1 .. Len(a) + Len(b) :
            c[i] = IF i <= Len(a) THEN a[i] ELSE b[i - Len(a)]
  BY ConcatProperties
<1>2. Len(a) \in Nat /\ Len(b) \in Nat
  BY LenProperties
<1>3. DOMAIN c = 1 .. Len(c) /\ DOMAIN a = 1 .. Len(a) /\ DOMAIN b = 1 .. Len(b)
  BY <1>1, LenProperties
<1> HIDE DEF c
<1>4. \A i \in 1 .. Len(b) : c[Len(a) + i] = b[i]
  <2>1. \A i \in 1 .. Len(b) : /\ Len(a) + i \in 1 .. Len(a) + Len(b)
                               /\ ~ (Len(a) + i <= Len(a))
                               /\ (Len(a) + i) - Len(a) = i
    BY <1>2
  <2>2. QED
    BY <1>1, <2>1
<1>5. \A i \in 1 .. Len(a) : c[i] = a[i]
  BY <1>1, <1>2
<1>6. QED
  BY <1>1, <1>2, <1>3, <1>4, <1>5 DEF c

\* Two sequences one after the other are known by what each place holds.
LEMMA IsJoin ==
  ASSUME NEW S, NEW a \in Seq(S), NEW b \in Seq(S), NEW c \in Seq(S),
         Len(c) = Len(a) + Len(b),
         \A i \in 1 .. Len(a) : c[i] = a[i],
         \A i \in 1 .. Len(b) : c[Len(a) + i] = b[i]
  PROVE  c = a \o b
<1> DEFINE d == a \o b
<1>1. /\ d \in Seq(S) /\ Len(d) = Len(c)
      /\ \A i \in 1 .. Len(a) : d[i] = a[i]
      /\ \A i \in 1 .. Len(b) : d[Len(a) + i] = b[i]
      /\ Len(a) \in Nat /\ Len(b) \in Nat
  BY JoinAt
<1> HIDE DEF d
<1>2. ASSUME NEW i \in 1 .. Len(c) PROVE c[i] = d[i]
  <2>1. CASE i \in 1 .. Len(a)
    BY <1>1, <2>1
  <2>2. CASE i \notin 1 .. Len(a)
    <3> DEFINE j == i - Len(a)
    <3>1. j \in 1 .. Len(b) /\ i = Len(a) + j
      BY <1>1, <2>2
    <3> HIDE DEF j
    <3>2. QED
      BY <1>1, <3>1
  <2>3. QED
    BY <2>1, <2>2
<1>3. c = d
  BY <1>1, <1>2, SeqEqual
<1>4. QED
  BY <1>3 DEF d
-----------------------------------------------------------------------------
(* The operators on rows that come in two parts. *)

LEMMA UsedJoin ==
  ASSUME NEW op, NEW a \in Seq(Row), NEW b \in Seq(Row)
  PROVE  Used(op, a \o b) = Used(op, a) \cup Used(op, b)
<1> DEFINE c == a \o b
<1>1. /\ DOMAIN c = 1 .. Len(a) + Len(b)
      /\ DOMAIN a = 1 .. Len(a) /\ DOMAIN b = 1 .. Len(b)
      /\ Len(a) \in Nat /\ Len(b) \in Nat
      /\ \A i \in 1 .. Len(a) : c[i] = a[i]
      /\ \A i \in 1 .. Len(b) : c[Len(a) + i] = b[i]
  BY JoinAt
<1> HIDE DEF c
<1>2. ASSUME NEW j
      PROVE  (\E i \in DOMAIN c : Pairs(op, c[i], j)) <=>
               \/ \E i \in DOMAIN a : Pairs(op, a[i], j)
               \/ \E i \in DOMAIN b : Pairs(op, b[i], j)
  <2>1. ASSUME NEW i \in DOMAIN c, Pairs(op, c[i], j)
        PROVE  \/ \E k \in DOMAIN a : Pairs(op, a[k], j)
               \/ \E k \in DOMAIN b : Pairs(op, b[k], j)
    <3>1. CASE i \in 1 .. Len(a)
      BY <1>1, <2>1, <3>1
    <3>2. CASE i \notin 1 .. Len(a)
      <4> DEFINE k == i - Len(a)
      <4>1. k \in 1 .. Len(b) /\ i = Len(a) + k
        BY <1>1, <3>2
      <4> HIDE DEF k
      <4>2. QED
        BY <1>1, <2>1, <4>1
    <3>3. QED
      BY <3>1, <3>2
  <2>2. \A i \in 1 .. Len(a) : i \in DOMAIN c
    BY <1>1
  <2>3. \A i \in 1 .. Len(b) : Len(a) + i \in DOMAIN c
    BY <1>1
  <2>4. QED
    BY <1>1, <2>1, <2>2, <2>3
<1>3. Used(op, c) = Used(op, a) \cup Used(op, b)
  BY <1>2 DEF Used
<1>4. QED
  BY <1>3 DEF c

\* Two counts of values taken together, the first of the values first.
Plus(s, p) == [count |-> s.count + p.count,
               first |-> IF s.first # Null THEN s.first ELSE p.first]

LEMMA PlusIs ==
  ASSUME NEW s \in Tallies, NEW p \in Tallies
  PROVE  Plus(s, p) \in Tallies
BY DEF Plus, Tallies

LEMMA PlusGroups ==
  ASSUME NEW s \in Tallies, NEW p \in Tallies, NEW q \in Tallies
  PROVE  Plus(Plus(s, p), q) = Plus(s, Plus(p, q))
<1>1. /\ s.count \in Nat /\ p.count \in Nat /\ q.count \in Nat
      /\ (s.count + p.count) + q.count = s.count + (p.count + q.count)
  BY DEF Tallies
<1>2. QED
  BY <1>1 DEF Plus

LEMMA TallyNone ==
  /\ CountAndFirst(<<>>) = [count |-> 0, first |-> Null]
  /\ \A p \in Tallies : Plus(CountAndFirst(<<>>), p) = p
<1>1. NotNull(<<>>) = <<>> /\ Len(<<>>) = 0
  BY WithKeyNothing DEF NotNull
<1>2. CountAndFirst(<<>>) = [count |-> 0, first |-> Null]
  BY <1>1 DEF CountAndFirst
<1>3. ASSUME NEW p \in Tallies PROVE Plus([count |-> 0, first |-> Null], p) = p
  <2>1. p = [count |-> p.count, first |-> p.first] /\ 0 + p.count = p.count
    BY DEF Tallies
  <2>2. QED
    BY <2>1 DEF Plus
<1>4. QED
  BY <1>2, <1>3

LEMMA TallyJoin ==
  ASSUME NEW a \in Seq(Row), NEW b \in Seq(Row)
  PROVE  CountAndFirst(a \o b) = Plus(CountAndFirst(a), CountAndFirst(b))
<1> DEFINE u == NotNull(a)
           v == NotNull(b)
           w == NotNull(a \o b)
<1>1. u \in Seq(Row) /\ v \in Seq(Row)
  BY WithKeyIs DEF NotNull
<1>2. w = u \o v
  BY WithKeyJoin DEF NotNull
<1>3. \A i \in 1 .. Len(u) : u[i].key # Null
  BY WithKeyHas DEF NotNull
<1>4. /\ CountAndFirst(a) = [count |-> Len(u),
                             first |-> IF u = <<>> THEN Null ELSE u[1].key]
      /\ CountAndFirst(b) = [count |-> Len(v),
                             first |-> IF v = <<>> THEN Null ELSE v[1].key]
      /\ CountAndFirst(a \o b) = [count |-> Len(w),
                                  first |-> IF w = <<>> THEN Null ELSE w[1].key]
  BY DEF CountAndFirst
<1> HIDE DEF u, v, w
<1>5. Len(w) = Len(u) + Len(v)
  BY <1>1, <1>2, JoinAt
<1>6. CASE u = <<>>
  <2>1. w = v
    BY <1>1, <1>2, <1>6, ConcatEmptySeq
  <2>2. QED
    BY <1>4, <1>5, <1>6, <2>1 DEF Plus
<1>7. CASE u # <<>>
  <2>1. 1 \in 1 .. Len(u)
    BY <1>1, <1>7
  <2>2. w[1] = u[1] /\ u[1].key # Null
    BY <1>1, <1>2, <1>3, <2>1, JoinAt
  <2>3. w # <<>>
    BY <1>1, <1>2, <1>7
  <2>4. QED
    BY <1>4, <1>5, <1>7, <2>2, <2>3 DEF Plus
<1>8. QED
  BY <1>6, <1>7

LEMMA AllJoinedJoin ==
  ASSUME NEW op \in Operators, op.kind = "join",
         NEW a \in Seq(Row), NEW b \in Seq(Row)
  PROVE  AllJoined(op, a \o b) = AllJoined(op, a) \o AllJoined(op, b)
<1> DEFINE c == a \o b
           parts(s) == [i \in DOMAIN s |-> Joined(op, s[i])]
<1>0. /\ c \in Seq(Row) /\ Len(c) = Len(a) + Len(b)
      /\ Len(a) \in Nat /\ Len(b) \in Nat
      /\ \A i \in 1 .. Len(a) : c[i] = a[i]
      /\ \A i \in 1 .. Len(b) : c[Len(a) + i] = b[i]
  BY JoinAt
<1> HIDE DEF c
<1>1. ASSUME NEW s \in Seq(Row)
      PROVE  /\ parts(s) \in Seq(Seq(Row)) /\ Len(parts(s)) = Len(s)
             /\ \A i \in 1 .. Len(s) : parts(s)[i] = Joined(op, s[i])
  <2>1. \A i \in DOMAIN s : Joined(op, s[i]) \in Seq(Row)
    BY JoinedIs
  <2>2. QED
    BY <2>1
<1>2. /\ AllJoined(op, a) = FlattenSeq(parts(a))
      /\ AllJoined(op, b) = FlattenSeq(parts(b))
      /\ AllJoined(op, c) = FlattenSeq(parts(c))
  BY DEF AllJoined
<1> HIDE DEF parts
<1>3. \A i \in 1 .. Len(b) : Len(a) + i \in 1 .. Len(c)
  BY <1>0
<1>4. \A i \in 1 .. Len(a) : i \in 1 .. Len(c)
  BY <1>0
<1>5. parts(c) = parts(a) \o parts(b)
  <2> DEFINE pa == parts(a)
             pb == parts(b)
             pc == parts(c)
  <2>1. /\ pa \in Seq(Seq(Row)) /\ pb \in Seq(Seq(Row)) /\ pc \in Seq(Seq(Row))
        /\ Len(pc) = Len(pa) + Len(pb)
        /\ \A i \in 1 .. Len(pa) : pc[i] = pa[i]
        /\ \A i \in 1 .. Len(pb) : pc[Len(pa) + i] = pb[i]
    <3>1. /\ pa \in Seq(Seq(Row)) /\ Len(pa) = Len(a)
          /\ \A i \in 1 .. Len(a) : pa[i] = Joined(op, a[i])
      BY <1>1
    <3>2. /\ pb \in Seq(Seq(Row)) /\ Len(pb) = Len(b)
          /\ \A i \in 1 .. Len(b) : pb[i] = Joined(op, b[i])
      BY <1>1
    <3>3. /\ pc \in Seq(Seq(Row)) /\ Len(pc) = Len(c)
          /\ \A i \in 1 .. Len(c) : pc[i] = Joined(op, c[i])
      BY <1>0, <1>1
    <3> HIDE DEF pa, pb, pc
    <3>4. QED
      BY <1>0, <1>3, <1>4, <3>1, <3>2, <3>3
  <2> HIDE DEF pa, pb, pc
  <2>2. pc = pa \o pb
    BY <2>1, IsJoin
  <2>3. QED
    BY <2>2 DEF pa, pb, pc
<1>6. FlattenSeq(parts(c)) = FlattenSeq(parts(a)) \o FlattenSeq(parts(b))
  BY <1>1, <1>5, FlattenJoin
<1>7. AllJoined(op, c) = AllJoined(op, a) \o AllJoined(op, b)
  BY ONLY <1>2, <1>6
<1>8. QED
  BY <1>7 DEF c

LEMMA AllJoinedNone ==
  ASSUME NEW op
  PROVE  AllJoined(op, <<>>) = <<>>
<1>1. [i \in DOMAIN <<>> |-> Joined(op, <<>>[i])] = <<>>
  OBVIOUS
<1>2. QED
  BY <1>1, FlattenNone DEF AllJoined

LEMMA BesideJoin ==
  ASSUME NEW op, NEW seen \in Nat, NEW a \in Seq(Row), NEW b \in Seq(Row)
  PROVE  Beside(op, seen, a \o b) = Beside(op, seen, a) \o Beside(op, seen + Len(a), b)
<1> DEFINE c == a \o b
           put(s, k, i) == [key |-> s[i].key,
                               id |-> Append(s[i].id, IF k + i <= op.height THEN k + i ELSE 0)]
           sa == Beside(op, seen, a)
           sb == Beside(op, seen + Len(a), b)
           sc == Beside(op, seen, c)
<1>0. /\ c \in Seq(Row) /\ Len(c) = Len(a) + Len(b)
      /\ Len(a) \in Nat /\ Len(b) \in Nat /\ seen + Len(a) \in Nat
      /\ DOMAIN c = 1 .. Len(c) /\ DOMAIN a = 1 .. Len(a) /\ DOMAIN b = 1 .. Len(b)
      /\ \A i \in 1 .. Len(a) : c[i] = a[i]
      /\ \A i \in 1 .. Len(b) : c[Len(a) + i] = b[i]
  BY JoinAt
<1>1. /\ \A i \in DOMAIN a : sa[i] = put(a, seen, i)
      /\ \A i \in DOMAIN b : sb[i] = put(b, seen + Len(a), i)
      /\ \A i \in DOMAIN c : sc[i] = put(c, seen, i)
  BY DEF Beside
<1> HIDE DEF c
<1>2. /\ sa \in Seq(Row) /\ sb \in Seq(Row) /\ sc \in Seq(Row)
      /\ Len(sa) = Len(a) /\ Len(sb) = Len(b) /\ Len(sc) = Len(c)
  BY <1>0, BesideIs
<1> HIDE DEF sa, sb, sc
<1>3. ASSUME NEW i \in 1 .. Len(a) PROVE sc[i] = sa[i]
  <2>1. i \in DOMAIN c /\ i \in DOMAIN a /\ c[i] = a[i]
    BY <1>0
  <2>2. QED
    BY <1>1, <2>1
<1>4. ASSUME NEW i \in 1 .. Len(b) PROVE sc[Len(a) + i] = sb[i]
  <2> DEFINE j == Len(a) + i
  <2>1. j \in DOMAIN c /\ i \in DOMAIN b /\ c[j] = b[i]
    BY <1>0
  <2>2. seen + j = (seen + Len(a)) + i
    BY <1>0
  <2> HIDE DEF j
  <2>3. sc[j] = sb[i]
    BY <1>1, <2>1, <2>2
  <2>4. QED
    BY <2>3 DEF j
<1>5. sc = sa \o sb
  <2>1. Len(sc) = Len(sa) + Len(sb)
    BY <1>0, <1>2
  <2>2. \A i \in 1 .. Len(sa) : sc[i] = sa[i]
    BY <1>2, <1>3
  <2>3. \A i \in 1 .. Len(sb) : sc[Len(sa) + i] = sb[i]
    BY <1>2, <1>4
  <2>4. QED
    BY <1>2, <2>1, <2>2, <2>3, IsJoin
<1>6. QED
  BY <1>5 DEF sa, sb, sc, c
-----------------------------------------------------------------------------
(***************************************************************************)
(* The rows between two places, and the first of them.                     *)
(***************************************************************************)

(* The rows between two places. *)
LEMMA PartIs ==
  ASSUME NEW S, NEW s \in Seq(S), NEW d \in Nat, NEW e \in 0 .. Len(s)
  PROVE  /\ SubSeq(s, d + 1, e) \in Seq(S)
         /\ Len(SubSeq(s, d + 1, e)) = IF d <= e THEN e - d ELSE 0
         /\ \A i \in 1 .. e - d : SubSeq(s, d + 1, e)[i] = s[d + i]
<1> DEFINE m == d + 1
<1>1. m \in Int /\ e \in Int /\ Len(s) \in Nat
  BY LenProperties
<1>2. \A i \in m .. e : i \in 1 .. Len(s)
  BY <1>1
<1>3. \A i \in m .. e : s[i] \in S
  BY <1>2, ElementOfSeq
<1> HIDE DEF m
<1>4. /\ SubSeq(s, m, e) \in Seq(S)
      /\ Len(SubSeq(s, m, e)) = IF m <= e THEN e - m + 1 ELSE 0
      /\ \A i \in 1 .. e - m + 1 : SubSeq(s, m, e)[i] = s[m + i - 1]
  BY <1>1, <1>3, SubSeqProperties
<1> DEFINE r == SubSeq(s, m, e)
<1>5. /\ r \in Seq(S) /\ Len(r) = (IF m <= e THEN e - m + 1 ELSE 0)
      /\ \A i \in 1 .. e - m + 1 : r[i] = s[m + i - 1]
  BY <1>4
<1> HIDE DEF r
<1>6. \A i \in 1 .. e - d : i \in 1 .. e - m + 1 /\ m + i - 1 = d + i
  BY <1>1 DEF m
<1>7. Len(r) = IF d <= e THEN e - d ELSE 0
  BY <1>1, <1>5 DEF m
<1>8. r \in Seq(S) /\ \A i \in 1 .. e - d : r[i] = s[d + i]
  BY <1>5, <1>6
<1>9. QED
  BY <1>7, <1>8 DEF r, m

\* How long the two parts are, and where they stand.
Span(d, e) == IF d <= e THEN e - d ELSE 0

LEMMA PartLengths ==
  ASSUME NEW la \in Nat, NEW lb \in Nat, NEW d \in Nat, NEW e \in 0 .. la + lb
  PROVE  /\ Span(d, e) = Span(Least(d, la), Least(e, la))
                           + Span(Most(0, d - la), Most(0, e - la))
         /\ \A i \in 1 .. Span(Most(0, d - la), Most(0, e - la)) :
              /\ Span(Least(d, la), Least(e, la)) + i \in 1 .. e - d
              /\ d + (Span(Least(d, la), Least(e, la)) + i)
                   = la + (Most(0, d - la) + i)
              /\ Most(0, d - la) + i \in 1 .. lb
<1> DEFINE d1 == Least(d, la)
           e1 == Least(e, la)
           d2 == Most(0, d - la)
           e2 == Most(0, e - la)
           l1 == Span(d1, e1)
           l2 == Span(d2, e2)
           Goal == /\ Span(d, e) = l1 + l2
                   /\ \A i \in 1 .. l2 : /\ l1 + i \in 1 .. e - d
                                         /\ d + (l1 + i) = la + (d2 + i)
                                         /\ d2 + i \in 1 .. lb
<1>1. /\ d1 = IF d <= la THEN d ELSE la
      /\ e1 = IF e <= la THEN e ELSE la
      /\ d2 = IF d <= la THEN 0 ELSE d - la
      /\ e2 = IF e <= la THEN 0 ELSE e - la
  BY DEF Least, Most
<1> HIDE DEF d1, e1, d2, e2
<1>2. /\ l1 = IF d1 <= e1 THEN e1 - d1 ELSE 0
      /\ l2 = IF d2 <= e2 THEN e2 - d2 ELSE 0
      /\ Span(d, e) = IF d <= e THEN e - d ELSE 0
  BY DEF Span
<1> HIDE DEF l1, l2
<1>3. Goal
  BY <1>1, <1>2
<1>4. QED
  BY <1>3 DEF d1, e1, d2, e2, l1, l2

\* Of two sequences end to end.
LEMMA PartOfJoin ==
  ASSUME NEW S, NEW a \in Seq(S), NEW b \in Seq(S),
         NEW d \in Nat, NEW e \in 0 .. Len(a) + Len(b)
  PROVE  SubSeq(a \o b, d + 1, e) =
           SubSeq(a, Least(d, Len(a)) + 1, Least(e, Len(a)))
             \o SubSeq(b, Most(0, d - Len(a)) + 1, Most(0, e - Len(a)))
<1> DEFINE c == a \o b
           la == Len(a)
           lb == Len(b)
           d1 == Least(d, la)
           e1 == Least(e, la)
           d2 == Most(0, d - la)
           e2 == Most(0, e - la)
           ra == SubSeq(a, d1 + 1, e1)
           rb == SubSeq(b, d2 + 1, e2)
           rc == SubSeq(c, d + 1, e)
<1>1. /\ c \in Seq(S) /\ Len(c) = la + lb /\ la \in Nat /\ lb \in Nat
      /\ \A i \in 1 .. la : c[i] = a[i]
      /\ \A i \in 1 .. lb : c[la + i] = b[i]
  BY JoinAt
<1> HIDE DEF c
<1>2. /\ d1 \in Nat /\ d2 \in Nat /\ e1 \in 0 .. la /\ e2 \in 0 .. lb
      /\ e \in 0 .. la + lb
  BY <1>1 DEF Least, Most
<1>3. /\ ra \in Seq(S) /\ Len(ra) = (IF d1 <= e1 THEN e1 - d1 ELSE 0)
      /\ \A i \in 1 .. e1 - d1 : ra[i] = a[d1 + i]
  <2> HIDE DEF d1, e1
  <2>1. QED
    BY <1>2, PartIs
<1>4. /\ rb \in Seq(S) /\ Len(rb) = (IF d2 <= e2 THEN e2 - d2 ELSE 0)
      /\ \A i \in 1 .. e2 - d2 : rb[i] = b[d2 + i]
  <2> HIDE DEF d2, e2
  <2>1. QED
    BY <1>2, PartIs
<1>5. /\ rc \in Seq(S) /\ Len(rc) = (IF d <= e THEN e - d ELSE 0)
      /\ \A i \in 1 .. e - d : rc[i] = c[d + i]
  <2>1. e \in 0 .. Len(c)
    BY <1>1, <1>2
  <2>2. QED
    BY <1>1, <2>1, PartIs
<1> HIDE DEF ra, rb, rc
<1>6. /\ Len(rc) = Len(ra) + Len(rb)
      /\ \A i \in 1 .. Len(rb) : /\ Len(ra) + i \in 1 .. e - d
                                 /\ d + (Len(ra) + i) = la + (d2 + i)
                                 /\ d2 + i \in 1 .. lb
  <2>1. /\ Span(d, e) = Span(d1, e1) + Span(d2, e2)
        /\ \A i \in 1 .. Span(d2, e2) : /\ Span(d1, e1) + i \in 1 .. e - d
                                        /\ d + (Span(d1, e1) + i) = la + (d2 + i)
                                        /\ d2 + i \in 1 .. lb
    <3> HIDE DEF la, lb
    <3>1. QED
      BY <1>1, <1>2, PartLengths
  <2>2. Len(ra) = Span(d1, e1) /\ Len(rb) = Span(d2, e2) /\ Len(rc) = Span(d, e)
    BY <1>3, <1>4, <1>5 DEF Span
  <2> HIDE DEF la, lb, d1, d2, e1, e2
  <2>3. QED
    BY <2>1, <2>2
<1>7. ASSUME NEW i \in 1 .. Len(ra) PROVE rc[i] = ra[i]
  <2> HIDE DEF la, lb
  <2>1. i \in 1 .. e1 - d1 /\ i \in 1 .. e - d /\ d1 = d /\ d + i \in 1 .. la
    BY <1>1, <1>2, <1>3 DEF Least
  <2> HIDE DEF d1, e1
  <2>2. QED
    BY <1>1, <1>3, <1>5, <2>1
<1>8. ASSUME NEW i \in 1 .. Len(rb) PROVE rc[Len(ra) + i] = rb[i]
  <2> HIDE DEF la, lb
  <2> DEFINE j == Len(ra) + i
  <2>1. /\ j \in 1 .. e - d
        /\ d + j = la + (d2 + i) /\ d2 + i \in 1 .. lb
    BY <1>6
  <2>2. i \in 1 .. e2 - d2
    <3> HIDE DEF la, lb, d2, e2
    <3>1. QED
      BY <1>2, <1>4
  <2> HIDE DEF d2, e2, j
  <2>3. rc[j] = rb[i]
    BY <1>1, <1>4, <1>5, <2>1, <2>2
  <2>4. QED
    BY <2>3 DEF j
<1>9. rc = ra \o rb
  BY <1>3, <1>4, <1>5, <1>6, <1>7, <1>8, IsJoin
<1>10. QED
  BY <1>9 DEF rc, ra, rb, c
-----------------------------------------------------------------------------
(* The first rows. *)
LEMMA FirstIs ==
  ASSUME NEW rows \in Seq(Row), NEW n \in Nat
  PROVE  /\ FirstRows(rows, n) \in Seq(Row)
         /\ Len(FirstRows(rows, n)) = Least(n, Len(rows))
         /\ \A i \in 1 .. Least(n, Len(rows)) : FirstRows(rows, n)[i] = rows[i]
<1> DEFINE e == Least(n, Len(rows))
<1>1. e \in 0 .. Len(rows) /\ 0 \in Nat
  BY DEF Least
<1> HIDE DEF e
<1> DEFINE r == SubSeq(rows, 0 + 1, e)
<1>2. /\ r \in Seq(Row) /\ Len(r) = (IF 0 <= e THEN e - 0 ELSE 0)
      /\ \A i \in 1 .. e - 0 : r[i] = rows[0 + i]
  BY <1>1, PartIs
<1>3. r = SubSeq(rows, 1, e)
  OBVIOUS
<1> HIDE DEF r
<1>4. Len(r) = e /\ \A i \in 1 .. e : r[i] = rows[i]
  BY <1>1, <1>2
<1>5. QED
  BY <1>2, <1>3, <1>4 DEF FirstRows, e

\* All of them.
LEMMA FirstAll ==
  ASSUME NEW rows \in Seq(Row), NEW n \in Nat, Len(rows) <= n
  PROVE  FirstRows(rows, n) = rows
<1>1. Least(n, Len(rows)) = Len(rows)
  BY DEF Least
<1>2. QED
  BY <1>1, FirstIs, SeqEqual

LEMMA FirstOfFirst ==
  ASSUME NEW rows \in Seq(Row), NEW n \in Nat, NEW m \in Nat, m <= n
  PROVE  FirstRows(FirstRows(rows, n), m) = FirstRows(rows, m)
<1> DEFINE f == FirstRows(rows, n)
           g == FirstRows(f, m)
           h == FirstRows(rows, m)
<1>1. /\ f \in Seq(Row) /\ Len(f) = Least(n, Len(rows))
      /\ \A i \in 1 .. Least(n, Len(rows)) : f[i] = rows[i]
  BY FirstIs
<1> HIDE DEF f
<1>2. /\ g \in Seq(Row) /\ Len(g) = Least(m, Len(f))
      /\ \A i \in 1 .. Least(m, Len(f)) : g[i] = f[i]
  BY <1>1, FirstIs
<1>3. /\ h \in Seq(Row) /\ Len(h) = Least(m, Len(rows))
      /\ \A i \in 1 .. Least(m, Len(rows)) : h[i] = rows[i]
  BY FirstIs
<1> HIDE DEF g, h
<1>4. Len(g) = Len(h)
  BY <1>1, <1>2, <1>3 DEF Least
<1>5. ASSUME NEW i \in 1 .. Len(g) PROVE g[i] = h[i]
  <2>1. /\ i \in 1 .. Least(m, Len(f)) /\ i \in 1 .. Least(n, Len(rows))
        /\ i \in 1 .. Least(m, Len(rows))
    BY <1>1, <1>2 DEF Least
  <2>2. QED
    BY <1>1, <1>2, <1>3, <2>1
<1>6. g = h
  BY <1>2, <1>3, <1>4, <1>5, SeqEqual
<1>7. QED
  BY <1>6 DEF f, g, h

LEMMA FirstJoin ==
  ASSUME NEW a \in Seq(Row), NEW b \in Seq(Row), NEW n \in Nat
  PROVE  /\ n - Len(FirstRows(a, n)) \in Nat
         /\ FirstRows(a \o b, n) =
              FirstRows(a, n) \o FirstRows(b, n - Len(FirstRows(a, n)))
<1> DEFINE c == a \o b
           f == FirstRows(a, n)
           k == n - Len(f)
           g == FirstRows(b, k)
           h == FirstRows(c, n)
<1>1. /\ c \in Seq(Row) /\ Len(c) = Len(a) + Len(b)
      /\ Len(a) \in Nat /\ Len(b) \in Nat
      /\ \A i \in 1 .. Len(a) : c[i] = a[i]
      /\ \A i \in 1 .. Len(b) : c[Len(a) + i] = b[i]
  BY JoinAt
<1> HIDE DEF c
<1>2. /\ f \in Seq(Row) /\ Len(f) = Least(n, Len(a))
      /\ \A i \in 1 .. Least(n, Len(a)) : f[i] = a[i]
  BY FirstIs
<1> HIDE DEF f
<1>3. k \in Nat /\ k = n - Least(n, Len(a))
  BY <1>1, <1>2 DEF Least
<1> HIDE DEF k
<1>4. /\ g \in Seq(Row) /\ Len(g) = Least(k, Len(b))
      /\ \A i \in 1 .. Least(k, Len(b)) : g[i] = b[i]
  BY <1>3, FirstIs
<1>5. /\ h \in Seq(Row) /\ Len(h) = Least(n, Len(c))
      /\ \A i \in 1 .. Least(n, Len(c)) : h[i] = c[i]
  BY <1>1, FirstIs
<1> HIDE DEF g, h
<1>6. Len(h) = Len(f) + Len(g)
  <2>1. CASE n <= Len(a)
    <3>1. Least(n, Len(a)) = n /\ Least(n, Len(c)) = n
      BY <1>1, <2>1 DEF Least
    <3>2. k = 0 /\ Least(k, Len(b)) = 0
      BY <1>1, <1>3, <3>1 DEF Least
    <3>3. QED
      BY <1>2, <1>4, <1>5, <3>1, <3>2
  <2>2. CASE ~ (n <= Len(a))
    <3>1. Least(n, Len(a)) = Len(a) /\ k = n - Len(a)
      BY <1>1, <1>3, <2>2 DEF Least
    <3>2. Least(n, Len(c)) = Len(a) + Least(k, Len(b))
      BY <1>1, <2>2, <3>1 DEF Least
    <3>3. QED
      BY <1>2, <1>4, <1>5, <3>1, <3>2
  <2>3. QED
    BY <2>1, <2>2
<1>7. ASSUME NEW i \in 1 .. Len(f) PROVE h[i] = f[i]
  <2>1. /\ i \in 1 .. Least(n, Len(a)) /\ i \in 1 .. Least(n, Len(c))
        /\ i \in 1 .. Len(a)
    BY <1>1, <1>2 DEF Least
  <2>2. QED
    BY <1>1, <1>2, <1>5, <2>1
<1>8. ASSUME NEW i \in 1 .. Len(g) PROVE h[Len(f) + i] = g[i]
  <2> DEFINE j == Len(f) + i
  <2>1. /\ i \in 1 .. Least(k, Len(b)) /\ j \in 1 .. Least(n, Len(c))
        /\ i \in 1 .. Len(b) /\ j = Len(a) + i
    BY <1>1, <1>2, <1>3, <1>4 DEF Least
  <2> HIDE DEF j
  <2>2. h[j] = g[i]
    BY <1>1, <1>4, <1>5, <2>1
  <2>3. QED
    BY <2>2 DEF j
<1>9. h = f \o g
  BY <1>2, <1>4, <1>5, <1>6, <1>7, <1>8, IsJoin
<1>10. QED
  BY <1>3, <1>9 DEF f, g, h, c, k

\* Rows cut that the cut at the end would have cut.
LEMMA CutInside ==
  ASSUME NEW p \in Seq(Row), NEW a \in Seq(Row), NEW r \in Seq(Row),
         NEW n \in Nat, NEW m \in Nat, n - Len(FirstRows(p, n)) <= m
  PROVE  FirstRows(p \o (FirstRows(a, m) \o r), n) = FirstRows(p \o (a \o r), n)
<1> DEFINE k == n - Len(FirstRows(p, n))
           f == FirstRows(a, m)
<1>1. k \in Nat /\ k <= m
  BY FirstJoin
<1>2. f \in Seq(Row)
  BY FirstIs
<1>3. f \o r \in Seq(Row) /\ a \o r \in Seq(Row)
  BY <1>2, ConcatProperties
<1>4. /\ FirstRows(p \o (f \o r), n) = FirstRows(p, n) \o FirstRows(f \o r, k)
      /\ FirstRows(p \o (a \o r), n) = FirstRows(p, n) \o FirstRows(a \o r, k)
  BY <1>3, FirstJoin
<1> HIDE DEF k
<1>5. FirstRows(f, k) = FirstRows(a, k)
  BY <1>1, FirstOfFirst
<1>6. /\ FirstRows(f \o r, k) = FirstRows(f, k) \o FirstRows(r, k - Len(FirstRows(f, k)))
      /\ FirstRows(a \o r, k) = FirstRows(a, k) \o FirstRows(r, k - Len(FirstRows(a, k)))
  <2> HIDE DEF f
  <2>1. QED
    BY <1>1, <1>2, FirstJoin
<1>7. FirstRows(f \o r, k) = FirstRows(a \o r, k)
  BY <1>5, <1>6
<1>8. QED
  BY <1>4, <1>7 DEF f
-----------------------------------------------------------------------------
(***************************************************************************)
(* Dropping rows early, and rows in key order.                             *)
(***************************************************************************)

(* Sequences of rows, for the algebra of putting them end to end. *)
Stream == Seq(Row)

Cat(a, b) == a \o b

LEMMA CatIn == \A a, b \in Stream : Cat(a, b) \in Stream
BY ConcatProperties DEF Stream, Cat

LEMMA CatLeft ==
  \A a, b, c \in Stream : Cat(Cat(a, b), c) = Cat(a, Cat(b, c))
BY ConcatAssociative DEF Stream, Cat

LEMMA CatNone ==
  <<>> \in Stream /\ \A a \in Stream : Cat(a, <<>>) = a /\ Cat(<<>>, a) = a
<1>1. <<>> \in Stream
  BY DEF Stream
<1>2. \A a \in Stream : a \o <<>> = a /\ <<>> \o a = a
  BY ConcatEmptySeq DEF Stream
<1>3. QED
  BY <1>1, <1>2 DEF Cat

LEMMA CatFour ==
  ASSUME NEW a \in Stream, NEW b \in Stream, NEW c \in Stream, NEW d \in Stream
  PROVE  Cat(Cat(a, b), Cat(c, d)) = Cat(a, Cat(b, Cat(c, d)))
<1>1. Cat(c, d) \in Stream
  BY CatIn
<1>2. QED
  BY <1>1, CatLeft

LEMMA CatLength ==
  \A a, b \in Stream : /\ Len(Cat(a, b)) = Len(a) + Len(b)
                       /\ Len(a) \in Nat /\ Len(b) \in Nat
<1>1. SUFFICES ASSUME NEW a \in Seq(Row), NEW b \in Seq(Row)
               PROVE  Len(a \o b) = Len(a) + Len(b) /\ Len(a) \in Nat /\ Len(b) \in Nat
  BY DEF Stream, Cat
<1>2. QED
  BY JoinAt

LEMMA CatKeys ==
  /\ \A a \in Stream : \A ks : WithKey(a, ks) \in Stream
  /\ \A a, b \in Stream : \A ks :
       WithKey(Cat(a, b), ks) = Cat(WithKey(a, ks), WithKey(b, ks))
<1>1. \A a \in Stream : \A ks : WithKey(a, ks) \in Stream
  BY WithKeyIs DEF Stream
<1>2. \A a, b \in Stream : \A ks :
        WithKey(a \o b, ks) = WithKey(a, ks) \o WithKey(b, ks)
  BY WithKeyJoin DEF Stream
<1>3. QED
  BY <1>1, <1>2 DEF Cat

LEMMA CatFirst ==
  \A a, b \in Stream, n \in Nat :
     /\ FirstRows(a, n) \in Stream
     /\ Len(FirstRows(a, n)) = Least(n, Len(a))
     /\ n - Len(FirstRows(a, n)) \in Nat
     /\ FirstRows(Cat(a, b), n) =
          Cat(FirstRows(a, n), FirstRows(b, n - Len(FirstRows(a, n))))
<1>1. SUFFICES ASSUME NEW a \in Seq(Row), NEW b \in Seq(Row), NEW n \in Nat
               PROVE  /\ FirstRows(a, n) \in Seq(Row)
                      /\ Len(FirstRows(a, n)) = Least(n, Len(a))
                      /\ n - Len(FirstRows(a, n)) \in Nat
                      /\ FirstRows(a \o b, n) =
                           FirstRows(a, n) \o FirstRows(b, n - Len(FirstRows(a, n)))
  BY Zenon DEF Stream, Cat
<1>2. QED
  BY FirstIs, FirstJoin

LEMMA CatInside ==
  \A p, a, r \in Stream, n, m \in Nat :
     n - Len(FirstRows(p, n)) <= m =>
        FirstRows(Cat(p, Cat(FirstRows(a, m), r)), n) = FirstRows(Cat(p, Cat(a, r)), n)
<1>1. SUFFICES ASSUME NEW p \in Seq(Row), NEW a \in Seq(Row), NEW r \in Seq(Row),
                      NEW n \in Nat, NEW m \in Nat, n - Len(FirstRows(p, n)) <= m
               PROVE  FirstRows(p \o (FirstRows(a, m) \o r), n) = FirstRows(p \o (a \o r), n)
  BY Zenon DEF Stream, Cat
<1>2. QED
  BY <1>1, CutInside
-----------------------------------------------------------------------------
(* The rows in key order. *)
Ones(rows) == WithKey(rows, {1})
Twos(rows) == WithKey(rows, {2})
Nulls(rows) == WithKey(rows, {Null})

LEMMA SortedIn ==
  ASSUME NEW rows \in Stream
  PROVE  /\ Ones(rows) \in Stream /\ Twos(rows) \in Stream /\ Nulls(rows) \in Stream
         /\ Sorted(rows) = Cat(Ones(rows), Cat(Twos(rows), Nulls(rows)))
         /\ Sorted(rows) \in Stream
<1> DEFINE g(i) == WithKey(rows, {KeyOrder[i]})
           parts == [i \in DOMAIN KeyOrder |-> g(i)]
<1>1. g(1) = Ones(rows) /\ g(2) = Twos(rows) /\ g(3) = Nulls(rows) /\ DOMAIN KeyOrder = 1 .. 3
  BY DEF Ones, Twos, Nulls, KeyOrder
<1>2. \A i : g(i) \in Seq(Row)
  BY WithKeyIs DEF Stream
<1>3. Sorted(rows) = FlattenSeq(parts)
  BY DEF Sorted
<1> HIDE DEF g
<1>4. parts = <<g(1), g(2), g(3)>>
  BY <1>1
<1>5. /\ <<g(1), g(2), g(3)>> = Append(<<g(1), g(2)>>, g(3))
      /\ <<g(1), g(2)>> = Append(<<g(1)>>, g(2))
  OBVIOUS
<1>6. <<g(1), g(2)>> \in Seq(Seq(Row)) /\ <<g(1)>> \in Seq(Seq(Row))
  BY <1>2
<1>7. FlattenSeq(<<g(1), g(2)>>) = g(1) \o g(2)
  <2>1. FlattenSeq(<<g(1)>>) = g(1)
    BY <1>2, FlattenOne
  <2>2. FlattenSeq(Append(<<g(1)>>, g(2))) = FlattenSeq(<<g(1)>>) \o g(2)
    BY <1>2, <1>6, FlattenMore
  <2>3. QED
    BY ONLY <1>5, <2>1, <2>2
<1>8. FlattenSeq(<<g(1), g(2), g(3)>>) = (g(1) \o g(2)) \o g(3)
  <2>1. FlattenSeq(Append(<<g(1), g(2)>>, g(3))) = FlattenSeq(<<g(1), g(2)>>) \o g(3)
    BY <1>2, <1>6, FlattenMore
  <2>2. QED
    BY ONLY <1>5, <1>7, <2>1
<1>9. /\ g(1) \in Stream /\ g(2) \in Stream /\ g(3) \in Stream
      /\ Sorted(rows) = Cat(Cat(g(1), g(2)), g(3))
  BY <1>2, <1>3, <1>4, <1>8 DEF Stream, Cat
<1>10. QED
  BY <1>1, <1>9, CatLeft, CatIn

LEMMA SortedLength ==
  ASSUME NEW rows \in Stream
  PROVE  Len(Sorted(rows)) = Len(rows)
<1> DEFINE T == {t \in Seq(Row) : Len(Ones(t)) + Len(Twos(t)) + Len(Nulls(t)) = Len(t)}
<1>1. <<>> \in T
  <2>1. Ones(<<>>) = <<>> /\ Twos(<<>>) = <<>> /\ Nulls(<<>>) = <<>>
    BY WithKeyNothing DEF Ones, Twos, Nulls
  <2>2. Len(<<>>) = 0 /\ <<>> \in Seq(Row)
    OBVIOUS
  <2>3. QED
    BY <2>1, <2>2
<1>2. \A t \in Seq(Row), e \in Row : t \in T => Append(t, e) \in T
  <2>1. SUFFICES ASSUME NEW t \in Seq(Row), NEW e \in Row, t \in T
                 PROVE  Append(t, e) \in T
    OBVIOUS
  <2> DEFINE z == Append(t, e)
             a == Ones(t)
             b == Twos(t)
             c == Nulls(t)
  <2>2. z \in Seq(Row) /\ Len(z) = Len(t) + 1 /\ Len(t) \in Nat
    BY AppendProperties
  <2>3. /\ Ones(z) = IF e.key = 1 THEN Append(a, e) ELSE a
        /\ Twos(z) = IF e.key = 2 THEN Append(b, e) ELSE b
        /\ Nulls(z) = IF e.key = 0 THEN Append(c, e) ELSE c
    BY WithKeyMore DEF Ones, Twos, Nulls, Null
  <2>4. e.key \in {0, 1, 2}
    BY DEF Row, Keys, Null
  <2>5. a \in Seq(Row) /\ b \in Seq(Row) /\ c \in Seq(Row)
    BY SortedIn DEF Stream
  <2>6. Len(a) + Len(b) + Len(c) = Len(t)
    BY <2>1
  <2> HIDE DEF a, b, c, z
  <2>7. /\ Len(a) \in Nat /\ Len(b) \in Nat /\ Len(c) \in Nat
        /\ Len(Append(a, e)) = Len(a) + 1
        /\ Len(Append(b, e)) = Len(b) + 1
        /\ Len(Append(c, e)) = Len(c) + 1
    BY <2>5, AppendProperties, LenProperties
  <2>8. Len(Ones(z)) + Len(Twos(z)) + Len(Nulls(z)) = Len(a) + Len(b) + Len(c) + 1
    <3>1. CASE e.key = 1
      BY <2>3, <2>7, <3>1
    <3>2. CASE e.key = 2
      BY <2>3, <2>7, <3>2
    <3>3. CASE e.key = 0
      BY <2>3, <2>7, <3>3
    <3>4. QED
      BY <2>4, <3>1, <3>2, <3>3
  <2>9. z \in T
    BY <2>2, <2>6, <2>8
  <2>10. QED
    BY <2>9 DEF z
<1> HIDE DEF T
<1>3. rows \in T
  BY <1>1, <1>2, SeqSets DEF Stream
<1> DEFINE x == Ones(rows)
           y == Twos(rows)
           w == Nulls(rows)
<1>4. Len(x) + Len(y) + Len(w) = Len(rows)
  BY <1>3 DEF T
<1>5. /\ x \in Stream /\ y \in Stream /\ w \in Stream
      /\ Sorted(rows) = Cat(x, Cat(y, w))
  BY SortedIn
<1> HIDE DEF x, y, w
<1>6. /\ Cat(y, w) \in Stream /\ Len(Cat(y, w)) = Len(y) + Len(w)
      /\ Len(x) \in Nat /\ Len(y) \in Nat /\ Len(w) \in Nat
  BY <1>5, CatIn, CatLength
<1>7. Len(Cat(x, Cat(y, w))) = Len(x) + Len(Cat(y, w))
  BY <1>5, <1>6, CatLength
<1>8. QED
  BY <1>4, <1>5, <1>6, <1>7

\* The first of rows of one key.
LEMMA FirstOfKey ==
  ASSUME NEW s \in Stream, NEW n \in Nat, NEW v,
         \A i \in 1 .. Len(s) : s[i].key = v
  PROVE  /\ WithKey(FirstRows(s, n), {v}) = FirstRows(s, n)
         /\ \A u : u # v => WithKey(FirstRows(s, n), {u}) = <<>>
<1> DEFINE f == FirstRows(s, n)
<1>1. /\ f \in Seq(Row) /\ Len(f) = Least(n, Len(s))
      /\ \A i \in 1 .. Least(n, Len(s)) : f[i] = s[i]
  BY FirstIs DEF Stream
<1>2. \A i \in 1 .. Least(n, Len(s)) : i \in 1 .. Len(s)
  BY LenProperties DEF Least, Stream
<1> HIDE DEF f
<1>3. \A i \in 1 .. Len(f) : f[i].key = v
  BY <1>1, <1>2
<1>4. WithKey(f, {v}) = f
  <2>1. \A i \in 1 .. Len(f) : f[i].key \in {v}
    BY <1>3
  <2>2. QED
    BY <1>1, <2>1, WithKeyAll
<1>5. ASSUME NEW u, u # v PROVE WithKey(f, {u}) = <<>>
  <2>1. \A i \in 1 .. Len(f) : f[i].key \notin {u}
    BY <1>3, <1>5
  <2>2. QED
    BY <1>1, <2>1, WithKeyAll
<1>6. QED
  BY <1>4, <1>5 DEF f

\* The rows of each key among rows of a key at a time, in key order.
LEMMA KeysInTurn ==
  ASSUME NEW a \in Stream, NEW b \in Stream, NEW c \in Stream, NEW v
  PROVE  WithKey(Cat(a, Cat(b, c)), {v}) =
           Cat(WithKey(a, {v}), Cat(WithKey(b, {v}), WithKey(c, {v})))
<1>1. Cat(b, c) \in Stream
  BY CatIn
<1>2. QED
  BY <1>1, CatKeys

\* The rows of each key among the first of the rows in key order.
LEMMA TopIn ==
  ASSUME NEW rows \in Stream, NEW n \in Nat
  PROVE  LET top == TopRows(rows, n)
             a == FirstRows(Ones(rows), n)
             b == FirstRows(Twos(rows), n - Len(a))
         IN  /\ n - Len(a) \in Nat /\ n - Len(a) - Len(b) \in Nat
             /\ top \in Stream
             /\ Ones(top) = a
             /\ Twos(top) = b
             /\ Nulls(top) = FirstRows(Nulls(rows), n - Len(a) - Len(b))
<1> DEFINE x == Ones(rows)
           y == Twos(rows)
           w == Nulls(rows)
           a == FirstRows(x, n)
           m == n - Len(a)
           b == FirstRows(y, m)
           k == m - Len(b)
           c == FirstRows(w, k)
           top == TopRows(rows, n)
<1>1. /\ x \in Stream /\ y \in Stream /\ w \in Stream
      /\ Sorted(rows) = Cat(x, Cat(y, w)) /\ Sorted(rows) \in Stream
  BY SortedIn
<1>2. /\ \A i \in 1 .. Len(x) : x[i].key = 1
      /\ \A i \in 1 .. Len(y) : y[i].key = 2
      /\ \A i \in 1 .. Len(w) : w[i].key = 0
  BY WithKeyHas DEF Ones, Twos, Nulls, Null, Stream
<1>3. top = FirstRows(Sorted(rows), n)
  BY DEF TopRows
<1> HIDE DEF x, y, w, top
<1>4. Cat(y, w) \in Stream
  BY <1>1, CatIn
<1>5. a \in Stream /\ m \in Nat /\ FirstRows(Cat(x, Cat(y, w)), n) = Cat(a, FirstRows(Cat(y, w), m))
  BY <1>1, <1>4, CatFirst
<1> HIDE DEF m
<1>6. b \in Stream /\ k \in Nat /\ FirstRows(Cat(y, w), m) = Cat(b, c)
  BY <1>1, <1>5, CatFirst
<1> HIDE DEF k
<1>7. c \in Stream /\ top = Cat(a, Cat(b, c)) /\ top \in Stream
  BY <1>1, <1>3, <1>5, <1>6, CatFirst, CatIn
<1>8. 1 # 2 /\ 1 # 0 /\ 2 # 0 /\ 2 # 1 /\ 0 # 1 /\ 0 # 2 /\ Null = 0
  BY DEF Null
<1>9. /\ Ones(a) = a /\ Twos(a) = <<>> /\ Nulls(a) = <<>>
      /\ Ones(b) = <<>> /\ Twos(b) = b /\ Nulls(b) = <<>>
      /\ Ones(c) = <<>> /\ Twos(c) = <<>> /\ Nulls(c) = c
  <2>1. WithKey(a, {1}) = a /\ \A u : u # 1 => WithKey(a, {u}) = <<>>
    <3>1. \A i \in 1 .. Len(x) : x[i].key = 1
      BY <1>2
    <3>2. QED
      BY ONLY <1>1, <3>1, n \in Nat, FirstOfKey
  <2>2. WithKey(b, {2}) = b /\ \A u : u # 2 => WithKey(b, {u}) = <<>>
    <3>1. \A i \in 1 .. Len(y) : y[i].key = 2
      BY <1>2
    <3>2. y \in Stream /\ m \in Nat
      BY <1>1, <1>5
    <3>3. QED
      BY ONLY <3>1, <3>2, FirstOfKey DEF b
  <2>3. WithKey(c, {0}) = c /\ \A u : u # 0 => WithKey(c, {u}) = <<>>
    <3>1. \A i \in 1 .. Len(w) : w[i].key = 0
      BY <1>2
    <3>2. w \in Stream /\ k \in Nat
      BY <1>1, <1>6
    <3>3. QED
      BY ONLY <3>1, <3>2, FirstOfKey DEF c
  <2> HIDE DEF a, b, c
  <2>4. WithKey(a, {2}) = <<>> /\ WithKey(a, {0}) = <<>>
    BY <1>8, <2>1
  <2>5. WithKey(b, {1}) = <<>> /\ WithKey(b, {0}) = <<>>
    BY <1>8, <2>2
  <2>6. WithKey(c, {1}) = <<>> /\ WithKey(c, {2}) = <<>>
    BY <1>8, <2>3
  <2>7. QED
    BY <1>8, <2>1, <2>2, <2>3, <2>4, <2>5, <2>6 DEF Ones, Twos, Nulls
<1> HIDE DEF a, b, c
<1>10. /\ Ones(top) = Cat(Ones(a), Cat(Ones(b), Ones(c)))
       /\ Twos(top) = Cat(Twos(a), Cat(Twos(b), Twos(c)))
       /\ Nulls(top) = Cat(Nulls(a), Cat(Nulls(b), Nulls(c)))
  <2>1. \A v : WithKey(top, {v}) = Cat(WithKey(a, {v}), Cat(WithKey(b, {v}), WithKey(c, {v})))
    <3>1. a \in Stream /\ b \in Stream /\ c \in Stream
      BY <1>5, <1>6, <1>7
    <3>2. \A v : WithKey(Cat(a, Cat(b, c)), {v})
                   = Cat(WithKey(a, {v}), Cat(WithKey(b, {v}), WithKey(c, {v})))
      BY ONLY <3>1, KeysInTurn
    <3>3. top = Cat(a, Cat(b, c))
      BY <1>7
    <3>4. QED
      BY ONLY <3>2, <3>3
  <2>2. QED
    BY <2>1 DEF Ones, Twos, Nulls
<1>11. Ones(top) = a /\ Twos(top) = b /\ Nulls(top) = c
  BY <1>5, <1>6, <1>7, <1>9, <1>10, CatNone
<1>12. QED
  BY <1>5, <1>6, <1>7, <1>11 DEF a, b, c, m, k, x, y, w, top

LEMMA SortedJoin ==
  ASSUME NEW s \in Stream, NEW t \in Stream
  PROVE  Sorted(Cat(s, t)) = Cat(Cat(Ones(s), Ones(t)),
                                 Cat(Cat(Twos(s), Twos(t)), Cat(Nulls(s), Nulls(t))))
<1>1. Cat(s, t) \in Stream
  BY CatIn
<1>2. /\ Ones(Cat(s, t)) = Cat(Ones(s), Ones(t))
      /\ Twos(Cat(s, t)) = Cat(Twos(s), Twos(t))
      /\ Nulls(Cat(s, t)) = Cat(Nulls(s), Nulls(t))
  BY CatKeys DEF Ones, Twos, Nulls
<1>3. QED
  BY <1>1, <1>2, SortedIn

\* A sort with a bound that drops the rows past it early loses none that count.
LEMMA CompactingIsSafe ==
  ASSUME NEW rows \in Stream, NEW more \in Stream, NEW n \in Nat
  PROVE  FirstRows(Sorted(Cat(TopRows(rows, n), more)), n) =
           FirstRows(Sorted(Cat(rows, more)), n)
<1> DEFINE x == Ones(rows)
           y == Twos(rows)
           w == Nulls(rows)
           xx == Ones(more)
           yy == Twos(more)
           ww == Nulls(more)
           top == TopRows(rows, n)
           a == FirstRows(x, n)
           m == n - Len(a)
           b == FirstRows(y, m)
           k == m - Len(b)
           c == FirstRows(w, k)
<1>1. /\ x \in Stream /\ y \in Stream /\ w \in Stream
      /\ xx \in Stream /\ yy \in Stream /\ ww \in Stream
  BY SortedIn
<1>2. /\ m \in Nat /\ k \in Nat /\ top \in Stream
      /\ Ones(top) = a /\ Twos(top) = b /\ Nulls(top) = c
  BY TopIn
<1>3. /\ Sorted(Cat(top, more)) = Cat(Cat(a, xx), Cat(Cat(b, yy), Cat(c, ww)))
      /\ Sorted(Cat(rows, more)) = Cat(Cat(x, xx), Cat(Cat(y, yy), Cat(w, ww)))
  <2>1. Sorted(Cat(top, more)) = Cat(Cat(Ones(top), xx), Cat(Cat(Twos(top), yy), Cat(Nulls(top), ww)))
    BY <1>2, SortedJoin
  <2>2. Sorted(Cat(rows, more)) = Cat(Cat(x, xx), Cat(Cat(y, yy), Cat(w, ww)))
    BY SortedJoin
  <2>3. QED
    BY <1>2, <2>1, <2>2
<1> HIDE DEF x, y, w, xx, yy, ww, top
<1>4. a \in Stream /\ Len(a) = Least(n, Len(x))
  BY <1>1, CatFirst
<1>5. b \in Stream /\ Len(b) = Least(m, Len(y))
  <2> HIDE DEF m
  <2>1. QED
    BY <1>1, <1>2, CatFirst
<1>6. c \in Stream
  <2> HIDE DEF k
  <2>1. QED
    BY <1>1, <1>2, CatFirst
<1> DEFINE p == Cat(x, xx)
           q == Cat(y, yy)
           pq == Cat(p, q)
<1>7. p \in Stream /\ q \in Stream /\ pq \in Stream
  BY <1>1, CatIn
<1>8. /\ Len(p) = Len(x) + Len(xx) /\ Len(q) = Len(y) + Len(yy) /\ Len(pq) = Len(p) + Len(q)
      /\ Len(x) \in Nat /\ Len(xx) \in Nat /\ Len(y) \in Nat /\ Len(yy) \in Nat
  BY <1>1, <1>7, CatLength
<1> HIDE DEF p, q, pq
<1>9. Len(FirstRows(p, n)) = Least(n, Len(p)) /\ Len(FirstRows(pq, n)) = Least(n, Len(pq))
  BY <1>7, CatFirst
<1>10. n - Len(FirstRows(p, n)) <= m
  <2>1. Least(n, Len(x)) <= Least(n, Len(p))
    BY <1>8 DEF Least
  <2>2. Least(n, Len(x)) \in Nat /\ Least(n, Len(p)) \in Nat
    BY <1>8 DEF Least
  <2>3. m = n - Least(n, Len(x))
    BY <1>4
  <2> HIDE DEF m
  <2>4. QED
    BY <1>9, <2>1, <2>2, <2>3
<1>11. n - Len(FirstRows(pq, n)) <= k
  <2> DEFINE lx == Len(x)
             ly == Len(y)
             lp == Len(pq)
             lxx == Len(xx)
             lyy == Len(yy)
  <2>1. lp = (lx + lxx) + (ly + lyy) /\ lx \in Nat /\ ly \in Nat /\ lxx \in Nat /\ lyy \in Nat
    BY <1>8
  <2>2. m = n - Least(n, lx)
    BY <1>4
  <2>3. k = m - Least(m, ly)
    BY <1>5
  <2>4. Len(FirstRows(pq, n)) = Least(n, lp)
    BY <1>9
  <2> HIDE DEF lx, ly, lp, lxx, lyy, m, k
  <2>5. n - Least(n, lp) <= k
    BY <2>1, <2>2, <2>3 DEF Least
  <2>6. QED
    BY <2>4, <2>5
<1> DEFINE cw == Cat(c, ww)
           ycw == Cat(yy, cw)
           r == Cat(xx, Cat(b, ycw))
<1>12. cw \in Stream /\ ycw \in Stream /\ Cat(b, ycw) \in Stream /\ r \in Stream
       /\ Cat(y, ycw) \in Stream
  BY <1>1, <1>5, <1>6, CatIn
\* The rows of key 1, then those of key 2, then the nulls.
<1>13. FirstRows(Cat(a, r), n) = FirstRows(Cat(x, r), n)
  <2> DEFINE z == <<>>
  <2>1. z \in Stream /\ n - Len(FirstRows(z, n)) \in Nat /\ Len(FirstRows(z, n)) \in Nat
    <3>1. z \in Stream
      BY CatNone
    <3> HIDE DEF z
    <3>2. FirstRows(z, n) \in Stream /\ n - Len(FirstRows(z, n)) \in Nat
      BY <3>1, CatFirst
    <3>3. QED
      BY <3>1, <3>2, CatLength
  <2>2. \A s \in Stream : Cat(z, s) = s
    BY CatNone
  <2> HIDE DEF r, z
  <2>3. n - Len(FirstRows(z, n)) <= n
    BY <2>1
  <2>4. FirstRows(Cat(z, Cat(a, r)), n) = FirstRows(Cat(z, Cat(x, r)), n)
    BY <1>1, <1>12, <2>1, <2>3, CatInside
  <2>5. Cat(a, r) \in Stream /\ Cat(x, r) \in Stream
    BY <1>1, <1>4, <1>12, CatIn
  <2>6. QED
    BY <2>2, <2>4, <2>5
<1>14. FirstRows(Cat(p, Cat(b, ycw)), n) = FirstRows(Cat(p, Cat(y, ycw)), n)
  <2> HIDE DEF ycw, m
  <2>1. QED
    BY <1>1, <1>2, <1>7, <1>10, <1>12, CatInside
<1>15. FirstRows(Cat(pq, cw), n) = FirstRows(Cat(pq, Cat(w, ww)), n)
  <2> HIDE DEF k
  <2>1. QED
    BY <1>1, <1>2, <1>7, <1>11, CatInside
<1> HIDE DEF a, b, c, m, k
<1>16. /\ Cat(Cat(a, xx), Cat(Cat(b, yy), Cat(c, ww))) = Cat(a, r)
       /\ Cat(x, r) = Cat(p, Cat(b, ycw))
  <2>1. Cat(Cat(b, yy), Cat(c, ww)) = Cat(b, ycw)
    BY <1>1, <1>5, <1>6, CatFour
  <2> HIDE DEF ycw, cw
  <2>2. QED
    BY <1>1, <1>4, <1>12, <2>1, CatLeft DEF p
<1>17. Cat(p, Cat(y, ycw)) = Cat(pq, cw)
  <2>1. Cat(y, ycw) = Cat(q, cw)
    <3> HIDE DEF cw
    <3>1. QED
      BY <1>1, <1>12, CatLeft DEF q
  <2> HIDE DEF ycw, cw
  <2>2. QED
    BY <1>7, <1>12, <2>1, CatLeft DEF pq
<1>18. Cat(pq, Cat(w, ww)) = Cat(p, Cat(q, Cat(w, ww)))
  <2>1. Cat(w, ww) \in Stream
    BY <1>1, CatIn
  <2>2. QED
    BY <1>7, <2>1, CatLeft DEF pq
<1> HIDE DEF r, ycw, cw
<1>19. FirstRows(Cat(Cat(a, xx), Cat(Cat(b, yy), Cat(c, ww))), n)
         = FirstRows(Cat(p, Cat(q, Cat(w, ww))), n)
  BY <1>13, <1>14, <1>15, <1>16, <1>17, <1>18
<1>20. FirstRows(Sorted(Cat(top, more)), n) = FirstRows(Sorted(Cat(rows, more)), n)
  BY <1>3, <1>19 DEF p, q
<1>21. QED
  BY <1>20 DEF top
-----------------------------------------------------------------------------
(***************************************************************************)
(* What a node has still to give, and what it gives of a chunk.            *)
(***************************************************************************)

(* What a node has still to give if these rows come and no more. *)

Out(r) == IF r.out = None THEN <<>> ELSE r.out[1]

Window(op, node, y) ==
  LET d == op.skip - node.dropped
  IN  SubSeq(y, d + 1, IF op.bounded THEN Least(Len(y), d + (op.n - node.emitted))
                       ELSE Len(y))
Bounded(op, rows) == IF op.bound >= 0 THEN FirstRows(rows, op.bound) ELSE rows
Tally(node, y) == IF node.state = None THEN CountAndFirst(y)
                  ELSE Plus(node.state[1], CountAndFirst(y))
LastPairs(op, node, y) ==
  IF op.hits /\ ~node.ran THEN Unpaired(op, node.used \cup Used(op, y)) ELSE <<>>

Gives(op, node, y) ==
  CASE op.kind = "filter" -> WithKey(y, op.keep)
    [] op.kind \in {"compute", "project"} -> y
    [] op.kind = "limit" -> Window(op, node, y)
    [] op.kind = "sort" -> IF node.ran THEN FlattenSeq(node.output)
                           ELSE Bounded(op, Sorted(Cat(node.held, y)))
    [] op.kind = "unique" -> IF node.ran THEN FlattenSeq(node.output)
                             ELSE FirstOfEachKey(Cat(node.held, y))
    [] op.kind = "reduce" -> IF node.ran THEN <<>> ELSE Summary(Tally(node, y))
    [] op.kind = "join" -> Cat(AllJoined(op, y), LastPairs(op, node, y))
    [] op.kind = "positional" ->
         Cat(Beside(op, node.seen, y), Leftover(op, node.seen + Len(y)))

\* What an operator gives over rows is what it has to give before any came.
Does(op, y) == Gives(op, Fresh, y)

\* A sort that has not run knows heights for all the rows it holds.
Covers(op, node) ==
  op.kind = "sort" /\ ~node.ran =>
     \A f : Heightens(node.sizes, Len(node.sizes), f) =>
        Len(node.held) <= f[Len(node.sizes)]

LEMMA WindowIs ==
  ASSUME NEW op \in Operators, op.kind = "limit", NEW node, Fits(op, node), NEW y \in Stream
  PROVE  /\ op.skip - node.dropped \in Nat
         /\ op.bounded => op.n - node.emitted \in Nat
         /\ op.bounded \in BOOLEAN
         /\ Len(y) \in Nat
         /\ Window(op, node, y) \in Stream
<1> DEFINE d == op.skip - node.dropped
           k == op.n - node.emitted
           e == IF op.bounded THEN Least(Len(y), d + k) ELSE Len(y)
<1>1. op.skip \in Nat /\ op.n \in Nat /\ op.bounded \in BOOLEAN
  BY DEF Operators
<1>2. d \in Nat /\ (op.bounded => k \in Nat)
  BY <1>1 DEF Fits, Within, Shapes
<1>3. Len(y) \in Nat /\ y \in Seq(Row)
  BY DEF Stream
<1> HIDE DEF d, k
<1>4. e \in 0 .. Len(y)
  BY <1>1, <1>2, <1>3 DEF Least
<1> HIDE DEF e
<1>5. SubSeq(y, d + 1, e) \in Seq(Row)
  BY <1>2, <1>3, <1>4, PartIs
<1>6. Window(op, node, y) = SubSeq(y, d + 1, e)
  BY DEF Window, d, e, k
<1>7. QED
  BY <1>1, <1>2, <1>3, <1>5, <1>6 DEF Stream, d, k

\* A limit that has what it was asked for gives nothing more.
LEMMA WindowClosed ==
  ASSUME NEW op \in Operators, op.kind = "limit", NEW node, Fits(op, node), NEW y \in Stream,
         LimitReached(op, node)
  PROVE  Window(op, node, y) = <<>>
<1> DEFINE d == op.skip - node.dropped
           e == Least(Len(y), d + (op.n - node.emitted))
<1>1. d \in Nat /\ op.n - node.emitted = 0 /\ Len(y) \in Nat /\ op.bounded
  <2>1. node.emitted >= op.n /\ op.bounded /\ node.emitted <= op.n
    BY DEF LimitReached, Fits, Within
  <2>2. op.n \in Nat /\ node.emitted \in Nat
    BY DEF Operators, Fits, Shapes
  <2>3. d \in Nat /\ Len(y) \in Nat
    BY WindowIs
  <2>4. QED
    BY <2>1, <2>2, <2>3
<1> HIDE DEF d
<1>2. e \in 0 .. Len(y) /\ e <= d
  BY <1>1 DEF Least
<1> HIDE DEF e
<1>3. /\ SubSeq(y, d + 1, e) \in Seq(Row)
      /\ Len(SubSeq(y, d + 1, e)) = IF d <= e THEN e - d ELSE 0
  BY <1>1, <1>2, PartIs DEF Stream
<1>4. Len(SubSeq(y, d + 1, e)) = 0
  BY <1>1, <1>2, <1>3
<1>5. SubSeq(y, d + 1, e) = <<>>
  BY <1>3, <1>4, EmptySeq
<1>6. Window(op, node, y) = SubSeq(y, d + 1, e)
  BY <1>1 DEF Window, d, e
<1>7. QED
  BY <1>5, <1>6

LEMMA LimitFlows ==
  ASSUME NEW op \in Operators, op.kind = "limit", NEW node, Fits(op, node),
         NEW chunk \in Stream, NEW y \in Stream
  PROVE  LET r == LimitProcess(op, node, chunk)
         IN  /\ Window(op, node, Cat(chunk, y)) = Cat(Out(r), Window(op, r.node, y))
             /\ r.node.ran = node.ran
<1> DEFINE r == LimitProcess(op, node, chunk)
           c == Cat(chunk, y)
           la == Len(chunk)
           lb == Len(y)
           d == op.skip - node.dropped
           k == op.n - node.emitted
           e == IF op.bounded THEN Least(la + lb, d + k) ELSE la + lb
           p == SubSeq(chunk, Least(d, la) + 1, Least(e, la))
           q == SubSeq(y, Most(0, d - la) + 1, Most(0, e - la))
<1>1. /\ d \in Nat /\ (op.bounded => k \in Nat) /\ op.bounded \in BOOLEAN
      /\ la \in Nat /\ lb \in Nat
  BY WindowIs
<1>2. c \in Stream /\ Len(c) = la + lb
  BY CatIn, CatLength
<1>3. Window(op, node, c) = SubSeq(c, d + 1, e)
  BY <1>2 DEF Window
<1> HIDE DEF la, lb
<1>4. e \in 0 .. la + lb
  <2> HIDE DEF d, k
  <2>1. QED
    BY <1>1 DEF Least
<1>5. SubSeq(c, d + 1, e) = Cat(p, q)
  <2> HIDE DEF d, e
  <2>1. e \in 0 .. Len(chunk) + Len(y)
    BY <1>4 DEF la, lb
  <2>2. SubSeq(chunk \o y, d + 1, e) =
          SubSeq(chunk, Least(d, Len(chunk)) + 1, Least(e, Len(chunk)))
            \o SubSeq(y, Most(0, d - Len(chunk)) + 1, Most(0, e - Len(chunk)))
    BY <1>1, <2>1, PartOfJoin DEF Stream
  <2>3. QED
    BY <2>2 DEF Cat, la
<1>6. node \in Shapes
  BY DEF Fits
<1>7. CASE LimitReached(op, node)
  <2>1. r = Emit(node, None)
    BY <1>7 DEF LimitProcess
  <2>2. Window(op, node, c) = <<>> /\ Window(op, node, y) = <<>>
    BY <1>2, <1>7, WindowClosed
  <2>3. Out(r) = <<>> /\ r.node = node
    BY <2>1 DEF Out, Emit
  <2> HIDE DEF r, c
  <2>4. QED
    BY <2>2, <2>3, CatNone DEF r, c
<1>8. CASE ~LimitReached(op, node)
  <2> DEFINE start == Least(d, la)
             passed == [node EXCEPT !.dropped = @ + start]
             rest == la - start
             take == IF op.bounded THEN Least(rest, k) ELSE rest
             full == [passed EXCEPT !.emitted = @ + take]
  <2>1. start \in Nat /\ take \in Int
    <3> HIDE DEF d, k
    <3>1. QED
      BY <1>1 DEF Least
  <2>2. r = IF op.skip > node.dropped /\ start = la THEN Emit(passed, None)
            ELSE Emit(full, Some(SubSeq(chunk, start + 1, start + take)))
    BY <1>8 DEF LimitProcess, la
  <2>3. op.skip \in Nat /\ node.dropped \in Nat /\ op.n \in Nat /\ node.emitted \in Nat
    BY <1>6 DEF Operators, Shapes
  <2> HIDE DEF start
  <2>4. passed.dropped = node.dropped + start /\ passed.emitted = node.emitted
        /\ passed.ran = node.ran
    BY <1>6 DEF Shapes
  <2>5. full.dropped = node.dropped + start /\ full.emitted = node.emitted + take
        /\ full.ran = node.ran
    BY <1>6 DEF Shapes
  <2> HIDE DEF r, passed, full, take
  <2>6. CASE op.skip > node.dropped /\ start = la
    <3>1. d >= la
      BY <1>1, <2>6, <2>3 DEF start, Least
    <3>2. Out(r) = <<>> /\ r.node = passed
      BY <2>2, <2>6 DEF Out, Emit
    <3>3. d - la = op.skip - passed.dropped /\ k = op.n - passed.emitted
      BY <1>1, <2>3, <2>4, <2>6
    <3>4. /\ Most(0, d - la) = d - la
          /\ Most(0, e - la) = IF op.bounded THEN Least(lb, (d - la) + k) ELSE lb
          /\ Least(d, la) = la /\ Least(e, la) \in 0 .. la
      <4>1. CASE op.bounded
        <5>1. e = Least(la + lb, d + k) /\ k \in Nat
          BY <1>1, <4>1
        <5> HIDE DEF d, k, e
        <5>2. QED
          BY ONLY <1>1, <3>1, <4>1, <5>1 DEF Least, Most
      <4>2. CASE ~op.bounded
        <5> HIDE DEF d, k
        <5>1. QED
          BY <1>1, <3>1, <4>2 DEF Least, Most
      <4>3. QED
        BY <4>1, <4>2
    <3>5. q = Window(op, passed, y)
      BY <3>3, <3>4 DEF Window, lb
    <3>6. p = <<>>
      <4> DEFINE ee == Least(e, la)
      <4>1. p = SubSeq(chunk, la + 1, ee) /\ ee \in 0 .. la
        BY <3>4
      <4> HIDE DEF ee, p
      <4>2. /\ SubSeq(chunk, la + 1, ee) \in Seq(Row)
            /\ Len(SubSeq(chunk, la + 1, ee)) = IF la <= ee THEN ee - la ELSE 0
        BY <1>1, <4>1, PartIs DEF la, Stream
      <4>3. p \in Seq(Row) /\ Len(p) = 0
        BY <1>1, <4>1, <4>2
      <4>4. QED
        BY <4>3, EmptySeq
    <3> HIDE DEF p, q, c, d, e
    <3>6a. Window(op, node, c) = Cat(<<>>, Window(op, passed, y))
      BY <1>3, <1>5, <3>5, <3>6
    <3>7. QED
      BY <2>4, <3>2, <3>6a DEF r, c
  <2>7. CASE ~(op.skip > node.dropped /\ start = la)
    <3>1. d <= la /\ start = d
      BY <1>1, <2>3, <2>7 DEF start, Least
    <3>2. Out(r) = SubSeq(chunk, start + 1, start + take) /\ r.node = full
      BY <2>2, <2>7 DEF Out, Emit, Some, None
    <3>3. 0 = op.skip - full.dropped /\ k - take = op.n - full.emitted
      BY <1>1, <2>1, <2>3, <2>5, <3>1
    <3>4. take = IF op.bounded THEN Least(la - d, k) ELSE la - d
      BY <3>1 DEF take
    <3>5. /\ Most(0, d - la) = 0 /\ Least(d, la) = d
          /\ Least(e, la) = d + take
          /\ Most(0, e - la) = IF op.bounded THEN Least(lb, 0 + (k - take)) ELSE lb
      <4>1. CASE op.bounded
        <5>1. e = Least(la + lb, d + k) /\ take = Least(la - d, k) /\ k \in Nat
          BY <1>1, <3>4, <4>1
        <5> HIDE DEF d, k, e
        <5>2. QED
          BY ONLY <1>1, <3>1, <4>1, <5>1 DEF Least, Most
      <4>2. CASE ~op.bounded
        <5> HIDE DEF d, k
        <5>1. QED
          BY <1>1, <3>1, <3>4, <4>2 DEF Least, Most
      <4>3. QED
        BY <4>1, <4>2
    <3>6. q = Window(op, full, y)
      BY <3>3, <3>5 DEF Window, lb
    <3>7. p = SubSeq(chunk, start + 1, start + take)
      BY <3>1, <3>5
    <3> HIDE DEF p, q, c, d, e
    <3>8. QED
      BY <1>3, <1>5, <2>5, <3>2, <3>6, <3>7 DEF r, c
  <2>8. QED
    BY <2>6, <2>7
<1>9. QED
  BY <1>7, <1>8

LEMMA SortFlows ==
  ASSUME NEW op \in Operators, op.kind = "sort", NEW node, Fits(op, node), ~node.ran,
         NEW chunk \in Stream, NEW y \in Stream
  PROVE  LET r == SortProcess(op, node, chunk)
         IN  /\ Gives(op, node, Cat(chunk, y)) = Cat(Out(r), Gives(op, r.node, y))
             /\ ~r.node.ran
<1> DEFINE r == SortProcess(op, node, chunk)
           all == Cat(node.held, chunk)
           over == op.bound >= 0 /\ Len(all) > Most(2 * op.bound, TOPN_FLOOR)
           held == IF over THEN TopRows(all, op.bound) ELSE all
           after == [node EXCEPT !.sizes = Append(@, Len(chunk)), !.held = held]
<1>1. node \in Shapes /\ node.held \in Stream /\ op.bound \in Int
  BY DEF Fits, Shapes, Stream, Operators
<1>2. r = Emit(after, None)
  BY DEF SortProcess, Cat
<1> HIDE DEF held
<1>3. after.held = held /\ after.ran = node.ran
  BY <1>1 DEF Shapes
<1> HIDE DEF after, r
<1>4. Out(r) = <<>> /\ r.node = after
  BY <1>2 DEF Out, Emit
<1>5. /\ Gives(op, node, Cat(chunk, y)) = Bounded(op, Sorted(Cat(node.held, Cat(chunk, y))))
      /\ Gives(op, r.node, y) = Bounded(op, Sorted(Cat(held, y)))
  BY <1>3, <1>4 DEF Gives
<1>6. all \in Stream /\ Cat(node.held, Cat(chunk, y)) = Cat(all, y)
  BY <1>1, CatIn, CatLeft
<1> HIDE DEF all
<1>7. Bounded(op, Sorted(Cat(held, y))) = Bounded(op, Sorted(Cat(all, y)))
  <2>1. CASE over
    <3>1. op.bound \in Nat /\ held = TopRows(all, op.bound)
      BY <1>1, <2>1 DEF held
    <3>2. QED
      BY <1>6, <3>1, CompactingIsSafe DEF Bounded
  <2>2. CASE ~over
    BY <2>2 DEF held
  <2>3. QED
    BY <2>1, <2>2
<1>8. Gives(op, r.node, y) \in Stream
  <2>1. held \in Stream
    <3>1. over => TopRows(all, op.bound) \in Stream
      BY <1>1, <1>6, TopIn
    <3>2. QED
      BY <1>6, <3>1 DEF held
  <2>2. Sorted(Cat(held, y)) \in Stream
    BY <2>1, CatIn, SortedIn
  <2>3. QED
    BY <1>1, <1>5, <2>2, CatFirst DEF Bounded
<1>9. QED
  BY <1>3, <1>4, <1>5, <1>6, <1>7, <1>8, CatNone DEF r

LEMMA UniqueFlows ==
  ASSUME NEW op \in Operators, op.kind = "unique", NEW node, Fits(op, node), ~node.ran,
         NEW chunk \in Stream, NEW y \in Stream
  PROVE  LET r == Process(op, node, chunk)
         IN  /\ Gives(op, node, Cat(chunk, y)) = Cat(Out(r), Gives(op, r.node, y))
             /\ ~r.node.ran
<1> DEFINE r == Process(op, node, chunk)
           all == Cat(node.held, chunk)
           after == [node EXCEPT !.held = all]
<1>1. node \in Shapes /\ node.held \in Stream
  BY DEF Fits, Shapes, Stream
<1>2. r = Emit(after, None)
  BY DEF Process, Cat
<1>6. all \in Stream /\ Cat(node.held, Cat(chunk, y)) = Cat(all, y)
  BY <1>1, CatIn, CatLeft
<1> HIDE DEF all
<1>3. after.held = all /\ after.ran = node.ran
  BY <1>1 DEF Shapes
<1> HIDE DEF after, r
<1>4. Out(r) = <<>> /\ r.node = after
  BY <1>2 DEF Out, Emit
<1>5. /\ Gives(op, node, Cat(chunk, y)) = FirstOfEachKey(Cat(node.held, Cat(chunk, y)))
      /\ Gives(op, r.node, y) = FirstOfEachKey(Cat(all, y))
  BY <1>3, <1>4 DEF Gives
<1>7. FirstOfEachKey(Cat(all, y)) \in Stream
  BY <1>6, CatIn, FirstOfEachKeyIs DEF Stream
<1>8. QED
  BY <1>3, <1>4, <1>5, <1>6, <1>7, CatNone DEF r

LEMMA CatTally ==
  \A a, b \in Stream : /\ CountAndFirst(a) \in Tallies
                       /\ CountAndFirst(Cat(a, b)) = Plus(CountAndFirst(a), CountAndFirst(b))
<1>1. SUFFICES ASSUME NEW a \in Seq(Row), NEW b \in Seq(Row)
               PROVE  /\ CountAndFirst(a) \in Tallies
                      /\ CountAndFirst(a \o b) = Plus(CountAndFirst(a), CountAndFirst(b))
  BY Zenon DEF Stream, Cat
<1>2. QED
  BY CountAndFirstIs, TallyJoin

LEMMA TallyIs ==
  ASSUME NEW op, NEW node, Fits(op, node), NEW y \in Stream
  PROVE  Tally(node, y) \in Tallies /\ (node.state # None => node.state[1] \in Tallies)
<1>1. node.state \in Opt(Tallies)
  BY DEF Fits, Shapes
<1>2. node.state # None => node.state[1] \in Tallies
  BY <1>1, OptIs
<1>3. CountAndFirst(y) \in Tallies
  BY CatTally
<1>4. QED
  BY <1>2, <1>3, PlusIs DEF Tally

\* A tally absorbed.
LEMMA AbsorbFlows ==
  ASSUME NEW op, NEW node, Fits(op, node), ~node.ran, NEW chunk \in Stream, NEW y \in Stream
  PROVE  LET after == Absorb(node, CountAndFirst(chunk))
         IN  Tally(node, Cat(chunk, y)) = Tally(after, y) /\ ~after.ran
<1> DEFINE p == CountAndFirst(chunk)
           q == CountAndFirst(y)
           s == node.state[1]
           state == IF node.state = None THEN <<p>> ELSE <<Plus(s, p)>>
           after == Absorb(node, p)
<1>1. node \in Shapes
  BY DEF Fits
<1>2. p \in Tallies /\ q \in Tallies /\ CountAndFirst(Cat(chunk, y)) = Plus(p, q)
  BY CatTally
<1>3. node.state # None => s \in Tallies
  BY TallyIs
<1>4. after = [node EXCEPT !.state = state]
  BY <1>1 DEF Absorb, Plus, Shapes
<1> HIDE DEF p, q, s, after
<1>5. after.state = state /\ after.ran = node.ran
  BY <1>1, <1>4 DEF Shapes
<1>6. CASE node.state = None
  <2>1. Tally(node, Cat(chunk, y)) = Plus(p, q)
    BY <1>2, <1>6 DEF Tally
  <2>2. state # None /\ state[1] = p
    BY <1>6 DEF None
  <2> HIDE DEF state
  <2>3. Tally(after, y) = Plus(p, q)
    BY <1>5, <2>2 DEF Tally, q
  <2>4. QED
    BY <1>5, <2>1, <2>3 DEF after, p
<1>7. CASE node.state # None
  <2>1. Tally(node, Cat(chunk, y)) = Plus(s, Plus(p, q))
    BY <1>2, <1>7 DEF Tally, s
  <2>2. state # None /\ state[1] = Plus(s, p)
    BY <1>7 DEF None
  <2> HIDE DEF state
  <2>3. Tally(after, y) = Plus(Plus(s, p), q)
    BY <1>5, <2>2 DEF Tally, q
  <2>4. Plus(Plus(s, p), q) = Plus(s, Plus(p, q))
    BY <1>2, <1>3, <1>7, PlusGroups
  <2>5. QED
    BY <1>5, <2>1, <2>3, <2>4 DEF after, p
<1>8. QED
  BY <1>6, <1>7

LEMMA ReduceFlows ==
  ASSUME NEW op \in Operators, op.kind = "reduce", NEW node, Fits(op, node), ~node.ran,
         NEW chunk \in Stream, NEW y \in Stream
  PROVE  LET r == ReduceProcess(node, chunk)
         IN  /\ Gives(op, node, Cat(chunk, y)) = Cat(Out(r), Gives(op, r.node, y))
             /\ ~r.node.ran
<1> DEFINE r == ReduceProcess(node, chunk)
           p == CountAndFirst(chunk)
           after == Absorb(node, p)
<1>1. Tally(node, Cat(chunk, y)) = Tally(r.node, y) /\ ~r.node.ran /\ Out(r) = <<>>
      /\ Fits(op, r.node)
  <2>1. CASE chunk = <<>>
    <3>1. r = Emit(node, None)
      BY <2>1 DEF ReduceProcess, Partial, None
    <3>2. Cat(chunk, y) = y
      BY <2>1, CatNone
    <3>3. r.node = node /\ Out(r) = <<>>
      BY <3>1 DEF Emit, Out
    <3>4. QED
      BY <3>2, <3>3
  <2>2. CASE chunk # <<>>
    <3>1. Partial(chunk) # None /\ Partial(chunk)[1] = p
      BY <2>2 DEF Partial, None
    <3>2. r = Emit(after, None)
      BY <3>1 DEF ReduceProcess
    <3>3. p \in Tallies
      BY CatTally
    <3>4. Fits(op, after)
      BY <3>3, AbsorbFits
    <3>5. Tally(node, Cat(chunk, y)) = Tally(after, y) /\ ~after.ran
      BY AbsorbFlows
    <3>6. r.node = after /\ Out(r) = <<>>
      BY <3>2 DEF Emit, Out
    <3> HIDE DEF r, after
    <3>7. QED
      BY <3>4, <3>5, <3>6
  <2>3. QED
    BY <2>1, <2>2
<1> HIDE DEF r
<1>2. /\ Gives(op, node, Cat(chunk, y)) = Summary(Tally(node, Cat(chunk, y)))
      /\ Gives(op, r.node, y) = Summary(Tally(r.node, y))
  BY <1>1 DEF Gives
<1>3. Summary(Tally(r.node, y)) \in Stream
  BY <1>1, TallyIs, SummaryIs DEF Stream
<1>4. QED
  BY <1>1, <1>2, <1>3, CatNone DEF r

LEMMA CatJoined ==
  ASSUME NEW op \in Operators, op.kind = "join"
  PROVE  \A a, b \in Stream :
            /\ AllJoined(op, a) \in Stream
            /\ AllJoined(op, Cat(a, b)) = Cat(AllJoined(op, a), AllJoined(op, b))
            /\ Used(op, Cat(a, b)) = Used(op, a) \cup Used(op, b)
<1>1. SUFFICES ASSUME NEW a \in Seq(Row), NEW b \in Seq(Row)
               PROVE  /\ AllJoined(op, a) \in Seq(Row)
                      /\ AllJoined(op, a \o b) = AllJoined(op, a) \o AllJoined(op, b)
                      /\ Used(op, a \o b) = Used(op, a) \cup Used(op, b)
  BY Zenon DEF Stream, Cat
<1>2. QED
  BY AllJoinedIs, AllJoinedJoin, UsedJoin

LEMMA LastPairsAre ==
  ASSUME NEW op \in Operators, op.kind = "join", NEW node, NEW y
  PROVE  LastPairs(op, node, y) \in Stream
BY UnpairedIs, CatNone DEF LastPairs, Stream

LEMMA JoinFlows ==
  ASSUME NEW op \in Operators, op.kind = "join", NEW node, Fits(op, node), ~node.ran,
         NEW chunk \in Stream, NEW y \in Stream
  PROVE  LET r == JoinProcess(op, node, chunk)
         IN  /\ Gives(op, node, Cat(chunk, y)) = Cat(Out(r), Gives(op, r.node, y))
             /\ ~r.node.ran
<1> DEFINE r == JoinProcess(op, node, chunk)
           used == IF op.hits THEN node.used \cup Used(op, chunk) ELSE node.used
           after == [node EXCEPT !.used = used]
           rows == AllJoined(op, chunk)
           more == AllJoined(op, y)
           out == IF rows = <<>> THEN None ELSE Some(rows)
           all == Cat(chunk, y)
<1>1. node \in Shapes
  BY DEF Fits
<1>2. r = Emit(after, out)
  BY <1>1 DEF JoinProcess, Shapes
<1>3. /\ rows \in Stream /\ more \in Stream /\ AllJoined(op, all) = Cat(rows, more)
      /\ Used(op, all) = Used(op, chunk) \cup Used(op, y)
  BY CatJoined
<1> HIDE DEF used, rows, more, all
<1>4. after.used = used /\ after.ran = node.ran
  BY <1>1 DEF Shapes
<1>5. Out(r) = rows /\ r.node = after
  BY <1>2 DEF Out, Emit, None, Some
<1> HIDE DEF r, after
<1>6. LastPairs(op, node, all) = LastPairs(op, after, y)
  <2>1. CASE op.hits
    <3>1. node.used \cup Used(op, all) = after.used \cup Used(op, y)
      BY <1>3, <1>4, <2>1 DEF used
    <3>2. QED
      BY <1>4, <3>1 DEF LastPairs
  <2>2. CASE ~op.hits
    BY <2>2 DEF LastPairs
  <2>3. QED
    BY <2>1, <2>2
<1>7. /\ Gives(op, node, all) = Cat(Cat(rows, more), LastPairs(op, node, all))
      /\ Gives(op, after, y) = Cat(more, LastPairs(op, after, y))
  BY <1>3 DEF Gives, more
<1>8. LastPairs(op, after, y) \in Stream
  BY LastPairsAre
<1>9. QED
  BY <1>3, <1>4, <1>5, <1>6, <1>7, <1>8, CatLeft DEF r, all

LEMMA CatBeside ==
  ASSUME NEW op
  PROVE  \A seen \in Nat : \A a, b \in Stream :
            /\ Beside(op, seen, a) \in Stream
            /\ Len(Beside(op, seen, a)) = Len(a)
            /\ Beside(op, seen, Cat(a, b))
                 = Cat(Beside(op, seen, a), Beside(op, seen + Len(a), b))
<1>1. SUFFICES ASSUME NEW seen \in Nat, NEW a \in Seq(Row), NEW b \in Seq(Row)
               PROVE  /\ Beside(op, seen, a) \in Seq(Row)
                      /\ Len(Beside(op, seen, a)) = Len(a)
                      /\ Beside(op, seen, a \o b)
                           = Beside(op, seen, a) \o Beside(op, seen + Len(a), b)
  BY Zenon DEF Stream, Cat
<1>2. Beside(op, seen, a) \in Seq(Row) /\ Len(Beside(op, seen, a)) = Len(a)
  BY BesideIs
<1>3. Beside(op, seen, a \o b) = Beside(op, seen, a) \o Beside(op, seen + Len(a), b)
  BY BesideJoin
<1>4. QED
  BY <1>2, <1>3

LEMMA PositionalFlows ==
  ASSUME NEW op \in Operators, op.kind = "positional", NEW node, Fits(op, node), ~node.ran,
         NEW chunk \in Stream, NEW y \in Stream
  PROVE  LET r == PositionalProcess(op, node, chunk)
         IN  /\ Gives(op, node, Cat(chunk, y)) = Cat(Out(r), Gives(op, r.node, y))
             /\ ~r.node.ran
<1> DEFINE r == PositionalProcess(op, node, chunk)
           seen == node.seen
           next == seen + Len(chunk)
           after == [node EXCEPT !.seen = next]
           rows == Beside(op, seen, chunk)
           more == Beside(op, next, y)
           all == Cat(chunk, y)
           left == Leftover(op, next + Len(y))
<1>1. node \in Shapes /\ seen \in Nat /\ Len(chunk) \in Nat /\ next \in Nat /\ Len(y) \in Nat
      /\ Len(all) = Len(chunk) + Len(y)
  BY CatLength DEF Fits, Shapes
<1>2. rows \in Stream /\ more \in Stream /\ left \in Stream
  <2> HIDE DEF seen, next
  <2>1. rows \in Stream /\ more \in Stream
    BY <1>1, CatBeside
  <2>2. next + Len(y) \in Nat
    BY <1>1
  <2>3. Leftover(op, next + Len(y)) \in Stream
    BY <2>2, LeftoverIs DEF Stream
  <2>4. QED
    BY <2>1, <2>3
<1>3. Beside(op, seen, all) = Cat(rows, more)
  BY <1>1, CatBeside
<1>4. Leftover(op, seen + Len(all)) = left
  <2>1. seen + Len(all) = next + Len(y)
    BY <1>1
  <2>2. QED
    BY <2>1
<1> HIDE DEF rows, more, all, left
<1>5. Gives(op, node, all) = Cat(Cat(rows, more), left)
  BY <1>3, <1>4 DEF Gives
<1>6. CASE chunk = <<>>
  <2>1. r = Emit(node, None)
    BY <1>6 DEF PositionalProcess
  <2>2. r.node = node /\ Out(r) = <<>> /\ all = y
    BY <1>6, <2>1, CatNone DEF Emit, Out, all
  <2> HIDE DEF r
  <2>3. Cat(Cat(rows, more), left) \in Stream
    BY <1>2, CatIn
  <2>4. QED
    BY <1>5, <2>2, <2>3, CatNone DEF r, all
<1>7. CASE chunk # <<>>
  <2>1. r = Emit(after, Some(rows))
    BY <1>7 DEF PositionalProcess, rows
  <2>2. after.seen = next /\ after.ran = node.ran
    BY <1>1 DEF Shapes
  <2> HIDE DEF after, next
  <2>3. r.node = after /\ Out(r) = rows
    BY <2>1 DEF Emit, Out, Some, None
  <2>4. Gives(op, after, y) = Cat(more, left)
    BY <2>2 DEF Gives, more, left
  <2>5. Cat(Cat(rows, more), left) = Cat(rows, Cat(more, left))
    BY <1>2, CatLeft
  <2> HIDE DEF r
  <2>6. QED
    BY <1>5, <2>2, <2>3, <2>4, <2>5 DEF r, all
<1>8. QED
  BY <1>6, <1>7

\* A chunk through any operator: what it gives, and what it has still to give,
\* are what it had to give.
LEMMA ProcessFlows ==
  ASSUME NEW op \in Operators, NEW node, Fits(op, node), ~node.ran,
         NEW chunk \in Stream, NEW y \in Stream, ~Process(op, node, chunk).raised
  PROVE  LET r == Process(op, node, chunk)
         IN  /\ Gives(op, node, Cat(chunk, y)) = Cat(Out(r), Gives(op, r.node, y))
             /\ ~r.node.ran
<1> DEFINE r == Process(op, node, chunk)
<1>1. CASE op.kind = "filter"
  <2> DEFINE rows == WithKey(chunk, op.keep)
  <2>1. r = Emit(node, IF rows = <<>> THEN None ELSE Some(rows))
    BY <1>1 DEF Process
  <2>2. r.node = node /\ Out(r) = rows
    BY <2>1 DEF Emit, Out, Some, None
  <2>3. WithKey(Cat(chunk, y), op.keep) = Cat(rows, WithKey(y, op.keep))
    BY CatKeys
  <2> HIDE DEF r, rows
  <2>4. QED
    BY <1>1, <2>2, <2>3 DEF Gives, r
<1>2. CASE op.kind \in {"compute", "project"}
  <2>1. r = Emit(node, Some(chunk))
    BY <1>2 DEF Process, Raise
  <2>2. r.node = node /\ Out(r) = chunk
    BY <2>1 DEF Emit, Out, Some, None
  <2> HIDE DEF r
  <2>3. QED
    BY <1>2, <2>2 DEF Gives, r
<1>3. CASE op.kind = "limit"
  <2>1. r = LimitProcess(op, node, chunk)
    BY <1>3 DEF Process
  <2> HIDE DEF r
  <2>2. Window(op, node, Cat(chunk, y)) = Cat(Out(r), Window(op, r.node, y)) /\ r.node.ran = node.ran
    BY <1>3, <2>1, LimitFlows
  <2>3. QED
    BY <1>3, <2>2 DEF Gives, r
<1>4. CASE op.kind = "sort"
  <2>1. r = SortProcess(op, node, chunk)
    BY <1>4 DEF Process
  <2> HIDE DEF r
  <2>2. QED
    BY <1>4, <2>1, SortFlows DEF r
<1>5. CASE op.kind = "reduce"
  <2>1. r = ReduceProcess(node, chunk)
    BY <1>5 DEF Process
  <2> HIDE DEF r
  <2>2. QED
    BY <1>5, <2>1, ReduceFlows DEF r
<1>6. CASE op.kind = "unique"
  BY <1>6, UniqueFlows
<1>7. CASE op.kind = "join"
  <2>1. r = JoinProcess(op, node, chunk)
    BY <1>7 DEF Process
  <2> HIDE DEF r
  <2>2. QED
    BY <1>7, <2>1, JoinFlows DEF r
<1>8. CASE op.kind = "positional"
  <2>1. r = PositionalProcess(op, node, chunk)
    BY <1>8 DEF Process
  <2> HIDE DEF r
  <2>2. QED
    BY <1>8, <2>1, PositionalFlows DEF r
<1>9. op.kind \in {"filter", "compute", "project", "limit", "sort", "reduce",
                   "unique", "join", "positional"}
  BY DEF Operators
<1>10. QED
  BY <1>1, <1>2, <1>3, <1>4, <1>5, <1>6, <1>7, <1>8, <1>9
-----------------------------------------------------------------------------
(***************************************************************************)
(* What a node gives when no more rows come.                               *)
(***************************************************************************)

(* Rows cut at some places, and put end to end again. *)
LEMMA FirstAndNext ==
  ASSUME NEW rows \in Seq(Row), NEW d \in Nat, NEW e \in Nat, d <= e
  PROVE  /\ SubSeq(rows, d + 1, Least(e, Len(rows))) \in Seq(Row)
         /\ FirstRows(rows, d) \o SubSeq(rows, d + 1, Least(e, Len(rows))) = FirstRows(rows, e)
<1> DEFINE n == Len(rows)
           b == Least(e, n)
           s == SubSeq(rows, d + 1, b)
           x == FirstRows(rows, d)
           z == FirstRows(rows, e)
<1>1. n \in Nat
  OBVIOUS
<1> HIDE DEF n
<1>2. b \in 0 .. n /\ b = Least(e, n)
  BY <1>1 DEF Least
<1>3. /\ s \in Seq(Row) /\ Len(s) = (IF d <= b THEN b - d ELSE 0)
      /\ \A i \in 1 .. b - d : s[i] = rows[d + i]
  <2> HIDE DEF b
  <2>1. QED
    BY <1>2, PartIs DEF n
<1>4. /\ x \in Seq(Row) /\ Len(x) = Least(d, n)
      /\ \A i \in 1 .. Least(d, n) : x[i] = rows[i]
  BY FirstIs DEF n
<1>5. /\ z \in Seq(Row) /\ Len(z) = b
      /\ \A i \in 1 .. b : z[i] = rows[i]
  BY FirstIs DEF n
<1> HIDE DEF s, x, z
<1>6. Len(z) = Len(x) + Len(s)
  BY <1>1, <1>3, <1>4, <1>5 DEF Least
<1>7. ASSUME NEW i \in 1 .. Len(x) PROVE z[i] = x[i]
  <2>1. i \in 1 .. Least(d, n) /\ i \in 1 .. b
    BY <1>1, <1>4 DEF Least
  <2>2. QED
    BY <1>4, <1>5, <2>1
<1>8. ASSUME NEW i \in 1 .. Len(s) PROVE z[Len(x) + i] = s[i]
  <2>1. i \in 1 .. b - d /\ Len(x) = d /\ d + i \in 1 .. b
    BY <1>1, <1>3, <1>4 DEF Least
  <2> HIDE DEF b
  <2>2. z[d + i] = rows[d + i]
    BY <1>5, <2>1
  <2>3. QED
    BY <1>3, <2>1, <2>2
<1>9. z = x \o s
  BY <1>3, <1>4, <1>5, <1>6, <1>7, <1>8, IsJoin
<1>10. QED
  BY <1>3, <1>9 DEF s, x, z, n

LEMMA SegmentsFlatten ==
  ASSUME NEW rows \in Seq(Row), NEW n \in Nat, NEW f,
         \A c \in 0 .. n : f[c] \in Nat,
         f[0] = 0,
         \A c \in 1 .. n : f[c - 1] <= f[c],
         NEW parts \in Seq(Seq(Row)), Len(parts) = n,
         \A c \in 1 .. n : parts[c] = SubSeq(rows, f[c - 1] + 1, Least(f[c], Len(rows)))
  PROVE  FlattenSeq(parts) = FirstRows(rows, f[n])
<1> DEFINE T == {t \in Seq(Seq(Row)) :
                   Len(t) <= n /\ (\A c \in 1 .. Len(t) : t[c] = parts[c]) =>
                      FlattenSeq(t) = FirstRows(rows, f[Len(t)])}
<1>1. <<>> \in T
  <2>1. <<>> \in Seq(Seq(Row)) /\ Len(<<>>) = 0
    OBVIOUS
  <2>2. FirstRows(rows, 0) \in Seq(Row) /\ Len(FirstRows(rows, 0)) = 0
    BY FirstIs DEF Least
  <2>3. FirstRows(rows, f[0]) = <<>>
    BY <2>2, EmptySeq
  <2>4. QED
    BY <2>1, <2>3, FlattenNone
<1>2. \A t \in Seq(Seq(Row)), e \in Seq(Row) : t \in T => Append(t, e) \in T
  <2>1. SUFFICES ASSUME NEW t \in Seq(Seq(Row)), NEW e \in Seq(Row), t \in T,
                        Len(Append(t, e)) <= n,
                        \A c \in 1 .. Len(Append(t, e)) : Append(t, e)[c] = parts[c]
                 PROVE  FlattenSeq(Append(t, e)) = FirstRows(rows, f[Len(Append(t, e))])
    BY AppendProperties
  <2> DEFINE k == Len(t)
             m == k + 1
  <2>2. /\ k \in Nat /\ Len(Append(t, e)) = m /\ Append(t, e)[m] = e
        /\ \A c \in 1 .. k : Append(t, e)[c] = t[c]
    BY AppendProperties
  <2> HIDE DEF k
  <2>3. m \in 1 .. n /\ k \in 0 .. n /\ m - 1 = k
    BY <2>1, <2>2
  <2> HIDE DEF m
  <2>4. e = SubSeq(rows, f[k] + 1, Least(f[m], Len(rows)))
    <3>1. e = parts[m]
      BY <2>1, <2>2, <2>3
    <3>2. QED
      BY <2>3, <3>1
  <2>5. FlattenSeq(t) = FirstRows(rows, f[k])
    <3>1. \A c \in 1 .. k : c \in 1 .. Len(Append(t, e))
      BY <2>2, <2>3
    <3>2. \A c \in 1 .. k : t[c] = parts[c]
      BY <2>1, <2>2, <3>1
    <3>3. Len(t) <= n /\ \A c \in 1 .. Len(t) : t[c] = parts[c]
      BY <2>3, <3>2 DEF k
    <3>4. t \in T
      BY <2>1
    <3>5. FlattenSeq(t) = FirstRows(rows, f[Len(t)])
      BY ONLY <3>3, <3>4
    <3>6. QED
      BY <3>5 DEF k
  <2>6. f[k] \in Nat /\ f[m] \in Nat /\ f[k] <= f[m]
    BY <2>3
  <2>7. FirstRows(rows, f[k]) \o e = FirstRows(rows, f[m])
    BY <2>4, <2>6, FirstAndNext
  <2>8. FlattenSeq(Append(t, e)) = FlattenSeq(t) \o e
    BY FlattenMore
  <2>9. QED
    BY <2>2, <2>5, <2>7, <2>8
<1> HIDE DEF T
<1>3. parts \in T
  BY <1>1, <1>2, SeqSets
<1>4. QED
  BY <1>3 DEF T

\* Leaving out what is empty leaves nothing out.
LEMMA EmptiesFlatten ==
  ASSUME NEW S, NEW places, NEW parts \in Seq(Seq(S)),
         \A c \in 1 .. Len(parts) : c \notin places => parts[c] = <<>>
  PROVE  FlattenSeq(At(parts, places)) = FlattenSeq(parts)
<1> DEFINE T == {t \in Seq(Seq(S)) :
                   (\A c \in 1 .. Len(t) : c \notin places => t[c] = <<>>) =>
                      FlattenSeq(At(t, places)) = FlattenSeq(t)}
<1>1. <<>> \in T
  BY AtNone
<1>2. \A t \in Seq(Seq(S)), e \in Seq(S) : t \in T => Append(t, e) \in T
  <2>1. SUFFICES ASSUME NEW t \in Seq(Seq(S)), NEW e \in Seq(S), t \in T,
                        \A c \in 1 .. Len(Append(t, e)) :
                           c \notin places => Append(t, e)[c] = <<>>
                 PROVE  FlattenSeq(At(Append(t, e), places)) = FlattenSeq(Append(t, e))
    BY AppendProperties
  <2> DEFINE k == Len(t)
             m == k + 1
  <2>2. /\ k \in Nat /\ Len(Append(t, e)) = m /\ Append(t, e)[m] = e
        /\ \A c \in 1 .. k : Append(t, e)[c] = t[c]
    BY AppendProperties
  <2>3. At(Append(t, e), places) = IF m \in places THEN Append(At(t, places), e)
                                   ELSE At(t, places)
    BY AtMore
  <2> HIDE DEF k
  <2>4. m \in 1 .. m /\ \A c \in 1 .. k : c \in 1 .. m
    BY <2>2
  <2>5. \A c \in 1 .. k : c \notin places => t[c] = <<>>
    BY <2>1, <2>2, <2>4
  <2>6. FlattenSeq(At(t, places)) = FlattenSeq(t)
    BY <2>1, <2>5 DEF k
  <2>7. FlattenSeq(Append(t, e)) = FlattenSeq(t) \o e
    BY FlattenMore
  <2>8. CASE m \in places
    <3>1. At(t, places) \in Seq(Seq(S))
      BY AtIs
    <3>2. FlattenSeq(Append(At(t, places), e)) = FlattenSeq(At(t, places)) \o e
      BY <3>1, FlattenMore
    <3>3. QED
      BY <2>3, <2>6, <2>7, <2>8, <3>2
  <2>9. CASE m \notin places
    <3>1. e = <<>>
      BY <2>1, <2>2, <2>4, <2>9
    <3>2. FlattenSeq(t) \o <<>> = FlattenSeq(t)
      BY FlattenIs, ConcatEmptySeq
    <3>3. QED
      BY <2>3, <2>6, <2>7, <2>9, <3>1, <3>2
  <2>10. QED
    BY <2>8, <2>9
<1> HIDE DEF T
<1>3. parts \in T
  BY <1>1, <1>2, SeqSets
<1>4. QED
  BY <1>3 DEF T

\* Rows cut at heights that reach the end of them.
LEMMA CutAtFlattens ==
  ASSUME NEW sizes \in Seq(Nat), NEW rows \in Seq(Row),
         \A f : Heightens(sizes, Len(sizes), f) => Len(rows) <= f[Len(sizes)]
  PROVE  FlattenSeq(CutAt(sizes)[rows]) = rows
<1>1. PICK f : /\ Heightens(sizes, Len(sizes), f)
               /\ CutAt(sizes)[rows] =
                     At([c \in DOMAIN sizes |->
                           SubSeq(rows, f[c - 1] + 1, Least(f[c], Len(rows)))],
                        {c \in DOMAIN sizes : f[c - 1] < Len(rows)})
  BY CutAtGoes
<1> DEFINE n == Len(sizes)
           cut(c) == SubSeq(rows, f[c - 1] + 1, Least(f[c], Len(rows)))
           parts == [c \in DOMAIN sizes |-> cut(c)]
           places == {c \in DOMAIN sizes : f[c - 1] < Len(rows)}
<1>2. /\ \A c \in 0 .. n : f[c] \in Nat
      /\ f[0] = 0
      /\ \A c \in 1 .. n : f[c] = f[c - 1] + sizes[c]
  BY <1>1, HeightsAre
<1>3. n \in Nat /\ DOMAIN sizes = 1 .. n /\ \A c \in 1 .. n : sizes[c] \in Nat
  OBVIOUS
<1>4. Len(rows) <= f[n] /\ Len(rows) \in Nat
  BY <1>1
<1>5. CutAt(sizes)[rows] = At(parts, places)
  BY <1>1
<1> HIDE DEF n
<1>6. ASSUME NEW c \in 1 .. n
      PROVE  /\ f[c - 1] \in Nat /\ f[c] \in Nat /\ f[c - 1] <= f[c]
             /\ cut(c) \in Seq(Row)
  <2>1. c - 1 \in 0 .. n /\ c \in 0 .. n
    BY <1>3
  <2>2. f[c - 1] \in Nat /\ f[c] \in Nat /\ f[c - 1] <= f[c]
    BY <1>2, <1>3, <2>1
  <2>3. QED
    BY <2>2, FirstAndNext
<1>7. \A c \in 1 .. n : c \notin places => cut(c) = <<>>
  <2>1. SUFFICES ASSUME NEW c \in 1 .. n, ~(f[c - 1] < Len(rows)) PROVE cut(c) = <<>>
    BY <1>3
  <2> DEFINE d == f[c - 1]
             e == Least(f[c], Len(rows))
  <2>2. d \in Nat /\ f[c] \in Nat /\ d >= Len(rows)
    BY <1>4, <1>6, <2>1
  <2> HIDE DEF d
  <2>3. e \in 0 .. Len(rows) /\ e <= d
    BY <1>4, <2>2 DEF Least
  <2> HIDE DEF e
  <2>4. /\ SubSeq(rows, d + 1, e) \in Seq(Row)
        /\ Len(SubSeq(rows, d + 1, e)) = IF d <= e THEN e - d ELSE 0
    BY <2>2, <2>3, PartIs
  <2>5. Len(SubSeq(rows, d + 1, e)) = 0
    BY <2>2, <2>3, <2>4
  <2>6. SubSeq(rows, d + 1, e) = <<>>
    BY <2>4, <2>5, EmptySeq
  <2>7. QED
    BY <2>6 DEF d, e
<1>8. \A c \in 1 .. n : parts[c] = SubSeq(rows, f[c - 1] + 1, Least(f[c], Len(rows)))
  BY <1>3
<1> HIDE DEF cut, places
<1>9. parts \in Seq(Seq(Row)) /\ Len(parts) = n /\ \A c \in 1 .. n : parts[c] = cut(c)
  <2>1. \A c \in 1 .. n : cut(c) \in Seq(Row)
    BY <1>6
  <2>2. QED
    BY ONLY <1>3, <2>1
<1> HIDE DEF parts
<1>10. FlattenSeq(At(parts, places)) = FlattenSeq(parts)
  BY <1>7, <1>9, EmptiesFlatten
<1>11. FlattenSeq(parts) = FirstRows(rows, f[n])
  <2>1. \A c \in 1 .. n : f[c - 1] <= f[c]
    BY <1>6
  <2>2. QED
    BY ONLY <1>2, <1>3, <1>8, <1>9, <2>1, SegmentsFlatten, rows \in Seq(Row)
<1>12. FirstRows(rows, f[n]) = rows
  <2>1. f[n] \in Nat
    BY <1>2, <1>3
  <2>2. QED
    BY <1>4, <2>1, FirstAll
<1>13. QED
  BY <1>5, <1>10, <1>11, <1>12
-----------------------------------------------------------------------------
(* The end of an operator. *)

LEMMA FreshCovers ==
  ASSUME NEW op
  PROVE  Covers(op, Fresh)
<1>1. SUFFICES ASSUME NEW f, Heightens(Fresh.sizes, Len(Fresh.sizes), f)
               PROVE  Len(Fresh.held) <= f[Len(Fresh.sizes)]
  BY DEF Covers
<1>2. Fresh.sizes = <<>> /\ Fresh.held = <<>> /\ Len(<<>>) = 0
  BY DEF Fresh
<1>3. f[0] = 0
  BY <1>1, <1>2, HeightensOn
<1>4. QED
  BY <1>2, <1>3

LEMMA ProcessCovers ==
  ASSUME NEW op \in Operators, NEW node, Fits(op, node), ~node.ran, Covers(op, node),
         NEW chunk \in Stream
  PROVE  Covers(op, Process(op, node, chunk).node)
<1>1. SUFFICES ASSUME op.kind = "sort"
               PROVE  Covers(op, SortProcess(op, node, chunk).node)
  BY DEF Covers, Process
<1> DEFINE all == Cat(node.held, chunk)
           over == op.bound >= 0 /\ Len(all) > Most(2 * op.bound, TOPN_FLOOR)
           held == IF over THEN TopRows(all, op.bound) ELSE all
           sizes == Append(node.sizes, Len(chunk))
           after == [node EXCEPT !.sizes = sizes, !.held = held]
           n == Len(node.sizes)
<1>2. node \in Shapes /\ node.held \in Stream /\ node.sizes \in Seq(Nat) /\ op.bound \in Int
  BY <1>1 DEF Fits, Shapes, Stream, Operators
<1>3. SortProcess(op, node, chunk) = Emit(after, None)
  BY <1>2 DEF SortProcess, Cat, Shapes
<1>4. all \in Stream /\ Len(all) = Len(node.held) + Len(chunk)
      /\ Len(node.held) \in Nat /\ Len(chunk) \in Nat
  BY <1>2, CatIn, CatLength
<1>5. Len(held) <= Len(all) /\ Len(held) \in Int
  <2> HIDE DEF all
  <2>1. CASE over
    <3>1. Sorted(all) \in Stream /\ Len(Sorted(all)) = Len(all)
      BY ONLY <1>4, SortedIn, SortedLength
    <3>2. op.bound >= 0 /\ held = TopRows(all, op.bound)
      BY <2>1
    <3> HIDE DEF held, over
    <3>3. op.bound \in Nat
      BY <1>2, <3>2
    <3>5. Len(FirstRows(Sorted(all), op.bound)) = Least(op.bound, Len(Sorted(all)))
      BY ONLY <3>1, <3>3, CatFirst
    <3>6. held = FirstRows(Sorted(all), op.bound) /\ Len(all) \in Nat
      BY <1>4, <3>2 DEF TopRows
    <3>7. QED
      BY ONLY <3>1, <3>3, <3>5, <3>6 DEF Least
  <2>2. CASE ~over
    BY <1>4, <2>2
  <2>3. QED
    BY <2>1, <2>2
<1>6. /\ n \in Nat /\ Len(sizes) = n + 1 /\ sizes[n + 1] = Len(chunk)
      /\ \A c \in 1 .. n : sizes[c] = node.sizes[c]
  BY <1>2, <1>4, AppendProperties
<1> HIDE DEF held, sizes, n, all
<1>7. after.sizes = sizes /\ after.held = held
  BY <1>2 DEF Shapes
<1> HIDE DEF after
<1>8. ASSUME NEW f, Heightens(sizes, Len(sizes), f)
      PROVE  Len(held) <= f[Len(sizes)]
  <2> DEFINE g == [c \in 0 .. n |-> f[c]]
             h == [c \in 0 .. n |-> IF c = 0 THEN 0 ELSE g[c - 1] + node.sizes[c]]
  <2>1. Heightens(sizes, n + 1, f)
    BY <1>6, <1>8
  <2>2. \A c \in 0 .. n : f[c] = IF c = 0 THEN 0 ELSE f[c - 1] + node.sizes[c]
    <3>1. SUFFICES ASSUME NEW c \in 0 .. n
                   PROVE  f[c] = IF c = 0 THEN 0 ELSE f[c - 1] + node.sizes[c]
      OBVIOUS
    <3>2. c \in 0 .. n + 1
      BY <1>6
    <3>3. f[c] = IF c = 0 THEN 0 ELSE f[c - 1] + sizes[c]
      BY <2>1, <3>2, HeightensOn
    <3>4. c # 0 => c \in 1 .. n
      BY <1>6
    <3>5. QED
      BY <1>6, <3>3, <3>4
  <2>3. \A c \in 0 .. n : g[c] = h[c]
    <3>1. \A c \in 0 .. n : c # 0 => c - 1 \in 0 .. n
      BY <1>6
    <3>2. \A c \in 0 .. n : g[c] = f[c]
      OBVIOUS
    <3>3. \A c \in 0 .. n : c # 0 => g[c - 1] = f[c - 1]
      BY <3>1
    <3>4. QED
      BY <2>2, <3>2, <3>3
  <2>4. g = h
    BY <2>3
  <2>5. Heightens(node.sizes, n, g)
    BY <2>4, Zenon DEF Heightens
  <2>6. Len(node.held) <= g[n]
    BY <1>1, <2>5 DEF Covers, n
  <2>7. g[n] = f[n]
    BY <1>6
  <2>8. f[n + 1] = f[n] + Len(chunk)
    <3> DEFINE m == n + 1
    <3>1. m \in 0 .. m /\ m # 0 /\ m - 1 = n
      BY <1>6
    <3>2. Heightens(sizes, m, f) /\ sizes[m] = Len(chunk)
      BY <1>6, <2>1
    <3> HIDE DEF m
    <3>3. f[m] = f[n] + Len(chunk)
      BY <3>1, <3>2, HeightensOn
    <3>4. QED
      BY <3>3 DEF m
  <2>9. f[n] \in Nat
    <3>1. g[n] \in Nat
      <4>1. n \in 0 .. n
        BY <1>6
      <4>2. QED
        BY <1>2, <2>5, <4>1, HeightsAre DEF n
    <3>2. QED
      BY <2>7, <3>1
  <2>10. QED
    BY <1>4, <1>5, <1>6, <2>6, <2>7, <2>8, <2>9
<1>9. Covers(op, after)
  BY <1>7, <1>8 DEF Covers
<1>10. QED
  BY <1>3, <1>9 DEF Emit

\* The chunks a breaker hands back are rows it still has to give.
LEMMA PopFlows ==
  ASSUME NEW op, op.kind \in {"sort", "unique"}, NEW node, Fits(op, node), node.ran
  PROVE  LET r == Pop(node)
         IN  /\ Gives(op, node, <<>>) = Cat(Out(r), Gives(op, r.node, <<>>))
             /\ r.out = None => Gives(op, r.node, <<>>) = <<>>
             /\ ~r.raised
<1> DEFINE r == Pop(node)
           rest == Tail(node.output)
           after == [node EXCEPT !.output = rest]
<1>1. node \in Shapes /\ node.output \in Seq(Seq(Row))
  BY DEF Fits, Shapes
<1>2. Gives(op, node, <<>>) = FlattenSeq(node.output)
  BY DEF Gives
<1>3. CASE node.output = <<>>
  <2>1. r.node = node /\ Out(r) = <<>> /\ ~r.raised
    BY <1>3 DEF Pop, Emit, Out
  <2>2. Gives(op, node, <<>>) = <<>>
    BY <1>2, <1>3, FlattenNone
  <2> HIDE DEF r
  <2>3. Cat(<<>>, <<>>) = <<>>
    BY CatNone
  <2>4. QED
    BY <2>1, <2>2, <2>3 DEF r
<1>4. CASE node.output # <<>>
  <2>1. r = Emit(after, Some(Head(node.output)))
    BY <1>4 DEF Pop
  <2>2. after.output = rest /\ after.ran
    BY <1>1 DEF Shapes
  <2>3. FlattenSeq(node.output) = Cat(Head(node.output), FlattenSeq(rest))
    BY <1>1, <1>4, FlattenHead DEF Cat
  <2> HIDE DEF after, rest
  <2>4. r.node = after /\ Out(r) = Head(node.output) /\ r.out # None /\ ~r.raised
    BY <2>1 DEF Emit, Out, Some, None
  <2>5. Gives(op, after, <<>>) = FlattenSeq(rest)
    BY <2>2 DEF Gives
  <2> HIDE DEF r
  <2>6. QED
    BY <1>2, <2>3, <2>4, <2>5 DEF r
<1>5. QED
  BY <1>3, <1>4

\* What a breaker settles on is what it has to give.
LEMMA SettledFlows ==
  ASSUME NEW op \in Operators, op.kind \in {"sort", "unique"}, NEW node, Fits(op, node),
         NEW chunks \in Seq(Seq(Row)),
         ~node.ran => FlattenSeq(chunks) = Gives(op, node, <<>>)
  PROVE  LET s == Settled(node, chunks)
         IN  Fits(op, s) /\ s.ran /\ Gives(op, s, <<>>) = Gives(op, node, <<>>)
<1> DEFINE after == [node EXCEPT !.ran = TRUE, !.output = chunks, !.held = <<>>]
<1>1. Fits(op, Settled(node, chunks))
  <2>1. op.kind # "limit" /\ (op.kind = "sort" => op.bound \in Int)
    BY DEF Operators
  <2>2. QED
    BY <2>1, SettledFits
<1>2. CASE node.ran
  BY <1>1, <1>2 DEF Settled
<1>3. CASE ~node.ran
  <2>1. node \in Shapes
    BY DEF Fits
  <2>2. after.ran /\ after.output = chunks
    BY <2>1 DEF Shapes
  <2>3. Settled(node, chunks) = after
    BY <1>3 DEF Settled
  <2> HIDE DEF after
  <2>4. Gives(op, after, <<>>) = FlattenSeq(chunks)
    BY <2>2 DEF Gives
  <2>5. QED
    BY <1>1, <1>3, <2>2, <2>3, <2>4
<1>4. QED
  BY <1>2, <1>3

LEMMA NothingFlows ==
  ASSUME NEW op \in Operators, op.kind \in {"filter", "compute", "project", "limit"},
         NEW node, Fits(op, node)
  PROVE  Gives(op, node, <<>>) = <<>>
<1>1. CASE op.kind = "filter"
  BY <1>1, WithKeyNothing DEF Gives
<1>2. CASE op.kind \in {"compute", "project"}
  BY <1>2 DEF Gives
<1>3. CASE op.kind = "limit"
  <2> DEFINE d == op.skip - node.dropped
             k == op.n - node.emitted
  <2>1. d \in Nat /\ (op.bounded => k \in Nat) /\ op.bounded \in BOOLEAN
    BY <1>3, CatNone, WindowIs
  <2>2. Len(<<>>) = 0 /\ <<>> \in Seq(Row)
    OBVIOUS
  <2> HIDE DEF d, k
  <2>3. (IF op.bounded THEN Least(0, d + k) ELSE 0) = 0
    BY <2>1 DEF Least
  <2>4. Gives(op, node, <<>>) = SubSeq(<<>>, d + 1, 0)
    BY <1>3, <2>2, <2>3 DEF Gives, Window, d, k
  <2>5. /\ SubSeq(<<>>, d + 1, 0) \in Seq(Row)
        /\ Len(SubSeq(<<>>, d + 1, 0)) = IF d <= 0 THEN 0 - d ELSE 0
    BY <2>1, <2>2, PartIs
  <2>6. Len(SubSeq(<<>>, d + 1, 0)) = 0
    BY <2>1, <2>5
  <2>7. QED
    BY <2>4, <2>5, <2>6, EmptySeq
<1>4. QED
  BY <1>1, <1>2, <1>3

LEMMA SortEnds ==
  ASSUME NEW op \in Operators, op.kind = "sort", NEW node, Fits(op, node), ~node.ran,
         Covers(op, node)
  PROVE  FlattenSeq(SortedChunks(op, node)) = Gives(op, node, <<>>)
<1> DEFINE held == node.held
           sorted == Sorted(held)
           rows == IF op.bound >= 0 /\ op.bound < Len(held) THEN TopRows(held, op.bound)
                   ELSE sorted
<1>1. held \in Stream /\ node.sizes \in Seq(Nat) /\ op.bound \in Int
  BY DEF Fits, Shapes, Stream, Operators
<1>2. sorted \in Stream /\ Len(sorted) = Len(held) /\ Len(held) \in Nat
  BY <1>1, SortedIn, SortedLength, CatLength
<1>3. Gives(op, node, <<>>) = Bounded(op, sorted)
  BY <1>1, CatNone DEF Gives
<1>4. SortedChunks(op, node) = CutAt(node.sizes)[rows]
  BY DEF SortedChunks
<1> HIDE DEF held, sorted
<1>5. rows = Bounded(op, sorted) /\ rows \in Stream /\ Len(rows) <= Len(held)
      /\ Len(rows) \in Nat
  <2>1. CASE op.bound >= 0
    <3>1. op.bound \in Nat
      BY <1>1, <2>1
    <3>2. FirstRows(sorted, op.bound) \in Stream
          /\ Len(FirstRows(sorted, op.bound)) = Least(op.bound, Len(sorted))
      BY <1>2, <3>1, CatFirst
    <3>3. op.bound >= Len(held) => FirstRows(sorted, op.bound) = sorted
      BY <1>2, <3>1, FirstAll DEF Stream
    <3>4. rows = FirstRows(sorted, op.bound)
      BY <1>1, <1>2, <2>1, <3>3 DEF TopRows, sorted
    <3>5. Bounded(op, sorted) = FirstRows(sorted, op.bound)
      BY <2>1 DEF Bounded
    <3> HIDE DEF rows
    <3>6. Len(rows) <= Len(held) /\ Len(rows) \in Nat
      BY <1>2, <3>1, <3>2, <3>4 DEF Least
    <3>7. QED
      BY <3>2, <3>4, <3>5, <3>6
  <2>2. CASE ~(op.bound >= 0)
    BY <1>2, <2>2 DEF Bounded
  <2>3. QED
    BY <2>1, <2>2
<1> HIDE DEF rows
<1>6. \A f : Heightens(node.sizes, Len(node.sizes), f) => Len(rows) <= f[Len(node.sizes)]
  <2>1. SUFFICES ASSUME NEW f, Heightens(node.sizes, Len(node.sizes), f)
                 PROVE  Len(rows) <= f[Len(node.sizes)]
    OBVIOUS
  <2>2. Len(held) <= f[Len(node.sizes)]
    BY <2>1 DEF Covers, held
  <2>3. f[Len(node.sizes)] \in Nat
    <3>1. Len(node.sizes) \in 0 .. Len(node.sizes)
      BY <1>1
    <3>2. QED
      BY <1>1, <2>1, <3>1, HeightsAre
  <2>4. QED
    BY <1>2, <1>5, <2>2, <2>3
<1>7. FlattenSeq(CutAt(node.sizes)[rows]) = rows
  BY <1>1, <1>5, <1>6, CutAtFlattens DEF Stream
<1>8. QED
  BY <1>3, <1>4, <1>5, <1>7

\* A call at the end: what it gives, and what it leaves, are what was left.
LEMMA FinishFlows ==
  ASSUME NEW op \in Operators, NEW node, Fits(op, node), Covers(op, node)
  PROVE  LET r == Finish(op, node)
         IN  /\ Gives(op, node, <<>>) = Cat(Out(r), Gives(op, r.node, <<>>))
             /\ r.out = None => Gives(op, r.node, <<>>) = <<>>
             /\ Covers(op, r.node)
<1> DEFINE r == Finish(op, node)
<1>1. CASE op.kind = "sort"
  <2> DEFINE chunks == SortedChunks(op, node)
             s == Settled(node, chunks)
  <2>1. chunks \in Seq(Seq(Row))
    BY <1>1, SortedChunksAre
  <2>2. ~node.ran => FlattenSeq(chunks) = Gives(op, node, <<>>)
    BY <1>1, SortEnds
  <2> HIDE DEF chunks
  <2>3. Fits(op, s) /\ s.ran /\ Gives(op, s, <<>>) = Gives(op, node, <<>>)
    BY <1>1, <2>1, <2>2, SettledFlows
  <2>4. r = Pop(s)
    BY <1>1 DEF Finish, chunks
  <2> HIDE DEF s, r
  <2>5. /\ Gives(op, s, <<>>) = Cat(Out(r), Gives(op, r.node, <<>>))
        /\ r.out = None => Gives(op, r.node, <<>>) = <<>>
    BY <1>1, <2>3, <2>4, PopFlows
  <2>6. r.node.ran
    BY <2>3, <2>4 DEF Pop, Emit, Fits, Shapes
  <2>7. QED
    BY <2>3, <2>5, <2>6 DEF r, Covers
<1>2. CASE op.kind = "unique"
  <2> DEFINE rows == FirstOfEachKey(node.held)
             s == Settled(node, Some(rows))
  <2>1. node.held \in Stream /\ rows \in Seq(Row)
    BY FirstOfEachKeyIs DEF Fits, Shapes, Stream
  <2>2. Some(rows) \in Seq(Seq(Row)) /\ FlattenSeq(Some(rows)) = rows
    BY <2>1, FlattenOne DEF Some
  <2>3. ~node.ran => FlattenSeq(Some(rows)) = Gives(op, node, <<>>)
    BY <1>2, <2>1, <2>2, CatNone DEF Gives
  <2>4. r = Pop(s)
    BY <1>2 DEF Finish
  <2> HIDE DEF rows, r
  <2>5. Fits(op, s) /\ s.ran /\ Gives(op, s, <<>>) = Gives(op, node, <<>>)
    BY <1>2, <2>2, <2>3, SettledFlows
  <2> HIDE DEF s
  <2>6. /\ Gives(op, s, <<>>) = Cat(Out(r), Gives(op, r.node, <<>>))
        /\ r.out = None => Gives(op, r.node, <<>>) = <<>>
    BY <1>2, <2>4, <2>5, PopFlows
  <2>7. QED
    BY <1>2, <2>5, <2>6 DEF r, Covers
<1>3. CASE op.kind = "reduce"
  <2> DEFINE after == [node EXCEPT !.ran = TRUE, !.state = None]
             rows == Summary(Tally(node, <<>>))
  <2>1. CASE node.ran
    <3>1. r = Emit(node, None)
      BY <1>3, <2>1 DEF Finish
    <3>2. r.node = node /\ Out(r) = <<>>
      BY <3>1 DEF Emit, Out
    <3>3. Gives(op, node, <<>>) = <<>>
      BY <1>3, <2>1 DEF Gives
    <3>4. Cat(<<>>, <<>>) = <<>>
      BY CatNone
    <3> HIDE DEF r
    <3>5. QED
      BY <3>2, <3>3, <3>4 DEF r
  <2>2. CASE ~node.ran
    <3>1. Tally(node, <<>>) = IF node.state = None THEN CountAndFirst(<<>>) ELSE node.state[1]
      <4>1. CASE node.state = None
        BY <4>1 DEF Tally
      <4>2. CASE node.state # None
        <5>1. node.state[1] \in Tallies
          BY <4>2, CatNone, TallyIs
        <5>2. Plus(node.state[1], [count |-> 0, first |-> Null]) = node.state[1]
          <6> DEFINE p == node.state[1]
          <6>1. p \in Tallies
            BY <5>1
          <6> HIDE DEF p
          <6>2. p = [count |-> p.count, first |-> p.first] /\ p.count + 0 = p.count
            BY <6>1 DEF Tallies
          <6>3. Plus(p, [count |-> 0, first |-> Null]) = p
            BY <6>2 DEF Plus
          <6>4. QED
            BY <6>3 DEF p
        <5>3. QED
          BY <4>2, <5>2, TallyNone DEF Tally
      <4>3. QED
        BY <4>1, <4>2
    <3>2. r = Emit(after, Some(rows))
      BY <1>3, <2>2, <3>1 DEF Finish
    <3>3. after.ran
      BY DEF Fits, Shapes
    <3>4. rows \in Stream
      BY CatNone, TallyIs, SummaryIs DEF Stream
    <3>5. Gives(op, node, <<>>) = rows
      BY <1>3, <2>2 DEF Gives
    <3> HIDE DEF after, rows
    <3>6. r.node = after /\ Out(r) = rows /\ r.out # None
      BY <3>2 DEF Emit, Out, Some, None
    <3>7. Gives(op, after, <<>>) = <<>>
      BY <1>3, <3>3 DEF Gives
    <3>8. Covers(op, after)
      BY <3>3 DEF Covers
    <3>9. Cat(rows, <<>>) = rows
      BY <3>4, CatNone
    <3> HIDE DEF r
    <3>10. QED
      BY <3>5, <3>6, <3>7, <3>8, <3>9 DEF r
  <2>3. QED
    BY <2>1, <2>2
<1>4. CASE op.kind = "join"
  <2> DEFINE after == [node EXCEPT !.ran = TRUE]
             rows == Unpaired(op, node.used)
  <2>1. AllJoined(op, <<>>) = <<>> /\ \A n : Gives(op, n, <<>>) = Cat(<<>>, LastPairs(op, n, <<>>))
    BY <1>4, AllJoinedNone DEF Gives
  <2>2. \A n : Gives(op, n, <<>>) = LastPairs(op, n, <<>>)
    BY <1>4, <2>1, LastPairsAre, CatNone
  <2>3. node.used \cup Used(op, <<>>) = node.used
    BY DEF Used
  <2>4. Cat(<<>>, <<>>) = <<>> /\ Cat(rows, <<>>) = rows
    BY <1>4, UnpairedIs, CatNone DEF Stream
  <2>5. CASE ~op.hits \/ node.ran
    <3>1. r = Emit(node, None)
      BY <1>4, <2>5 DEF Finish, JoinFinish
    <3>2. r.node = node /\ Out(r) = <<>>
      BY <3>1 DEF Emit, Out
    <3>3. Gives(op, node, <<>>) = <<>>
      BY <2>2, <2>5 DEF LastPairs
    <3> HIDE DEF r
    <3>4. QED
      BY <2>4, <3>2, <3>3 DEF r
  <2>6. CASE ~(~op.hits \/ node.ran)
    <3>1. r = Emit(after, IF rows = <<>> THEN None ELSE Some(rows))
      BY <1>4, <2>6 DEF Finish, JoinFinish
    <3>2. after.ran
      BY DEF Fits, Shapes
    <3>3. Gives(op, node, <<>>) = rows
      BY <2>2, <2>3, <2>6 DEF LastPairs
    <3> HIDE DEF after, rows
    <3>4. r.node = after /\ Out(r) = rows
      BY <3>1 DEF Emit, Out, Some, None
    <3>5. Gives(op, after, <<>>) = <<>>
      BY <2>2, <3>2 DEF LastPairs
    <3> HIDE DEF r
    <3>6. QED
      BY <1>4, <2>4, <3>3, <3>4, <3>5 DEF r, Covers
  <2>7. QED
    BY <2>5, <2>6
<1>5. CASE op.kind = "positional"
  <2> DEFINE after == [node EXCEPT !.seen = op.height]
             rows == Leftover(op, node.seen)
  <2>1. node.seen \in Nat /\ op.height \in Nat /\ node \in Shapes
    BY <1>5 DEF Fits, Shapes, Operators
  <2>2. \A k \in Nat : /\ Beside(op, k, <<>>) = <<>>
                       /\ Leftover(op, k) \in Stream /\ k + Len(<<>>) = k
    <3>1. \A k \in Nat : Beside(op, k, <<>>) \in Stream /\ Len(Beside(op, k, <<>>)) = Len(<<>>)
      BY CatNone, CatBeside
    <3>2. Len(<<>>) = 0
      OBVIOUS
    <3>3. \A k \in Nat : Beside(op, k, <<>>) = <<>>
      BY <3>1, <3>2, EmptySeq DEF Stream
    <3>4. QED
      BY <1>5, <3>2, <3>3, LeftoverIs DEF Stream
  <2>3. \A n : n.seen \in Nat => Gives(op, n, <<>>) = Leftover(op, n.seen)
    BY <1>5, <2>2, CatNone DEF Gives
  <2>4. CASE rows = <<>>
    <3>1. r = Emit(node, None)
      BY <1>5, <2>4 DEF Finish
    <3>2. r.node = node /\ Out(r) = <<>>
      BY <3>1 DEF Emit, Out
    <3>3. Gives(op, node, <<>>) = <<>>
      BY <2>1, <2>3, <2>4
    <3>4. Cat(<<>>, <<>>) = <<>>
      BY CatNone
    <3> HIDE DEF r
    <3>5. QED
      BY <3>2, <3>3, <3>4 DEF r
  <2>5. CASE rows # <<>>
    <3>1. r = Emit(after, Some(rows))
      BY <1>5, <2>5 DEF Finish
    <3>2. after.seen = op.height
      BY <2>1 DEF Shapes
    <3>3. Gives(op, node, <<>>) = rows /\ rows \in Stream
      BY <2>1, <2>2, <2>3
    <3> HIDE DEF after, rows
    <3>4. r.node = after /\ Out(r) = rows /\ r.out # None
      BY <3>1 DEF Emit, Out, Some, None
    <3>5. Gives(op, after, <<>>) = Leftover(op, op.height)
      BY <2>1, <2>3, <3>2
    <3>6. Leftover(op, op.height) = <<>>
      <4>1. Most(0, op.height - op.height) = 0
        BY <2>1 DEF Most
      <4>2. QED
        BY <4>1 DEF Leftover
    <3>7. Cat(rows, <<>>) = rows
      BY <3>3, CatNone
    <3> HIDE DEF r
    <3>8. QED
      BY <1>5, <3>3, <3>4, <3>5, <3>6, <3>7 DEF r, Covers
  <2>6. QED
    BY <2>4, <2>5
<1>6. CASE op.kind \in {"filter", "compute", "project", "limit"}
  <2>1. r = Emit(node, None)
    BY <1>6 DEF Finish
  <2>2. r.node = node /\ Out(r) = <<>>
    BY <2>1 DEF Emit, Out
  <2>3. Gives(op, node, <<>>) = <<>>
    BY <1>6, NothingFlows
  <2>4. Cat(<<>>, <<>>) = <<>>
    BY CatNone
  <2> HIDE DEF r
  <2>5. QED
    BY <2>2, <2>3, <2>4 DEF r
<1>7. op.kind \in {"filter", "compute", "project", "limit", "sort", "reduce",
                   "unique", "join", "positional"}
  BY DEF Operators
<1>8. QED
  BY <1>1, <1>2, <1>3, <1>4, <1>5, <1>6, <1>7
-----------------------------------------------------------------------------
(***************************************************************************)
(* The rows after each operator of a line.                                 *)
(***************************************************************************)

LEMMA GivesIs ==
  ASSUME NEW op \in Operators, NEW node, Fits(op, node), NEW y \in Stream
  PROVE  Gives(op, node, y) \in Stream
<1>0. node \in Shapes /\ node.held \in Stream /\ node.output \in Seq(Seq(Row)) /\ node.seen \in Nat
  BY DEF Fits, Shapes, Stream
<1>1. CASE op.kind = "filter"
  BY <1>1, CatKeys DEF Gives
<1>2. CASE op.kind \in {"compute", "project"}
  BY <1>2 DEF Gives
<1>3. CASE op.kind = "limit"
  BY <1>3, WindowIs DEF Gives
<1>4. FlattenSeq(node.output) \in Stream
  BY <1>0, FlattenIs DEF Stream
<1>5. Cat(node.held, y) \in Stream
  BY <1>0, CatIn
<1>6. CASE op.kind = "sort"
  <2>1. Sorted(Cat(node.held, y)) \in Stream /\ op.bound \in Int
    BY <1>5, <1>6, SortedIn DEF Operators
  <2>2. Bounded(op, Sorted(Cat(node.held, y))) \in Stream
    <3> DEFINE s == Sorted(Cat(node.held, y))
    <3>1. s \in Stream
      BY <2>1
    <3> HIDE DEF s
    <3>2. op.bound >= 0 => FirstRows(s, op.bound) \in Stream
      BY <2>1, <3>1, CatFirst
    <3>3. Bounded(op, s) \in Stream
      BY <3>1, <3>2 DEF Bounded
    <3>4. QED
      BY <3>3 DEF s
  <2>3. QED
    BY <1>4, <1>6, <2>2 DEF Gives
<1>7. CASE op.kind = "unique"
  <2>1. FirstOfEachKey(Cat(node.held, y)) \in Stream
    BY <1>5, FirstOfEachKeyIs DEF Stream
  <2>2. QED
    BY <1>4, <1>7, <2>1 DEF Gives
<1>8. CASE op.kind = "reduce"
  <2>1. Summary(Tally(node, y)) \in Stream
    BY TallyIs, SummaryIs DEF Stream
  <2>2. QED
    BY <1>8, <2>1, CatNone DEF Gives
<1>9. CASE op.kind = "join"
  BY <1>9, CatJoined, LastPairsAre, CatIn DEF Gives
<1>10. CASE op.kind = "positional"
  <2>1. Len(y) \in Nat /\ node.seen + Len(y) \in Nat
    BY <1>0, CatLength
  <2>2. Beside(op, node.seen, y) \in Stream
    BY <1>0, CatBeside
  <2>3. Leftover(op, node.seen + Len(y)) \in Stream
    BY <1>10, <2>1, LeftoverIs DEF Stream
  <2>4. QED
    BY <1>10, <2>2, <2>3, CatIn DEF Gives
<1>11. op.kind \in {"filter", "compute", "project", "limit", "sort", "reduce",
                    "unique", "join", "positional"}
  BY DEF Operators
<1>12. QED
  BY <1>1, <1>2, <1>3, <1>6, <1>7, <1>8, <1>9, <1>10, <1>11

LEMMA DoesIs ==
  ASSUME NEW op \in Operators, NEW y \in Stream
  PROVE  Does(op, y) \in Stream
BY FreshFits, GivesIs DEF Does

\* A row local operator keeps nothing.
LEMMA RowLocalGives ==
  ASSUME NEW op \in Operators, IsRowLocal(op), NEW node, NEW y \in Stream
  PROVE  Gives(op, node, y) = Does(op, y)
BY DEF IsRowLocal, Gives, Does, LastPairs, Fresh

LEMMA RowLocalSplits ==
  ASSUME NEW op \in Operators, IsRowLocal(op), NEW a \in Stream, NEW b \in Stream
  PROVE  /\ Does(op, Cat(a, b)) = Cat(Does(op, a), Does(op, b))
         /\ Does(op, <<>>) = <<>>
<1>1. CASE op.kind = "filter"
  BY <1>1, CatKeys, WithKeyNothing DEF Gives, Does
<1>2. CASE op.kind \in {"compute", "project"}
  BY <1>2 DEF Gives, Does
<1>3. CASE op.kind = "join" /\ ~op.hits
  <2>1. \A y : Does(op, y) = Cat(AllJoined(op, y), <<>>)
    BY <1>3 DEF Gives, Does, LastPairs
  <2>2. \A y \in Stream : AllJoined(op, y) \in Stream
    BY <1>3, CatJoined
  <2>3. \A y \in Stream : Does(op, y) = AllJoined(op, y)
    BY <2>1, <2>2, CatNone
  <2>4. Cat(a, b) \in Stream /\ <<>> \in Stream
    BY CatIn, CatNone
  <2>5. QED
    BY <1>3, <2>3, <2>4, CatJoined, AllJoinedNone
<1>4. QED
  BY <1>1, <1>2, <1>3 DEF IsRowLocal
-----------------------------------------------------------------------------
(* The rows after each operator of a line. *)
Flow(l, x) ==
  LET flow[i \in 0 .. Len(l)] == IF i = 0 THEN x ELSE Does(l[i], flow[i - 1])
  IN  flow

Flowing(l, x, n, f) ==
  f = [i \in 0 .. n |-> IF i = 0 THEN x ELSE Does(l[i], f[i - 1])]

LEMMA FlowingOn ==
  ASSUME NEW l, NEW x, NEW n, NEW f, Flowing(l, x, n, f), NEW i \in 0 .. n
  PROVE  f[i] = IF i = 0 THEN x ELSE Does(l[i], f[i - 1])
BY Zenon DEF Flowing

LEMMA FlowGoes ==
  ASSUME NEW l, NEW x, Len(l) \in Nat
  PROVE  /\ Flow(l, x)[0] = x
         /\ \A i \in 1 .. Len(l) : Flow(l, x)[i] = Does(l[i], Flow(l, x)[i - 1])
<1> DEFINE K == {n \in Nat : \E f : Flowing(l, x, n, f)}
<1>1. 0 \in K
  <2>1. Flowing(l, x, 0, [i \in 0 .. 0 |-> x])
    BY DEF Flowing
  <2>2. QED
    BY <2>1
<1>2. \A k \in Nat : k \in K => k + 1 \in K
  <2>1. SUFFICES ASSUME NEW k \in Nat, k \in K
                 PROVE  \E f : Flowing(l, x, k + 1, f)
    OBVIOUS
  <2>2. PICK f : Flowing(l, x, k, f)
    BY <2>1
  <2> DEFINE g == [i \in 0 .. k + 1 |-> IF i = 0 THEN x ELSE Does(l[i], f[i - 1])]
  <2>3. \A i \in 0 .. k : g[i] = f[i]
    BY <2>2, FlowingOn
  <2>4. \A i \in 0 .. k + 1 : i # 0 => i - 1 \in 0 .. k
    OBVIOUS
  <2>5. g = [i \in 0 .. k + 1 |-> IF i = 0 THEN x ELSE Does(l[i], g[i - 1])]
    BY <2>3, <2>4
  <2>6. Flowing(l, x, k + 1, g)
    BY <2>5 DEF Flowing
  <2>7. QED
    BY <2>6
<1> HIDE DEF K
<1>3. \E f : Flowing(l, x, Len(l), f)
  <2>1. Len(l) \in K
    BY <1>1, <1>2, NatSets
  <2>2. QED
    BY <2>1 DEF K
<1> DEFINE h == CHOOSE f : Flowing(l, x, Len(l), f)
<1>4. Flowing(l, x, Len(l), h)
  BY <1>3
<1>5. Flow(l, x) = h
  BY DEF Flow, Flowing
<1> HIDE DEF h
<1>6. h[0] = x
  <2>1. 0 \in 0 .. Len(l)
    OBVIOUS
  <2>2. QED
    BY <1>4, <2>1, FlowingOn
<1>7. ASSUME NEW i \in 1 .. Len(l) PROVE h[i] = Does(l[i], h[i - 1])
  <2>1. i \in 0 .. Len(l) /\ i # 0
    OBVIOUS
  <2>2. QED
    BY <1>4, <2>1, FlowingOn
<1>8. QED
  BY <1>5, <1>6, <1>7

LEMMA FlowIs ==
  ASSUME line \in Lines, NEW x \in Stream
  PROVE  /\ Flow(line, x)[0] = x
         /\ \A i \in Ops : Flow(line, x)[i] = Does(line[i], Flow(line, x)[i - 1])
         /\ \A i \in 0 .. Len(line) : Flow(line, x)[i] \in Stream
<1>1. Len(line) \in Nat /\ Ops = 1 .. Len(line) /\ \A i \in Ops : line[i] \in Operators
  BY LineIs
<1> DEFINE f == Flow(line, x)
           K == {n \in Nat : n <= Len(line) => f[n] \in Stream}
<1>2. f[0] = x /\ \A i \in Ops : f[i] = Does(line[i], f[i - 1])
  BY <1>1, FlowGoes
<1> HIDE DEF f
<1>3. 0 \in K
  BY <1>2
<1>4. \A k \in Nat : k \in K => k + 1 \in K
  <2>1. SUFFICES ASSUME NEW k \in Nat, k \in K, k + 1 <= Len(line)
                 PROVE  f[k + 1] \in Stream
    OBVIOUS
  <2> DEFINE m == k + 1
  <2>2. m \in Ops /\ m - 1 = k /\ f[k] \in Stream
    BY <1>1, <2>1
  <2> HIDE DEF m
  <2>3. f[m] = Does(line[m], f[k])
    BY <1>2, <2>2
  <2>4. f[m] \in Stream
    BY <1>1, <2>2, <2>3, DoesIs
  <2>5. QED
    BY <2>4 DEF m
<1> HIDE DEF K
<1>5. \A k \in Nat : k \in K
  BY <1>3, <1>4, NatSets
<1>6. \A i \in 0 .. Len(line) : f[i] \in Stream
  BY <1>1, <1>5 DEF K
<1>7. QED
  BY <1>2, <1>6 DEF f

\* Through row local operators, rows that come later change nothing earlier.
LEMMA FlowSplits ==
  ASSUME line \in Lines, NEW n \in 0 .. Len(line), \A i \in 1 .. n : IsRowLocal(line[i]),
         NEW a \in Stream, NEW b \in Stream
  PROVE  \A i \in 0 .. n : Flow(line, Cat(a, b))[i] = Cat(Flow(line, a)[i], Flow(line, b)[i])
<1>1. Len(line) \in Nat /\ Ops = 1 .. Len(line) /\ \A i \in Ops : line[i] \in Operators
  BY LineIs
<1> DEFINE f == Flow(line, Cat(a, b))
           g == Flow(line, a)
           h == Flow(line, b)
           K == {k \in Nat : k <= n => f[k] = Cat(g[k], h[k])}
<1>2. /\ f[0] = Cat(a, b) /\ \A i \in Ops : f[i] = Does(line[i], f[i - 1])
      /\ g[0] = a /\ \A i \in Ops : g[i] = Does(line[i], g[i - 1])
      /\ h[0] = b /\ \A i \in Ops : h[i] = Does(line[i], h[i - 1])
      /\ \A i \in 0 .. Len(line) : g[i] \in Stream /\ h[i] \in Stream
  BY CatIn, FlowIs
<1> HIDE DEF f, g, h
<1>3. 0 \in K
  BY <1>2
<1>4. \A k \in Nat : k \in K => k + 1 \in K
  <2>1. SUFFICES ASSUME NEW k \in Nat, k \in K, k + 1 <= n
                 PROVE  f[k + 1] = Cat(g[k + 1], h[k + 1])
    OBVIOUS
  <2> DEFINE m == k + 1
  <2>2. m \in Ops /\ m - 1 = k /\ m \in 1 .. n /\ k \in 0 .. Len(line) /\ f[k] = Cat(g[k], h[k])
    BY <1>1, <2>1
  <2> HIDE DEF m
  <2>3. /\ f[m] = Does(line[m], f[k])
        /\ g[m] = Does(line[m], g[k])
        /\ h[m] = Does(line[m], h[k])
    BY <1>2, <2>2
  <2>4. Does(line[m], Cat(g[k], h[k])) = Cat(Does(line[m], g[k]), Does(line[m], h[k]))
    BY <1>1, <1>2, <2>2, RowLocalSplits
  <2>5. f[m] = Cat(g[m], h[m])
    BY <2>2, <2>3, <2>4
  <2>6. QED
    BY <2>5 DEF m
<1> HIDE DEF K
<1>5. \A k \in Nat : k \in K
  BY <1>3, <1>4, NatSets
<1>6. \A i \in 0 .. n : f[i] = Cat(g[i], h[i])
  BY <1>5 DEF K
<1>7. QED
  BY <1>6 DEF f, g, h
-----------------------------------------------------------------------------
(***************************************************************************)
(* The operators on rows that RowQuery names are those of the nodes.       *)
(***************************************************************************)

(* RowQuery asks the same questions about rows as the nodes do. *)
LEMMA SameAt == ASSUME NEW s, NEW places PROVE Query!At(s, places) = At(s, places)
BY DEF Query!At, At

LEMMA SameRow == Query!Row = Row /\ Query!Keys = Keys /\ Query!Null = Null
BY DEF Query!Row, Row, Query!Keys, Keys, Query!Null, Null

LEMMA SameWithKey ==
  ASSUME NEW rows, NEW keys PROVE Query!WithKey(rows, keys) = WithKey(rows, keys)
BY SameAt DEF Query!WithKey, WithKey

LEMMA SameFlatten == ASSUME NEW seqs PROVE Query!FlattenSeq(seqs) = FlattenSeq(seqs)
BY DEF Query!FlattenSeq, FlattenSeq

LEMMA SameSorted == ASSUME NEW rows PROVE Query!Sorted(rows) = Sorted(rows)
<1>1. Query!KeyOrder = KeyOrder
  BY SameRow DEF Query!KeyOrder, KeyOrder
<1>2. [i \in DOMAIN Query!KeyOrder |-> Query!WithKey(rows, {Query!KeyOrder[i]})]
        = [i \in DOMAIN KeyOrder |-> WithKey(rows, {KeyOrder[i]})]
  BY <1>1, SameWithKey
<1>3. QED
  BY <1>2, SameFlatten DEF Query!Sorted, Sorted

LEMMA SameFirst == ASSUME NEW rows PROVE Query!FirstOfEachKey(rows) = FirstOfEachKey(rows)
BY SameAt DEF Query!FirstOfEachKey, FirstOfEachKey

LEMMA SameSummary ==
  ASSUME NEW rows PROVE Query!Summary(Query!CountAndFirst(rows)) = Summary(CountAndFirst(rows))
BY SameWithKey, SameRow DEF Query!Summary, Summary, Query!CountAndFirst, CountAndFirst,
                            Query!NotNull, NotNull

LEMMA SamePartners ==
  ASSUME NEW op, NEW row PROVE Query!Partners(op, row) = Partners(op, row)
BY SameAt, SameRow DEF Query!Partners, Partners, Query!Pairs, Pairs

LEMMA SameJoined ==
  ASSUME NEW op, NEW row PROVE Query!Joined(op, row) = Joined(op, row)
BY SamePartners DEF Query!Joined, Joined

LEMMA SameAllJoined ==
  ASSUME NEW op, NEW rows PROVE Query!AllJoined(op, rows) = AllJoined(op, rows)
<1>1. [i \in DOMAIN rows |-> Query!Joined(op, rows[i])]
        = [i \in DOMAIN rows |-> Joined(op, rows[i])]
  BY SameJoined
<1>2. QED
  BY <1>1, SameFlatten DEF Query!AllJoined, AllJoined

LEMMA SameUsed == ASSUME NEW op, NEW rows PROVE Query!Used(op, rows) = Used(op, rows)
BY SameRow DEF Query!Used, Used, Query!Pairs, Pairs

LEMMA SameUnpaired ==
  ASSUME NEW op, NEW used PROVE Query!Unpaired(op, used) = Unpaired(op, used)
BY SameAt, SameRow DEF Query!Unpaired, Unpaired

LEMMA SameBeside ==
  ASSUME NEW op, NEW seen, NEW rows
  PROVE  Query!Beside(op, seen, rows) = Beside(op, seen, rows)
BY DEF Query!Beside, Beside

LEMMA SameLeftover ==
  ASSUME NEW op, NEW seen PROVE Query!Leftover(op, seen) = Leftover(op, seen)
BY SameRow DEF Query!Leftover, Leftover, Query!Most, Most
-----------------------------------------------------------------------------
(***************************************************************************)
(* What the nodes do over a line is what RowQuery says of it.              *)
(***************************************************************************)

LEMMA WholeIs ==
  ASSUME NEW op \in Operators, NEW x \in Stream
  PROVE  Query!Whole(op)[x] =
     CASE op.kind = "filter" -> WithKey(x, op.keep)
       [] op.kind \in {"compute", "project"} -> x
       [] op.kind = "limit" ->
            SubSeq(x, op.skip + 1,
                   IF op.bounded THEN Least(Len(x), op.skip + op.n) ELSE Len(x))
       [] op.kind = "sort" -> Sorted(x)
       [] op.kind = "reduce" -> Summary(CountAndFirst(x))
       [] op.kind = "unique" -> FirstOfEachKey(x)
       [] op.kind = "join" ->
            AllJoined(op, x) \o (IF op.hits THEN Unpaired(op, Used(op, x)) ELSE <<>>)
       [] op.kind = "positional" -> Beside(op, 0, x) \o Leftover(op, Len(x))
<1>1. x \in Seq(Query!Row)
  BY SameRow DEF Stream
<1>2. Query!Whole(op)[x] =
     CASE op.kind = "filter" -> Query!WithKey(x, op.keep)
       [] op.kind \in {"compute", "project"} -> x
       [] op.kind = "limit" ->
            SubSeq(x, op.skip + 1,
                   IF op.bounded THEN Query!Least(Len(x), op.skip + op.n) ELSE Len(x))
       [] op.kind = "sort" -> Query!Sorted(x)
       [] op.kind = "reduce" -> Query!Summary(Query!CountAndFirst(x))
       [] op.kind = "unique" -> Query!FirstOfEachKey(x)
       [] op.kind = "join" ->
            Query!AllJoined(op, x)
              \o (IF op.hits THEN Query!Unpaired(op, Query!Used(op, x)) ELSE <<>>)
       [] op.kind = "positional" -> Query!Beside(op, 0, x) \o Query!Leftover(op, Len(x))
  BY ONLY <1>1, Zenon DEF Query!Whole
<1>3. \A a, b : Query!Least(a, b) = Least(a, b)
  BY DEF Query!Least, Least
<1>4. Query!WithKey(x, op.keep) = WithKey(x, op.keep)
  BY ONLY SameWithKey
<1>5. Query!Sorted(x) = Sorted(x)
  BY ONLY SameSorted
<1>6. Query!Summary(Query!CountAndFirst(x)) = Summary(CountAndFirst(x))
  BY ONLY SameSummary
<1>7. Query!FirstOfEachKey(x) = FirstOfEachKey(x)
  BY ONLY SameFirst
<1>8. Query!AllJoined(op, x) = AllJoined(op, x)
  BY ONLY SameAllJoined
<1>9. Query!Unpaired(op, Query!Used(op, x)) = Unpaired(op, Used(op, x))
  BY ONLY SameUnpaired, SameUsed
<1>10. Query!Beside(op, 0, x) = Beside(op, 0, x)
  BY ONLY SameBeside
<1>11. Query!Leftover(op, Len(x)) = Leftover(op, Len(x))
  BY ONLY SameLeftover
<1>12. QED
  BY ONLY <1>2, <1>3, <1>4, <1>5, <1>6, <1>7, <1>8, <1>9, <1>10, <1>11, Zenon

Cuts(op) == op.kind = "sort" /\ op.bound >= 0

\* An operator does over rows what it is to do, but for a sort with a bound.
LEMMA DoesWhole ==
  ASSUME NEW op \in Operators, NEW x \in Stream
  PROVE  /\ Query!Whole(op)[x] \in Stream
         /\ Does(op, x) = IF Cuts(op) THEN FirstRows(Query!Whole(op)[x], op.bound)
                          ELSE Query!Whole(op)[x]
<1> DEFINE whole == Query!Whole(op)[x]
<1>0. Does(op, x) \in Stream
  BY DoesIs
<1>1. CASE op.kind = "filter"
  <2>1. whole = WithKey(x, op.keep)
    BY <1>1, WholeIs
  <2>2. Does(op, x) = WithKey(x, op.keep)
    BY <1>1 DEF Does, Gives
  <2>3. QED
    BY <1>0, <1>1, <2>1, <2>2 DEF Cuts
<1>2. CASE op.kind \in {"compute", "project"}
  <2>1. whole = x
    BY <1>2, WholeIs
  <2>2. Does(op, x) = x
    BY <1>2 DEF Does, Gives
  <2>3. QED
    BY <1>0, <1>2, <2>1, <2>2 DEF Cuts
<1>3. CASE op.kind = "limit"
  <2>1. whole = SubSeq(x, op.skip + 1,
                   IF op.bounded THEN Least(Len(x), op.skip + op.n) ELSE Len(x))
    BY <1>3, WholeIs
  <2>2. Does(op, x) = Window(op, Fresh, x)
    BY <1>3 DEF Does, Gives
  <2>3. op.skip \in Nat /\ op.n \in Nat
    BY <1>3 DEF Operators
  <2>4. op.skip - Fresh.dropped = op.skip /\ op.n - Fresh.emitted = op.n
    BY <2>3 DEF Fresh
  <2>5. Window(op, Fresh, x) = whole
    BY <2>1, <2>4 DEF Window
  <2>6. QED
    BY <1>0, <1>3, <2>2, <2>5 DEF Cuts
<1>4. CASE op.kind = "sort"
  <2>1. whole = Sorted(x)
    BY <1>4, WholeIs
  <2>2. Cat(Fresh.held, x) = x /\ ~Fresh.ran
    BY CatNone DEF Fresh
  <2>3. Does(op, x) = Bounded(op, Sorted(x))
    BY <1>4, <2>2 DEF Does, Gives
  <2>4. QED
    BY <1>4, <2>1, <2>3, SortedIn DEF Cuts, Bounded
<1>5. CASE op.kind = "unique"
  <2>1. whole = FirstOfEachKey(x)
    BY <1>5, WholeIs
  <2>2. Cat(Fresh.held, x) = x /\ ~Fresh.ran
    BY CatNone DEF Fresh
  <2>3. Does(op, x) = FirstOfEachKey(x)
    BY <1>5, <2>2 DEF Does, Gives
  <2>4. QED
    BY <1>0, <1>5, <2>1, <2>3 DEF Cuts
<1>6. CASE op.kind = "reduce"
  <2>1. whole = Summary(CountAndFirst(x))
    BY <1>6, WholeIs
  <2>2. Tally(Fresh, x) = CountAndFirst(x) /\ ~Fresh.ran
    BY DEF Fresh, Tally
  <2>3. Does(op, x) = Summary(CountAndFirst(x))
    BY <1>6, <2>2 DEF Does, Gives
  <2>4. QED
    BY <1>0, <1>6, <2>1, <2>3 DEF Cuts
<1>7. CASE op.kind = "join"
  <2>1. whole = AllJoined(op, x) \o (IF op.hits THEN Unpaired(op, Used(op, x)) ELSE <<>>)
    BY <1>7, WholeIs
  <2>2. LastPairs(op, Fresh, x) = IF op.hits THEN Unpaired(op, Used(op, x)) ELSE <<>>
    <3>1. {} \cup Used(op, x) = Used(op, x)
      OBVIOUS
    <3>2. QED
      BY <3>1 DEF Fresh, LastPairs
  <2>3. Does(op, x) = Cat(AllJoined(op, x), LastPairs(op, Fresh, x))
    BY <1>7 DEF Does, Gives
  <2>4. Does(op, x) = whole
    BY <2>1, <2>2, <2>3 DEF Cat
  <2>5. QED
    BY <1>0, <1>7, <2>4 DEF Cuts
<1>8. CASE op.kind = "positional"
  <2>1. whole = Beside(op, 0, x) \o Leftover(op, Len(x))
    BY <1>8, WholeIs
  <2>2. Len(x) \in Nat
    BY CatLength
  <2>3. Fresh.seen = 0 /\ Fresh.seen + Len(x) = Len(x)
    BY <2>2 DEF Fresh
  <2>4. Does(op, x) = Cat(Beside(op, 0, x), Leftover(op, Len(x)))
    BY <1>8, <2>3 DEF Does, Gives
  <2>5. Does(op, x) = whole
    BY <2>1, <2>4 DEF Cat
  <2>6. QED
    BY <1>0, <1>8, <2>5 DEF Cuts
<1>9. op.kind \in {"filter", "compute", "project", "limit", "sort", "reduce",
                    "unique", "join", "positional"}
  BY DEF Operators
<1>10. QED
  BY <1>1, <1>2, <1>3, <1>4, <1>5, <1>6, <1>7, <1>8, <1>9

\* A limit over rows cut no earlier than it cuts itself.
LEMMA LimitOfFirst ==
  ASSUME NEW op \in Operators, op.kind = "limit", op.bounded, NEW b \in Nat,
         op.skip + op.n <= b, NEW x \in Stream
  PROVE  Does(op, FirstRows(x, b)) = Does(op, x)
<1>0. op.skip \in Nat /\ op.n \in Nat
  BY DEF Operators
<1> DEFINE y == FirstRows(x, b)
           d == op.skip
           e == Least(Len(x), op.skip + op.n)
<1>1. /\ y \in Seq(Row) /\ Len(y) = Least(b, Len(x)) /\ x \in Seq(Row) /\ Len(x) \in Nat
      /\ \A i \in 1 .. Least(b, Len(x)) : y[i] = x[i]
  <2>1. x \in Seq(Row) /\ Len(x) \in Nat
    BY DEF Stream
  <2>2. QED
    BY ONLY <2>1, FirstIs, b \in Nat
<1> HIDE DEF y
<1>2. \A z : Does(op, z) = SubSeq(z, d + 1, Least(Len(z), op.skip + op.n))
  <2>1. op.skip - Fresh.dropped = op.skip /\ op.n - Fresh.emitted = op.n
    BY <1>0 DEF Fresh
  <2>2. QED
    BY <2>1 DEF Does, Gives, Window
<1>3. Least(Len(y), op.skip + op.n) = e /\ e \in 0 .. Len(x) /\ e \in 0 .. Len(y)
      /\ e <= Least(b, Len(x))
  BY <1>0, <1>1 DEF Least
<1>4. Does(op, x) = SubSeq(x, d + 1, e) /\ Does(op, y) = SubSeq(y, d + 1, e)
  BY <1>2, <1>3
<1>5. d \in Nat /\ Len(x) \in Nat
  BY <1>0, <1>1
<1> HIDE DEF d, e
<1>6. /\ SubSeq(x, d + 1, e) \in Seq(Row) /\ SubSeq(y, d + 1, e) \in Seq(Row)
      /\ Len(SubSeq(x, d + 1, e)) = IF d <= e THEN e - d ELSE 0
      /\ Len(SubSeq(y, d + 1, e)) = IF d <= e THEN e - d ELSE 0
      /\ \A i \in 1 .. e - d : SubSeq(x, d + 1, e)[i] = x[d + i]
      /\ \A i \in 1 .. e - d : SubSeq(y, d + 1, e)[i] = y[d + i]
  BY <1>1, <1>3, <1>5, PartIs
<1>7. \A i \in 1 .. e - d : d + i \in 1 .. Least(b, Len(x))
  <2>1. Least(b, Len(x)) \in Nat /\ e \in Nat
    BY <1>3, <1>5 DEF Least
  <2>2. QED
    BY <1>3, <1>5, <2>1
<1>8. \A i \in 1 .. e - d : SubSeq(x, d + 1, e)[i] = SubSeq(y, d + 1, e)[i]
  BY <1>1, <1>6, <1>7
<1>9. SubSeq(x, d + 1, e) = SubSeq(y, d + 1, e)
  <2>1. e \in Nat
    BY <1>3
  <2>2. CASE d <= e
    BY <1>5, <1>6, <1>8, <2>1, <2>2, SeqEqual
  <2>3. CASE ~(d <= e)
    BY <1>5, <1>6, <2>1, <2>3, EmptySeq
  <2>4. QED
    BY <2>2, <2>3
<1>10. QED
  BY <1>4, <1>9 DEF y
-----------------------------------------------------------------------------
(* The rows RowQuery has after each operator. *)
Afters(x, n, f) ==
  f = [i \in 0 .. n |-> IF i = 0 THEN x ELSE Query!Whole(line[i])[f[i - 1]]]

LEMMA AftersOn ==
  ASSUME NEW x, NEW n, NEW f, Afters(x, n, f), NEW i \in 0 .. n
  PROVE  f[i] = IF i = 0 THEN x ELSE Query!Whole(line[i])[f[i - 1]]
BY Zenon DEF Afters

LEMMA AfterGoes ==
  ASSUME NEW x, Len(line) \in Nat
  PROVE  /\ Query!After(x)[0] = x
         /\ \A i \in 1 .. Len(line) :
              Query!After(x)[i] = Query!Whole(line[i])[Query!After(x)[i - 1]]
<1> DEFINE K == {n \in Nat : \E f : Afters(x, n, f)}
<1>1. 0 \in K
  <2>1. Afters(x, 0, [i \in 0 .. 0 |-> x])
    BY DEF Afters
  <2>2. QED
    BY <2>1
<1>2. \A k \in Nat : k \in K => k + 1 \in K
  <2>1. SUFFICES ASSUME NEW k \in Nat, k \in K
                 PROVE  \E f : Afters(x, k + 1, f)
    OBVIOUS
  <2>2. PICK f : Afters(x, k, f)
    BY <2>1
  <2> DEFINE g == [i \in 0 .. k + 1 |-> IF i = 0 THEN x ELSE Query!Whole(line[i])[f[i - 1]]]
  <2>3. \A i \in 0 .. k : g[i] = f[i]
    BY <2>2, AftersOn
  <2>4. \A i \in 0 .. k + 1 : i # 0 => i - 1 \in 0 .. k
    OBVIOUS
  <2>5. g = [i \in 0 .. k + 1 |-> IF i = 0 THEN x ELSE Query!Whole(line[i])[g[i - 1]]]
    BY <2>3, <2>4
  <2>6. Afters(x, k + 1, g)
    BY <2>5 DEF Afters
  <2>7. QED
    BY <2>6
<1> HIDE DEF K
<1>3. \E f : Afters(x, Len(line), f)
  <2>1. Len(line) \in K
    BY <1>1, <1>2, NatSets
  <2>2. QED
    BY <2>1 DEF K
<1> DEFINE h == CHOOSE f : Afters(x, Len(line), f)
<1>4. Afters(x, Len(line), h)
  BY <1>3
<1>5. Query!After(x) = h
  BY DEF Query!After, Afters
<1> HIDE DEF h
<1>6. h[0] = x
  <2>1. 0 \in 0 .. Len(line)
    OBVIOUS
  <2>2. QED
    BY <1>4, <2>1, AftersOn
<1>7. ASSUME NEW i \in 1 .. Len(line) PROVE h[i] = Query!Whole(line[i])[h[i - 1]]
  <2>1. i \in 0 .. Len(line) /\ i # 0
    OBVIOUS
  <2>2. QED
    BY <1>4, <2>1, AftersOn
<1>8. QED
  BY <1>5, <1>6, <1>7

\* What a sort with a bound cut after an operator, a limit cuts later on.
Pending(whole, flow, i) ==
  \E j \in Ops, b \in Nat :
     /\ j > i /\ line[j].kind = "limit" /\ line[j].bounded
     /\ line[j].skip + line[j].n <= b
     /\ \A k \in i + 1 .. j - 1 : line[k].kind = "project"
     /\ flow[i] = FirstRows(whole[i], b)

\* One more operator.
LEMMA PendingGoes ==
  ASSUME line \in Lines, NEW whole, NEW flow, NEW k \in Nat, NEW m \in Ops, m = k + 1,
         whole[k] \in Stream, flow[k] = whole[k] \/ Pending(whole, flow, k),
         whole[m] = Query!Whole(line[m])[whole[k]], flow[m] = Does(line[m], flow[k])
  PROVE  whole[m] \in Stream /\ (flow[m] = whole[m] \/ Pending(whole, flow, m))
<1>1. Len(line) \in Nat /\ Ops = 1 .. Len(line) /\ \A i \in Ops : line[i] \in Operators
  BY LineIs
<1> DEFINE op == line[m]
<1>2. op \in Operators
  BY <1>1
<1>3. /\ whole[m] \in Stream
      /\ Does(op, whole[k]) = IF Cuts(op) THEN FirstRows(whole[m], op.bound) ELSE whole[m]
  BY <1>2, DoesWhole
<1>4. CASE flow[k] = whole[k] /\ ~Cuts(op)
  BY <1>3, <1>4
<1>5. CASE flow[k] = whole[k] /\ Cuts(op)
  <2>1. op.bound \in Nat
    BY <1>2, <1>5 DEF Cuts, Operators
  <2>2. flow[m] = FirstRows(whole[m], op.bound)
    BY <1>3, <1>5
  <2>3. CutAbove(line, m, op.bound)
    <3>1. line[m].kind = "sort" /\ line[m].bound >= 0 /\ m \in DOMAIN line
      BY <1>5 DEF Cuts, Ops
    <3>2. QED
      BY <3>1, SortsAreCut
  <2>4. PICK j \in Ops : /\ j > m /\ line[j].kind = "limit" /\ line[j].bounded
                         /\ line[j].skip + line[j].n <= op.bound
                         /\ \A i \in m + 1 .. j - 1 : line[i].kind = "project"
    BY <2>3 DEF CutAbove, Ops
  <2>5. Pending(whole, flow, m)
    BY <2>1, <2>2, <2>4 DEF Pending
  <2>6. QED
    BY <1>3, <2>5
<1>6. CASE Pending(whole, flow, k)
  <2>1. PICK j \in Ops, b \in Nat :
               /\ j > k /\ line[j].kind = "limit" /\ line[j].bounded
               /\ line[j].skip + line[j].n <= b
               /\ \A i \in k + 1 .. j - 1 : line[i].kind = "project"
               /\ flow[k] = FirstRows(whole[k], b)
    BY <1>6 DEF Pending
  <2>2. CASE j = m
    <3>1. Does(op, flow[k]) = Does(op, whole[k])
      BY <1>2, <2>1, <2>2, LimitOfFirst
    <3>2. ~Cuts(op)
      BY <2>1, <2>2 DEF Cuts
    <3>3. QED
      BY <1>3, <3>1, <3>2
  <2>3. CASE j # m
    <3>1. j > m /\ m \in k + 1 .. j - 1 /\ \A i \in m + 1 .. j - 1 : i \in k + 1 .. j - 1
      BY <1>1, <2>1, <2>3
    <3>2. op.kind = "project"
      BY <2>1, <3>1
    <3>3. \A z : Does(op, z) = z
      BY <3>2 DEF Does, Gives
    <3>4. ~Cuts(op)
      BY <3>2 DEF Cuts
    <3>5. whole[m] = whole[k] /\ flow[m] = flow[k]
      BY <1>3, <3>3, <3>4
    <3>6. Pending(whole, flow, m)
      BY <2>1, <3>1, <3>5 DEF Pending
    <3>7. QED
      BY <1>3, <3>6
  <2>4. QED
    BY <2>2, <2>3
<1>7. QED
  BY <1>4, <1>5, <1>6

\* Over a line, what the nodes do is what RowQuery says: at the end, and
\* wherever an expression reads it.
LEMMA FlowAfter ==
  ASSUME line \in Lines, NEW x \in Stream
  PROVE  /\ Query!After(x)[Len(line)] = Flow(line, x)[Len(line)]
         /\ \A i \in Ops : line[i].kind = "compute" =>
              Query!After(x)[i - 1] = Flow(line, x)[i - 1]
<1>1. Len(line) \in Nat /\ Ops = 1 .. Len(line)
  BY LineIs
<1> DEFINE whole == Query!After(x)
           flow == Flow(line, x)
           K == {k \in Nat : k <= Len(line) =>
                   whole[k] \in Stream /\ (flow[k] = whole[k] \/ Pending(whole, flow, k))}
<1>2. /\ whole[0] = x /\ flow[0] = x
      /\ \A i \in Ops : whole[i] = Query!Whole(line[i])[whole[i - 1]]
      /\ \A i \in Ops : flow[i] = Does(line[i], flow[i - 1])
  BY <1>1, AfterGoes, FlowGoes
<1> HIDE DEF whole, flow
<1>3. 0 \in K
  BY <1>2
<1>4. \A k \in Nat : k \in K => k + 1 \in K
  <2>1. SUFFICES ASSUME NEW k \in Nat, k \in K, k + 1 <= Len(line)
                 PROVE  /\ whole[k + 1] \in Stream
                        /\ flow[k + 1] = whole[k + 1] \/ Pending(whole, flow, k + 1)
    OBVIOUS
  <2> DEFINE m == k + 1
  <2>2. m \in Ops /\ m - 1 = k /\ k <= Len(line) /\ m = k + 1
    BY <1>1, <2>1
  <2>3. whole[k] \in Stream /\ (flow[k] = whole[k] \/ Pending(whole, flow, k))
    BY <2>1, <2>2
  <2> HIDE DEF m
  <2>4. whole[m] = Query!Whole(line[m])[whole[k]] /\ flow[m] = Does(line[m], flow[k])
    BY <1>2, <2>2
  <2>5. whole[m] \in Stream /\ (flow[m] = whole[m] \/ Pending(whole, flow, m))
    BY <2>2, <2>3, <2>4, PendingGoes
  <2>6. QED
    BY <2>5 DEF m
<1>5. \A k \in Nat : k \in K
  <2> HIDE DEF K
  <2>1. QED
    BY <1>3, <1>4, NatSets
<1>6. \A k \in 0 .. Len(line) : flow[k] = whole[k] \/ Pending(whole, flow, k)
  BY <1>1, <1>5
<1> HIDE DEF K
<1>7. ~Pending(whole, flow, Len(line))
  BY <1>1 DEF Pending
<1>8. ASSUME NEW i \in Ops, line[i].kind = "compute", Pending(whole, flow, i - 1)
      PROVE  FALSE
  <2>1. PICK j \in Ops, b \in Nat :
               /\ j > i - 1 /\ line[j].kind = "limit"
               /\ \A k \in (i - 1) + 1 .. j - 1 : line[k].kind = "project"
    BY <1>8 DEF Pending
  <2>2. j # i
    BY <1>8, <2>1
  <2>3. i \in (i - 1) + 1 .. j - 1
    BY <1>1, <2>1, <2>2
  <2>4. QED
    BY <1>8, <2>1, <2>3
<1>9. \A i \in Ops : i - 1 \in 0 .. Len(line)
  BY <1>1
<1>10. Len(line) \in 0 .. Len(line)
  BY <1>1
<1>11. whole[Len(line)] = flow[Len(line)]
  BY <1>6, <1>7, <1>10
<1>12. \A i \in Ops : line[i].kind = "compute" => whole[i - 1] = flow[i - 1]
  BY <1>6, <1>8, <1>9
<1>13. QED
  BY <1>11, <1>12 DEF whole, flow
-----------------------------------------------------------------------------
(***************************************************************************)
(* What raises, and how a source is cut.                                   *)
(***************************************************************************)

\* An expression raises on one of the rows.
Tainted(op, rows) ==
  op.kind = "compute" /\ \E i \in DOMAIN rows : rows[i].key \in op.bad

\* An expression raises on a row that reaches it.
FailsOver(x) == \E i \in Ops : Tainted(line[i], Flow(line, x)[i - 1])

LEMMA QueryMeans ==
  ASSUME line \in Lines, NEW x \in Stream
  PROVE  /\ Query!Answers(x) = Flow(line, x)[Len(line)]
         /\ Query!Raises(x) <=> FailsOver(x)
<1>1. Query!Answers(x) = Flow(line, x)[Len(line)]
  BY FlowAfter DEF Query!Answers
<1> DEFINE whole == Query!After(x)
           flow == Flow(line, x)
<1>2. \A i \in Ops : line[i].kind = "compute" => whole[i - 1] = flow[i - 1]
  BY FlowAfter
<1>3. Query!Raises(x) <=>
         \E i \in Ops : line[i].kind = "compute"
                        /\ \E j \in DOMAIN whole[i - 1] : whole[i - 1][j].key \in line[i].bad
  BY DEF Query!Raises, Ops
<1>4. FailsOver(x) <=>
         \E i \in Ops : line[i].kind = "compute"
                        /\ \E j \in DOMAIN flow[i - 1] : flow[i - 1][j].key \in line[i].bad
  BY DEF FailsOver, Tainted
<1> HIDE DEF whole, flow
<1>5. QED
  BY <1>1, <1>2, <1>3, <1>4

LEMMA TaintedCat ==
  ASSUME NEW op, NEW a \in Stream, NEW b \in Stream
  PROVE  Tainted(op, Cat(a, b)) <=> Tainted(op, a) \/ Tainted(op, b)
<1>0. a \in Seq(Row) /\ b \in Seq(Row) /\ Cat(a, b) = a \o b
  BY DEF Stream, Cat
<1> DEFINE c == a \o b
<1>1. /\ Len(a) \in Nat /\ Len(b) \in Nat
      /\ DOMAIN c = 1 .. Len(a) + Len(b)
      /\ DOMAIN a = 1 .. Len(a) /\ DOMAIN b = 1 .. Len(b)
      /\ \A i \in 1 .. Len(a) : c[i] = a[i]
      /\ \A i \in 1 .. Len(b) : c[Len(a) + i] = b[i]
  BY <1>0, JoinAt
<1> HIDE DEF c
<1>2. \A i \in DOMAIN c : i \in DOMAIN a \/ (i - Len(a) \in DOMAIN b /\ Len(a) + (i - Len(a)) = i)
  BY <1>1
<1>3. /\ \A i \in DOMAIN a : i \in DOMAIN c
      /\ \A i \in DOMAIN b : Len(a) + i \in DOMAIN c
  BY <1>1
<1>4. ASSUME NEW i \in DOMAIN c, c[i].key \in op.bad
      PROVE  (\E j \in DOMAIN a : a[j].key \in op.bad) \/ (\E j \in DOMAIN b : b[j].key \in op.bad)
  <2>1. CASE i \in DOMAIN a
    BY <1>1, <1>4, <2>1
  <2>2. CASE i - Len(a) \in DOMAIN b /\ Len(a) + (i - Len(a)) = i
    <3>1. c[i] = b[i - Len(a)]
      BY <1>1, <2>2
    <3>2. QED
      BY <1>4, <2>2, <3>1
  <2>3. QED
    BY <1>2, <2>1, <2>2
<1>5. ASSUME NEW j \in DOMAIN a, a[j].key \in op.bad
      PROVE  \E i \in DOMAIN c : c[i].key \in op.bad
  BY <1>1, <1>3, <1>5
<1>6. ASSUME NEW j \in DOMAIN b, b[j].key \in op.bad
      PROVE  \E i \in DOMAIN c : c[i].key \in op.bad
  BY <1>1, <1>3, <1>6
<1>7. QED
  BY <1>0, <1>4, <1>5, <1>6 DEF Tainted, c

LEMMA TaintedNone ==
  ASSUME NEW op
  PROVE  ~Tainted(op, <<>>)
<1>1. DOMAIN <<>> = {}
  OBVIOUS
<1>2. QED
  BY <1>1 DEF Tainted

\* Only an expression raises.
LEMMA ProcessRaises ==
  ASSUME NEW op \in Operators, NEW node, NEW chunk
  PROVE  Process(op, node, chunk).raised <=> Tainted(op, chunk)
<1>1. \A n, o : Emit(n, o).raised = FALSE
  BY DEF Emit
<1>2. CASE op.kind = "compute"
  BY <1>1, <1>2 DEF Process, Tainted, Raise
<1>3. CASE op.kind = "limit"
  <2>1. ~LimitProcess(op, node, chunk).raised
    BY <1>1 DEF LimitProcess
  <2>2. QED
    BY <1>3, <2>1 DEF Process, Tainted
<1>4. CASE op.kind = "sort"
  <2>1. ~SortProcess(op, node, chunk).raised
    BY <1>1 DEF SortProcess
  <2>2. QED
    BY <1>4, <2>1 DEF Process, Tainted
<1>5. CASE op.kind = "reduce"
  <2>1. ~ReduceProcess(node, chunk).raised
    BY <1>1 DEF ReduceProcess
  <2>2. QED
    BY <1>5, <2>1 DEF Process, Tainted
<1>6. CASE op.kind = "join"
  <2>1. ~JoinProcess(op, node, chunk).raised
    BY <1>1 DEF JoinProcess
  <2>2. QED
    BY <1>6, <2>1 DEF Process, Tainted
<1>7. CASE op.kind = "positional"
  <2>1. ~PositionalProcess(op, node, chunk).raised
    BY <1>1 DEF PositionalProcess
  <2>2. QED
    BY <1>7, <2>1 DEF Process, Tainted
<1>8. CASE op.kind \in {"filter", "project", "unique"}
  BY <1>1, <1>8 DEF Process, Tainted
<1>9. op.kind \in {"filter", "compute", "project", "limit", "sort", "reduce",
                    "unique", "join", "positional"}
  BY DEF Operators
<1>10. QED
  BY <1>2, <1>3, <1>4, <1>5, <1>6, <1>7, <1>8, <1>9

LEMMA RowLocalProcess ==
  ASSUME NEW op \in Operators, IsRowLocal(op), NEW node, NEW chunk \in Stream,
         ~Tainted(op, chunk)
  PROVE  LET r == Process(op, node, chunk)
         IN  Out(r) = Does(op, chunk) /\ r.out \in Opt(Seq(Row))
<1> DEFINE r == Process(op, node, chunk)
<1>0. \A n, o : Emit(n, o).out = o
  BY DEF Emit
<1>1. \A x \in Stream : Some(x) \in Opt(Seq(Row)) /\ Some(x) # None /\ Some(x)[1] = x
  BY OptIs DEF Stream
<1>2. None \in Opt(Seq(Row))
  BY OptIs
<1>3. ASSUME NEW x \in Stream, r = Emit(node, IF x = <<>> THEN None ELSE Some(x))
      PROVE  Out(r) = x /\ r.out \in Opt(Seq(Row))
  <2>1. r.out = IF x = <<>> THEN None ELSE Some(x)
    BY <1>0, <1>3
  <2> HIDE DEF r
  <2>2. QED
    BY <1>1, <1>2, <2>1 DEF Out
<1>4. ASSUME r = Emit(node, Some(chunk))
      PROVE  Out(r) = chunk /\ r.out \in Opt(Seq(Row))
  <2>1. r.out = Some(chunk)
    BY <1>0, <1>4
  <2> HIDE DEF r
  <2>2. QED
    BY <1>1, <2>1 DEF Out
<1>5. CASE op.kind = "filter"
  <2>1. WithKey(chunk, op.keep) \in Stream
    BY CatKeys
  <2>2. Does(op, chunk) = WithKey(chunk, op.keep)
    BY <1>5 DEF Does, Gives
  <2>3. r = Emit(node, IF WithKey(chunk, op.keep) = <<>> THEN None
                       ELSE Some(WithKey(chunk, op.keep)))
    BY <1>5 DEF Process
  <2>4. QED
    BY <1>3, <2>1, <2>2, <2>3
<1>6. CASE op.kind \in {"compute", "project"}
  <2>1. Does(op, chunk) = chunk
    BY <1>6 DEF Does, Gives
  <2>2. r = Emit(node, Some(chunk))
    BY <1>6 DEF Process, Tainted
  <2>3. QED
    BY <1>4, <2>1, <2>2
<1>7. CASE op.kind = "join" /\ ~op.hits
  <2>1. AllJoined(op, chunk) \in Stream
    BY <1>7, CatJoined
  <2>2. Does(op, chunk) = Cat(AllJoined(op, chunk), <<>>)
    BY <1>7 DEF Does, Gives, LastPairs
  <2>3. Does(op, chunk) = AllJoined(op, chunk)
    BY <2>1, <2>2, CatNone
  <2>4. r.out = IF AllJoined(op, chunk) = <<>> THEN None ELSE Some(AllJoined(op, chunk))
    BY <1>7, <1>0 DEF Process, JoinProcess
  <2> HIDE DEF r
  <2>5. Out(r) = Does(op, chunk) /\ r.out \in Opt(Seq(Row))
    BY <1>1, <1>2, <2>1, <2>3, <2>4 DEF Out
  <2>6. QED
    BY <2>5 DEF r
<1>8. QED
  BY <1>5, <1>6, <1>7 DEF IsRowLocal

LEMMA PrefixFlows ==
  ASSUME line \in Lines, lead \in 0 .. Len(line), \A i \in 1 .. lead : IsRowLocal(line[i]),
         NEW chunk \in Stream
  PROVE  LET r == Prefix(chunk)
             flow == Flow(line, chunk)
         IN  /\ ~r.raised => /\ Out(r) = flow[lead]
                             /\ \A j \in 1 .. lead : ~Tainted(line[j], flow[j - 1])
             /\ r.raised => \E j \in 1 .. lead : Tainted(line[j], flow[j - 1])
<1>1. /\ Len(line) \in Nat /\ lead \in Nat /\ lead <= Len(line) /\ Ops = 1 .. Len(line)
      /\ \A i \in Ops : line[i] \in Operators
  BY LineIs
<1>2. PICK f : Goes(chunk, lead, f) /\ Prefix(chunk) = f[lead]
  BY <1>1, PrefixGoes
<1> DEFINE flow == Flow(line, chunk)
           K == {k \in Nat : k <= lead =>
                   /\ ~f[k].raised => /\ Out(f[k]) = flow[k] /\ f[k].out \in Opt(Seq(Row))
                                      /\ \A j \in 1 .. k : ~Tainted(line[j], flow[j - 1])
                   /\ f[k].raised => \E j \in 1 .. k : Tainted(line[j], flow[j - 1])}
<1>3. /\ flow[0] = chunk /\ \A i \in Ops : flow[i] = Does(line[i], flow[i - 1])
      /\ \A i \in 0 .. Len(line) : flow[i] \in Stream
  BY FlowIs
<1> HIDE DEF flow
<1>4. \A S : None \in Opt(S) /\ \A x \in S : Some(x) \in Opt(S) /\ Some(x) # None /\ Some(x)[1] = x
  BY OptIs
<1>5. 0 \in K
  <2>1. f[0] = Emit(Fresh, Some(chunk))
    <3>1. 0 \in 0 .. lead
      BY <1>1
    <3>2. QED
      BY <1>2, <3>1, GoesOn
  <2>2. f[0].raised = FALSE /\ f[0].out = Some(chunk)
    BY <2>1 DEF Emit
  <2>3. chunk \in Seq(Row)
    BY DEF Stream
  <2>4. Out(f[0]) = chunk /\ f[0].out \in Opt(Seq(Row))
    BY <1>4, <2>2, <2>3 DEF Out
  <2>5. QED
    BY <1>3, <2>2, <2>4
<1>6. \A k \in Nat : k \in K => k + 1 \in K
  <2>1. SUFFICES ASSUME NEW k \in Nat, k \in K, k + 1 <= lead
                 PROVE  /\ ~f[k + 1].raised =>
                             /\ Out(f[k + 1]) = flow[k + 1] /\ f[k + 1].out \in Opt(Seq(Row))
                             /\ \A j \in 1 .. k + 1 : ~Tainted(line[j], flow[j - 1])
                        /\ f[k + 1].raised => \E j \in 1 .. k + 1 : Tainted(line[j], flow[j - 1])
    OBVIOUS
  <2> DEFINE m == k + 1
             op == line[m]
  <2>2. m \in Ops /\ m - 1 = k /\ m \in 1 .. lead /\ m \in 0 .. lead /\ m # 0
        /\ 1 .. m = (1 .. k) \cup {m} /\ k \in 0 .. Len(line) /\ k <= lead
    BY <1>1, <2>1
  <2>3. op \in Operators /\ IsRowLocal(op)
    BY <1>1, <2>2
  <2>4. /\ ~f[k].raised => /\ Out(f[k]) = flow[k] /\ f[k].out \in Opt(Seq(Row))
                           /\ \A j \in 1 .. k : ~Tainted(line[j], flow[j - 1])
        /\ f[k].raised => \E j \in 1 .. k : Tainted(line[j], flow[j - 1])
    BY <2>1, <2>2
  <2>5. flow[m] = Does(op, flow[k]) /\ flow[k] \in Stream
    BY <1>3, <2>2
  <2> HIDE DEF m
  <2>6. f[m] = IF f[k].raised \/ f[k].out = None THEN f[k]
               ELSE Apply(line[m], nodes[m], f[k].out[1])
    <3>1. f[m] = IF m = 0 THEN Emit(Fresh, Some(chunk))
                 ELSE IF f[m - 1].raised \/ f[m - 1].out = None THEN f[m - 1]
                 ELSE Apply(line[m], nodes[m], f[m - 1].out[1])
      BY <1>2, <2>2, GoesOn
    <3>2. QED
      BY <2>2, <3>1
  <2> HIDE DEF op
  <2>7. CASE f[k].raised
    BY <2>2, <2>4, <2>6, <2>7 DEF m
  <2>8. CASE ~f[k].raised /\ f[k].out = None
    <3>1. f[m] = f[k]
      BY <2>6, <2>8
    <3>2. flow[k] = <<>>
      BY <2>4, <2>8 DEF Out
    <3>3. flow[m] = <<>>
      BY <2>3, <2>5, <3>2, RowLocalSplits
    <3>4. ~Tainted(line[m], flow[m - 1])
      BY <2>2, <3>2, TaintedNone
    <3>5. QED
      BY <2>2, <2>4, <2>8, <3>1, <3>2, <3>3, <3>4 DEF m
  <2>9. CASE ~f[k].raised /\ f[k].out # None
    <3>1. f[k].out[1] = flow[k]
      BY <2>4, <2>9 DEF Out
    <3> DEFINE r == Process(op, nodes[m], flow[k])
    <3>2. f[m] = r
      BY <2>3, <2>6, <2>9, <3>1 DEF Apply, IsRowLocal, op
    <3>3. r.raised <=> Tainted(op, flow[k])
      BY <2>3, ProcessRaises
    <3>4. ~Tainted(op, flow[k]) => Out(r) = Does(op, flow[k]) /\ r.out \in Opt(Seq(Row))
      BY <2>3, <2>5, RowLocalProcess
    <3> HIDE DEF r
    <3>5. CASE r.raised
      <4>1. Tainted(line[m], flow[m - 1]) /\ m \in 1 .. m
        BY <2>2, <3>3, <3>5 DEF op
      <4>2. QED
        BY <3>2, <3>5, <4>1 DEF m
    <3>6. CASE ~r.raised
      <4>1. ~Tainted(line[m], flow[m - 1])
        BY <2>2, <3>3, <3>6 DEF op
      <4>2. \A j \in 1 .. m : ~Tainted(line[j], flow[j - 1])
        BY <2>2, <2>4, <2>9, <4>1
      <4>3. QED
        BY <2>5, <3>2, <3>3, <3>4, <3>6, <4>2 DEF m
    <3>7. QED
      BY <3>5, <3>6
  <2>10. QED
    BY <2>7, <2>8, <2>9
<1>7. lead \in K
  <2> HIDE DEF K
  <2>1. QED
    BY <1>1, <1>5, <1>6, NatSets
<1>8. QED
  BY <1>1, <1>2, <1>7 DEF flow

-----------------------------------------------------------------------------
(* The source, cut or not. *)
LEMMA EnoughPieces ==
  ASSUME NEW n \in Nat, NEW k \in Nat \ {0}
  PROVE  /\ Most(1, (n + k - 1) \div k) \in Nat
         /\ n <= Most(1, (n + k - 1) \div k) * k
<1> DEFINE q == (n + k - 1) \div k
<1>1. q \in Int /\ n + k - 1 < (q + 1) * k
  OBVIOUS
<1> HIDE DEF q
<1>2. (q + 1) * k = q * k + k
  BY <1>1
<1>3. n <= q * k
  <2>1. q * k \in Int
    BY <1>1
  <2>2. QED
    BY <1>1, <1>2, <2>1
<1>4. CASE q >= 1
  <2>1. Most(1, q) = q
    BY <1>1, <1>4 DEF Most
  <2>2. QED
    BY <1>1, <1>3, <1>4, <2>1 DEF q
<1>5. CASE ~(q >= 1)
  <2>1. Most(1, q) = 1
    BY <1>1, <1>5 DEF Most
  <2>2. q * k <= 0
    BY <1>1, <1>5
  <2>3. n <= k
    <3>1. q * k \in Int
      BY <1>1
    <3>2. QED
      BY <1>3, <2>2, <3>1
  <2>4. QED
    BY <2>1, <2>3 DEF q
<1>6. QED
  BY <1>4, <1>5

LEMMA PiecesFlatten ==
  ASSUME NEW chunk \in Seq(Row)
  PROVE  FlattenSeq(Pieces(chunk)) = chunk
<1> DEFINE count == Most(1, (Len(chunk) + MORSEL_ROWS - 1) \div MORSEL_ROWS)
           f == [p \in 0 .. count |-> p * MORSEL_ROWS]
           parts == Pieces(chunk)
<1>1. Len(chunk) \in Nat /\ MORSEL_ROWS \in Nat \ {0}
  BY Sizes
<1>2. count \in Nat /\ Len(chunk) <= count * MORSEL_ROWS
  BY <1>1, EnoughPieces
<1>3. parts = [p \in 1 .. count |-> SubSeq(chunk, (p - 1) * MORSEL_ROWS + 1,
                                           Least(p * MORSEL_ROWS, Len(chunk)))]
  BY DEF Pieces
<1>4. parts \in Seq(Seq(Row))
  BY PiecesAre
<1> HIDE DEF count, parts
<1>5. /\ \A c \in 0 .. count : f[c] \in Nat /\ f[c] = c * MORSEL_ROWS
      /\ f[0] = 0
  BY <1>1, <1>2
<1>6. \A c \in 1 .. count : c - 1 \in 0 .. count /\ c \in 0 .. count
  BY <1>2
<1>7. \A c \in 1 .. count : f[c - 1] = (c - 1) * MORSEL_ROWS /\ f[c] = c * MORSEL_ROWS
  BY <1>5, <1>6
<1>8. \A c \in 1 .. count : f[c - 1] <= f[c]
  <2>1. TAKE c \in 1 .. count
  <2>2. (c - 1) * MORSEL_ROWS + MORSEL_ROWS = c * MORSEL_ROWS
    BY <1>1, <1>2
  <2>3. (c - 1) * MORSEL_ROWS \in Nat
    BY <1>5, <1>6, <1>7
  <2> DEFINE a == (c - 1) * MORSEL_ROWS
             b == c * MORSEL_ROWS
  <2>4. a + MORSEL_ROWS = b /\ a \in Nat /\ f[c - 1] = a /\ f[c] = b
    BY <1>7, <2>2, <2>3
  <2> HIDE DEF a, b
  <2>5. QED
    BY <1>1, <2>4
<1>9. Len(parts) = count
  BY <1>2, <1>3, <1>4
<1>10. \A c \in 1 .. count : parts[c] = SubSeq(chunk, f[c - 1] + 1, Least(f[c], Len(chunk)))
  BY <1>3, <1>7
<1>11. count \in 0 .. count
  BY <1>2
<1>12. f[count] = count * MORSEL_ROWS /\ f[count] \in Nat
  BY <1>5, <1>11
<1>13. \A c \in 0 .. count : f[c] \in Nat
  BY <1>5
<1>14. f[0] = 0
  BY <1>5
<1> HIDE DEF f
<1>15. FlattenSeq(parts) = FirstRows(chunk, f[count])
  BY ONLY chunk \in Seq(Row), <1>2, <1>4, <1>8, <1>9, <1>10, <1>13, <1>14, SegmentsFlatten
<1>16. FirstRows(chunk, f[count]) = chunk
  BY <1>2, <1>12, FirstAll
<1>17. QED
  BY <1>15, <1>16 DEF parts

\* Each of the chunks cut, and the pieces put end to end.
LEMMA AllPiecesFlatten ==
  ASSUME NEW chunks \in Seq(Seq(Row))
  PROVE  FlattenSeq(FlattenSeq([i \in DOMAIN chunks |-> Pieces(chunks[i])])) = FlattenSeq(chunks)
<1> DEFINE cut(s) == [i \in DOMAIN s |-> Pieces(s[i])]
           T == {s \in Seq(Seq(Row)) : FlattenSeq(FlattenSeq(cut(s))) = FlattenSeq(s)}
<1>1. <<>> \in T
  <2>1. cut(<<>>) = <<>>
    BY DEF cut
  <2>2. <<>> \in Seq(Seq(Row))
    OBVIOUS
  <2> HIDE DEF cut
  <2>3. QED
    BY <2>1, <2>2, FlattenNone
<1>2. \A s \in Seq(Seq(Row)), e \in Seq(Row) : s \in T => Append(s, e) \in T
  <2>1. SUFFICES ASSUME NEW s \in Seq(Seq(Row)), NEW e \in Seq(Row), s \in T
                 PROVE  Append(s, e) \in T
    OBVIOUS
  <2>2. Append(s, e) \in Seq(Seq(Row))
    BY AppendProperties
  <2>3. \A i \in 1 .. Len(s) : Pieces(s[i]) \in Seq(Seq(Row))
    BY PiecesAre, ElementOfSeq
  <2>4. cut(s) \in Seq(Seq(Seq(Row))) /\ Len(cut(s)) = Len(s)
    <3>1. Len(s) \in Nat /\ cut(s) = [i \in 1 .. Len(s) |-> Pieces(s[i])]
      OBVIOUS
    <3> DEFINE part(i) == Pieces(s[i])
    <3>2. \A i \in 1 .. Len(s) : part(i) \in Seq(Seq(Row))
      BY <2>3
    <3>3. cut(s) = [i \in 1 .. Len(s) |-> part(i)]
      BY <3>1
    <3> HIDE DEF part, cut
    <3>4. [i \in 1 .. Len(s) |-> part(i)] \in Seq(Seq(Seq(Row)))
      BY <3>1, <3>2
    <3>5. QED
      BY <3>1, <3>3, <3>4
  <2>5. Pieces(e) \in Seq(Seq(Row))
    BY PiecesAre
  <2>6. cut(Append(s, e)) = Append(cut(s), Pieces(e))
    <3>1. /\ Len(Append(s, e)) = Len(s) + 1 /\ Len(s) \in Nat
          /\ \A i \in 1 .. Len(s) : Append(s, e)[i] = s[i]
          /\ Append(s, e)[Len(s) + 1] = e
      BY AppendProperties
    <3>2. cut(Append(s, e)) = [i \in 1 .. Len(s) + 1 |-> Pieces(Append(s, e)[i])]
      BY <2>2, <3>1
    <3>3. cut(s) = [i \in 1 .. Len(s) |-> Pieces(s[i])]
      BY <3>1
    <3> DEFINE c == cut(s)
               d == Append(c, Pieces(e))
    <3> HIDE DEF c
    <3>4. /\ d = [i \in 1 .. Len(c) + 1 |-> d[i]]
          /\ \A i \in 1 .. Len(c) : d[i] = c[i]
          /\ d[Len(c) + 1] = Pieces(e)
      BY <2>4, <2>5, AppendProperties DEF c
    <3>5. Len(c) = Len(s) /\ \A i \in 1 .. Len(s) : c[i] = Pieces(s[i])
      BY <2>4, <3>3 DEF c
    <3> HIDE DEF d
    <3>6. \A i \in 1 .. Len(s) + 1 : d[i] = Pieces(Append(s, e)[i])
      <4>1. \A i \in 1 .. Len(s) : d[i] = c[i]
        BY <3>4, <3>5
      <4>2. d[Len(s) + 1] = Pieces(e)
        BY <3>4, <3>5
      <4>3. \A i \in 1 .. Len(s) + 1 : i \in 1 .. Len(s) \/ i = Len(s) + 1
        BY <3>1
      <4>4. \A i \in 1 .. Len(s) : d[i] = Pieces(Append(s, e)[i])
        BY ONLY <3>1, <3>5, <4>1
      <4>5. d[Len(s) + 1] = Pieces(Append(s, e)[Len(s) + 1])
        BY <3>1, <4>2
      <4>6. QED
        BY ONLY <4>3, <4>4, <4>5
    <3>7. cut(Append(s, e)) = d
      BY <3>2, <3>4, <3>5, <3>6
    <3>8. QED
      BY <3>7 DEF c, d
  <2> HIDE DEF cut
  <2>7. FlattenSeq(cut(Append(s, e))) = FlattenSeq(cut(s)) \o Pieces(e)
    BY <2>4, <2>5, <2>6, FlattenMore
  <2>8. FlattenSeq(cut(s)) \in Seq(Seq(Row))
    BY <2>4, FlattenIs
  <2>9. FlattenSeq(FlattenSeq(cut(s)) \o Pieces(e))
          = FlattenSeq(FlattenSeq(cut(s))) \o FlattenSeq(Pieces(e))
    BY <2>5, <2>8, FlattenJoin
  <2>10. FlattenSeq(FlattenSeq(cut(s))) = FlattenSeq(s)
    BY <2>1
  <2>11. FlattenSeq(Pieces(e)) = e
    BY PiecesFlatten
  <2>12. FlattenSeq(Append(s, e)) = FlattenSeq(s) \o e
    BY FlattenMore
  <2>13. QED
    BY <2>2, <2>7, <2>9, <2>10, <2>11, <2>12
<1> HIDE DEF T
<1>3. \A s \in Seq(Seq(Row)) : s \in T
  BY <1>1, <1>2, SeqSets
<1>4. QED
  BY <1>3 DEF T

LEMMA MorselsFlatten ==
  ASSUME NEW chunks \in Seq(Seq(Row))
  PROVE  FlattenSeq(Morsels(chunks)) = FlattenSeq(chunks)
BY AllPiecesFlatten DEF Morsels
-----------------------------------------------------------------------------
(***************************************************************************)
(* The invariant: what was taken in, given, and is still to come.          *)
(***************************************************************************)

(* What the driver has done so far.  took[i] is all that operator i has taken *)
(* in, and took[Len(line) + 1] all that was collected.                        *)

Took == [1 .. Len(line) + 1 -> Stream]

Finishing == phase = "finish" \/ (phase = "push" /\ then = "finish")
Open(i) == ~Finishing \/ i > at

\* The rows in hand, between operator i and the next, and all that i gave.
Handed(i) == IF phase = "push" /\ pos = i + 1 THEN hand ELSE <<>>
Gave(took, i) == Cat(took[i + 1], Handed(i))

\* The rows not pushed into the line yet.
Left == IF Emptying THEN SubSeq(taken, at, Len(taken)) ELSE <<>>
Rest == Cat(FlattenSeq(Left), FlattenSeq(source))

\* A node that may take rows gives what its operator does, whatever comes.
OpenTold(took, i) ==
  /\ ~nodes[i].ran
  /\ \A y \in Stream :
       Cat(Gave(took, i), Gives(line[i], nodes[i], y)) = Does(line[i], Cat(took[i], y))

\* A node that is finishing has still to give what its operator does to what
\* it took, and one that finished has nothing to give.
ClosedTold(took, i) ==
  /\ Cat(Gave(took, i), Gives(line[i], nodes[i], <<>>)) = Does(line[i], took[i])
  /\ i < at => Gives(line[i], nodes[i], <<>>) = <<>>

NodesTold(took) ==
  \A i \in Ops : /\ Open(i) => OpenTold(took, i)
                 /\ ~Open(i) => ClosedTold(took, i)
                 /\ ~Tainted(line[i], took[i])

\* The rows of the frame are those that went in and the rest, and at the end
\* those that went in are enough.
FrontIsEnough(took) ==
  \E n \in 0 .. Len(given) :
     /\ Gave(took, 0) = SubSeq(given, 1, n)
     /\ Flow(line, Gave(took, 0))[Len(line)] = Flow(line, given)[Len(line)]
SourceTold(took) ==
  /\ ~Finishing => given = Cat(Gave(took, 0), Rest)
  /\ Finishing => FrontIsEnough(took)

Told(took) == /\ took[Len(line) + 1] = FlattenSeq(sink)
              /\ NodesTold(took)
              /\ SourceTold(took)

\* A slot of the batch holds its chunk through the leading operators.
SlotTold(c) ==
  LET flow == Flow(line, taken[c])
  IN  /\ \A j \in 1 .. lead : ~Tainted(line[j], flow[j - 1])
      /\ IF Folding THEN made[c] = Partial(flow[lead])
         ELSE flow[lead] = IF made[c] = None THEN <<>> ELSE made[c][1]
LostTold(c) ==
  LET flow == Flow(line, taken[c])
  IN  \E j \in 1 .. lead : Tainted(line[j], flow[j - 1])

Draining == phase = "drain" \/ (phase = "push" /\ then = "drain")
BatchTold == /\ Emptying => \A c \in 1 .. Len(taken) :
                  /\ c \notin todo \cup lost => SlotTold(c)
                  /\ c \in lost => LostTold(c)
             /\ Draining => todo = {}

LineTold == /\ given \in Stream /\ sink \in Seq(Seq(Row))
            /\ \A i \in 1 .. lead : IsRowLocal(line[i])
            /\ \A i \in Ops : Covers(line[i], nodes[i])
            /\ phase = "push" /\ then = "finish" => pos > at

FInv == PInv /\ LineTold /\ BatchTold /\ (~Ended => \E took \in Took : Told(took))
-----------------------------------------------------------------------------
LEMMA GaveIs ==
  ASSUME PInv, NEW took \in Took, NEW i \in 0 .. Len(line)
  PROVE  Handed(i) \in Stream /\ Gave(took, i) \in Stream /\ took[i + 1] \in Stream
<1>1. Len(line) \in Nat
  BY LineIs DEF PInv
<1>2. took[i + 1] \in Stream
  BY <1>1 DEF Took
<1>3. Handed(i) \in Stream
  BY CatNone DEF Handed, PInv, ChunksAre, Stream
<1>4. QED
  BY <1>2, <1>3, CatIn DEF Gave

\* What the operators gave is the start of what they do, whatever comes.
LEMMA Starts ==
  ASSUME PInv, NEW took \in Took, NodesTold(took), phase = "push" /\ then = "finish" => pos > at,
         NEW y \in Stream, Finishing => y = <<>>
  PROVE  \A j \in 0 .. Len(line) : \E z \in Stream :
            /\ Flow(line, Cat(Gave(took, 0), y))[j] = Cat(Gave(took, j), z)
            /\ Finishing /\ j < at => z = <<>>
<1>1. /\ Len(line) \in Nat /\ Ops = 1 .. Len(line) /\ line \in Lines
      /\ \A i \in Ops : line[i] \in Operators /\ Fits(line[i], nodes[i])
  BY LineIs DEF PInv, NodesFit
<1>2. at \in Nat
  BY Bounds DEF PInv, PlacesAre
<1> DEFINE flow == Flow(line, Cat(Gave(took, 0), y))
           K == {j \in Nat : j <= Len(line) => \E z \in Stream :
                   /\ flow[j] = Cat(Gave(took, j), z)
                   /\ Finishing /\ j < at => z = <<>>}
<1>3. flow[0] = Cat(Gave(took, 0), y) /\ \A i \in Ops : flow[i] = Does(line[i], flow[i - 1])
  <2>1. Gave(took, 0) \in Stream
    BY <1>1, GaveIs
  <2>2. Cat(Gave(took, 0), y) \in Stream
    BY <2>1, CatIn
  <2>3. QED
    BY <1>1, <2>2, FlowIs
<1> HIDE DEF flow
<1>4. 0 \in K
  BY <1>3
<1>5. \A k \in Nat : k \in K => k + 1 \in K
  <2>1. SUFFICES ASSUME NEW k \in Nat, k \in K, k + 1 <= Len(line)
                 PROVE  \E z \in Stream : /\ flow[k + 1] = Cat(Gave(took, k + 1), z)
                                          /\ Finishing /\ k + 1 < at => z = <<>>
    OBVIOUS
  <2> DEFINE m == k + 1
  <2>2. m \in Ops /\ m - 1 = k /\ k \in 0 .. Len(line) /\ m \in 0 .. Len(line) /\ k <= Len(line) /\ k < m
    BY <1>1, <2>1
  <2>3. PICK z \in Stream : flow[k] = Cat(Gave(took, k), z) /\ (Finishing /\ k < at => z = <<>>)
    BY <2>1, <2>2
  <2>4. Gave(took, k) = Cat(took[m], Handed(k))
    BY DEF Gave
  <2>5. Handed(k) = IF phase = "push" /\ pos = m THEN hand ELSE <<>>
    BY DEF Handed
  <2> HIDE DEF m
  <2>6. Handed(k) \in Stream /\ took[m] \in Stream /\ Gave(took, m) \in Stream
    BY <2>2, GaveIs DEF m
  <2> DEFINE w == Cat(Handed(k), z)
  <2>7. w \in Stream /\ flow[k] = Cat(took[m], w)
    <3>1. z \in Stream /\ flow[k] = Cat(Gave(took, k), z)
      BY <2>3
    <3>2. Cat(Cat(took[m], Handed(k)), z) = Cat(took[m], Cat(Handed(k), z))
      BY ONLY <2>6, <3>1, CatLeft
    <3>3. Cat(Handed(k), z) \in Stream
      BY ONLY <2>6, <3>1, CatIn
    <3>4. QED
      BY <2>4, <3>1, <3>2, <3>3
  <2>8. flow[m] = Does(line[m], Cat(took[m], w))
    BY <1>3, <2>2, <2>7
  <2>9. \A x \in Stream : Gives(line[m], nodes[m], x) \in Stream
    BY <1>1, <2>2, GivesIs
  <2>10. CASE Open(m)
    <3>1. OpenTold(took, m)
      BY <2>2, <2>10 DEF NodesTold
    <3>2. flow[m] = Cat(Gave(took, m), Gives(line[m], nodes[m], w))
      <4> HIDE DEF w
      <4>1. QED
        BY <2>7, <2>8, <3>1 DEF OpenTold
    <3>3. ~(Finishing /\ m < at)
      BY <1>1, <1>2, <2>2, <2>10 DEF Open
    <3>4. QED
      BY <2>7, <2>9, <3>2, <3>3 DEF m
  <2>11. CASE ~Open(m)
    <3>1. Finishing /\ m <= at /\ k < at
      BY <1>1, <1>2, <2>2, <2>11 DEF Open
    <3>2. z = <<>> /\ Handed(k) = <<>>
      BY <1>1, <1>2, <2>2, <2>3, <2>5, <3>1 DEF Finishing
    <3>3. w = <<>> /\ Cat(took[m], w) = took[m]
      BY <2>6, <3>2, CatNone
    <3>4. ClosedTold(took, m)
      BY <2>2, <2>11 DEF NodesTold
    <3>5. flow[m] = Cat(Gave(took, m), Gives(line[m], nodes[m], <<>>))
      BY <2>8, <3>3, <3>4 DEF ClosedTold
    <3>6. Finishing /\ m < at => Gives(line[m], nodes[m], <<>>) = <<>>
      BY <3>4 DEF ClosedTold
    <3>7. Gives(line[m], nodes[m], <<>>) \in Stream
      BY <2>9, CatNone
    <3>8. QED
      BY <3>5, <3>6, <3>7 DEF m
  <2>12. QED
    BY <2>10, <2>11
<1> HIDE DEF K
<1>6. \A k \in Nat : k \in K
  BY <1>4, <1>5, NatSets
<1>7. \A j \in 0 .. Len(line) : j \in Nat /\ j <= Len(line)
  BY <1>1
<1>8. QED
  BY <1>6, <1>7 DEF K, flow

LEMMA RestIs ==
  ASSUME PInv
  PROVE  /\ Left \in Seq(Seq(Row)) /\ FlattenSeq(Left) \in Stream
         /\ FlattenSeq(source) \in Stream /\ Rest \in Stream
<1>1. taken \in Seq(Seq(Row)) /\ source \in Seq(Seq(Row))
  BY DEF PInv, ChunksAre
<1>2. Left \in Seq(Seq(Row))
  <2>1. CASE Emptying
    <3>1. at \in 1 .. Len(taken)
      BY <2>1 DEF PInv, PlacesAre
    <3>2. SubSeq(taken, at, Len(taken)) \in Seq(Seq(Row))
      BY <1>1, <3>1, SubSeqProperties
    <3>3. QED
      BY <2>1, <3>2 DEF Left
  <2>2. CASE ~Emptying
    BY <2>2 DEF Left
  <2>3. QED
    BY <2>1, <2>2
<1>3. FlattenSeq(Left) \in Stream /\ FlattenSeq(source) \in Stream
  BY <1>1, <1>2, FlattenIs DEF Stream
<1>4. QED
  BY <1>2, <1>3, CatIn DEF Rest

\* The rows that went in, and the rest or none, are rows from the front of the
\* frame that are enough.
LEMMA FrontRows ==
  ASSUME PInv, given \in Stream, NEW took \in Took, SourceTold(took)
  PROVE  \E n \in 0 .. Len(given), y \in Stream :
            /\ Finishing => y = <<>>
            /\ ~Finishing => y = Rest
            /\ SubSeq(given, 1, n) = Cat(Gave(took, 0), y)
            /\ Query!Enough(n)
<1>0. line \in Lines /\ Len(line) \in Nat
  BY LineIs DEF PInv
<1>1. Len(given) \in Nat /\ \A n \in 0 .. Len(given) : SubSeq(given, 1, n) \in Stream
  BY SubSeqProperties DEF Stream
<1>2. ASSUME NEW n \in 0 .. Len(given),
             Flow(line, SubSeq(given, 1, n))[Len(line)] = Flow(line, given)[Len(line)]
      PROVE  Query!Enough(n)
  BY <1>0, <1>1, <1>2, QueryMeans DEF Query!Enough
<1>3. CASE ~Finishing
  <2>1. given = Cat(Gave(took, 0), Rest)
    BY <1>3 DEF SourceTold
  <2>2. SubSeq(given, 1, Len(given)) = given
    BY SubSeqFull DEF Stream
  <2>3. Query!Enough(Len(given))
    BY <2>2 DEF Query!Enough
  <2>4. Len(given) \in 0 .. Len(given) /\ Rest \in Stream
    BY <1>1, RestIs
  <2>5. QED
    BY <1>3, <2>1, <2>2, <2>3, <2>4
<1>4. CASE Finishing
  <2>1. PICK n \in 0 .. Len(given) :
           /\ Gave(took, 0) = SubSeq(given, 1, n)
           /\ Flow(line, Gave(took, 0))[Len(line)] = Flow(line, given)[Len(line)]
    BY <1>4 DEF SourceTold, FrontIsEnough
  <2>2. Gave(took, 0) \in Stream
    BY <1>0, GaveIs
  <2>3. Cat(Gave(took, 0), <<>>) = Gave(took, 0) /\ <<>> \in Stream
    BY <2>2, CatNone
  <2>4. Query!Enough(n)
    BY <1>2, <2>1
  <2>5. QED
    BY <1>4, <2>1, <2>3, <2>4
<1>5. QED
  BY <1>3, <1>4

\* What RowQuery needs to fail, and to answer.
MayFail == \E n \in 0 .. Len(given) : Query!Enough(n) /\ Query!Raises(SubSeq(given, 1, n))
MayAnswer == \E n \in 0 .. Len(given) : Query!Enough(n) /\ ~Query!Raises(SubSeq(given, 1, n))

\* An expression that raises on what it is handed.
LEMMA TaintedFails ==
  ASSUME PInv, LineTold, NEW took \in Took, Told(took),
         NEW p \in Ops, Tainted(line[p], Gave(took, p - 1))
  PROVE  MayFail
<1>1. line \in Lines /\ Len(line) \in Nat /\ Ops = 1 .. Len(line)
  BY LineIs DEF PInv
<1>2. PICK n \in 0 .. Len(given), y \in Stream :
            /\ Finishing => y = <<>>
            /\ SubSeq(given, 1, n) = Cat(Gave(took, 0), y)
            /\ Query!Enough(n)
  BY FrontRows DEF LineTold, Told
<1> DEFINE x == Cat(Gave(took, 0), y)
<1>3. p - 1 \in 0 .. Len(line)
  BY <1>1
<1>4. PICK z \in Stream : Flow(line, x)[p - 1] = Cat(Gave(took, p - 1), z)
  BY <1>2, <1>3, Starts DEF Told, LineTold
<1>5. Gave(took, p - 1) \in Stream /\ Gave(took, 0) \in Stream
  BY <1>1, <1>3, GaveIs
<1>6. x \in Stream
  BY <1>5, CatIn
<1>7. Tainted(line[p], Flow(line, x)[p - 1])
  BY <1>4, <1>5, TaintedCat
<1> HIDE DEF x
<1>8. Query!Raises(x)
  BY <1>1, <1>6, <1>7, QueryMeans DEF FailsOver
<1>9. QED
  BY <1>2, <1>8 DEF MayFail, x

\* A worker that raised.
LEMMA LostFails ==
  ASSUME FInv, phase = "head", NEW c \in lost
  PROVE  MayFail
<1>1. line \in Lines /\ Len(line) \in Nat /\ Ops = 1 .. Len(line) /\ lead \in 0 .. Len(line)
  BY LineIs DEF FInv, PInv, PlacesAre
<1>2. PInv /\ LineTold /\ BatchTold /\ ~Ended
  BY DEF FInv, Ended
<1>3. PICK took \in Took : Told(took)
  BY <1>2 DEF FInv
<1>4. Emptying /\ ~Finishing
  BY DEF Emptying, Finishing
<1>5. c \in 1 .. Len(taken) /\ taken \in Seq(Seq(Row)) /\ source \in Seq(Seq(Row)) /\ at = 1
  BY <1>2 DEF PInv, ChunksAre, PlacesAre
<1>6. PICK j \in 1 .. lead : Tainted(line[j], Flow(line, taken[c])[j - 1])
  BY <1>2, <1>4, <1>5 DEF BatchTold, LostTold
<1>7. PICK a \in Stream, b \in Stream : given = Cat(a, Cat(taken[c], b)) /\ taken[c] \in Stream
  <2>1. given = Cat(Gave(took, 0), Rest)
    BY <1>3, <1>4 DEF Told, SourceTold
  <2>2. Left = taken
    <3>1. SubSeq(taken, 1, Len(taken)) = taken
      BY <1>5, SubSeqFull
    <3>2. QED
      BY <1>4, <1>5, <3>1 DEF Left
  <2> DEFINE before == SubSeq(taken, 1, c - 1)
             after == SubSeq(taken, c + 1, Len(taken))
  <2>3. /\ before \in Seq(Seq(Row)) /\ after \in Seq(Seq(Row)) /\ taken[c] \in Seq(Row)
        /\ taken = before \o (<<taken[c]>> \o after)
    <3>1. /\ Len(taken) \in Nat /\ c \in Nat /\ c >= 1 /\ c <= Len(taken)
          /\ taken[c] \in Seq(Row)
      BY <1>5, ElementOfSeq
    <3>2. before \in Seq(Seq(Row)) /\ Len(before) = c - 1
          /\ \A i \in 1 .. c - 1 : before[i] = taken[i]
      BY <1>5, <3>1, SubSeqProperties
    <3>3. after \in Seq(Seq(Row)) /\ Len(after) = Len(taken) - c
          /\ \A i \in 1 .. Len(taken) - c : after[i] = taken[c + i]
      <4>1. c \in Nat /\ Len(taken) \in 0 .. Len(taken) /\ c <= Len(taken)
        BY <3>1
      <4>2. QED
        BY <1>5, <4>1, PartIs
    <3> HIDE DEF before, after
    <3>4. /\ <<taken[c]>> \in Seq(Seq(Row)) /\ Len(<<taken[c]>>) = 1 /\ <<taken[c]>>[1] = taken[c]
      BY <3>1
    <3> DEFINE one == <<taken[c]>>
               tail == one \o after
               whole == before \o tail
    <3>5. /\ tail \in Seq(Seq(Row)) /\ Len(tail) = 1 + (Len(taken) - c)
          /\ tail[1] = taken[c]
          /\ \A i \in 1 .. Len(taken) - c : tail[1 + i] = taken[c + i]
      <4> HIDE DEF one
      <4>1. /\ tail \in Seq(Seq(Row)) /\ Len(tail) = Len(one) + Len(after)
            /\ \A i \in 1 .. Len(one) : tail[i] = one[i]
            /\ \A i \in 1 .. Len(after) : tail[Len(one) + i] = after[i]
        BY <3>3, <3>4, JoinAt DEF one
      <4>2. Len(one) = 1 /\ one[1] = taken[c] /\ 1 \in 1 .. Len(one)
        BY <3>4 DEF one
      <4> HIDE DEF tail
      <4>3. QED
        BY <3>3, <4>1, <4>2
    <3> HIDE DEF tail, one
    <3>6. Len(taken) = Len(before) + Len(tail)
      BY <3>1, <3>2, <3>5
    <3>7. \A i \in 1 .. Len(before) : taken[i] = before[i]
      BY <3>2
    <3>8. \A i \in 1 .. Len(tail) : taken[Len(before) + i] = tail[i]
      <4>1. SUFFICES ASSUME NEW i \in 1 .. Len(tail)
                     PROVE  taken[(c - 1) + i] = tail[i]
        BY <3>2
      <4>2. CASE i = 1
        BY <3>1, <3>5, <4>2
      <4>3. CASE i # 1
        <5>1. i - 1 \in 1 .. Len(taken) - c /\ 1 + (i - 1) = i /\ c + (i - 1) = (c - 1) + i
          BY <3>1, <3>5, <4>3
        <5>2. tail[1 + (i - 1)] = taken[c + (i - 1)]
          BY <3>5, <5>1
        <5>3. QED
          BY <5>1, <5>2
      <4>4. QED
        BY <4>2, <4>3
    <3>9. taken = before \o tail
      BY <1>5, <3>2, <3>5, <3>6, <3>7, <3>8, IsJoin
    <3>10. QED
      BY <3>1, <3>2, <3>3, <3>9 DEF tail, one
  <2> HIDE DEF before, after
  <2>4. <<taken[c]>> \in Seq(Seq(Row)) /\ <<taken[c]>> \o after \in Seq(Seq(Row))
    <3>1. <<taken[c]>> \in Seq(Seq(Row))
      BY <2>3
    <3>2. QED
      BY <2>3, <3>1, ConcatProperties
  <2> DEFINE p == FlattenSeq(before)
             t == taken[c]
             q == FlattenSeq(after)
             r == FlattenSeq(source)
             g == Gave(took, 0)
  <2>5. FlattenSeq(taken) = Cat(p, Cat(t, q))
    <3>1. FlattenSeq(taken) = p \o FlattenSeq(<<taken[c]>> \o after)
      BY <2>3, <2>4, FlattenJoin
    <3>2. FlattenSeq(<<taken[c]>> \o after) = FlattenSeq(<<taken[c]>>) \o q
      BY <2>3, <2>4, FlattenJoin
    <3>3. FlattenSeq(<<taken[c]>>) = taken[c]
      BY <2>3, FlattenOne
    <3>4. QED
      BY <3>1, <3>2, <3>3 DEF Cat
  <2>6. p \in Stream /\ t \in Stream /\ q \in Stream /\ r \in Stream /\ g \in Stream
    <3>1. p \in Stream /\ q \in Stream /\ r \in Stream /\ t \in Stream
      BY <1>5, <2>3, FlattenIs DEF Stream
    <3>2. g \in Stream
      BY <1>1, <1>2, GaveIs
    <3>3. QED
      BY <3>1, <3>2
  <2>7. given = Cat(g, Cat(Cat(p, Cat(t, q)), r))
    BY <2>1, <2>2, <2>5 DEF Rest
  <2> HIDE DEF p, t, q, r, g
  <2>8. Cat(t, q) \in Stream /\ Cat(q, r) \in Stream /\ Cat(g, p) \in Stream
    BY ONLY <2>6, CatIn
  <2>9. Cat(Cat(p, Cat(t, q)), r) = Cat(p, Cat(t, Cat(q, r)))
    BY ONLY <2>6, <2>8, CatLeft
  <2>10. Cat(g, Cat(p, Cat(t, Cat(q, r)))) = Cat(Cat(g, p), Cat(t, Cat(q, r)))
    <3>1. Cat(t, Cat(q, r)) \in Stream
      BY ONLY <2>6, <2>8, CatIn
    <3>2. QED
      BY ONLY <2>6, <3>1, CatLeft
  <2>11. given = Cat(Cat(g, p), Cat(taken[c], Cat(q, r))) /\ taken[c] \in Stream
    BY <2>6, <2>7, <2>9, <2>10 DEF t
  <2>12. QED
    BY <2>8, <2>11
<1>8. j - 1 \in 0 .. lead /\ j \in Ops
  BY <1>1
<1>9. \A i \in 1 .. lead : IsRowLocal(line[i])
  BY <1>2 DEF LineTold
<1> DEFINE t == taken[c]
           k == j - 1
<1>10. Cat(t, b) \in Stream /\ t \in Stream
  BY <1>7, CatIn
<1>11. /\ Flow(line, Cat(a, Cat(t, b)))[k] = Cat(Flow(line, a)[k], Flow(line, Cat(t, b))[k])
       /\ Flow(line, Cat(t, b))[k] = Cat(Flow(line, t)[k], Flow(line, b)[k])
  BY <1>1, <1>7, <1>8, <1>9, <1>10, FlowSplits
<1>12. Flow(line, a)[k] \in Stream /\ Flow(line, t)[k] \in Stream /\ Flow(line, b)[k] \in Stream
  <2>1. k \in 0 .. Len(line)
    BY <1>1, <1>8
  <2>2. QED
    BY <1>1, <1>7, <1>10, <2>1, FlowIs
<1>13. Cat(Flow(line, t)[k], Flow(line, b)[k]) \in Stream
  BY <1>12, CatIn
<1>14. Tainted(line[j], Flow(line, given)[j - 1])
  <2>1. Tainted(line[j], Cat(Flow(line, t)[k], Flow(line, b)[k]))
    BY <1>6, <1>12, TaintedCat
  <2>2. Tainted(line[j], Cat(Flow(line, a)[k], Cat(Flow(line, t)[k], Flow(line, b)[k])))
    BY <1>12, <1>13, <2>1, TaintedCat
  <2>3. QED
    BY <1>7, <1>11, <2>2
<1>15. given \in Stream
  BY <1>2 DEF LineTold
<1>16. Query!Raises(given)
  BY <1>1, <1>8, <1>14, <1>15, QueryMeans DEF FailsOver
<1>17. SubSeq(given, 1, Len(given)) = given /\ Len(given) \in 0 .. Len(given)
  BY <1>15, SubSeqFull DEF Stream
<1>18. Query!Enough(Len(given))
  BY <1>17 DEF Query!Enough
<1>19. QED
  BY <1>16, <1>17, <1>18 DEF MayFail

\* Every node has finished.
LEMMA ReturnAnswers ==
  ASSUME FInv, Return
  PROVE  MayAnswer /\ FlattenSeq(sink) = Query!Answers(given)
<1>1. line \in Lines /\ Len(line) \in Nat /\ Ops = 1 .. Len(line)
  BY LineIs DEF FInv, PInv
<1>2. PInv /\ LineTold /\ phase = "finish" /\ at \notin Ops
  BY DEF FInv, Return
<1>3. PICK took \in Took : Told(took)
  BY <1>2 DEF FInv, Ended
<1>4. Finishing /\ at = Len(line) + 1
  <2>1. at \in 1 .. Len(line) + 1
    BY <1>2 DEF PInv, PlacesAre
  <2>2. QED
    BY <1>1, <1>2, <2>1 DEF Finishing
<1>5. \A i : Handed(i) = <<>>
  BY <1>2 DEF Handed
<1>6. \A i \in 0 .. Len(line) : Gave(took, i) = took[i + 1] /\ Gave(took, i) \in Stream
  BY <1>1, <1>2, <1>5, GaveIs, CatNone DEF Gave
<1> DEFINE x == Gave(took, 0)
<1>7. x \in Stream /\ Cat(x, <<>>) = x
  BY <1>1, <1>6, CatNone
<1>8. \A j \in 0 .. Len(line) : Flow(line, x)[j] = took[j + 1]
  <2>1. <<>> \in Stream
    BY CatNone
  <2>2. \A j \in 0 .. Len(line) : \E z \in Stream :
           /\ Flow(line, Cat(x, <<>>))[j] = Cat(Gave(took, j), z)
           /\ Finishing /\ j < at => z = <<>>
    BY <1>2, <1>3, <2>1, Starts DEF Told, LineTold
  <2>3. TAKE j \in 0 .. Len(line)
  <2>4. j < at
    BY <1>1, <1>4
  <2>5. PICK z \in Stream : Flow(line, x)[j] = Cat(Gave(took, j), z) /\ z = <<>>
    BY <1>4, <1>7, <2>2, <2>4
  <2>6. QED
    BY <1>6, <2>5, CatNone
<1> HIDE DEF x
<1>9. PICK n \in 0 .. Len(given) : /\ x = SubSeq(given, 1, n)
                                   /\ Flow(line, x)[Len(line)] = Flow(line, given)[Len(line)]
  BY <1>3, <1>4 DEF Told, SourceTold, FrontIsEnough, x
<1>10. given \in Stream
  BY <1>2 DEF LineTold
<1>11. Query!Enough(n)
  BY <1>1, <1>7, <1>9, <1>10, QueryMeans DEF Query!Enough
<1>12. ~Query!Raises(x)
  <2>1. ASSUME NEW i \in Ops, Tainted(line[i], Flow(line, x)[i - 1]) PROVE FALSE
    <3>1. i - 1 \in 0 .. Len(line) /\ (i - 1) + 1 = i
      BY <1>1
    <3>2. Flow(line, x)[i - 1] = took[i]
      BY <1>8, <3>1
    <3>3. ~Tainted(line[i], took[i])
      BY <1>3 DEF Told, NodesTold
    <3>4. QED
      BY <2>1, <3>2, <3>3
  <2>2. QED
    BY <1>1, <1>7, <2>1, QueryMeans DEF FailsOver
<1>13. FlattenSeq(sink) = Query!Answers(given)
  <2>1. Len(line) \in 0 .. Len(line)
    BY <1>1
  <2>2. Flow(line, x)[Len(line)] = took[Len(line) + 1]
    BY <1>8, <2>1
  <2>3. QED
    BY <1>1, <1>3, <1>9, <1>10, <2>2, QueryMeans DEF Told
<1>14. QED
  BY <1>9, <1>11, <1>12, <1>13 DEF MayAnswer
-----------------------------------------------------------------------------
(***************************************************************************)
(* What each step of the driver leaves of it.                              *)
(***************************************************************************)

\* What an invariant of the flow leaves to be shown once PInv is.
FNext == LineTold /\ BatchTold /\ (~Ended => \E took \in Took : Told(took))

LEMMA LeadIsRowLocal ==
  ASSUME line \in Lines, NEW chunks
  PROVE  \A i \in 1 .. ParallelLead(chunks) : IsRowLocal(line[i])
<1> DEFINE run == {n \in 0 .. Len(line) : \A i \in 1 .. n : IsRowLocal(line[i])}
           longest == CHOOSE n \in run : \A m \in run : m <= n
<1>1. Len(line) \in Nat
  BY LineIs
<1>2. 0 \in run
  BY <1>1
<1>3. \A n \in run : \A i \in 1 .. n : IsRowLocal(line[i])
  OBVIOUS
<1> HIDE DEF run
<1>4. run \in SUBSET (0 .. Len(line))
  BY DEF run
<1>5. \E n \in run : \A m \in run : m <= n
  BY <1>1, <1>2, <1>4, HasLargest
<1>6. longest \in run
  BY <1>5
<1> HIDE DEF longest
<1>7. PrefixLead \in {0, longest}
  BY DEF PrefixLead, run, longest
<1>8. ParallelLead(chunks) \in {0, longest}
  BY <1>7 DEF ParallelLead
<1>9. QED
  BY <1>2, <1>3, <1>6, <1>8

\* A step that pushes nothing and finishes nothing.
LEMMA Quiet ==
  ASSUME PInv, NEW took \in Took, Told(took), ~Finishing,
         UNCHANGED <<line, given, nodes, sink>>,
         phase # "push", phase' # "push", Finishing' => at' = 1
  PROVE  /\ took \in Took' /\ Gave(took, 0)' = Gave(took, 0)
         /\ took[Len(line) + 1]' = FlattenSeq(sink)'
         /\ NodesTold(took)'
<1>1. \A i : Handed(i)' = <<>> /\ Handed(i) = <<>>
  BY DEF Handed
<1>2. \A i : Gave(took, i)' = Gave(took, i)
  BY <1>1 DEF Gave
<1>3. Ops' = Ops
  BY DEF Ops
<1>4. Ops = 1 .. Len(line) /\ Len(line) \in Nat
  BY LineIs DEF PInv
<1>5. ASSUME NEW i \in Ops
      PROVE  /\ Open(i)' => OpenTold(took, i)'
             /\ ~Open(i)' => ClosedTold(took, i)'
             /\ ~Tainted(line'[i], took[i])
  <2>1. OpenTold(took, i) /\ ~Tainted(line[i], took[i])
    BY <1>5 DEF Told, NodesTold, Open
  <2>2. OpenTold(took, i)'
    BY <1>2, <2>1 DEF OpenTold
  <2>3. ASSUME ~Open(i)' PROVE ClosedTold(took, i)'
    <3>1. Finishing' /\ at' = 1 /\ ~(i < 1)
      BY <1>4, <2>3 DEF Open
    <3>2. took[i] \in Stream /\ <<>> \in Stream /\ Cat(took[i], <<>>) = took[i]
      BY <1>4, CatNone DEF Took
    <3>3. Cat(Gave(took, i), Gives(line[i], nodes[i], <<>>)) = Does(line[i], took[i])
      BY <2>1, <3>2 DEF OpenTold
    <3>4. QED
      BY <1>2, <3>1, <3>3 DEF ClosedTold
  <2>4. QED
    BY <2>1, <2>2, <2>3
<1>6. NodesTold(took)'
  BY <1>3, <1>5 DEF NodesTold
<1>7. QED
  BY <1>2, <1>6 DEF Took, Told

LEMMA InitTells ==
  ASSUME Init
  PROVE  FInv
<1>0. PInv
  BY InitHolds
<1>1. line \in Lines /\ source \in Seq(Seq(Row)) /\ given = FlattenSeq(source)
  BY Inputs DEF Init
<1>2. Len(line) \in Nat /\ Ops = 1 .. Len(line) /\ \A i \in Ops : line[i] \in Operators
  BY <1>1, LineIs
<1>3. /\ taken = <<>> /\ hand = <<>> /\ todo = {} /\ lost = {} /\ sink = <<>>
      /\ phase = "call" /\ then = "serial" /\ lead = 0 /\ pos = 1 /\ at = 1
      /\ nodes = [i \in Ops |-> Fresh]
  BY DEF Init
<1>4. given \in Stream
  BY <1>1, FlattenIs DEF Stream
<1>5. LineTold
  <2>1. <<>> \in Seq(Seq(Row))
    OBVIOUS
  <2>2. QED
    BY <1>2, <1>3, <1>4, <2>1, FreshCovers DEF LineTold
<1>6. BatchTold
  BY <1>3 DEF BatchTold, Emptying, Draining
<1> DEFINE took == [i \in 1 .. Len(line) + 1 |-> <<>>]
<1>7. took \in Took /\ <<>> \in Stream
  BY CatNone DEF Took
<1>8. \A i \in 0 .. Len(line) : Gave(took, i) = <<>>
  <2>1. TAKE i \in 0 .. Len(line)
  <2>2. took[i + 1] = <<>>
    BY <1>2
  <2>3. Handed(i) = <<>>
    BY <1>3 DEF Handed
  <2> HIDE DEF took
  <2>4. QED
    BY <2>2, <2>3, CatNone DEF Gave
<1>9. \A i \in 1 .. Len(line) + 1 : took[i] = <<>>
  OBVIOUS
<1> HIDE DEF took
<1>10. NodesTold(took)
  <2>1. SUFFICES ASSUME NEW i \in Ops
                 PROVE  OpenTold(took, i) /\ ~Tainted(line[i], took[i])
    BY <1>3 DEF NodesTold, Open, Finishing
  <2>2. took[i] = <<>> /\ Gave(took, i) = <<>> /\ nodes[i] = Fresh
    BY <1>2, <1>3, <1>8, <1>9
  <2>3. ~Tainted(line[i], took[i])
    BY <2>2, TaintedNone
  <2>4. ~nodes[i].ran
    BY <2>2 DEF Fresh
  <2>5. ASSUME NEW y \in Stream
        PROVE  Cat(Gave(took, i), Gives(line[i], nodes[i], y)) = Does(line[i], Cat(took[i], y))
    <3>1. Does(line[i], y) \in Stream
      BY <1>2, <2>5, DoesIs
    <3>2. Cat(<<>>, y) = y /\ Cat(<<>>, Does(line[i], y)) = Does(line[i], y)
      BY <2>5, <3>1, CatNone
    <3>3. Gives(line[i], nodes[i], y) = Does(line[i], y)
      BY <2>2 DEF Does
    <3>4. QED
      BY <2>2, <3>2, <3>3
  <2>6. QED
    BY <2>3, <2>4, <2>5 DEF OpenTold
<1>11. SourceTold(took)
  <2>1. Left = <<>>
    BY <1>3 DEF Left, Emptying
  <2>2. Rest = given
    BY <1>1, <1>4, <2>1, FlattenNone, CatNone DEF Rest
  <2>3. Gave(took, 0) = <<>>
    BY <1>2, <1>8
  <2>4. given = Cat(Gave(took, 0), Rest)
    BY <1>4, <2>2, <2>3, CatNone
  <2>5. QED
    BY <1>3, <2>4 DEF SourceTold, Finishing
<1>12. Told(took)
  <2>1. took[Len(line) + 1] = FlattenSeq(sink)
    BY <1>2, <1>3, <1>9, FlattenNone
  <2>2. QED
    BY <1>10, <1>11, <2>1 DEF Told
<1>13. QED
  BY <1>0, <1>5, <1>6, <1>7, <1>12 DEF FInv
-----------------------------------------------------------------------------
\* What an invariant says of the state a step starts from.
LEMMA Now ==
  ASSUME FInv
  PROVE  /\ PInv /\ LineTold /\ BatchTold
         /\ line \in Lines /\ Len(line) \in Nat /\ Ops = 1 .. Len(line)
         /\ \A i \in Ops : line[i] \in Operators /\ Fits(line[i], nodes[i])
         /\ source \in Seq(Seq(Row)) /\ taken \in Seq(Seq(Row))
         /\ FlattenSeq(source) \in Stream /\ given \in Stream
<1>1. PInv /\ LineTold /\ BatchTold
  BY DEF FInv
<1>2. source \in Seq(Seq(Row)) /\ taken \in Seq(Seq(Row)) /\ given \in Stream
  BY <1>1 DEF PInv, ChunksAre, LineTold
<1>3. FlattenSeq(source) \in Stream
  BY <1>2, FlattenIs DEF Stream
<1>4. line \in Lines /\ \A i \in Ops : Fits(line[i], nodes[i])
  BY <1>1 DEF PInv, NodesFit
<1>5. QED
  BY <1>1, <1>2, <1>3, <1>4, LineIs

LEMMA StartTells ==
  ASSUME FInv, Start
  PROVE  FNext'
<1>1. /\ UNCHANGED <<line, given, nodes, taken, todo, lost, at, hand, pos, then, sink>>
      /\ phase = "call" /\ phase' \in {"read", "serial"}
      /\ lead' = ParallelLead(source')
      /\ source' = Morsels(source) \/ source' = source
  BY DEF Start, job, batch, push
<1>2. PICK took \in Took : Told(took)
  BY <1>1 DEF FInv, Ended
<1>3. ~Finishing /\ ~Finishing' /\ ~Emptying /\ ~Emptying' /\ ~Draining' /\ phase' # "push"
  BY <1>1 DEF Finishing, Emptying, Draining
<1>4. /\ took \in Took' /\ Gave(took, 0)' = Gave(took, 0)
      /\ took[Len(line) + 1]' = FlattenSeq(sink)'
      /\ NodesTold(took)'
  BY <1>1, <1>2, <1>3, Now, Quiet
<1>5. FlattenSeq(source') = FlattenSeq(source)
  BY <1>1, Now, MorselsFlatten
<1>6. Left = <<>> /\ Left' = <<>>
  BY <1>3 DEF Left
<1>7. Rest' = Rest
  BY <1>5, <1>6 DEF Rest
<1>8. SourceTold(took)'
  BY <1>1, <1>2, <1>3, <1>4, <1>7 DEF Told, SourceTold
<1>9. \A i \in 1 .. lead' : IsRowLocal(line[i])
  BY <1>1, Now, LeadIsRowLocal
<1>10. LineTold'
  BY <1>1, <1>3, <1>9, Now DEF LineTold, Ops
<1>11. BatchTold'
  BY <1>3 DEF BatchTold
<1>12. Told(took)'
  BY <1>4, <1>8 DEF Told
<1>13. QED
  BY <1>4, <1>10, <1>11, <1>12 DEF FNext

\* A chunk read and put in hand.
LEMMA SerialStepTells ==
  ASSUME FInv, SerialStep
  PROVE  FNext'
<1>1. /\ UNCHANGED <<line, given, lead, nodes, taken, made, todo, lost, at, sink>>
      /\ phase = "serial" /\ source # <<>>
      /\ phase' = "push" /\ hand' = Head(source) /\ pos' = 1 /\ then' = "serial"
      /\ source' = Tail(source)
  BY DEF SerialStep, Push, job, batch, push
<1>2. PICK took \in Took : Told(took)
  BY <1>1 DEF FInv, Ended
<1>3. ~Finishing /\ ~Finishing' /\ ~Emptying /\ ~Emptying' /\ ~Draining'
  BY <1>1 DEF Finishing, Emptying, Draining
<1>4. \A i \in Nat : Handed(i) = <<>> /\ Handed(i)' = IF i = 0 THEN Head(source) ELSE <<>>
  BY <1>1 DEF Handed
<1>5. /\ Head(source) \in Stream
      /\ FlattenSeq(source) = Cat(Head(source), FlattenSeq(Tail(source)))
      /\ FlattenSeq(Tail(source)) \in Stream
  <2>1. Head(source) \in Seq(Row) /\ Tail(source) \in Seq(Seq(Row))
    BY <1>1, Now, HeadTailProperties
  <2>2. QED
    BY <1>1, <2>1, Now, FlattenHead, FlattenIs DEF Stream, Cat
<1>6. \A i \in Ops : Gave(took, i)' = Gave(took, i)
  <2>1. \A i \in Ops : i \in Nat /\ i # 0
    BY Now
  <2>2. QED
    BY <1>4, <2>1 DEF Gave
<1>7. Gave(took, 0)' = Cat(Gave(took, 0), Head(source)) /\ Gave(took, 0) \in Stream
  <2>1. Gave(took, 0) \in Stream /\ took[1] \in Stream
    BY Now, GaveIs
  <2>2. Gave(took, 0) = took[1]
    BY <1>4, <2>1, CatNone DEF Gave
  <2>3. QED
    BY <1>4, <2>1, <2>2 DEF Gave
<1>8. NodesTold(took)'
  <2>1. Ops' = Ops
    BY <1>1 DEF Ops
  <2>2. ASSUME NEW i \in Ops
        PROVE  Open(i)' /\ OpenTold(took, i)' /\ ~Tainted(line'[i], took[i])
    <3>1. OpenTold(took, i) /\ ~Tainted(line[i], took[i])
      BY <1>2, <1>3, <2>2 DEF Told, NodesTold, Open
    <3>2. Open(i)'
      BY <1>3 DEF Open
    <3>3. OpenTold(took, i)'
      BY <1>1, <1>6, <3>1 DEF OpenTold
    <3>4. QED
      BY <1>1, <3>1, <3>2, <3>3
  <2>3. QED
    BY <2>1, <2>2 DEF NodesTold
<1>9. SourceTold(took)'
  <2>1. Rest = FlattenSeq(source)
    <3>1. Left = <<>>
      BY <1>3 DEF Left
    <3>2. QED
      BY <3>1, Now, FlattenNone, CatNone DEF Rest
  <2>2. Rest' = FlattenSeq(Tail(source))
    <3>1. Left' = <<>>
      BY <1>3 DEF Left
    <3>2. QED
      BY <1>1, <1>5, <3>1, FlattenNone, CatNone DEF Rest
  <2>3. given = Cat(Gave(took, 0), Cat(Head(source), FlattenSeq(Tail(source))))
    BY <1>2, <1>3, <1>5, <2>1 DEF Told, SourceTold
  <2>4. given = Cat(Cat(Gave(took, 0), Head(source)), FlattenSeq(Tail(source)))
    BY ONLY <1>5, <1>7, <2>3, CatLeft
  <2>5. QED
    BY <1>1, <1>3, <1>7, <2>2, <2>4 DEF SourceTold
<1>10. LineTold'
  BY <1>1, Now DEF LineTold, Ops
<1>11. BatchTold'
  BY <1>3 DEF BatchTold
<1>12. Told(took)' /\ took \in Took'
  BY <1>1, <1>2, <1>8, <1>9 DEF Told, Took
<1>13. QED
  BY <1>10, <1>11, <1>12 DEF FNext

\* A batch read.
LEMMA ReadTells ==
  ASSUME FInv, ReadBatch
  PROVE  FNext'
<1> DEFINE count == Least(Len(source), WorkerCount * BATCH_CHUNKS_PER_WORKER)
<1>1. /\ UNCHANGED <<line, given, lead, nodes, lost, at, hand, pos, then, sink>>
      /\ phase = "read" /\ phase' = "head" /\ count > 0
      /\ taken' = SubSeq(source, 1, count)
      /\ source' = SubSeq(source, count + 1, Len(source))
      /\ todo' = 1 .. count
  BY DEF ReadBatch, job, push
<1>2. PICK took \in Took : Told(took)
  BY <1>1 DEF FInv, Ended
<1>3. ~Finishing /\ ~Finishing' /\ ~Emptying /\ ~Draining' /\ phase' # "push"
  BY <1>1 DEF Finishing, Emptying, Draining
<1>4. /\ took \in Took' /\ Gave(took, 0)' = Gave(took, 0)
      /\ took[Len(line) + 1]' = FlattenSeq(sink)'
      /\ NodesTold(took)'
  BY <1>1, <1>2, <1>3, Now, Quiet
<1>5. at = 1 /\ lost = {}
  BY <1>1, Now DEF PInv, PlacesAre, Serving
<1>6. count \in 0 .. Len(source) /\ Len(source) \in Nat
  <2>1. Len(source) \in Nat /\ WorkerCount * BATCH_CHUNKS_PER_WORKER \in Int
    BY Now, Sizes
  <2>2. QED
    BY <1>1, <2>1 DEF Least
<1> HIDE DEF count
<1>7. /\ taken' \in Seq(Seq(Row)) /\ source' \in Seq(Seq(Row))
      /\ Len(taken') = count
      /\ source = taken' \o source'
  <2> DEFINE a == SubSeq(source, 1, count)
             b == SubSeq(source, count + 1, Len(source))
  <2>0. source \in Seq(Seq(Row)) /\ count \in Nat /\ Len(source) \in 0 .. Len(source)
        /\ count <= Len(source)
    BY <1>6, Now
  <2>1. a \in Seq(Seq(Row)) /\ Len(a) = count /\ \A i \in 1 .. count : a[i] = source[i]
    BY <1>6, <2>0, SubSeqProperties
  <2>2. b \in Seq(Seq(Row)) /\ Len(b) = Len(source) - count
        /\ \A i \in 1 .. Len(source) - count : b[i] = source[count + i]
    BY <2>0, PartIs
  <2> HIDE DEF a, b
  <2>3. Len(source) = Len(a) + Len(b)
    BY <1>6, <2>1, <2>2
  <2>4. \A i \in 1 .. Len(b) : source[Len(a) + i] = b[i]
    BY <2>1, <2>2
  <2>5. \A i \in 1 .. Len(a) : source[i] = a[i]
    BY <2>1
  <2>6. source = a \o b
    BY <2>0, <2>1, <2>2, <2>3, <2>4, <2>5, IsJoin
  <2>7. QED
    BY <1>1, <2>1, <2>2, <2>6 DEF a, b
<1>8. FlattenSeq(source) = Cat(FlattenSeq(taken'), FlattenSeq(source'))
  BY <1>7, FlattenJoin DEF Cat
<1>9. Emptying' /\ at' = 1
  BY <1>1, <1>5 DEF Emptying
<1>10. Rest' = Rest
  <2>1. Left = <<>>
    BY <1>3 DEF Left
  <2>2. Rest = FlattenSeq(source)
    BY <2>1, Now, FlattenNone, CatNone DEF Rest
  <2>3. Left' = SubSeq(taken', 1, Len(taken'))
    BY <1>9 DEF Left
  <2>4. Left' = taken'
    BY <1>7, <2>3, SubSeqFull
  <2>5. QED
    BY <1>8, <2>2, <2>4 DEF Rest
<1>11. SourceTold(took)'
  BY <1>1, <1>2, <1>3, <1>4, <1>10 DEF Told, SourceTold
<1>12. LineTold'
  BY <1>1, <1>3, Now DEF LineTold, Ops
<1>13. BatchTold'
  BY <1>1, <1>3, <1>5, <1>7 DEF BatchTold
<1>14. Told(took)'
  BY <1>4, <1>11 DEF Told
<1>15. QED
  BY <1>4, <1>12, <1>13, <1>14 DEF FNext
-----------------------------------------------------------------------------
\* What is the same after an operator is the same at the end.
LEMMA FlowFrom ==
  ASSUME line \in Lines, NEW a \in Stream, NEW b \in Stream, NEW i \in 0 .. Len(line),
         Flow(line, a)[i] = Flow(line, b)[i]
  PROVE  Flow(line, a)[Len(line)] = Flow(line, b)[Len(line)]
<1>1. Len(line) \in Nat /\ Ops = 1 .. Len(line)
  BY LineIs
<1> DEFINE f == Flow(line, a)
           g == Flow(line, b)
           K == {k \in Nat : i <= k /\ k <= Len(line) => f[k] = g[k]}
<1>2. /\ \A k \in Ops : f[k] = Does(line[k], f[k - 1])
      /\ \A k \in Ops : g[k] = Does(line[k], g[k - 1])
      /\ f[i] = g[i]
  BY FlowIs
<1> HIDE DEF f, g
<1>3. 0 \in K
  BY <1>1, <1>2
<1>4. \A k \in Nat : k \in K => k + 1 \in K
  <2>1. SUFFICES ASSUME NEW k \in Nat, k \in K, i <= k + 1, k + 1 <= Len(line)
                 PROVE  f[k + 1] = g[k + 1]
    OBVIOUS
  <2>2. CASE i = k + 1
    BY <1>2, <2>2
  <2>3. CASE i # k + 1
    <3> DEFINE m == k + 1
    <3>1. m \in Ops /\ m - 1 = k /\ f[k] = g[k]
      BY <1>1, <2>1, <2>3
    <3> HIDE DEF m
    <3>2. f[m] = g[m]
      BY <1>2, <3>1
    <3>3. QED
      BY <3>2 DEF m
  <2>4. QED
    BY <2>2, <2>3
<1> HIDE DEF K
<1>5. Len(line) \in K
  BY <1>1, <1>3, <1>4, NatSets
<1>6. QED
  BY <1>1, <1>5 DEF K, f, g

LEMMA FrontOfCat ==
  ASSUME NEW a \in Stream, NEW b \in Stream
  PROVE  Len(a) \in 0 .. Len(Cat(a, b)) /\ SubSeq(Cat(a, b), 1, Len(a)) = a
<1> DEFINE c == Cat(a, b)
<1>1. /\ c \in Seq(Row) /\ Len(c) = Len(a) + Len(b)
      /\ Len(a) \in Nat /\ Len(b) \in Nat
      /\ \A i \in 1 .. Len(a) : c[i] = a[i]
  BY JoinAt DEF Cat, Stream
<1> HIDE DEF c
<1>2. Len(a) \in 0 .. Len(c)
  BY <1>1
<1>3. /\ SubSeq(c, 1, Len(a)) \in Seq(Row) /\ Len(SubSeq(c, 1, Len(a))) = Len(a)
      /\ \A i \in 1 .. Len(a) : SubSeq(c, 1, Len(a))[i] = c[i]
  BY <1>1, <1>2, SubSeqProperties
<1>4. a \in Seq(Row)
  BY DEF Stream
<1>5. SubSeq(c, 1, Len(a)) = a
  BY <1>1, <1>3, <1>4, SeqEqual
<1>6. QED
  BY <1>2, <1>5 DEF c

\* An operator that says it is finished while rows come gives nothing more.
LEMMA FinishedGives ==
  ASSUME FInv, NEW i \in Ops, ~nodes[i].ran, Finished(line[i], nodes[i])
  PROVE  \A y \in Stream : Gives(line[i], nodes[i], y) = <<>>
<1>1. line[i] \in Operators /\ Fits(line[i], nodes[i])
  BY Now
<1>2. line[i].kind = "limit" /\ LimitReached(line[i], nodes[i])
  BY <1>1 DEF Finished
<1>3. \A y \in Stream : Window(line[i], nodes[i], y) = <<>>
  BY <1>1, <1>2, WindowClosed
<1>4. QED
  BY <1>2, <1>3 DEF Gives

LEMMA FrontWhenDone ==
  ASSUME FInv, phase \in {"serial", "read"}, NothingMore \/ source = <<>>,
         NEW took \in Took, Told(took)
  PROVE  FrontIsEnough(took)
<1>1. ~Finishing /\ ~Emptying /\ phase # "push"
  BY DEF Finishing, Emptying
<1> DEFINE g == Gave(took, 0)
           r == FlattenSeq(source)
<1>2. g \in Stream /\ r \in Stream
  BY Now, GaveIs
<1>3. given = Cat(g, r)
  <2>1. Left = <<>>
    BY <1>1 DEF Left
  <2>2. Rest = r
    BY <1>2, <2>1, FlattenNone, CatNone DEF Rest
  <2>3. QED
    BY <1>1, <2>2 DEF Told, SourceTold
<1>4. Len(g) \in 0 .. Len(given) /\ SubSeq(given, 1, Len(g)) = g
  BY <1>2, <1>3, FrontOfCat
<1>5. Flow(line, g)[Len(line)] = Flow(line, given)[Len(line)]
  <2>1. CASE source = <<>>
    <3>1. r = <<>> /\ given = g
      BY <1>2, <1>3, <2>1, FlattenNone, CatNone
    <3>2. QED
      BY <3>1
  <2>2. CASE NothingMore
    <3>1. PICK i \in Ops : Finished(line[i], nodes[i])
      BY <2>2 DEF NothingMore
    <3>2. OpenTold(took, i)
      BY <1>1, <3>1 DEF Told, NodesTold, Open
    <3>3. \A y \in Stream : Gives(line[i], nodes[i], y) = <<>>
      BY <3>1, <3>2, FinishedGives DEF OpenTold
    <3>4. i \in 0 .. Len(line) /\ i - 1 \in 0 .. Len(line) /\ (i - 1) + 1 = i
      BY Now
    <3>5. Gave(took, i - 1) = took[i] /\ took[i] \in Stream /\ Gave(took, i) \in Stream
      <4>1. took[i] \in Stream /\ Gave(took, i) \in Stream
        BY <3>4, Now, GaveIs
      <4>2. Handed(i - 1) = <<>>
        BY <1>1 DEF Handed
      <4>3. QED
        BY <3>4, <4>1, <4>2, CatNone DEF Gave
    <3>6. ASSUME NEW y \in Stream
          PROVE  Flow(line, Cat(g, y))[i] = Gave(took, i)
      <4>1. PICK z \in Stream : Flow(line, Cat(g, y))[i - 1] = Cat(Gave(took, i - 1), z)
        BY <1>1, <3>4, <3>6, Now, Starts DEF Told
      <4>2. Cat(g, y) \in Stream
        BY <1>2, <3>6, CatIn
      <4>3. Flow(line, Cat(g, y))[i] = Does(line[i], Cat(took[i], z))
        BY <3>5, <4>1, <4>2, Now, FlowIs
      <4>4. Does(line[i], Cat(took[i], z)) = Cat(Gave(took, i), Gives(line[i], nodes[i], z))
        BY <3>2 DEF OpenTold
      <4>5. Cat(Gave(took, i), Gives(line[i], nodes[i], z)) = Gave(took, i)
        BY <3>3, <3>5, CatNone
      <4>6. QED
        BY <4>3, <4>4, <4>5
    <3>7. Flow(line, g)[i] = Flow(line, given)[i]
      <4>1. Cat(g, <<>>) = g /\ <<>> \in Stream
        BY <1>2, CatNone
      <4> HIDE DEF g, r
      <4>2. Flow(line, Cat(g, <<>>))[i] = Flow(line, Cat(g, r))[i]
        BY <1>2, <3>6, <4>1
      <4>3. QED
        BY <1>3, <4>1, <4>2
    <3> HIDE DEF g
    <3>8. QED
      BY <1>2, <3>4, <3>7, Now, FlowFrom
  <2>3. QED
    BY <2>1, <2>2
<1>6. QED
  BY <1>4, <1>5 DEF FrontIsEnough

\* The source is over, or nothing more is asked of it.
LEMMA StopTells ==
  ASSUME FInv, SerialStop \/ SourceDone
  PROVE  FNext'
<1>1. /\ UNCHANGED <<line, given, source, lead, nodes, taken, made, todo, lost, at,
                     hand, pos, then, sink>>
      /\ phase \in {"serial", "read"} /\ phase' = "finish"
      /\ NothingMore \/ source = <<>>
  BY DEF SerialStop, SourceDone, job, batch, push
<1>2. PICK took \in Took : Told(took)
  BY <1>1 DEF FInv, Ended
<1>3. /\ ~Finishing /\ Finishing' /\ ~Emptying' /\ ~Draining'
      /\ phase # "push" /\ phase' # "push"
  BY <1>1 DEF Finishing, Emptying, Draining
<1>4. at' = 1
  BY <1>1, Now DEF PInv, PlacesAre, Serving
<1>5. /\ took \in Took' /\ Gave(took, 0)' = Gave(took, 0)
      /\ took[Len(line) + 1]' = FlattenSeq(sink)'
      /\ NodesTold(took)'
  BY <1>1, <1>2, <1>3, <1>4, Now, Quiet
<1>6. FrontIsEnough(took)
  BY <1>1, <1>2, FrontWhenDone
<1>7. FrontIsEnough(took)'
  BY <1>1, <1>5, <1>6 DEF FrontIsEnough
<1>8. SourceTold(took)'
  BY <1>3, <1>7 DEF SourceTold
<1>9. LineTold'
  BY <1>1, <1>3, Now DEF LineTold, Ops
<1>10. BatchTold'
  BY <1>3 DEF BatchTold
<1>11. Told(took)'
  BY <1>5, <1>8 DEF Told
<1>12. QED
  BY <1>5, <1>9, <1>10, <1>11 DEF FNext
-----------------------------------------------------------------------------
\* One chunk through the leading operators, by any of the workers.
LEMMA RunHeadTells ==
  ASSUME FInv, NEW c \in DOMAIN taken, RunHead(c)
  PROVE  FNext'
<1>1. /\ UNCHANGED <<line, given, source, phase, lead, nodes, taken, at, hand, pos,
                     then, sink>>
      /\ phase = "head" /\ c \in todo
  BY DEF RunHead, job, push
<1> DEFINE r == Prefix(taken[c])
           slot == IF Folding /\ r.out # None THEN Partial(r.out[1]) ELSE r.out
           flow == Flow(line, taken[c])
<1>2. /\ todo' = todo \ {c}
      /\ lost' = IF r.raised THEN lost \cup {c} ELSE lost
      /\ made' = [made EXCEPT ![c] = slot]
  BY DEF RunHead
<1>3. PICK took \in Took : Told(took)
  BY <1>1 DEF FInv, Ended
<1>4. ~Finishing /\ ~Finishing' /\ Emptying /\ Emptying' /\ ~Draining' /\ phase # "push"
  BY <1>1 DEF Finishing, Emptying, Draining
<1>5. /\ took \in Took' /\ Gave(took, 0)' = Gave(took, 0)
      /\ took[Len(line) + 1]' = FlattenSeq(sink)'
      /\ NodesTold(took)'
  BY <1>1, <1>3, <1>4, Now, Quiet
<1>6. Rest' = Rest
  <2>1. Left' = Left
    BY <1>1, <1>4 DEF Left
  <2>2. QED
    BY <1>1, <2>1 DEF Rest
<1>7. SourceTold(took)'
  BY <1>1, <1>3, <1>4, <1>5, <1>6 DEF Told, SourceTold
<1>8. LineTold'
  BY <1>1, <1>4, Now DEF LineTold, Ops
<1>9. c \in 1 .. Len(taken) /\ taken[c] \in Stream
  BY Now, ElementOfSeq DEF Stream
<1>10. lead \in 0 .. Len(line) /\ \A i \in 1 .. lead : IsRowLocal(line[i])
  BY Now DEF PInv, PlacesAre, LineTold
<1>11. /\ ~r.raised => /\ Out(r) = flow[lead]
                       /\ \A j \in 1 .. lead : ~Tainted(line[j], flow[j - 1])
       /\ r.raised => \E j \in 1 .. lead : Tainted(line[j], flow[j - 1])
  BY <1>9, <1>10, Now, PrefixFlows
<1>12. r.out \in Opt(Seq(Row)) /\ r.raised \in BOOLEAN
  BY <1>9, <1>10, Now, PrefixIs DEF Stream, PInv
<1>13. made'[c] = slot /\ \A b \in 1 .. Len(taken) : b # c => made'[b] = made[b]
  <2>1. DOMAIN made = 1 .. Len(taken)
    BY Now DEF PInv, ChunksAre
  <2> HIDE DEF slot
  <2>2. QED
    BY <1>2, <1>9, <2>1
<1> HIDE DEF r
<1>14. Folding' = Folding
  BY <1>1 DEF Folding
<1>15. ASSUME NEW b \in 1 .. Len(taken), b # c
       PROVE  (SlotTold(b) => SlotTold(b)') /\ (LostTold(b) => LostTold(b)')
  BY <1>1, <1>13, <1>14, <1>15 DEF SlotTold, LostTold
<1>16. r.raised => LostTold(c)'
  BY <1>1, <1>11 DEF LostTold
<1>17. ASSUME ~r.raised PROVE SlotTold(c)'
  <2>1. Out(r) = flow[lead] /\ \A j \in 1 .. lead : ~Tainted(line[j], flow[j - 1])
    BY <1>11, <1>17
  <2>2. CASE Folding
    <3>1. CASE r.out = None
      <4>1. slot = None /\ flow[lead] = <<>>
        BY <2>1, <2>2, <3>1 DEF Out
      <4>2. Partial(<<>>) = None
        BY DEF Partial
      <4>3. made'[c] = Partial(flow[lead])
        BY <1>13, <4>1, <4>2
      <4> HIDE DEF flow, slot
      <4>4. QED
        BY <1>1, <1>14, <2>1, <2>2, <4>3 DEF SlotTold, flow
    <3>2. CASE r.out # None
      <4>1. slot = Partial(flow[lead])
        BY <2>1, <2>2, <3>2 DEF Out
      <4>2. made'[c] = Partial(flow[lead])
        BY <1>13, <4>1
      <4> HIDE DEF flow, slot
      <4>3. QED
        BY <1>1, <1>14, <2>1, <2>2, <4>2 DEF SlotTold, flow
    <3>3. QED
      BY <3>1, <3>2
  <2>3. CASE ~Folding
    <3>1. slot = r.out
      BY <2>3
    <3>2. flow[lead] = IF made'[c] = None THEN <<>> ELSE made'[c][1]
      BY <1>13, <2>1, <3>1 DEF Out
    <3> HIDE DEF flow, slot
    <3>3. QED
      BY <1>1, <1>14, <2>1, <2>3, <3>2 DEF SlotTold, flow
  <2>4. QED
    BY <2>2, <2>3
<1>18. BatchTold'
  <2>1. SUFFICES ASSUME NEW b \in 1 .. Len(taken)
                 PROVE  /\ b \notin todo' \cup lost' => SlotTold(b)'
                        /\ b \in lost' => LostTold(b)'
    BY <1>1, <1>4 DEF BatchTold
  <2>2. /\ b \notin todo \cup lost => SlotTold(b)
        /\ b \in lost => LostTold(b)
    BY <1>4, <2>1, Now DEF BatchTold
  <2>3. CASE b # c
    <3>1. (b \notin todo' \cup lost' => b \notin todo \cup lost) /\ (b \in lost' => b \in lost)
      BY <1>2, <2>3
    <3>2. (SlotTold(b) => SlotTold(b)') /\ (LostTold(b) => LostTold(b)')
      BY <1>15, <2>1, <2>3
    <3>3. QED
      BY <2>2, <3>1, <3>2
  <2>4. CASE b = c
    <3>1. CASE r.raised
      BY <1>2, <1>16, <2>4, <3>1
    <3>2. CASE ~r.raised
      <4>1. b \in lost' => LostTold(c)'
        <5>1. LostTold(c) => LostTold(c)'
          BY <1>1 DEF LostTold
        <5>2. QED
          BY <1>2, <2>2, <2>4, <3>2, <5>1
      <4>2. QED
        BY <1>17, <2>4, <3>2, <4>1
    <3>3. QED
      BY <3>1, <3>2
  <2>5. QED
    BY <2>3, <2>4
<1>19. Told(took)'
  BY <1>5, <1>7 DEF Told
<1>20. QED
  BY <1>5, <1>8, <1>18, <1>19 DEF FNext

LEMMA HeadRaisesTells ==
  ASSUME FInv, HeadRaises
  PROVE  FNext'
<1>1. /\ UNCHANGED <<line, given, lead, nodes, sink>> /\ phase' = "failed"
  BY DEF HeadRaises, job
<1>2. Ended' /\ ~Emptying' /\ ~Draining'
  BY <1>1 DEF Ended, Emptying, Draining
<1>3. LineTold'
  BY <1>1, Now DEF LineTold, Ops
<1>4. QED
  BY <1>2, <1>3 DEF FNext, BatchTold

\* A batch that no worker raised on has been run.
LEMMA HeadReturnsTells ==
  ASSUME FInv, HeadReturns
  PROVE  FNext'
<1>1. /\ UNCHANGED <<line, given, source, lead, nodes, taken, made, todo, lost, hand, pos,
                     then, sink>>
      /\ phase = "head" /\ phase' = "drain" /\ at' = 1 /\ lost = {} /\ HeadOver
  BY DEF HeadReturns, job, batch, push
<1>2. PICK took \in Took : Told(took)
  BY <1>1 DEF FInv, Ended
<1>3. ~Finishing /\ ~Finishing' /\ Emptying /\ Emptying' /\ phase # "push" /\ phase' # "push"
  BY <1>1 DEF Finishing, Emptying
<1>4. at = 1 /\ at \in 1 .. Len(taken) /\ Len(taken) \in Nat
  BY <1>1, <1>3, Now DEF PInv, PlacesAre
<1>5. todo = {}
  <2>1. Cardinality({}) = 0
    BY FS_EmptySet
  <2>2. Crew # 0
    BY <1>4, Sizes DEF Crew, Least
  <2>3. QED
    BY <1>1, <2>1, <2>2 DEF HeadOver
<1>6. /\ took \in Took' /\ Gave(took, 0)' = Gave(took, 0)
      /\ took[Len(line) + 1]' = FlattenSeq(sink)'
      /\ NodesTold(took)'
  BY <1>1, <1>2, <1>3, Now, Quiet
<1>7. Rest' = Rest
  <2>1. Left' = Left
    BY <1>1, <1>3, <1>4 DEF Left
  <2>2. QED
    BY <1>1, <2>1 DEF Rest
<1>8. SourceTold(took)'
  BY <1>1, <1>2, <1>3, <1>6, <1>7 DEF Told, SourceTold
<1>9. LineTold'
  BY <1>1, <1>3, Now DEF LineTold, Ops
<1>10. BatchTold'
  <2>1. Folding' = Folding
    BY <1>1 DEF Folding
  <2>2. ASSUME NEW c \in 1 .. Len(taken)
        PROVE  (SlotTold(c) => SlotTold(c)') /\ (LostTold(c) => LostTold(c)')
    BY <1>1, <2>1 DEF SlotTold, LostTold
  <2>3. QED
    BY <1>1, <1>3, <1>5, <2>2, Now DEF BatchTold
<1>11. Told(took)'
  BY <1>6, <1>8 DEF Told
<1>12. QED
  BY <1>6, <1>9, <1>10, <1>11 DEF FNext

LEMMA ReturnTells ==
  ASSUME FInv, Return
  PROVE  FNext'
<1>1. /\ UNCHANGED <<line, given, lead, nodes, sink>> /\ phase' = "answered"
  BY DEF Return, job
<1>2. Ended' /\ ~Emptying' /\ ~Draining'
  BY <1>1 DEF Ended, Emptying, Draining
<1>3. LineTold'
  BY <1>1, Now DEF LineTold, Ops
<1>4. QED
  BY <1>2, <1>3 DEF FNext, BatchTold
-----------------------------------------------------------------------------
\* A step that leaves the batch alone.
LEMMA BatchStays ==
  ASSUME BatchTold, UNCHANGED <<line, lead, taken, made, todo, lost>>,
         Emptying' => Emptying, Draining' => Draining
  PROVE  BatchTold'
<1>1. Folding' = Folding
  BY DEF Folding
<1>2. ASSUME NEW c \in 1 .. Len(taken)
      PROVE  (SlotTold(c) => SlotTold(c)') /\ (LostTold(c) => LostTold(c)')
  BY <1>1 DEF SlotTold, LostTold
<1>3. QED
  BY <1>2 DEF BatchTold

\* The rows collected.
LEMMA PushSinkTells ==
  ASSUME FInv, PushSink
  PROVE  FNext'
<1>1. /\ UNCHANGED <<line, given, source, lead, nodes, taken, made, todo, lost, at, pos, then>>
      /\ phase = "push" /\ pos \notin Ops
      /\ sink' = Append(sink, hand) /\ hand' = <<>> /\ phase' = then
  BY DEF PushSink, job, batch
<1>2. PICK took \in Took : Told(took)
  BY <1>1 DEF FInv, Ended
<1> DEFINE p == Len(line) + 1
<1>3. pos = p /\ then \in {"serial", "read", "drain", "finish"}
  BY <1>1, Now DEF PInv, PlacesAre
<1>4. /\ Finishing' <=> Finishing
      /\ Emptying' <=> Emptying
      /\ Draining' <=> Draining
  BY <1>1, <1>3 DEF Finishing, Emptying, Draining
<1>5. hand \in Stream /\ took[p] \in Stream
  <2>1. hand \in Stream
    BY Now DEF PInv, ChunksAre, Stream
  <2>2. p \in 1 .. Len(line) + 1
    BY Now
  <2>3. QED
    BY <2>1, <2>2 DEF Took
<1>6. PICK new \in Took : new = [took EXCEPT ![p] = Cat(took[p], hand)]
  <2>1. Cat(took[p], hand) \in Stream
    BY <1>5, CatIn
  <2>2. [took EXCEPT ![p] = Cat(took[p], hand)] \in Took
    BY <2>1 DEF Took
  <2>3. QED
    BY <2>2
<1>7. new[p] = Cat(took[p], hand) /\ \A i \in Ops : new[i] = took[i]
  BY <1>6, Now DEF Took
<1>8. \A i \in 0 .. Len(line) : Gave(new, i)' = Gave(took, i)
  <2>1. TAKE i \in 0 .. Len(line)
  <2>2. Handed(i)' = <<>>
    BY <1>1, <1>3 DEF Handed
  <2>3. took[i + 1] \in Stream /\ new[i + 1] \in Stream
    BY <1>2, <1>6, Now DEF Took
  <2>4. Gave(new, i)' = new[i + 1]
    BY <2>2, <2>3, CatNone DEF Gave
  <2>5. CASE i = Len(line)
    <3>1. Handed(i) = hand
      BY <1>1, <1>3, <2>5 DEF Handed
    <3>2. QED
      BY <1>7, <2>4, <2>5, <3>1 DEF Gave
  <2>6. CASE i # Len(line)
    <3>1. i + 1 \in Ops /\ i + 1 # p
      BY <2>6, Now
    <3>2. Handed(i) = <<>>
      BY <1>3, <3>1 DEF Handed
    <3>3. Gave(took, i) = took[i + 1]
      BY <2>3, <3>2, CatNone DEF Gave
    <3>4. QED
      BY <1>7, <2>4, <3>1, <3>3
  <2>7. QED
    BY <2>5, <2>6
<1>9. NodesTold(new)'
  <2>1. Ops' = Ops
    BY <1>1 DEF Ops
  <2>2. ASSUME NEW i \in Ops
        PROVE  /\ Open(i)' => OpenTold(new, i)'
               /\ ~Open(i)' => ClosedTold(new, i)'
               /\ ~Tainted(line'[i], new[i])
    <3>1. /\ Open(i) => OpenTold(took, i)
          /\ ~Open(i) => ClosedTold(took, i)
          /\ ~Tainted(line[i], took[i])
      BY <1>2 DEF Told, NodesTold
    <3>2. Open(i)' <=> Open(i)
      BY <1>1, <1>4 DEF Open
    <3>3. Gave(new, i)' = Gave(took, i) /\ new[i] = took[i]
      <4>1. i \in 0 .. Len(line)
        BY Now
      <4>2. QED
        BY <1>7, <1>8, <4>1
    <3>4. (OpenTold(took, i) => OpenTold(new, i)') /\ (ClosedTold(took, i) => ClosedTold(new, i)')
      BY <1>1, <3>3 DEF OpenTold, ClosedTold
    <3>5. QED
      BY <1>1, <3>1, <3>2, <3>3, <3>4
  <2>3. QED
    BY <2>1, <2>2 DEF NodesTold
<1>10. Gave(new, 0)' = Gave(took, 0)
  BY <1>8, Now
<1>11. SourceTold(new)'
  <2>1. Rest' = Rest
    BY <1>1, <1>4 DEF Rest, Left
  <2>2. FrontIsEnough(took) => FrontIsEnough(new)'
    BY <1>1, <1>10 DEF FrontIsEnough
  <2>3. QED
    BY <1>1, <1>2, <1>4, <1>10, <2>1, <2>2 DEF Told, SourceTold
<1>12. new[Len(line) + 1]' = FlattenSeq(sink)'
  <2>1. took[p] = FlattenSeq(sink)
    BY <1>2 DEF Told
  <2>2. sink \in Seq(Seq(Row))
    BY Now DEF LineTold
  <2>3. FlattenSeq(Append(sink, hand)) = FlattenSeq(sink) \o hand
    BY <1>5, <2>2, FlattenMore DEF Stream
  <2>4. QED
    BY <1>1, <1>7, <2>1, <2>3 DEF Cat
<1>13. LineTold'
  <2>1. sink' \in Seq(Seq(Row))
    <3>1. hand \in Seq(Row) /\ sink \in Seq(Seq(Row))
      BY <1>5, Now DEF LineTold, Stream
    <3>2. QED
      BY <1>1, <3>1, AppendProperties
  <2>2. QED
    BY <1>1, <1>3, <2>1, Now DEF LineTold, Ops
<1>14. BatchTold'
  BY <1>1, <1>4, Now, BatchStays
<1>15. Told(new)' /\ new \in Took'
  BY <1>1, <1>6, <1>9, <1>11, <1>12 DEF Told, Took
<1>16. QED
  BY <1>13, <1>14, <1>15 DEF FNext
-----------------------------------------------------------------------------
\* A chunk through one operator, which may hand it on.
LEMMA PushNodeTells ==
  ASSUME FInv, PushNode
  PROVE  FNext'
<1>0. PICK p \in Ops : p = pos
  BY DEF PushNode
<1> DEFINE op == line[p]
           r == Process(op, nodes[p], hand)
           out == Out(r)
<1>1. /\ UNCHANGED <<line, given, source, lead, taken, made, todo, lost, at, then, sink>>
      /\ phase = "push" /\ p \in Ops
      /\ nodes' = [nodes EXCEPT ![p] = r.node]
      /\ phase' = IF r.raised THEN "failed" ELSE IF r.out = None THEN then ELSE "push"
      /\ hand' = IF r.out = None THEN <<>> ELSE r.out[1]
      /\ pos' = p + 1
  BY <1>0 DEF PushNode, job, batch
<1>2. PICK took \in Took : Told(took)
  BY <1>1 DEF FInv, Ended
<1>3. then \in {"serial", "read", "drain", "finish"}
  BY Now DEF PInv, PlacesAre
<1>4. op \in Operators /\ Fits(op, nodes[p]) /\ hand \in Stream /\ hand \in Seq(Row)
      /\ Covers(op, nodes[p])
  BY <1>1, Now DEF PInv, ChunksAre, LineTold, Stream
<1>5. Open(p) /\ OpenTold(took, p) /\ ~nodes[p].ran
  <2>1. Open(p)
    <3>1. at \in Nat /\ p \in Nat
      BY Now, Bounds DEF PInv, PlacesAre
    <3>2. QED
      BY <1>0, <1>1, <3>1, Now DEF LineTold, Finishing, Open
  <2>2. OpenTold(took, p)
    BY <1>1, <1>2, <2>1 DEF Told, NodesTold
  <2>3. QED
    BY <2>1, <2>2 DEF OpenTold
<1>6. Leaves(op, r) /\ Fits(op, r.node) /\ r.out \in Opt(Seq(Row)) /\ r.raised \in BOOLEAN
      /\ Covers(op, r.node)
  <2>1. Leaves(op, r)
    BY <1>4, ProcessLeaves
  <2>2. Covers(op, r.node)
    BY <1>4, <1>5, ProcessCovers
  <2> HIDE DEF r
  <2>3. QED
    BY <2>1, <2>2 DEF Leaves
<1>7. r.raised <=> Tainted(op, hand)
  BY <1>4, ProcessRaises
<1>8. \A i \in Ops : nodes'[i] = IF i = p THEN r.node ELSE nodes[i]
  <2> HIDE DEF r
  <2>1. DOMAIN nodes = Ops
    BY Now DEF PInv, NodesFit
  <2>2. QED
    BY <1>1, <2>1
<1>9. ~r.raised => \A y \in Stream :
        Gives(op, nodes[p], Cat(hand, y)) = Cat(Out(r), Gives(op, r.node, y)) /\ ~r.node.ran
  BY <1>4, <1>5, ProcessFlows
<1> HIDE DEF r, op
<1>10. LineTold'
  <2>1. \A i \in Ops : Covers(line[i], nodes'[i])
    BY <1>6, <1>8, Now DEF LineTold, op
  <2>2. phase' = "push" /\ then' = "finish" => pos' > at'
    <3>1. at \in Nat
      BY Now, Bounds DEF PInv, PlacesAre
    <3>2. p \in Nat
      BY <1>1, Now
    <3>3. then = "finish" => p > at
      BY <1>0, <1>1, Now DEF LineTold
    <3>4. QED
      BY <1>1, <3>1, <3>2, <3>3
  <2>3. QED
    BY <1>1, <2>1, <2>2, Now DEF LineTold, Ops
<1>11. CASE r.raised
  <2>1. Ended' /\ ~Emptying' /\ ~Draining'
    BY <1>1, <1>11 DEF Ended, Emptying, Draining
  <2>2. QED
    BY <1>10, <2>1 DEF FNext, BatchTold
<1>12. CASE ~r.raised
  <2>1. /\ Finishing' <=> Finishing
        /\ Emptying' <=> Emptying
        /\ Draining' <=> Draining
    BY <1>1, <1>3, <1>12 DEF Finishing, Emptying, Draining
  <2>2. p \in 1 .. Len(line) + 1 /\ took[p] \in Stream /\ out \in Stream
    <3>1. p \in 1 .. Len(line) + 1
      BY <1>1, Now
    <3>2. out \in Stream
      BY <1>6, CatNone, OptIs DEF Out, Stream
    <3>3. QED
      BY <3>1, <3>2 DEF Took
  <2>3. PICK new \in Took : new = [took EXCEPT ![p] = Cat(took[p], hand)]
    <3>1. Cat(took[p], hand) \in Stream
      BY <1>4, <2>2, CatIn
    <3>2. [took EXCEPT ![p] = Cat(took[p], hand)] \in Took
      BY <3>1 DEF Took
    <3>3. QED
      BY <3>2
  <2>4. new[p] = Cat(took[p], hand) /\ \A i \in 1 .. Len(line) + 1 : i # p => new[i] = took[i]
    BY <2>2, <2>3 DEF Took
  <2>5. \A i \in 0 .. Len(line) :
           /\ Gave(new, i)' = IF i = p THEN Cat(Gave(took, p), out) ELSE Gave(took, i)
           /\ Gave(took, i) \in Stream
    <3>1. TAKE i \in 0 .. Len(line)
    <3>2. took[i + 1] \in Stream /\ new[i + 1] \in Stream /\ i + 1 \in 1 .. Len(line) + 1
          /\ Gave(took, i) \in Stream
      <4>1. i + 1 \in 1 .. Len(line) + 1 /\ PInv
        BY Now
      <4>2. Gave(took, i) \in Stream
        BY <1>2, <4>1, GaveIs
      <4>3. QED
        BY <1>2, <2>3, <4>1, <4>2 DEF Took
    <3>3. p \in Nat /\ i \in Nat
      BY <2>2, Now
    <3>4. Handed(i) = IF p = i + 1 THEN hand ELSE <<>>
      BY <1>0, <1>1 DEF Handed
    <3>5. Handed(i)' = IF i = p THEN out ELSE <<>>
      <4>1. pos' = i + 1 <=> i = p
        BY <1>1, <3>3
      <4>2. phase' = "push" => r.out # None
        BY <1>1, <1>3, <1>12
      <4>3. r.out # None => phase' = "push"
        BY <1>1, <1>12
      <4>4. hand' = out
        BY <1>1 DEF Out
      <4>5. r.out = None => out = <<>>
        BY DEF Out
      <4> HIDE DEF out
      <4>6. QED
        BY <4>1, <4>2, <4>3, <4>4, <4>5 DEF Handed
    <3> HIDE DEF out
    <3>6. CASE i = p
      <4>1. new[i + 1] = took[i + 1] /\ p # i + 1
        BY <2>4, <3>2, <3>3, <3>6
      <4>2. Gave(took, i) = took[i + 1]
        BY <3>2, <3>4, <4>1, CatNone DEF Gave
      <4>3. Gave(new, i)' = Cat(took[i + 1], out)
        BY <3>5, <3>6, <4>1 DEF Gave
      <4>4. QED
        BY <3>2, <3>6, <4>2, <4>3
    <3>7. CASE p = i + 1
      <4>1. i # p
        BY <3>3, <3>7
      <4>2. Gave(new, i)' = new[i + 1]
        BY <3>2, <3>5, <4>1, CatNone DEF Gave
      <4>3. Gave(took, i) = Cat(took[i + 1], hand)
        BY <3>4, <3>7 DEF Gave
      <4>4. QED
        BY <2>4, <3>2, <3>7, <4>1, <4>2, <4>3
    <3>8. CASE i # p /\ p # i + 1
      <4>1. new[i + 1] = took[i + 1]
        BY <2>4, <3>2, <3>8
      <4>2. Gave(new, i)' = new[i + 1]
        BY <3>2, <3>5, <3>8, CatNone DEF Gave
      <4>3. Gave(took, i) = took[i + 1]
        BY <3>2, <3>4, <3>8, CatNone DEF Gave
      <4>4. QED
        BY <3>2, <3>8, <4>1, <4>2, <4>3
    <3>9. QED
      BY <3>6, <3>7, <3>8
  <2>6. Gave(took, p) \in Stream /\ Gave(new, p)' = Cat(Gave(took, p), out)
    <3>1. p \in 0 .. Len(line)
      BY <1>1, Now
    <3>2. QED
      BY <2>5, <3>1
  <2>7. OpenTold(new, p)' /\ ~Tainted(op, new[p])
    <3>1. ASSUME NEW y \in Stream
          PROVE  Cat(Cat(Gave(took, p), out), Gives(op, r.node, y)) = Does(op, Cat(new[p], y))
      <4> DEFINE g == Gave(took, p)
                 u == Gives(op, r.node, y)
      <4>1. u \in Stream
        BY <1>4, <1>6, <3>1, GivesIs
      <4>2. Cat(new[p], y) = Cat(took[p], Cat(hand, y)) /\ Cat(hand, y) \in Stream
        <5>1. hand \in Stream /\ took[p] \in Stream /\ y \in Stream /\ new[p] = Cat(took[p], hand)
          BY <1>4, <2>2, <2>4, <3>1
        <5>2. QED
          <6>1. Cat(Cat(took[p], hand), y) = Cat(took[p], Cat(hand, y))
            BY ONLY <5>1, CatLeft
          <6>2. Cat(hand, y) \in Stream
            BY ONLY <5>1, CatIn
          <6>3. QED
            BY ONLY <5>1, <6>1, <6>2
      <4>3. Does(op, Cat(took[p], Cat(hand, y))) = Cat(g, Gives(op, nodes[p], Cat(hand, y)))
        BY <1>5, <4>2 DEF OpenTold, op
      <4>4. Gives(op, nodes[p], Cat(hand, y)) = Cat(out, u)
        BY <1>9, <1>12, <3>1
      <4> HIDE DEF g, u, out
      <4>5. Cat(Cat(g, out), u) = Cat(g, Cat(out, u))
        BY <2>2, <2>6, <4>1, CatLeft DEF g
      <4>6. QED
        BY <4>2, <4>3, <4>4, <4>5 DEF g, u
    <3>2. nodes'[p] = r.node /\ ~r.node.ran
      <4>1. <<>> \in Stream
        BY CatNone
      <4>2. QED
        BY <1>1, <1>8, <1>9, <1>12, <4>1
    <3>3. OpenTold(new, p)'
      BY <1>1, <2>6, <3>1, <3>2 DEF OpenTold, op
    <3>4. ~Tainted(op, took[p])
      BY <1>1, <1>2 DEF Told, NodesTold, op
    <3>5. ~Tainted(op, new[p])
      BY <1>4, <1>7, <1>12, <2>2, <2>4, <3>4, TaintedCat
    <3>6. QED
      BY <3>3, <3>5
  <2>8. NodesTold(new)'
    <3>1. Ops' = Ops
      BY <1>1 DEF Ops
    <3>2. ASSUME NEW i \in Ops
          PROVE  /\ Open(i)' => OpenTold(new, i)'
                 /\ ~Open(i)' => ClosedTold(new, i)'
                 /\ ~Tainted(line'[i], new[i])
      <4>1. Open(i)' <=> Open(i)
        BY <1>1, <2>1 DEF Open
      <4>2. CASE i = p
        BY <1>1, <1>5, <2>7, <4>1, <4>2 DEF op
      <4>3. CASE i # p
        <5>1. /\ Open(i) => OpenTold(took, i)
              /\ ~Open(i) => ClosedTold(took, i)
              /\ ~Tainted(line[i], took[i])
          BY <1>2 DEF Told, NodesTold
        <5>2. i \in 0 .. Len(line) /\ i \in 1 .. Len(line) + 1
          BY Now
        <5>3. Gave(new, i)' = Gave(took, i) /\ new[i] = took[i] /\ nodes'[i] = nodes[i]
          BY <1>8, <2>4, <2>5, <4>3, <5>2
        <5>4. (OpenTold(took, i) => OpenTold(new, i)') /\ (ClosedTold(took, i) => ClosedTold(new, i)')
          BY <1>1, <5>3 DEF OpenTold, ClosedTold
        <5>5. QED
          BY <1>1, <4>1, <5>1, <5>3, <5>4
      <4>4. QED
        BY <4>2, <4>3
    <3>3. QED
      BY <3>1, <3>2 DEF NodesTold
  <2>9. Gave(new, 0)' = Gave(took, 0)
    <3>1. 0 \in 0 .. Len(line) /\ 0 # p
      BY <1>1, Now
    <3>2. QED
      BY <2>5, <3>1
  <2>10. SourceTold(new)'
    <3>1. Rest' = Rest
      BY <1>1, <2>1 DEF Rest, Left
    <3>2. FrontIsEnough(took) => FrontIsEnough(new)'
      BY <1>1, <2>9 DEF FrontIsEnough
    <3>3. QED
      BY <1>1, <1>2, <2>1, <2>9, <3>1, <3>2 DEF Told, SourceTold
  <2>11. new[Len(line) + 1]' = FlattenSeq(sink)'
    <3>1. Len(line) + 1 \in 1 .. Len(line) + 1 /\ Len(line) + 1 # p
      BY <1>1, Now
    <3>2. QED
      BY <1>1, <1>2, <2>4, <3>1 DEF Told
  <2>12. BatchTold'
    BY <1>1, <2>1, Now, BatchStays
  <2>13. Told(new)' /\ new \in Took'
    BY <1>1, <2>3, <2>8, <2>10, <2>11 DEF Told, Took
  <2>14. QED
    BY <1>10, <2>12, <2>13 DEF FNext
<1>13. QED
  BY <1>6, <1>11, <1>12
-----------------------------------------------------------------------------
\* A node asked to finish, which may hand rows on.
LEMMA FinishNodeTells ==
  ASSUME FInv, FinishNode
  PROVE  FNext'
<1>0. PICK a \in Ops : a = at
  BY DEF FinishNode
<1> DEFINE op == line[a]
           r == Finish(op, nodes[a])
           out == Out(r)
<1>1. /\ UNCHANGED <<line, given, source, lead, taken, made, todo, lost, sink>>
      /\ phase = "finish" /\ a \in Ops
      /\ nodes' = [nodes EXCEPT ![a] = r.node]
  BY <1>0 DEF FinishNode, job, batch
<1>2. IF r.out = None
      THEN at' = a + 1 /\ UNCHANGED <<phase, hand, pos, then>>
      ELSE /\ hand' = r.out[1] /\ pos' = a + 1 /\ then' = "finish" /\ phase' = "push"
           /\ at' = a
  BY <1>0 DEF FinishNode, Push, push
<1>3. PICK took \in Took : Told(took)
  BY <1>1 DEF FInv, Ended
<1>4. op \in Operators /\ Fits(op, nodes[a]) /\ Covers(op, nodes[a]) /\ a \in Nat
  BY <1>1, Now DEF LineTold
<1>5. Fits(op, r.node) /\ r.out \in Opt(Seq(Row))
  <2>1. Leaves(op, r)
    BY <1>4, FinishLeaves
  <2> HIDE DEF r
  <2>2. QED
    BY <2>1 DEF Leaves
<1>6. /\ Gives(op, nodes[a], <<>>) = Cat(Out(r), Gives(op, r.node, <<>>))
      /\ r.out = None => Gives(op, r.node, <<>>) = <<>>
      /\ Covers(op, r.node)
  BY <1>4, FinishFlows
<1>7. \A i \in Ops : nodes'[i] = IF i = a THEN r.node ELSE nodes[i]
  <2> HIDE DEF r
  <2>1. DOMAIN nodes = Ops
    BY Now DEF PInv, NodesFit
  <2>2. QED
    BY <1>1, <2>1
<1> HIDE DEF r, op
<1>8. /\ Finishing /\ Finishing' /\ ~Emptying /\ ~Emptying' /\ ~Draining /\ ~Draining'
      /\ phase' \in {"finish", "push"}
  BY <1>1, <1>2 DEF Finishing, Emptying, Draining
<1>9. LineTold'
  <2>1. \A i \in Ops : Covers(line[i], nodes'[i])
    BY <1>6, <1>7, Now DEF LineTold, op
  <2>2. phase' = "push" /\ then' = "finish" => pos' > at'
    BY <1>1, <1>2, <1>4
  <2>3. QED
    BY <1>1, <2>1, <2>2, Now DEF LineTold, Ops
<1>10. out \in Stream /\ (r.out = None => out = <<>>)
  BY <1>5, CatNone, OptIs DEF Out, Stream
<1>11. \A i \in 0 .. Len(line) :
          /\ Gave(took, i) \in Stream
          /\ Gave(took, i)' = IF i = a THEN Cat(Gave(took, a), out) ELSE Gave(took, i)
  <2>1. TAKE i \in 0 .. Len(line)
  <2>2. took[i + 1] \in Stream /\ Gave(took, i) \in Stream
    BY <1>3, Now, GaveIs
  <2>3. Handed(i) = <<>>
    BY <1>1 DEF Handed
  <2>4. Gave(took, i) = took[i + 1]
    BY <2>2, <2>3, CatNone DEF Gave
  <2>5. Handed(i)' = IF i = a THEN out ELSE <<>>
    <3>1. CASE r.out = None
      <4>1. Handed(i)' = <<>>
        BY <1>1, <1>2, <3>1 DEF Handed
      <4>2. QED
        BY <1>10, <3>1, <4>1
    <3>2. CASE r.out # None
      <4>1. hand' = out /\ pos' = a + 1 /\ phase' = "push"
        BY <1>2, <3>2 DEF Out
      <4>2. pos' = i + 1 <=> i = a
        BY <1>4, <4>1
      <4> HIDE DEF out
      <4>3. QED
        BY <4>1, <4>2 DEF Handed
    <3>3. QED
      BY <3>1, <3>2
  <2> HIDE DEF out
  <2>6. CASE i = a
    BY <2>2, <2>4, <2>5, <2>6 DEF Gave
  <2>7. CASE i # a
    <3>1. Gave(took, i)' = took[i + 1]
      BY <2>2, <2>5, <2>7, CatNone DEF Gave
    <3>2. QED
      BY <2>2, <2>4, <2>7, <3>1
  <2>8. QED
    BY <2>6, <2>7
<1>12. Gave(took, a) \in Stream /\ Gave(took, a)' = Cat(Gave(took, a), out)
  <2>1. a \in 0 .. Len(line)
    BY <1>1, Now
  <2>2. QED
    BY <1>11, <2>1
<1>13. ~Open(a) /\ ClosedTold(took, a)
  <2>1. ~Open(a)
    BY <1>0, <1>4, <1>8 DEF Open
  <2>2. QED
    BY <1>1, <1>3, <2>1 DEF Told, NodesTold
<1>14. ClosedTold(took, a)'
  <2> DEFINE g == Gave(took, a)
             u == Gives(op, r.node, <<>>)
             v == Gives(op, nodes[a], <<>>)
  <2>1. u \in Stream
    BY <1>4, <1>5, CatNone, GivesIs
  <2>2. Cat(g, v) = Does(op, took[a])
    BY <1>13 DEF ClosedTold, op
  <2>3. v = Cat(out, u)
    BY <1>6
  <2> HIDE DEF out
  <2>4. Cat(Cat(g, out), u) = Cat(g, Cat(out, u))
    <3> HIDE DEF g, u
    <3>1. g \in Stream
      BY <1>12 DEF g
    <3>2. QED
      BY ONLY <1>10, <2>1, <3>1, CatLeft
  <2>5. Cat(Cat(g, out), u) = Does(op, took[a])
    BY <2>2, <2>3, <2>4
  <2>6. a < at' => u = <<>>
    BY <1>2, <1>4, <1>6
  <2>7. nodes'[a] = r.node
    BY <1>1, <1>7
  <2>8. QED
    BY <1>1, <1>12, <2>5, <2>6, <2>7 DEF ClosedTold, op
<1>15. NodesTold(took)'
  <2>1. Ops' = Ops
    BY <1>1 DEF Ops
  <2>2. ASSUME NEW i \in Ops
        PROVE  /\ Open(i)' => OpenTold(took, i)'
               /\ ~Open(i)' => ClosedTold(took, i)'
               /\ ~Tainted(line'[i], took[i])
    <3>0. i \in Nat /\ i \in 0 .. Len(line)
      BY Now
    <3>1. /\ Open(i) => OpenTold(took, i)
          /\ ~Open(i) => ClosedTold(took, i)
          /\ ~Tainted(line[i], took[i])
      BY <1>3 DEF Told, NodesTold
    <3>2. (Open(i) <=> i > a) /\ (Open(i)' <=> i > at')
      BY <1>0, <1>8 DEF Open
    <3>3. at' = a \/ at' = a + 1
      BY <1>2
    <3>4. CASE i = a
      <4>1. ~Open(i)'
        BY <1>4, <3>2, <3>3, <3>4
      <4>2. QED
        BY <1>1, <1>14, <3>1, <3>4, <4>1
    <3>5. CASE i # a
      <4>1. Gave(took, i)' = Gave(took, i) /\ nodes'[i] = nodes[i] /\ Gave(took, i) \in Stream
        BY <1>7, <1>11, <3>0, <3>5
      <4>2. CASE i < a
        <5>1. ~Open(i) /\ ~Open(i)' /\ i < at
          BY <1>0, <1>4, <3>0, <3>2, <3>3, <4>2
        <5>2. ClosedTold(took, i)'
          BY <1>1, <3>1, <4>1, <5>1 DEF ClosedTold
        <5>3. QED
          BY <1>1, <3>1, <5>1, <5>2
      <4>3. CASE i > a
        <5>1. Open(i) /\ OpenTold(took, i)
          BY <3>1, <3>2, <4>3
        <5>2. OpenTold(took, i)'
          BY <1>1, <4>1, <5>1 DEF OpenTold
        <5>3. ~(i < at')
          BY <1>4, <3>0, <3>3, <4>3
        <5>4. ClosedTold(took, i)'
          <6>1. took[i] \in Stream /\ <<>> \in Stream /\ Cat(took[i], <<>>) = took[i]
            BY <1>3, Now, CatNone DEF Took
          <6>2. Cat(Gave(took, i), Gives(line[i], nodes[i], <<>>)) = Does(line[i], took[i])
            BY <5>1, <6>1 DEF OpenTold
          <6>3. QED
            BY <1>1, <4>1, <5>3, <6>2 DEF ClosedTold
        <5>5. QED
          BY <1>1, <3>1, <5>2, <5>4
      <4>4. QED
        BY <1>4, <3>0, <3>5, <4>2, <4>3
    <3>6. QED
      BY <3>4, <3>5
  <2>3. QED
    BY <2>1, <2>2 DEF NodesTold
<1>16. SourceTold(took)'
  <2>1. 0 \in 0 .. Len(line) /\ 0 # a
    BY <1>1, Now
  <2>2. Gave(took, 0)' = Gave(took, 0)
    BY <1>11, <2>1
  <2>3. FrontIsEnough(took)'
    BY <1>1, <1>3, <1>8, <2>2 DEF Told, SourceTold, FrontIsEnough
  <2>4. QED
    BY <1>8, <2>3 DEF SourceTold
<1>17. BatchTold'
  BY <1>8 DEF BatchTold
<1>18. Told(took)' /\ took \in Took'
  BY <1>1, <1>3, <1>15, <1>16 DEF Told, Took
<1>19. QED
  BY <1>9, <1>17, <1>18 DEF FNext
-----------------------------------------------------------------------------
\* The rows from a chunk on are that chunk and the rows after it.
LEMMA FlattenFrom ==
  ASSUME NEW s \in Seq(Seq(Row)), NEW a \in 1 .. Len(s)
  PROVE  /\ s[a] \in Stream
         /\ SubSeq(s, a + 1, Len(s)) \in Seq(Seq(Row))
         /\ FlattenSeq(SubSeq(s, a + 1, Len(s))) \in Stream
         /\ FlattenSeq(SubSeq(s, a, Len(s))) = Cat(s[a], FlattenSeq(SubSeq(s, a + 1, Len(s))))
<1> DEFINE d == a - 1
           all == SubSeq(s, a, Len(s))
           tail == SubSeq(s, a + 1, Len(s))
           one == <<s[a]>>
<1>1. /\ Len(s) \in Nat /\ d \in Nat /\ a \in Nat /\ Len(s) \in 0 .. Len(s)
      /\ s[a] \in Seq(Row) /\ d + 1 = a /\ a <= Len(s)
  BY ElementOfSeq
<1>2. all \in Seq(Seq(Row)) /\ Len(all) = Len(s) - d /\ \A i \in 1 .. Len(s) - d : all[i] = s[d + i]
  <2>1. d <= Len(s)
    BY <1>1
  <2> HIDE DEF d, all
  <2>2. LET q == SubSeq(s, d + 1, Len(s))
        IN  /\ q \in Seq(Seq(Row)) /\ Len(q) = Len(s) - d
            /\ \A i \in 1 .. Len(s) - d : q[i] = s[d + i]
    BY <1>1, <2>1, PartIs
  <2>3. all = SubSeq(s, d + 1, Len(s))
    BY <1>1 DEF all
  <2>4. QED
    BY <2>2, <2>3
<1>3. /\ tail \in Seq(Seq(Row)) /\ Len(tail) = Len(s) - a
      /\ \A i \in 1 .. Len(s) - a : tail[i] = s[a + i]
  BY <1>1, PartIs
<1>4. one \in Seq(Seq(Row)) /\ Len(one) = 1 /\ one[1] = s[a]
  BY <1>1
<1> HIDE DEF all, tail, one
<1>5. Len(all) = Len(one) + Len(tail)
  BY <1>1, <1>2, <1>3, <1>4 DEF d
<1>6. \A i \in 1 .. Len(one) : all[i] = one[i]
  <2>1. all[1] = s[a]
    BY <1>1, <1>2 DEF d
  <2>2. QED
    BY <1>4, <2>1
<1>7. \A i \in 1 .. Len(tail) : all[Len(one) + i] = tail[i]
  <2>1. TAKE i \in 1 .. Len(tail)
  <2>2. i \in 1 .. Len(s) - a /\ 1 + i \in 1 .. Len(s) - d /\ d + (1 + i) = a + i
    BY <1>1, <1>3 DEF d
  <2>3. all[1 + i] = s[a + i] /\ tail[i] = s[a + i]
    BY <1>2, <1>3, <2>2
  <2>4. QED
    BY <1>4, <2>3
<1>8. all = one \o tail
  BY <1>2, <1>3, <1>4, <1>5, <1>6, <1>7, IsJoin
<1>9. FlattenSeq(all) = FlattenSeq(one) \o FlattenSeq(tail)
  BY <1>3, <1>4, <1>8, FlattenJoin
<1>10. FlattenSeq(one) = s[a]
  BY <1>1, FlattenOne DEF one
<1>11. FlattenSeq(tail) \in Stream
  BY <1>3, FlattenIs DEF Stream
<1>12. QED
  BY <1>1, <1>3, <1>9, <1>10, <1>11 DEF all, tail, Cat, Stream

\* A tally merged is the rows it stands for taken in.
LEMMA MergeTells ==
  ASSUME NEW op \in Operators, op.kind = "reduce", NEW node, Fits(op, node), ~node.ran,
         NEW x \in Stream
  PROVE  LET after == IF Partial(x) = None THEN node ELSE Absorb(node, Partial(x)[1])
         IN  /\ ~after.ran
             /\ \A y \in Stream : Gives(op, node, Cat(x, y)) = Gives(op, after, y)
<1>1. CASE x = <<>>
  <2>1. Partial(x) = None
    BY <1>1 DEF Partial
  <2>2. \A y \in Stream : Cat(x, y) = y
    BY <1>1, CatNone
  <2>3. QED
    BY <2>1, <2>2
<1>2. CASE x # <<>>
  <2> DEFINE after == Absorb(node, CountAndFirst(x))
  <2>1. Partial(x) = <<CountAndFirst(x)>> /\ Partial(x) # None /\ Partial(x)[1] = CountAndFirst(x)
    BY <1>2 DEF Partial, None
  <2>2. \A y \in Stream : Tally(node, Cat(x, y)) = Tally(after, y) /\ ~after.ran
    BY AbsorbFlows
  <2>3. ~after.ran
    BY <2>2, CatNone
  <2> HIDE DEF after
  <2>4. \A y \in Stream : Gives(op, node, Cat(x, y)) = Gives(op, after, y)
    BY <2>2, <2>3 DEF Gives
  <2>5. QED
    BY <2>1, <2>3, <2>4 DEF after
<1>3. QED
  BY <1>1, <1>2

\* A chunk that came through the leading operators: one of them took it in.
LEMMA LeadTakes ==
  ASSUME FInv, NEW took \in Took, NEW i \in Ops, OpenTold(took, i), IsRowLocal(line[i]),
         NEW x \in Stream, NEW y \in Stream
  PROVE  Cat(Cat(Gave(took, i), Does(line[i], x)), Gives(line[i], nodes[i], y))
           = Does(line[i], Cat(Cat(took[i], x), y))
<1> DEFINE op == line[i]
           g == Gave(took, i)
           t == took[i]
           z == Cat(x, y)
           dx == Does(op, x)
           dy == Does(op, y)
<1>1. op \in Operators /\ Fits(op, nodes[i]) /\ PInv /\ i \in 0 .. Len(line)
  BY Now
<1>2. t \in Stream
  BY Now DEF Took
<1>3. g \in Stream
  BY <1>1, GaveIs
<1>4. z \in Stream
  BY CatIn
<1>5. dx \in Stream /\ dy \in Stream
  BY <1>1, DoesIs
<1>6. Gives(op, nodes[i], z) = Does(op, z) /\ Gives(op, nodes[i], y) = dy
  BY <1>1, <1>4, RowLocalGives
<1>7. Does(op, z) = Cat(dx, dy)
  BY <1>1, RowLocalSplits
<1>8. Cat(g, Gives(op, nodes[i], z)) = Does(op, Cat(t, z))
  BY <1>4 DEF OpenTold
<1> HIDE DEF op, g, t, z, dx, dy
<1>9. Cat(Cat(g, dx), dy) = Cat(g, Cat(dx, dy))
  BY ONLY <1>3, <1>5, CatLeft
<1>10. Cat(Cat(t, x), y) = Cat(t, z)
  BY <1>2, CatLeft DEF z
<1>11. Cat(Cat(g, dx), dy) = Does(op, Cat(Cat(t, x), y))
  BY <1>6, <1>7, <1>8, <1>9, <1>10
<1>12. QED
  BY <1>6, <1>11 DEF op, g, t, dx

\* A slot merged, or put in hand.
LEMMA DrainTells ==
  ASSUME FInv, Drain
  PROVE  FNext'
<1>0. PICK a \in 1 .. Len(taken) : a = at
  BY Now DEF Drain, PInv, PlacesAre, Emptying
<1> DEFINE x == taken[a]
           flow == Flow(line, x)
           k == IF Folding THEN lead + 1 ELSE lead
           slot == made[a]
           after == IF slot = None THEN nodes[lead + 1] ELSE Absorb(nodes[lead + 1], slot[1])
           next == IF a = Len(made) THEN "read" ELSE "drain"
<1>1. /\ UNCHANGED <<line, given, source, lead, taken, made, todo, lost, sink>>
      /\ phase = "drain" /\ at' = (IF a = Len(made) THEN 1 ELSE a + 1)
  BY <1>0 DEF Drain, job, batch
<1>2. /\ slot # None /\ ~Folding =>
           /\ hand' = slot[1] /\ pos' = lead + 1 /\ then' = next /\ phase' = "push"
           /\ nodes' = nodes
      /\ ~(slot # None /\ ~Folding) =>
           /\ nodes' = IF slot = None THEN nodes
                       ELSE [nodes EXCEPT ![lead + 1] = Absorb(@, slot[1])]
           /\ phase' = next
  BY <1>0 DEF Drain, Push
<1>3. PICK took \in Took : Told(took)
  BY <1>1 DEF FInv, Ended
<1>4. /\ ~Finishing /\ Emptying /\ Draining
      /\ ~Finishing' /\ (Draining' => Draining) /\ (Emptying' <=> a # Len(made))
      /\ phase' = "push" => then' # "finish"
  BY <1>1, <1>2 DEF Finishing, Emptying, Draining
<1>5. SlotTold(a)
  <2>1. todo = {} /\ lost = {}
    BY <1>1, <1>4, Now DEF BatchTold, PInv, PlacesAre
  <2>2. QED
    BY <1>4, <2>1, Now DEF BatchTold
<1>6. /\ lead \in 0 .. Len(line) /\ lead \in Nat
      /\ \A i \in 1 .. lead : IsRowLocal(line[i])
      /\ Folding => lead + 1 \in Ops /\ line[lead + 1].kind = "reduce"
      /\ Len(made) = Len(taken)
      /\ made \in [1 .. Len(taken) -> Slots]
  <2>1. lead \in 0 .. Len(line) /\ made \in [1 .. Len(taken) -> Slots]
    BY Now DEF PInv, PlacesAre, ChunksAre
  <2>2. Len(made) = Len(taken)
    BY Now, Bounds
  <2>3. QED
    BY <2>1, <2>2, Now DEF LineTold, Folding
<1>7. x \in Stream /\ \A i \in 0 .. Len(line) : flow[i] \in Stream
  <2>1. x \in Stream
    BY Now, ElementOfSeq DEF Stream
  <2> HIDE DEF x
  <2>2. QED
    BY <2>1, Now, FlowIs
<1>8. flow[0] = x /\ \A i \in Ops : flow[i] = Does(line[i], flow[i - 1])
  BY <1>7, Now, FlowIs
<1>9. /\ \A j \in 1 .. lead : ~Tainted(line[j], flow[j - 1])
      /\ Folding => slot = Partial(flow[lead])
      /\ ~Folding => flow[lead] = IF slot = None THEN <<>> ELSE slot[1]
  BY <1>5 DEF SlotTold
<1> HIDE DEF x, flow, slot, next
<1>10. PICK new \in Took :
          \A i \in 1 .. Len(line) + 1 :
             new[i] = IF i <= k THEN Cat(took[i], flow[i - 1]) ELSE took[i]
  <2> DEFINE n == [i \in 1 .. Len(line) + 1 |->
                     IF i <= k THEN Cat(took[i], flow[i - 1]) ELSE took[i]]
  <2>1. ASSUME NEW i \in 1 .. Len(line) + 1
        PROVE  took[i] \in Stream /\ Cat(took[i], flow[i - 1]) \in Stream
    <3>1. i - 1 \in 0 .. Len(line)
      BY Now
    <3>2. took[i] \in Stream /\ flow[i - 1] \in Stream
      BY <1>7, <3>1 DEF Took
    <3>3. QED
      BY <3>2, CatIn
  <2>2. n \in Took
    BY <2>1 DEF Took
  <2>3. QED
    BY <2>2
<1>11. \A i \in 0 .. Len(line) :
          /\ Gave(took, i) = took[i + 1] /\ Gave(took, i) \in Stream
          /\ Gave(new, i)' = IF i <= lead THEN Cat(Gave(took, i), flow[i]) ELSE Gave(took, i)
  <2>1. TAKE i \in 0 .. Len(line)
  <2> DEFINE t == took[i + 1]
  <2>2. /\ i + 1 \in 1 .. Len(line) + 1 /\ i \in Nat /\ (i + 1) - 1 = i
        /\ took[i + 1] \in Stream /\ new[i + 1] \in Stream /\ flow[i] \in Stream
    <3>1. i + 1 \in 1 .. Len(line) + 1 /\ i \in Nat /\ (i + 1) - 1 = i
      BY Now
    <3>2. took[i + 1] \in Stream /\ new[i + 1] \in Stream
      BY <3>1 DEF Took
    <3>3. QED
      BY <1>7, <3>1, <3>2
  <2>3. Gave(took, i) = t
    <3>1. Handed(i) = <<>>
      BY <1>1 DEF Handed
    <3>2. QED
      BY <2>2, <3>1, CatNone DEF Gave
  <2>4. new[i + 1] = IF i + 1 <= k THEN Cat(t, flow[i]) ELSE t
    BY <1>10, <2>2
  <2>5. Handed(i)' = IF ~Folding /\ i = lead THEN flow[lead] ELSE <<>>
    <3>1. CASE slot # None /\ ~Folding
      <4>1. hand' = flow[lead] /\ phase' = "push" /\ pos' = lead + 1
        BY <1>2, <1>9, <3>1
      <4>2. pos' = i + 1 <=> i = lead
        BY <1>6, <2>2, <4>1
      <4>3. QED
        BY <3>1, <4>1, <4>2 DEF Handed
    <3>2. CASE ~(slot # None /\ ~Folding)
      <4>1. phase' # "push"
        BY <1>2, <3>2 DEF next
      <4>2. Handed(i)' = <<>>
        BY <4>1 DEF Handed
      <4>3. ~Folding => flow[lead] = <<>>
        BY <1>9, <3>2
      <4>4. QED
        BY <4>2, <4>3
    <3>3. QED
      BY <3>1, <3>2
  <2>6. CASE i + 1 <= k
    <3>1. i <= lead /\ ~(~Folding /\ i = lead)
      BY <1>6, <2>2, <2>6
    <3>2. new[i + 1] = Cat(t, flow[i]) /\ Handed(i)' = <<>>
      BY <2>4, <2>5, <2>6, <3>1
    <3>3. Gave(new, i)' = new[i + 1]
      BY <2>2, <3>2, CatNone DEF Gave
    <3>4. QED
      BY <2>2, <2>3, <3>1, <3>2, <3>3
  <2>7. CASE ~(i + 1 <= k) /\ i <= lead
    <3>1. ~Folding /\ i = lead
      BY <1>6, <2>2, <2>7
    <3>2. new[i + 1] = t /\ Handed(i)' = flow[i]
      BY <2>4, <2>5, <2>7, <3>1
    <3>3. Gave(new, i)' = Cat(t, flow[i])
      BY <3>2 DEF Gave
    <3>4. QED
      BY <2>2, <2>3, <2>7, <3>3
  <2>8. CASE ~(i <= lead)
    <3>1. ~(i + 1 <= k) /\ i # lead
      BY <1>6, <2>2, <2>8
    <3>2. new[i + 1] = t /\ Handed(i)' = <<>>
      BY <2>4, <2>5, <3>1
    <3>3. Gave(new, i)' = new[i + 1]
      BY <2>2, <3>2, CatNone DEF Gave
    <3>4. QED
      BY <2>2, <2>3, <2>8, <3>2, <3>3
  <2>9. QED
    BY <2>6, <2>7, <2>8
<1>12. \A i \in Ops : nodes'[i] = IF Folding /\ i = lead + 1 THEN after ELSE nodes[i]
  <2>1. DOMAIN nodes = Ops
    BY Now DEF PInv, NodesFit
  <2>2. slot # None /\ Folding => nodes' = [nodes EXCEPT ![lead + 1] = after]
    BY <1>2
  <2>3. slot = None => nodes' = nodes /\ after = nodes[lead + 1]
    BY <1>2
  <2>4. slot # None /\ ~Folding => nodes' = nodes
    BY <1>2
  <2> HIDE DEF after
  <2>5. QED
    BY <1>6, <2>1, <2>2, <2>3, <2>4
<1>13. ASSUME NEW i \in Ops
       PROVE  OpenTold(new, i)' /\ ~Tainted(line[i], new[i])
  <2>1. OpenTold(took, i) /\ ~Tainted(line[i], took[i])
    BY <1>3, <1>4 DEF Told, NodesTold, Open
  <2>2. /\ i \in 1 .. Len(line) + 1 /\ i \in 0 .. Len(line) /\ i \in Nat /\ i - 1 \in 0 .. Len(line)
        /\ took[i] \in Stream /\ flow[i - 1] \in Stream
        /\ line[i] \in Operators /\ Fits(line[i], nodes[i])
    BY <1>7, Now DEF Took
  <2>3. CASE i <= lead
    <3>1. IsRowLocal(line[i]) /\ i \in 1 .. lead
      BY <1>6, <2>2, <2>3, Now
    <3>2. new[i] = Cat(took[i], flow[i - 1])
      BY <1>6, <1>10, <2>2, <2>3
    <3>3. Gave(new, i)' = Cat(Gave(took, i), Does(line[i], flow[i - 1]))
      BY <1>8, <1>11, <2>2, <2>3
    <3>4. nodes'[i] = nodes[i]
      BY <1>6, <1>12, <2>2, <2>3
    <3>5. \A y \in Stream :
             Cat(Cat(Gave(took, i), Does(line[i], flow[i - 1])), Gives(line[i], nodes[i], y))
               = Does(line[i], Cat(Cat(took[i], flow[i - 1]), y))
      BY <2>1, <2>2, <3>1, LeadTakes
    <3>6. OpenTold(new, i)'
      BY <1>1, <2>1, <3>2, <3>3, <3>4, <3>5 DEF OpenTold
    <3>7. ~Tainted(line[i], new[i])
      BY <1>9, <2>1, <2>2, <3>1, <3>2, TaintedCat
    <3>8. QED
      BY <3>6, <3>7
  <2>4. CASE Folding /\ i = lead + 1
    <3> DEFINE op == line[i]
               t == took[i]
               w == flow[i - 1]
    <3>1. i - 1 = lead /\ op.kind = "reduce" /\ ~nodes[i].ran
      BY <1>6, <2>1, <2>4 DEF OpenTold
    <3>2. new[i] = Cat(t, w) /\ Gave(new, i)' = Gave(took, i)
      <4>1. i <= k /\ ~(i <= lead)
        BY <1>6, <2>2, <2>4
      <4>2. QED
        BY <1>10, <1>11, <2>2, <4>1
    <3>3. slot = Partial(w)
      BY <1>9, <2>4, <3>1
    <3>4. after = IF Partial(w) = None THEN nodes[i] ELSE Absorb(nodes[i], Partial(w)[1])
      BY <2>4, <3>3
    <3>5. nodes'[i] = after
      BY <1>12, <2>4
    <3> HIDE DEF after, w, op, t
    <3>6. w \in Stream /\ t \in Stream /\ op \in Operators /\ Fits(op, nodes[i])
      BY <2>2 DEF w, t, op
    <3>7. ~after.ran /\ \A y \in Stream : Gives(op, nodes[i], Cat(w, y)) = Gives(op, after, y)
      BY <3>1, <3>4, <3>6, MergeTells
    <3>8. ASSUME NEW y \in Stream
          PROVE  Cat(Gave(took, i), Gives(op, after, y)) = Does(op, Cat(Cat(t, w), y))
      <4>1. Cat(w, y) \in Stream
        BY ONLY <3>6, <3>8, CatIn
      <4>2. Cat(Gave(took, i), Gives(op, nodes[i], Cat(w, y))) = Does(op, Cat(t, Cat(w, y)))
        BY <2>1, <4>1 DEF OpenTold, op, t
      <4>3. Cat(Cat(t, w), y) = Cat(t, Cat(w, y))
        BY ONLY <3>6, <3>8, CatLeft
      <4>4. QED
        BY <3>7, <3>8, <4>2, <4>3
    <3>9. OpenTold(new, i)'
      BY <1>1, <3>2, <3>5, <3>7, <3>8 DEF OpenTold, op
    <3>10. ~Tainted(op, new[i])
      BY <3>1 DEF Tainted
    <3>11. QED
      BY <3>9, <3>10 DEF op
  <2>5. CASE ~(i <= lead) /\ ~(Folding /\ i = lead + 1)
    <3>1. ~(i <= k)
      BY <1>6, <2>2, <2>5
    <3>2. new[i] = took[i] /\ Gave(new, i)' = Gave(took, i) /\ nodes'[i] = nodes[i]
      BY <1>10, <1>11, <1>12, <2>2, <2>5, <3>1
    <3>3. OpenTold(new, i)'
      BY <1>1, <2>1, <3>2 DEF OpenTold
    <3>4. QED
      BY <2>1, <3>2, <3>3
  <2>6. QED
    BY <2>3, <2>4, <2>5
<1>14. NodesTold(new)'
  <2>1. Ops' = Ops
    BY <1>1 DEF Ops
  <2>2. \A i : Open(i)'
    BY <1>4 DEF Open
  <2>3. QED
    BY <1>1, <1>13, <2>1, <2>2 DEF NodesTold
<1>15. SourceTold(new)'
  <2> DEFINE tail == SubSeq(taken, a + 1, Len(taken))
             s == FlattenSeq(source)
             u == FlattenSeq(tail)
             g == Gave(took, 0)
  <2>1. Left = SubSeq(taken, a, Len(taken))
    BY <1>0, <1>4 DEF Left
  <2>2. FlattenSeq(Left) = Cat(x, u) /\ u \in Stream /\ tail \in Seq(Seq(Row))
    BY <2>1, Now, FlattenFrom DEF x
  <2>3. Left' = tail
    <3>1. CASE a # Len(made)
      BY <1>1, <1>4, <3>1 DEF Left
    <3>2. CASE a = Len(made)
      <4>1. Left' = <<>>
        BY <1>4, <3>2 DEF Left
      <4>2. Len(tail) = 0 /\ tail \in Seq(Seq(Row))
        <5>1. Len(taken) \in 0 .. Len(taken) /\ a \in Nat /\ a = Len(taken)
          BY <1>6, <3>2, Now
        <5>2. LET q == SubSeq(taken, a + 1, Len(taken))
              IN  Len(q) = IF a <= Len(taken) THEN Len(taken) - a ELSE 0
          BY <5>1, Now, PartIs
        <5>3. QED
          BY <2>2, <5>1, <5>2
      <4>3. tail = <<>>
        BY <4>2, EmptySeq
      <4>4. QED
        BY <4>1, <4>3
    <3>3. QED
      BY <3>1, <3>2
  <2>4. Rest = Cat(Cat(x, u), s) /\ Rest' = Cat(u, s)
    BY <1>1, <2>2, <2>3 DEF Rest
  <2>5. g \in Stream /\ s \in Stream /\ Gave(new, 0)' = Cat(g, x)
    <3>1. 0 \in 0 .. Len(line) /\ 0 <= lead
      BY <1>6, Now
    <3>2. QED
      BY <1>8, <1>11, <3>1, Now
  <2>6. given = Cat(g, Rest)
    BY <1>3, <1>4 DEF Told, SourceTold
  <2> HIDE DEF g, s, u, tail
  <2>7. Cat(g, Cat(Cat(x, u), s)) = Cat(Cat(g, x), Cat(u, s))
    <3>1. Cat(Cat(x, u), s) = Cat(x, Cat(u, s)) /\ Cat(u, s) \in Stream
      BY ONLY <1>7, <2>2, <2>5, CatLeft, CatIn
    <3>2. Cat(Cat(g, x), Cat(u, s)) = Cat(g, Cat(x, Cat(u, s)))
      BY ONLY <1>7, <2>5, <3>1, CatLeft
    <3>3. QED
      BY ONLY <3>1, <3>2
  <2>8. given' = Cat(Gave(new, 0)', Rest')
    BY <1>1, <2>4, <2>5, <2>6, <2>7
  <2>9. QED
    BY <1>4, <2>8 DEF SourceTold
<1>16. new[Len(line) + 1]' = FlattenSeq(sink)'
  <2>1. Len(line) + 1 \in 1 .. Len(line) + 1 /\ ~(Len(line) + 1 <= k)
    BY <1>6, Now
  <2>2. QED
    BY <1>1, <1>3, <1>10, <2>1 DEF Told
<1>17. LineTold'
  <2>1. ASSUME NEW i \in Ops PROVE Covers(line[i], nodes'[i])
    <3>1. Covers(line[i], nodes[i])
      BY Now DEF LineTold
    <3>2. CASE Folding /\ i = lead + 1
      BY <1>6, <3>2 DEF Covers
    <3>3. CASE ~(Folding /\ i = lead + 1)
      BY <1>12, <3>1, <3>3
    <3>4. QED
      BY <3>2, <3>3
  <2>2. QED
    BY <1>1, <1>4, <2>1, Now DEF LineTold, Ops
<1>18. BatchTold'
  BY <1>1, <1>4, Now, BatchStays
<1>19. Told(new)' /\ new \in Took'
  BY <1>1, <1>10, <1>14, <1>15, <1>16 DEF Told, Took
<1>20. QED
  BY <1>17, <1>18, <1>19 DEF FNext

LEMMA StutterTells ==
  ASSUME FInv, UNCHANGED vars
  PROVE  FNext'
<1>1. UNCHANGED <<line, given, source, phase, lead, nodes, taken, made, todo, lost, at,
                  hand, pos, then, sink>>
  BY DEF vars, job, batch, push
<1>2. Ops' = Ops /\ Ended' = Ended /\ Took' = Took
  BY <1>1 DEF Ops, Ended, Took
<1>3. /\ Finishing' = Finishing /\ Emptying' = Emptying /\ Draining' = Draining
      /\ \A i : Handed(i)' = Handed(i)
  BY <1>1 DEF Finishing, Emptying, Draining, Handed
<1>4. \A i : Open(i)' = Open(i)
  BY <1>1, <1>3 DEF Open
<1>5. Rest' = Rest
  BY <1>1, <1>3 DEF Rest, Left
<1>6. LineTold'
  BY <1>1, <1>2, Now DEF LineTold
<1>7. BatchTold'
  BY <1>1, <1>3, Now, BatchStays
<1>8. ASSUME NEW took \in Took, Told(took)
      PROVE  Told(took)'
  <2>1. \A i : Gave(took, i)' = Gave(took, i)
    BY <1>3 DEF Gave
  <2>2. \A i \in Ops : (OpenTold(took, i) => OpenTold(took, i)')
                       /\ (ClosedTold(took, i) => ClosedTold(took, i)')
    BY <1>1, <2>1 DEF OpenTold, ClosedTold
  <2>3. NodesTold(took)'
    BY <1>1, <1>2, <1>4, <1>8, <2>2 DEF Told, NodesTold
  <2>4. FrontIsEnough(took) => FrontIsEnough(took)'
    BY <1>1, <2>1 DEF FrontIsEnough
  <2>5. SourceTold(took)'
    BY <1>1, <1>3, <1>5, <1>8, <2>1, <2>4 DEF Told, SourceTold
  <2>6. QED
    BY <1>1, <1>8, <2>3, <2>5 DEF Told
<1>9. ~Ended' => \E took \in Took' : Told(took)'
  <2>1. SUFFICES ASSUME ~Ended'
                 PROVE  \E took \in Took' : Told(took)'
    OBVIOUS
  <2>2. PICK took \in Took : Told(took)
    BY <1>2, <2>1 DEF FInv
  <2>3. QED
    BY <1>2, <1>8, <2>2
<1>10. QED
  BY <1>6, <1>7, <1>9 DEF FNext

\* What the nodes have given so far stays true of what came in.
LEMMA StepTells ==
  ASSUME FInv, [Next]_vars
  PROVE  FInv'
<1>1. PInv'
  BY StepFits DEF FInv
<1>2. FNext'
  <2>1. CASE \E c \in DOMAIN taken : RunHead(c)
    BY <2>1, RunHeadTells
  <2>2. CASE ~ \E c \in DOMAIN taken : RunHead(c)
    BY <2>2, StartTells, SerialStepTells, StopTells, ReadTells, HeadRaisesTells,
       HeadReturnsTells, DrainTells, PushNodeTells, PushSinkTells, FinishNodeTells,
       ReturnTells, StutterTells DEF Next
  <2>3. QED
    BY <2>1, <2>2
<1>3. QED
  BY <1>1, <1>2 DEF FInv, FNext
-----------------------------------------------------------------------------
(* Every step of the driver is a step of RowQuery, or changes nothing of it. *)
Outcome == IF Ended THEN phase ELSE "running"
Answered == IF phase = "answered" THEN FlattenSeq(sink) ELSE <<>>

\* The steps that end nothing.
LEMMA GoingOn ==
  ASSUME FInv, UNCHANGED <<line, given>>, ~Ended, ~Ended'
  PROVE  UNCHANGED <<line, given, Outcome, Answered>>
BY DEF Outcome, Answered, Ended

LEMMA FailsAsTold ==
  ASSUME FInv, UNCHANGED <<line, given>>, ~Ended, phase' = "failed", MayFail
  PROVE  Query!Fail
<1>1. Outcome = "running" /\ Outcome' = "failed" /\ Answered' = Answered
  BY DEF Outcome, Answered, Ended
<1>2. QED
  BY <1>1 DEF Query!Fail, MayFail, Outcome, Answered

\* An expression raises on the chunk in hand.
LEMMA PushRaises ==
  ASSUME FInv, PushNode, phase' = "failed"
  PROVE  MayFail
<1>1. phase = "push" /\ pos \in Ops
  BY DEF PushNode
<1>2. then # "failed"
  BY Now DEF PInv, PlacesAre
<1>3. Process(line[pos], nodes[pos], hand).raised
  BY <1>2 DEF PushNode
<1>4. hand \in Stream /\ line[pos] \in Operators
  BY <1>1, Now DEF PInv, ChunksAre, Stream
<1>5. Tainted(line[pos], hand)
  BY <1>3, <1>4, ProcessRaises
<1>6. PICK took \in Took : Told(took)
  BY <1>1 DEF FInv, Ended
<1>7. pos - 1 \in 0 .. Len(line) /\ (pos - 1) + 1 = pos /\ pos \in 1 .. Len(line) + 1
  BY <1>1, Now
<1>8. Gave(took, pos - 1) = Cat(took[pos], hand)
  BY <1>1, <1>7 DEF Gave, Handed
<1>9. took[pos] \in Stream
  BY <1>6, <1>7 DEF Took
<1>10. Tainted(line[pos], Gave(took, pos - 1))
  BY <1>4, <1>5, <1>8, <1>9, TaintedCat
<1>11. QED
  BY <1>1, <1>6, <1>10, Now, TaintedFails

LEMMA StepRefines ==
  ASSUME FInv, [Next]_vars
  PROVE  [Query!Next]_<<line, given, Outcome, Answered>>
<1>1. CASE UNCHANGED vars
  BY <1>1 DEF vars, job, Outcome, Answered, Ended
<1>2. CASE HeadRaises
  <2>1. phase = "head" /\ lost # {} /\ phase' = "failed" /\ UNCHANGED <<line, given>>
    BY <1>2 DEF HeadRaises, job
  <2>2. MayFail
    BY <2>1, LostFails
  <2>3. QED
    BY <2>1, <2>2, FailsAsTold DEF Ended, Query!Next
<1>3. CASE PushNode
  <2>1. phase = "push" /\ UNCHANGED <<line, given>> /\ (phase' = "failed" \/ phase' \in {"push", then})
    BY <1>3 DEF PushNode, job
  <2>2. then \in {"serial", "read", "drain", "finish"}
    BY Now DEF PInv, PlacesAre
  <2>3. CASE phase' = "failed"
    BY <1>3, <2>1, <2>3, PushRaises, FailsAsTold DEF Ended, Query!Next
  <2>4. CASE phase' # "failed"
    BY <2>1, <2>2, <2>4, GoingOn DEF Ended
  <2>5. QED
    BY <2>3, <2>4
<1>4. CASE Return
  <2>1. /\ MayAnswer /\ FlattenSeq(sink) = Query!Answers(given)
        /\ phase = "finish" /\ phase' = "answered" /\ UNCHANGED <<line, given, sink>>
    BY <1>4, ReturnAnswers DEF Return, job
  <2>2. /\ Outcome = "running" /\ Outcome' = "answered"
        /\ Answered' = Query!Answers(given)
    BY <2>1 DEF Outcome, Answered, Ended
  <2>3. QED
    BY <2>1, <2>2 DEF Query!Next, Query!Answer, MayAnswer, Outcome, Answered
<1>5. CASE Next /\ ~HeadRaises /\ ~PushNode /\ ~Return
  <2>1. then \in {"serial", "read", "drain", "finish"}
    BY Now DEF PInv, PlacesAre
  <2>2. UNCHANGED <<line, given>> /\ ~Ended /\ ~Ended'
    <3>1. CASE Drain
      BY <3>1 DEF Drain, job, Push, Ended
    <3>2. CASE FinishNode
      BY <3>2 DEF FinishNode, job, Push, Ended
    <3>3. CASE \E c \in DOMAIN taken : RunHead(c)
      BY <3>3 DEF RunHead, job, Ended
    <3>4. CASE PushSink
      BY <2>1, <3>4 DEF PushSink, job, Ended
    <3>5. CASE Start \/ SerialStep \/ SerialStop \/ ReadBatch \/ SourceDone \/ HeadReturns
      BY <3>5 DEF Start, SerialStep, SerialStop, ReadBatch, SourceDone, HeadReturns, job,
                  Push, Ended
    <3>6. QED
      BY <1>5, <3>1, <3>2, <3>3, <3>4, <3>5 DEF Next
  <2>3. QED
    BY <2>2, GoingOn
<1>6. QED
  BY <1>1, <1>2, <1>3, <1>4, <1>5

\* Whatever chunks the rows come in, by whatever route and in whatever order the
\* workers run, a pipeline answers what its line promises over the rows as one
\* sequence, and fails only where an expression raises on rows that count.
THEOREM PipelineImplementsRowQuery == Spec => ImplementsRowQuery
<1>1. Init => FInv
  BY InitTells
<1>2. FInv /\ [Next]_vars => FInv'
  BY StepTells
<1>3. Init => Query!Init
  BY DEF Init, Query!Init, Ended
<1>4. FInv /\ [Next]_vars =>
        [Query!Next]_<<line, given, IF Ended THEN phase ELSE "running",
                       IF phase = "answered" THEN FlattenSeq(sink) ELSE <<>> >>
  BY StepRefines DEF Outcome, Answered
<1>5. QED
  BY <1>1, <1>2, <1>3, <1>4, PTL DEF Spec, ImplementsRowQuery, Query!Spec
=============================================================================
