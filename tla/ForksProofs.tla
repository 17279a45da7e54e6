---------------------------- MODULE ForksProofs -----------------------------
(***************************************************************************)
(* What TLAPS proves of parallel_morsels for every set of jobs, any number *)
(* of workers and any texts, and of parallel_for for any number of         *)
(* indexes: the inductive invariants IInv and ForInv and, from them, the   *)
(* safety properties the runs check on small instances.                    *)
(***************************************************************************)
EXTENDS MCForks, FiniteSetTheorems, TLAPS

\* Where the caller is decides which processes can be doing anything.
Phases ==
  /\ phase = "call" => /\ \A p \in Procs : mode[p] = "absent" /\ at[p] = 0
                       /\ cursor = 0
                       /\ \A r \in Row : runs[r] = 0
  /\ phase = "fork" => /\ mode[Caller] = "absent"
                       /\ total > 0
  /\ phase = "inline" => mode[Caller] = "busy"
  /\ mode[Caller] # "ready"
  /\ mode[Caller] = "busy" => phase = "inline"
  /\ mode[Caller] = "drained" => at[Caller] = stop[Caller]
  /\ mode[Caller] # "absent" => /\ phase \in {"inline", "returned", "raised"}
                                /\ total > 0
                                /\ \A w \in Workers : mode[w] = "absent"
  /\ phase = "call" => created = 0
  /\ \A w \in Workers : w < created <=> mode[w] # "absent"
  /\ Left => \A w \in Workers : mode[w] \in {"absent", "drained", "failed"}

Drained == {w \in Workers : mode[w] = "drained"}

\* Each drained worker has pushed the cursor one step past the rows.
CursorRoom ==
  /\ 0 <= cursor
  /\ cursor < QueueTotal(total) + (Cardinality(Drained) + 1) * QueueRows(rows)
  /\ \A w \in Workers : mode[w] = "drained" => cursor >= total

\* The spans of the processes that hold one are apart and still to be run.
Spans ==
  /\ \A p \in Procs : Live(p) => 0 <= at[p] /\ at[p] <= stop[p]
                                 /\ stop[p] <= total
  /\ \A w \in Workers : Live(w) => stop[w] <= cursor
  /\ \A p \in Procs : \A r \in Row :
        Live(p) /\ at[p] <= r /\ r < stop[p] => runs[r] = 0
  /\ \A p, q \in Procs : \A r \in Row :
        p # q /\ Live(p) /\ Live(q) /\ at[p] <= r /\ r < stop[p]
          => ~(at[q] <= r /\ r < stop[q])
  /\ \A r \in Row : runs[r] <= 1
  /\ mode[Caller] = "absent" => \A r \in Row : cursor <= r => runs[r] = 0

\* A row that was handed out has been run or is in the span of its taker.
Covered ==
  /\ mode[Caller] = "absent" =>
        \A r \in Row : r < cursor =>
           runs[r] = 1 \/ \E w \in Workers : Live(w) /\ at[w] <= r
                                                     /\ r < stop[w]
  /\ mode[Caller] # "absent" =>
        \A r \in Row : runs[r] = 1 \/ (at[Caller] <= r /\ r < stop[Caller])

IInv == TypeOK /\ Phases /\ CursorRoom /\ Spans /\ Covered
-----------------------------------------------------------------------------
LEMMA ProcFacts ==
  /\ WorkerCount \in Nat /\ WorkerCount >= 1
  /\ Workers \subseteq Nat /\ Caller \notin Workers
  /\ Caller \in Procs /\ Workers \subseteq Procs
  /\ Procs \subseteq Int
  /\ IsFiniteSet(Workers) /\ Cardinality(Workers) = WorkerCount
<1>1. WorkerCount \in Nat /\ WorkerCount >= 1
  BY JobsFit DEF WorkerCount
<1>2. Workers \subseteq Nat /\ Caller \notin Workers
  BY <1>1 DEF Workers, Caller
<1>3. IsFiniteSet(Workers) /\ Cardinality(Workers) = WorkerCount
  BY <1>1, FS_Interval DEF Workers
<1>4. QED
  BY <1>1, <1>2, <1>3 DEF Procs, Caller

LEMMA QueueFacts ==
  ASSUME NEW t \in Totals, NEW n \in RowSizes
  PROVE  /\ t \in Int
         /\ QueueTotal(t) \in Nat /\ QueueTotal(t) >= t
         /\ t > 0 => QueueTotal(t) = t
         /\ QueueRows(n) \in Nat /\ QueueRows(n) >= 1
BY JobsFit DEF QueueTotal, QueueRows

LEMMA Monotone ==
  ASSUME NEW a \in Nat, NEW b \in Nat, NEW c \in Nat, a <= b
  PROVE  a * c <= b * c
<1>1. PICK d \in Nat : b = a + d
  <2>1. b - a \in Nat /\ b = a + (b - a)
    OBVIOUS
  <2>2. QED
    BY <2>1
<1>2. b * c = a * c + d * c
  BY <1>1
<1>3. d * c \in Nat /\ a * c \in Nat
  BY <1>1
<1>4. QED
  BY <1>2, <1>3

LEMMA CrewFacts ==
  ASSUME TypeOK, total > 0
  PROVE  /\ Crew \in Nat
         /\ Crew <= WorkerCount
         /\ Morsels \in Nat
<1>1. QueueTotal(total) \in Nat /\ QueueRows(rows) \in Nat
      /\ QueueRows(rows) >= 1
  BY QueueFacts DEF TypeOK
<1>2. Morsels \in Nat
  <2> DEFINE q == QueueRows(rows)
             n == QueueTotal(total) + q - 1
  <2>1. q \in Nat \ {0} /\ n \in Nat
    BY <1>1
  <2>2. n \div q \in Nat
    BY <2>1
  <2>3. QED
    BY <2>2 DEF Morsels
<1>3. QED
  BY <1>2, ProcFacts DEF Crew

\* A worker that is still taking has not drained, so the cursor is at least
\* a step away from the largest Int64.
LEMMA AdvanceDoesNotWrap ==
  ASSUME IInv, NEW w \in Workers, mode[w] = "ready"
  PROVE  /\ Advance = cursor + QueueRows(rows)
         /\ IsFiniteSet(Drained)
         /\ Cardinality(Drained) \in Nat
         /\ Cardinality(Drained) + 1 <= WorkerCount
<1>1. IsFiniteSet(Drained) /\ Cardinality(Drained) \in Nat
  BY ProcFacts, FS_Subset, FS_CardinalityType DEF Drained
<1>2. Cardinality(Drained) + 1 <= WorkerCount
  <2>1. w \notin Drained /\ Drained \subseteq Workers \ {w}
    BY DEF Drained
  <2>2. Cardinality(Workers \ {w}) = WorkerCount - 1
        /\ IsFiniteSet(Workers \ {w})
    BY ProcFacts, FS_RemoveElement
  <2>3. Cardinality(Drained) <= WorkerCount - 1
    BY <2>1, <2>2, FS_Subset
  <2>4. QED
    BY <1>1, <2>3, ProcFacts
<1>3. Advance = cursor + QueueRows(rows)
  <2> DEFINE q == QueueRows(rows)
             c == Cardinality(Drained)
             t == QueueTotal(total)
  <2>1. q \in Nat /\ t \in Nat /\ WorkerCount \in Nat
    BY QueueFacts, ProcFacts DEF IInv, TypeOK
  <2>2. (c + 2) * q <= (WorkerCount + 1) * q
    BY <1>1, <1>2, <2>1, Monotone
  <2>3. (c + 2) * q = (c + 1) * q + q /\ (c + 1) * q \in Nat
    BY <1>1, <2>1
  <2>4. t + (WorkerCount + 1) * q <= MaxInt /\ MaxInt \in Nat
    BY JobsFit DEF IInv, TypeOK
  <2>5. cursor < t + (c + 1) * q /\ cursor \in Int
    BY DEF IInv, TypeOK, CursorRoom
  <2>6. (WorkerCount + 1) * q \in Nat
    BY <2>1
  <2> HIDE DEF q, c, t
  <2>7. cursor + q <= MaxInt
    BY <2>1, <2>2, <2>3, <2>4, <2>5, <2>6
  <2>8. QED
    BY <2>1, <2>4, <2>5, <2>7 DEF Advance, Wrap, q
<1>4. QED
  BY <1>1, <1>2, <1>3
-----------------------------------------------------------------------------
LEMMA InitIInv == Init => IInv
<1> SUFFICES ASSUME Init PROVE IInv
  OBVIOUS
<1>1. TypeOK
  BY ProcFacts DEF Init, TypeOK
<1>2. Phases
  BY ProcFacts DEF Init, Phases, Left
<1>3. CursorRoom
  <2>1. Drained = {} /\ Cardinality(Drained) = 0
    BY ProcFacts, FS_EmptySet DEF Init, Drained
  <2>2. QueueTotal(total) \in Nat /\ QueueRows(rows) \in Nat
        /\ QueueRows(rows) >= 1
    BY QueueFacts DEF Init
  <2>3. 0 < QueueTotal(total) + (0 + 1) * QueueRows(rows)
    BY <2>2
  <2>4. \A w \in Workers : mode[w] # "drained"
    BY ProcFacts DEF Init
  <2>5. QED
    BY <2>1, <2>3, <2>4 DEF Init, CursorRoom
<1>4. Spans
  BY ProcFacts DEF Init, Spans, Live, Row
<1>5. Covered
  BY ProcFacts DEF Init, Covered, Row
<1>6. QED
  BY <1>1, <1>2, <1>3, <1>4, <1>5 DEF IInv

\* The row a body touches next is a row of the job.
LEMMA NextRow ==
  ASSUME IInv, NEW p \in Procs, RunRow(p)
  PROVE  at[p] \in Row /\ runs[at[p]] = 0
<1>1. total \in Int
  BY QueueFacts DEF IInv, TypeOK
<1>2. Live(p)
  BY DEF RunRow, Live
<1>3. at[p] \in Int /\ stop[p] \in Int
  BY DEF IInv, TypeOK
<1>4. 0 <= at[p] /\ at[p] < stop[p] /\ stop[p] <= total
  BY <1>2 DEF IInv, Spans, RunRow
<1>5. at[p] \in Row
  BY <1>1, <1>3, <1>4 DEF Row
<1>6. QED
  BY <1>2, <1>3, <1>4, <1>5 DEF IInv, Spans

LEMMA TypeStep == IInv /\ [Next]_vars => TypeOK'
<1> SUFFICES ASSUME IInv, [Next]_vars PROVE TypeOK'
  OBVIOUS
<1> USE ProcFacts DEF TypeOK, IInv, job, span
<1>1. CASE CallEmpty
  BY <1>1 DEF CallEmpty, Row
<1>2. CASE CallInline
  BY <1>2, QueueFacts DEF CallInline, Row
<1>3. CASE CallFork
  BY <1>3 DEF CallFork, Row
<1>4. CASE CreateTask
  <2>1. created' \in 0 .. WorkerCount
    BY <1>4, CrewFacts DEF CreateTask, Phases
  <2>2. QED
    BY <1>4, <2>1 DEF CreateTask, Row
<1>5. CASE Return
  BY <1>5 DEF Return, Joined, Row
<1>6. CASE Raise
  BY <1>6 DEF Raise, Joined, Row
<1>7. CASE RunRow(Caller)
  <2>1. at[Caller] \in Row /\ runs[at[Caller]] = 0
    BY <1>7, NextRow
  <2>2. runs' \in [Row -> Nat]
    BY <1>7, <2>1 DEF RunRow
  <2>3. at' \in [Procs -> Int]
    BY <1>7 DEF RunRow
  <2>4. QED
    BY <1>7, <2>2, <2>3 DEF RunRow, Row
<1>8. CASE InlineReturns
  BY <1>8 DEF InlineReturns, Row
<1>9. ASSUME NEW m \in Messages, InlineRaises(m) PROVE TypeOK'
  BY <1>9 DEF InlineRaises, Row
<1>10. ASSUME NEW w \in Workers, TakeMorsel(w) PROVE TypeOK'
  <2>1. Advance \in Int /\ MorselEnd \in Int
    BY <1>10, QueueFacts, AdvanceDoesNotWrap DEF TakeMorsel, MorselEnd
  <2>2. QED
    BY <1>10, <2>1 DEF TakeMorsel, Row
<1>11. ASSUME NEW w \in Workers, TakeNothing(w) PROVE TypeOK'
  <2>1. Advance \in Int
    BY <1>11, QueueFacts, AdvanceDoesNotWrap DEF TakeNothing
  <2>2. QED
    BY <1>11, <2>1 DEF TakeNothing, Row
<1>12. ASSUME NEW w \in Workers, RunRow(w) PROVE TypeOK'
  <2>1. at[w] \in Row /\ runs[at[w]] = 0
    BY <1>12, NextRow
  <2>2. runs' \in [Row -> Nat]
    BY <1>12, <2>1 DEF RunRow
  <2>3. at' \in [Procs -> Int]
    BY <1>12 DEF RunRow
  <2>4. QED
    BY <1>12, <2>2, <2>3 DEF RunRow, Row
<1>13. ASSUME NEW w \in Workers, BodyReturns(w) PROVE TypeOK'
  BY <1>13 DEF BodyReturns, Row
<1>14. ASSUME NEW w \in Workers, NEW m \in Messages, BodyRaises(w, m)
       PROVE TypeOK'
  BY <1>14 DEF BodyRaises, Row
<1>15. CASE UNCHANGED vars
  BY <1>15 DEF vars, Row
<1>16. QED
  BY <1>1, <1>2, <1>3, <1>4, <1>5, <1>6, <1>7, <1>8, <1>9, <1>10, <1>11,
     <1>12, <1>13, <1>14, <1>15
     DEF Next, CallerNext, InlineNext, WorkerNext

LEMMA PhasesStep == IInv /\ [Next]_vars => Phases'
<1> SUFFICES ASSUME IInv, [Next]_vars PROVE Phases'
  OBVIOUS
<1> USE ProcFacts DEF TypeOK, IInv, Phases, job, span, Left
<1>1. CASE CallEmpty
  BY <1>1 DEF CallEmpty, Row
<1>2. CASE CallInline
  BY <1>2 DEF CallInline, Row
<1>3. CASE CallFork
  BY <1>3 DEF CallFork, Row
<1>4. CASE CreateTask
  <2>1. created < WorkerCount /\ created \in Nat
    BY <1>4, CrewFacts DEF CreateTask
  <2>2. QED
    BY <1>4, <2>1 DEF CreateTask, Row, Workers
<1>5. ASSUME Joined PROVE \A w \in Workers :
                            mode[w] \in {"absent", "drained", "failed"}
  BY <1>5, CrewFacts DEF Joined, Workers
<1>6. CASE Return
  BY <1>5, <1>6 DEF Return, Joined, Row
<1>7. CASE Raise
  BY <1>5, <1>7 DEF Raise, Joined, Row
<1>8. CASE RunRow(Caller)
  BY <1>8 DEF RunRow, Row
<1>9. CASE InlineReturns
  BY <1>9 DEF InlineReturns, Row
<1>10. ASSUME NEW m \in Messages, InlineRaises(m) PROVE Phases'
  BY <1>10 DEF InlineRaises, Row
<1>11. ASSUME NEW w \in Workers, TakeMorsel(w) PROVE Phases'
  BY <1>11 DEF TakeMorsel, Row
<1>12. ASSUME NEW w \in Workers, TakeNothing(w) PROVE Phases'
  BY <1>12 DEF TakeNothing, Row
<1>13. ASSUME NEW w \in Workers, RunRow(w) PROVE Phases'
  BY <1>13 DEF RunRow, Row
<1>14. ASSUME NEW w \in Workers, BodyReturns(w) PROVE Phases'
  BY <1>14 DEF BodyReturns, Row
<1>15. ASSUME NEW w \in Workers, NEW m \in Messages, BodyRaises(w, m)
       PROVE Phases'
  BY <1>15 DEF BodyRaises, Row
<1>16. CASE UNCHANGED vars
  BY <1>16 DEF vars, Row
<1>17. QED
  BY <1>1, <1>2, <1>3, <1>4, <1>6, <1>7, <1>8, <1>9, <1>10, <1>11,
     <1>12, <1>13, <1>14, <1>15, <1>16
     DEF Next, CallerNext, InlineNext, WorkerNext

LEMMA CursorStep == IInv /\ [Next]_vars => CursorRoom'
<1> SUFFICES ASSUME IInv, [Next]_vars PROVE CursorRoom'
  OBVIOUS
<1> USE ProcFacts DEF job, span
<1> DEFINE Same == /\ UNCHANGED <<total, rows, cursor>>
                   /\ \A w \in Workers :
                        mode'[w] = "drained" <=> mode[w] = "drained"
<1>1. ASSUME Same PROVE CursorRoom'
  <2>1. Drained' = Drained
    BY <1>1 DEF Drained
  <2>2. QED
    BY <1>1, <2>1 DEF IInv, CursorRoom
<1>2. CASE CallEmpty \/ CallFork \/ Return \/ Raise \/ RunRow(Caller)
  BY <1>1, <1>2 DEF CallEmpty, CallFork, Return, Raise, RunRow
<1>3. CASE CallInline
  BY <1>1, <1>3 DEF CallInline, IInv, TypeOK
<1>4. CASE CreateTask
  BY <1>1, <1>4 DEF CreateTask, IInv, TypeOK, Phases
<1>5. CASE InlineReturns
  BY <1>1, <1>5 DEF InlineReturns, IInv, TypeOK
<1>6. ASSUME NEW m \in Messages, InlineRaises(m) PROVE CursorRoom'
  BY <1>1, <1>6 DEF InlineRaises, IInv, TypeOK
<1>7. ASSUME NEW w \in Workers, mode[w] = "ready"
      PROVE  /\ QueueRows(rows) \in Nat /\ QueueTotal(total) \in Nat
             /\ cursor \in Int /\ total \in Int /\ total <= QueueTotal(total)
             /\ QueueRows(rows) >= 1 /\ Cardinality(Drained) \in Nat
             /\ Advance = cursor + QueueRows(rows)
             /\ Cardinality(Drained) * QueueRows(rows) \in Nat
             /\ (Cardinality(Drained) + 1) * QueueRows(rows)
                  = Cardinality(Drained) * QueueRows(rows) + QueueRows(rows)
             /\ (Cardinality(Drained) + 2) * QueueRows(rows)
                  = (Cardinality(Drained) + 1) * QueueRows(rows)
                       + QueueRows(rows)
  <2>1. /\ QueueRows(rows) \in Nat /\ QueueTotal(total) \in Nat
        /\ cursor \in Int /\ total \in Int /\ total <= QueueTotal(total)
        /\ QueueRows(rows) >= 1
    BY QueueFacts DEF IInv, TypeOK
  <2>2. Cardinality(Drained) \in Nat /\ Advance = cursor + QueueRows(rows)
    BY <1>7, AdvanceDoesNotWrap
  <2>3. \A c \in Nat, q \in Nat : /\ c * q \in Nat
                                 /\ (c + 1) * q = c * q + q
                                 /\ (c + 2) * q = (c + 1) * q + q
    OBVIOUS
  <2>4. QED
    BY <2>1, <2>2, <2>3
<1>8. ASSUME NEW w \in Workers, TakeMorsel(w) PROVE CursorRoom'
  <2>1. Drained' = Drained
    BY <1>8 DEF TakeMorsel, Drained, IInv, TypeOK
  <2>2. UNCHANGED <<total, rows>> /\ cursor' = Advance
        /\ cursor < QueueTotal(total) /\ mode[w] = "ready" /\ 0 <= cursor
    BY <1>8 DEF TakeMorsel, IInv, CursorRoom
  <2>3. \A v \in Workers : mode'[v] = "drained" => cursor >= total
    BY <1>8 DEF TakeMorsel, IInv, CursorRoom, TypeOK
  <2>4. 0 <= cursor' /\ cursor' < QueueTotal(total)
                        + (Cardinality(Drained) + 1) * QueueRows(rows)
    BY <1>7, <2>2
  <2>5. cursor' >= cursor
    BY <1>7, <2>2
  <2>6. \A v \in Workers : mode'[v] = "drained" => cursor' >= total
    BY <1>7, <2>2, <2>3, <2>5
  <2>7. QED
    BY <2>1, <2>2, <2>4, <2>6 DEF CursorRoom
<1>9. ASSUME NEW w \in Workers, TakeNothing(w) PROVE CursorRoom'
  <2>1. Drained' = Drained \cup {w} /\ w \notin Drained
    BY <1>9 DEF TakeNothing, Drained, IInv, TypeOK
  <2>2. UNCHANGED <<total, rows>> /\ cursor' = Advance
        /\ cursor >= QueueTotal(total) /\ mode[w] = "ready" /\ 0 <= cursor
    BY <1>9 DEF TakeNothing, IInv, CursorRoom
  <2>3. Cardinality(Drained') = Cardinality(Drained) + 1
    BY <2>1, <2>2, AdvanceDoesNotWrap, FS_AddElement
  <2>4. cursor < QueueTotal(total)
                   + (Cardinality(Drained) + 1) * QueueRows(rows)
    BY DEF IInv, CursorRoom
  <2>5. 0 <= cursor' /\ cursor' < QueueTotal(total)
                        + (Cardinality(Drained) + 2) * QueueRows(rows)
    BY <1>7, <2>2, <2>4
  <2>6. cursor' >= total
    BY <1>7, <2>2
  <2>7. (Cardinality(Drained) + 1) + 1 = Cardinality(Drained) + 2
    BY <1>7, <2>2
  <2>8. QED
    BY <2>2, <2>3, <2>5, <2>6, <2>7 DEF CursorRoom
<1>10. ASSUME NEW w \in Workers, RunRow(w) \/ BodyReturns(w)
       PROVE  CursorRoom'
  BY <1>1, <1>10 DEF RunRow, BodyReturns, IInv, TypeOK
<1>11. ASSUME NEW w \in Workers, NEW m \in Messages, BodyRaises(w, m)
       PROVE  CursorRoom'
  BY <1>1, <1>11 DEF BodyRaises, IInv, TypeOK
<1>12. CASE UNCHANGED vars
  BY <1>1, <1>12 DEF vars
<1>13. QED
  BY <1>2, <1>3, <1>4, <1>5, <1>6, <1>8, <1>9, <1>10, <1>11, <1>12
     DEF Next, CallerNext, InlineNext, WorkerNext

\* What a step of take() hands its worker.
LEMMA TakeFacts ==
  ASSUME IInv, NEW w \in Workers, TakeMorsel(w)
  PROVE  /\ cursor \in Int /\ total \in Int /\ 0 <= cursor
         /\ cursor < total /\ MorselEnd \in Int
         /\ cursor < MorselEnd /\ MorselEnd <= total
         /\ Advance \in Int /\ MorselEnd <= Advance
         /\ \A r \in Row : r < Advance => r < MorselEnd
         /\ mode[Caller] = "absent"
<1>1. mode[Caller] = "absent"
  BY ProcFacts DEF TakeMorsel, IInv, Phases
<1>2. QueueTotal(total) \in Nat /\ QueueRows(rows) \in Nat
      /\ QueueRows(rows) >= 1 /\ cursor \in Int /\ total \in Int
  BY QueueFacts DEF IInv, TypeOK
<1>3. 0 <= cursor /\ cursor < QueueTotal(total)
  BY DEF IInv, CursorRoom, TakeMorsel
<1>4. QueueTotal(total) = total
  BY <1>2, <1>3 DEF QueueTotal
<1>5. Advance = cursor + QueueRows(rows)
  BY AdvanceDoesNotWrap DEF TakeMorsel
<1>6. QED
  BY <1>1, <1>2, <1>3, <1>4, <1>5 DEF MorselEnd, Row

LEMMA SpansStep == IInv /\ [Next]_vars => Spans'
<1> SUFFICES ASSUME IInv, [Next]_vars PROVE Spans'
  OBVIOUS
<1> USE ProcFacts DEF IInv, Spans, Live, job, span
<1> DEFINE Same == UNCHANGED <<total, cursor, at, stop, runs>>
<1>1. ASSUME Same, \A p \in Procs : Live(p)' <=> Live(p),
             mode'[Caller] = "absent" => mode[Caller] = "absent"
      PROVE  Spans'
  BY <1>1 DEF Row
<1>2. CASE CallEmpty \/ CallFork \/ Return \/ Raise
  BY <1>1, <1>2 DEF CallEmpty, CallFork, Return, Raise
<1>3. CASE CallInline
  <2>1. \A p \in Procs : mode[p] = "absent"
    BY <1>3 DEF CallInline, Phases
  <2>2. \A r \in Row : runs[r] = 0
    BY <1>3 DEF CallInline, Phases, Row
  <2>3. total \in Int /\ total > 0 /\ at[Caller] \in Int
    BY <1>3, QueueFacts DEF CallInline, TypeOK
  <2>4. UNCHANGED <<total, cursor, at, runs>>
    BY <1>3 DEF CallInline
  <2>5. mode' = [mode EXCEPT ![Caller] = "busy"]
        /\ stop' = [stop EXCEPT ![Caller] = total]
    BY <1>3 DEF CallInline
  <2>6. at[Caller] = 0
    BY <1>3 DEF CallInline, Phases
  <2>7. QED
    BY <2>1, <2>2, <2>3, <2>4, <2>5, <2>6 DEF Row, TypeOK
<1>4. CASE CreateTask
  <2>1. created \in Workers /\ mode[created] = "absent"
    BY <1>4, CrewFacts DEF CreateTask, TypeOK, Phases, Workers
  <2>2. QED
    BY <1>1, <1>4, <2>1 DEF CreateTask, TypeOK
<1>5. CASE InlineReturns
  BY <1>5 DEF InlineReturns, TypeOK, Row
<1>6. ASSUME NEW m \in Messages, InlineRaises(m) PROVE Spans'
  BY <1>1, <1>6 DEF InlineRaises, TypeOK
<1>7. ASSUME NEW p \in Procs, RunRow(p) PROVE Spans'
  <2>1. at[p] \in Row /\ runs[at[p]] = 0 /\ Live(p)
    BY <1>7, NextRow DEF RunRow
  <2>2. UNCHANGED <<total, cursor, mode, stop>>
        /\ at' = [at EXCEPT ![p] = at[p] + 1]
        /\ runs' = [runs EXCEPT ![at[p]] = 1]
    BY <1>7, <2>1 DEF RunRow, TypeOK
  <2>3. at \in [Procs -> Int] /\ stop \in [Procs -> Int] /\ total \in Int
        /\ runs \in [Row -> Nat] /\ cursor \in Int
    BY QueueFacts DEF TypeOK
  <2>4. \A q \in Procs : Live(q)' => 0 <= at'[q] /\ at'[q] <= stop'[q]
                                     /\ stop'[q] <= total'
    BY <1>7, <2>1, <2>2, <2>3 DEF RunRow
  <2>5. \A q \in Procs : \A r \in Row :
           Live(q) /\ at'[q] <= r /\ r < stop[q] => runs'[r] = 0
    <3>1. SUFFICES ASSUME NEW q \in Procs, NEW r \in Row, Live(q),
                          at'[q] <= r, r < stop[q]
                   PROVE  runs'[r] = 0
      OBVIOUS
    <3>2. r \in Int /\ at[q] \in Int /\ at[p] \in Int /\ at[p] < stop[p]
      BY <1>7, <2>3 DEF RunRow, Row
    <3>3. at[q] <= r
      BY <2>2, <2>3, <3>1, <3>2
    <3>4. runs[r] = 0
      BY <3>1, <3>3
    <3>5. r # at[p]
      BY <2>1, <2>2, <2>3, <3>1, <3>2, <3>3
    <3>6. QED
      BY <2>2, <2>3, <3>4, <3>5
  <2>6. \A q, s \in Procs : \A r \in Row :
           q # s /\ Live(q) /\ Live(s) /\ at'[q] <= r /\ r < stop[q]
             => ~(at'[s] <= r /\ r < stop[s])
    <3>1. \A q \in Procs : \A r \in Row : at'[q] <= r => at[q] <= r
      BY <2>1, <2>2, <2>3 DEF Row
    <3>2. QED
      BY <3>1
  <2>7. \A r \in Row : runs'[r] <= 1
    BY <2>1, <2>2, <2>3
  <2>8. mode[Caller] = "absent" => \A r \in Row : cursor <= r => runs'[r] = 0
    <3>1. SUFFICES ASSUME mode[Caller] = "absent", NEW r \in Row, cursor <= r
                   PROVE  runs'[r] = 0
      OBVIOUS
    <3>2. p \in Workers
      BY <1>7, <3>1 DEF RunRow, Procs
    <3>3. at[p] < stop[p] /\ stop[p] <= cursor
      BY <1>7, <2>1, <3>2 DEF RunRow
    <3>4. r # at[p]
      BY <2>3, <3>1, <3>3 DEF Row
    <3>5. QED
      BY <2>1, <2>2, <2>3, <3>1, <3>4
  <2>9. Row' = Row /\ \A q \in Procs : Live(q)' <=> Live(q)
    BY <2>2 DEF Row
  <2>10. QED
    BY <2>2, <2>4, <2>5, <2>6, <2>7, <2>8, <2>9
<1>8. ASSUME NEW w \in Workers, TakeMorsel(w) PROVE Spans'
  <2>1. /\ cursor \in Int /\ total \in Int /\ 0 <= cursor
        /\ cursor < total /\ MorselEnd \in Int
        /\ cursor < MorselEnd /\ MorselEnd <= total
        /\ Advance \in Int /\ MorselEnd <= Advance
        /\ mode[Caller] = "absent"
    BY <1>8, TakeFacts
  <2>2. at \in [Procs -> Int] /\ stop \in [Procs -> Int]
        /\ mode \in [Procs -> {"absent", "ready", "busy", "drained", "failed"}]
    BY DEF TypeOK
  <2>3. UNCHANGED <<total, runs>> /\ cursor' = Advance
        /\ at' = [at EXCEPT ![w] = cursor]
        /\ stop' = [stop EXCEPT ![w] = MorselEnd]
        /\ mode' = [mode EXCEPT ![w] = "busy"]
    BY <1>8 DEF TakeMorsel
  <2>4. \A q \in Procs : Live(q)' => 0 <= at'[q] /\ at'[q] <= stop'[q]
                                     /\ stop'[q] <= total'
    BY <2>1, <2>2, <2>3
  <2>5. \A v \in Workers : Live(v)' => stop'[v] <= cursor'
    BY <2>1, <2>2, <2>3
  <2>6. \A q \in Procs : \A r \in Row :
           Live(q)' /\ at'[q] <= r /\ r < stop'[q] => runs'[r] = 0
    BY <2>1, <2>2, <2>3
  <2>7. \A q \in Procs : \A r \in Row :
           q # w /\ Live(q) /\ r < stop[q] => r < cursor
    BY <2>1, <2>2 DEF Procs, Row
  <2>8. \A q, s \in Procs : \A r \in Row :
           q # s /\ Live(q)' /\ Live(s)' /\ at'[q] <= r /\ r < stop'[q]
             => ~(at'[s] <= r /\ r < stop'[s])
    BY <2>1, <2>2, <2>3, <2>7 DEF Row
  <2>9. \A r \in Row : cursor' <= r => runs'[r] = 0
    BY <2>1, <2>3 DEF Row
  <2>10. Row' = Row
    BY <2>3 DEF Row
  <2>11. QED
    BY <2>3, <2>4, <2>5, <2>6, <2>8, <2>9, <2>10
<1>9. ASSUME NEW w \in Workers, TakeNothing(w) PROVE Spans'
  <2>1. Advance \in Int /\ cursor <= Advance /\ cursor \in Int
    BY <1>9, QueueFacts, AdvanceDoesNotWrap DEF TakeNothing, TypeOK
  <2>2. UNCHANGED <<total, at, stop, runs>> /\ cursor' = Advance
        /\ mode' = [mode EXCEPT ![w] = "drained"] /\ mode[w] = "ready"
    BY <1>9 DEF TakeNothing
  <2>3. Row' = Row /\ \A q \in Procs : Live(q)' <=> Live(q)
    BY <2>2 DEF Row, TypeOK
  <2>4. stop \in [Procs -> Int] /\ mode'[Caller] = mode[Caller]
    BY <2>2 DEF TypeOK
  <2>5. \A v \in Workers : Live(v)' => stop'[v] <= cursor'
    BY <2>1, <2>2, <2>3, <2>4
  <2>6. mode'[Caller] = "absent" => \A r \in Row : cursor' <= r => runs'[r] = 0
    BY <2>1, <2>2, <2>4 DEF Row
  <2>7. QED
    BY <2>2, <2>3, <2>5, <2>6
<1>10. ASSUME NEW w \in Workers, BodyReturns(w) PROVE Spans'
  <2>1. UNCHANGED <<total, cursor, at, stop, runs>>
        /\ mode' = [mode EXCEPT ![w] = "ready"] /\ mode[w] = "busy"
    BY <1>10 DEF BodyReturns
  <2>2. Row' = Row /\ (\A q \in Procs : Live(q)' => Live(q))
        /\ mode'[Caller] = mode[Caller]
    BY <2>1 DEF Row, TypeOK
  <2>3. QED
    BY <2>1, <2>2
<1>11. ASSUME NEW w \in Workers, NEW m \in Messages, BodyRaises(w, m)
       PROVE  Spans'
  BY <1>1, <1>11 DEF BodyRaises, TypeOK
<1>12. CASE UNCHANGED vars
  BY <1>1, <1>12 DEF vars
<1>13. QED
  BY <1>2, <1>3, <1>4, <1>5, <1>6, <1>7, <1>8, <1>9, <1>10, <1>11, <1>12
     DEF Next, CallerNext, InlineNext, WorkerNext

LEMMA CoveredStep == IInv /\ [Next]_vars => Covered'
<1> SUFFICES ASSUME IInv, [Next]_vars PROVE Covered'
  OBVIOUS
<1> USE ProcFacts DEF IInv, Covered, Live, job, span
<1>1. ASSUME UNCHANGED <<total, cursor, at, stop, runs>>,
             \A p \in Procs : Live(p) => Live(p)',
             mode'[Caller] = "absent" <=> mode[Caller] = "absent"
      PROVE  Covered'
  BY <1>1 DEF Row
<1>2. CASE CallEmpty \/ CallFork \/ Return \/ Raise
  BY <1>1, <1>2 DEF CallEmpty, CallFork, Return, Raise
<1>3. CASE CallInline
  <2>1. at[Caller] = 0 /\ at' = at
    BY <1>3 DEF CallInline, Phases
  <2>2. mode'[Caller] # "absent" /\ stop'[Caller] = total /\ total' = total
    BY <1>3 DEF CallInline, TypeOK
  <2>3. total \in Int
    BY QueueFacts DEF TypeOK
  <2>4. QED
    BY <2>1, <2>2, <2>3 DEF Row
<1>4. CASE CreateTask
  <2>1. created \in Workers /\ mode[created] = "absent"
    BY <1>4, CrewFacts DEF CreateTask, TypeOK, Phases, Workers
  <2>2. QED
    BY <1>1, <1>4, <2>1 DEF CreateTask, TypeOK
<1>5. CASE InlineReturns
  BY <1>5 DEF InlineReturns, TypeOK, Row
<1>6. ASSUME NEW m \in Messages, InlineRaises(m) PROVE Covered'
  BY <1>1, <1>6 DEF InlineRaises, TypeOK
<1>7. ASSUME NEW p \in Procs, RunRow(p) PROVE Covered'
  <2>1. at[p] \in Row /\ runs[at[p]] = 0
    BY <1>7, NextRow
  <2>2. UNCHANGED <<total, cursor, mode, stop>>
        /\ at' = [at EXCEPT ![p] = at[p] + 1]
        /\ runs' = [runs EXCEPT ![at[p]] = 1]
    BY <1>7, <2>1 DEF RunRow, TypeOK
  <2>3. at \in [Procs -> Int] /\ stop \in [Procs -> Int]
        /\ runs \in [Row -> Nat] /\ Row' = Row
    BY <2>2 DEF TypeOK, Row
  <2>4. \A q \in Procs : \A r \in Row :
           at[q] <= r /\ r < stop[q] => runs'[r] = 1 \/ at'[q] <= r
    <3>1. SUFFICES ASSUME NEW q \in Procs, NEW r \in Row, at[q] <= r,
                          r # at[p]
                   PROVE  at'[q] <= r
      BY <2>1, <2>2, <2>3
    <3>2. r \in Int /\ at[q] \in Int
      BY <2>3 DEF Row
    <3>3. QED
      BY <2>2, <2>3, <3>1, <3>2
  <2>5. \A r \in Row : runs[r] = 1 => runs'[r] = 1
    BY <2>1, <2>2, <2>3
  <2>6. ASSUME mode[Caller] = "absent", NEW r \in Row, r < cursor
        PROVE  runs'[r] = 1 \/ \E w \in Workers : Live(w)' /\ at'[w] <= r
                                                  /\ r < stop'[w]
    BY <2>2, <2>4, <2>5, <2>6
  <2>7. ASSUME mode[Caller] # "absent", NEW r \in Row
        PROVE  runs'[r] = 1 \/ (at'[Caller] <= r /\ r < stop'[Caller])
    BY <2>2, <2>4, <2>5, <2>7
  <2>8. QED
    BY <2>2, <2>3, <2>6, <2>7
<1>8. ASSUME NEW w \in Workers, TakeMorsel(w) PROVE Covered'
  <2>1. /\ cursor \in Int /\ MorselEnd \in Int
        /\ mode[Caller] = "absent"
        /\ \A r \in Row : r < Advance => r < MorselEnd
    BY <1>8, TakeFacts
  <2>2. at \in [Procs -> Int] /\ stop \in [Procs -> Int]
        /\ mode \in [Procs -> {"absent", "ready", "busy", "drained", "failed"}]
    BY DEF TypeOK
  <2>3. UNCHANGED <<total, runs>> /\ cursor' = Advance
        /\ at' = [at EXCEPT ![w] = cursor]
        /\ stop' = [stop EXCEPT ![w] = MorselEnd]
        /\ mode' = [mode EXCEPT ![w] = "busy"] /\ mode[w] = "ready"
    BY <1>8 DEF TakeMorsel
  <2>4. mode'[Caller] = "absent" /\ Row' = Row
    BY <2>1, <2>2, <2>3 DEF Row
  <2>5. ASSUME NEW r \in Row, r < cursor'
        PROVE  runs'[r] = 1 \/ \E v \in Workers : Live(v)' /\ at'[v] <= r
                                                  /\ r < stop'[v]
    <3>1. CASE r < cursor
      <4>1. CASE runs[r] = 1
        BY <2>3, <4>1
      <4>2. ASSUME NEW v \in Workers, Live(v), at[v] <= r, r < stop[v]
            PROVE  Live(v)' /\ at'[v] <= r /\ r < stop'[v]
        BY <2>2, <2>3, <4>2
      <4>3. QED
        BY <2>1, <3>1, <4>1, <4>2
    <3>2. CASE ~(r < cursor)
      BY <2>1, <2>2, <2>3, <2>5, <3>2 DEF Row
    <3>3. QED
      BY <3>1, <3>2
  <2>6. QED
    BY <2>4, <2>5
<1>9. ASSUME NEW w \in Workers, TakeNothing(w) PROVE Covered'
  <2>1. mode[Caller] = "absent" /\ mode'[Caller] = "absent"
        /\ \A v \in Workers : Live(v) => Live(v)'
    BY <1>9 DEF TakeNothing, TypeOK, Phases
  <2>2. UNCHANGED <<total, at, stop, runs>>
    BY <1>9 DEF TakeNothing
  <2>3. \A r \in Row : r < cursor
    <3>1. total \in Int /\ QueueTotal(total) >= total /\ cursor \in Int
          /\ QueueTotal(total) \in Nat
      BY QueueFacts DEF TypeOK
    <3>2. QED
      BY <1>9, <3>1 DEF TakeNothing, Row
  <2>4. QED
    BY <2>1, <2>2, <2>3 DEF Row
<1>10. ASSUME NEW w \in Workers, BodyReturns(w) PROVE Covered'
  <2>1. UNCHANGED <<total, cursor, at, stop, runs>>
        /\ mode' = [mode EXCEPT ![w] = "ready"] /\ at[w] = stop[w]
        /\ mode[w] = "busy"
    BY <1>10 DEF BodyReturns
  <2>2. mode'[Caller] = mode[Caller]
        /\ \A v \in Workers \ {w} : Live(v) => Live(v)'
    BY <2>1 DEF TypeOK
  <2>3. \A r \in Row : ~(at[w] <= r /\ r < stop[w])
    BY <2>1 DEF TypeOK, Row
  <2>4. QED
    BY <2>1, <2>2, <2>3 DEF Row
<1>11. ASSUME NEW w \in Workers, NEW m \in Messages, BodyRaises(w, m)
       PROVE  Covered'
  BY <1>1, <1>11 DEF BodyRaises, TypeOK
<1>12. CASE UNCHANGED vars
  BY <1>1, <1>12 DEF vars
<1>13. QED
  BY <1>2, <1>3, <1>4, <1>5, <1>6, <1>7, <1>8, <1>9, <1>10, <1>11, <1>12
     DEF Next, CallerNext, InlineNext, WorkerNext
-----------------------------------------------------------------------------
LEMMA Inductive == Spec => []IInv
<1>1. IInv /\ [Next]_vars => IInv'
  BY TypeStep, PhasesStep, CursorStep, SpansStep, CoveredStep DEF IInv
<1>2. QED
  BY InitIInv, <1>1, PTL DEF Spec

(***************************************************************************)
(* The variables of a call keep their declared shapes.                     *)
(***************************************************************************)
THEOREM TypeCorrect == Spec => []TypeOK
<1>1. IInv => TypeOK
  BY DEF IInv
<1>2. QED
  BY Inductive, <1>1, PTL

(***************************************************************************)
(* However many workers share the cursor, no row is given to two bodies.   *)
(***************************************************************************)
THEOREM AtMostOnce == Spec => []RowsRunOnce
<1>1. ASSUME IInv PROVE RowsRunOnce
  <2>1. total \in Int /\ at \in [Procs -> Int] /\ stop \in [Procs -> Int]
    BY <1>1, QueueFacts DEF IInv, TypeOK
  <2>2. ASSUME NEW p \in Procs, NEW r \in Unrun(p)
        PROVE  Live(p) /\ r \in Row /\ at[p] <= r /\ r < stop[p]
    <3>1. Live(p) /\ r \in at[p] .. stop[p] - 1
      BY <2>2 DEF Unrun
    <3>2. 0 <= at[p] /\ stop[p] <= total
      BY <1>1, <3>1 DEF IInv, Spans
    <3>3. QED
      BY <2>1, <3>1, <3>2 DEF Row
  <2>3. QED
    BY <1>1, <2>2 DEF IInv, Spans, RowsRunOnce
<1>2. QED
  BY Inductive, <1>1, PTL

(***************************************************************************)
(* A failing worker strands the rest of its own morsel and nothing else.   *)
(***************************************************************************)
THEOREM DrainedAround == Spec => []OthersDrain
<1>1. ASSUME IInv, Left, NEW p \in Procs, mode[p] = "drained", NEW r \in Row
      PROVE  runs[r] = 1 \/ \E q \in Procs :
                              mode[q] = "failed" /\ r \in Unrun(q)
  <2>1. total \in Int /\ at \in [Procs -> Int] /\ stop \in [Procs -> Int]
        /\ cursor \in Int
    BY <1>1, QueueFacts DEF IInv, TypeOK
  <2>2. CASE p = Caller
    <3>1. at[Caller] = stop[Caller]
      BY <1>1, <2>2 DEF IInv, Phases
    <3>2. runs[r] = 1 \/ (at[Caller] <= r /\ r < stop[Caller])
      BY <1>1, <2>2 DEF IInv, Covered
    <3>3. QED
      BY <2>1, <3>1, <3>2, ProcFacts DEF Row
  <2>3. CASE p \in Workers
    <3>1. mode[Caller] = "absent"
      BY <1>1, <2>3 DEF IInv, Phases
    <3>2. r < cursor
      BY <1>1, <2>1, <2>3 DEF IInv, CursorRoom, Row
    <3>3. CASE runs[r] # 1
      <4>1. PICK w \in Workers : Live(w) /\ at[w] <= r /\ r < stop[w]
        BY <1>1, <3>1, <3>2, <3>3 DEF IInv, Covered
      <4>2. mode[w] = "failed"
        BY <1>1, <4>1 DEF IInv, Phases, Live
      <4>3. r \in Unrun(w)
        BY <2>1, <4>1, ProcFacts DEF Unrun, Row
      <4>4. QED
        BY <4>2, <4>3, ProcFacts
    <3>4. QED
      BY <3>3
  <2>4. QED
    BY <1>1, <2>2, <2>3 DEF Procs
<1>2. IInv => OthersDrain
  BY <1>1 DEF OthersDrain
<1>3. QED
  BY Inductive, <1>2, PTL

(***************************************************************************)
(* The fetch_add of take() stays within the room a job leaves it.          *)
(***************************************************************************)
THEOREM NeverWraps == Spec => []CursorNeverWraps
<1>1. ASSUME IInv PROVE CursorNeverWraps
  <2> DEFINE q == QueueRows(rows)
             c == Cardinality(Drained)
             t == QueueTotal(total)
  <2>1. q \in Nat /\ t \in Nat /\ WorkerCount \in Nat /\ cursor \in Int
    BY <1>1, QueueFacts, ProcFacts DEF IInv, TypeOK
  <2>2. IsFiniteSet(Drained) /\ c \in Nat /\ c <= WorkerCount
    BY ProcFacts, FS_Subset, FS_CardinalityType DEF Drained
  <2>3. (c + 1) * q <= (WorkerCount + 1) * q
    BY <2>1, <2>2, Monotone
  <2>4. 0 <= cursor /\ cursor < t + (c + 1) * q
    BY <1>1 DEF IInv, CursorRoom
  <2>5. (c + 1) * q \in Nat /\ (WorkerCount + 1) * q \in Nat
    BY <2>1, <2>2
  <2>6. 0 <= cursor /\ cursor < t + (WorkerCount + 1) * q
    <3> HIDE DEF q, c, t
    <3>1. QED
      BY <2>1, <2>3, <2>4, <2>5
  <2>7. QED
    BY <2>6 DEF CursorNeverWraps
<1>2. QED
  BY Inductive, <1>1, PTL

(***************************************************************************)
(* No task outlives the call: after it has left, the cursor, the slots and *)
(* the rows are never touched again.                                       *)
(***************************************************************************)
THEOREM NoStragglers == Spec => NothingRunsAfterLeaving
<1>1. ASSUME IInv, [Next]_vars, Left PROVE UNCHANGED <<cursor, runs, failures>>
  <2>1. phase \notin {"call", "fork", "inline"} /\ mode[Caller] # "busy"
    BY <1>1 DEF Left, IInv, Phases
  <2>2. \A w \in Workers : mode[w] # "ready" /\ mode[w] # "busy"
    BY <1>1 DEF IInv, Phases
  <2>3. ~CallerNext
    BY <2>1 DEF CallerNext, CallEmpty, CallInline, CallFork, CreateTask,
                Return, Raise, Joined
  <2>4. ~InlineNext
    BY <2>1 DEF InlineNext, RunRow, InlineReturns, InlineRaises
  <2>5. ASSUME NEW w \in Workers PROVE ~WorkerNext(w)
    BY <2>2 DEF WorkerNext, TakeMorsel, TakeNothing, RunRow, BodyReturns,
                BodyRaises
  <2>6. QED
    BY <1>1, <2>3, <2>4, <2>5 DEF Next, vars
<1>2. IInv /\ [Next]_vars => [Left => UNCHANGED <<cursor, runs, failures>>]_vars
  BY <1>1
<1>3. QED
  BY Inductive, <1>2, PTL DEF Spec, NothingRunsAfterLeaving
-----------------------------------------------------------------------------
\* Only a failed worker has a text in its slot.
Slots == \A w \in Workers : failures[w] # NoText => mode[w] = "failed"

LEMMA SlotsStep == IInv /\ Slots /\ [Next]_vars => Slots'
<1> SUFFICES ASSUME IInv, Slots, [Next]_vars PROVE Slots'
  OBVIOUS
<1> USE ProcFacts DEF Slots, job, span
<1>1. mode \in [Procs -> {"absent", "ready", "busy", "drained", "failed"}]
      /\ failures \in [Workers -> Messages \cup {NoText}]
  BY DEF IInv, TypeOK
<1>2. CASE CallerNext
  <2>1. CASE CreateTask
    <3>1. created \in Workers => mode[created] = "absent"
      BY DEF IInv, Phases
    <3>2. QED
      BY <1>1, <2>1, <3>1 DEF CreateTask
  <2>2. QED
    BY <1>1, <1>2, <2>1
       DEF CallerNext, CallEmpty, CallInline, CallFork, Return, Raise
<1>3. CASE InlineNext
  BY <1>1, <1>3 DEF InlineNext, RunRow, InlineReturns, InlineRaises
<1>4. ASSUME NEW w \in Workers, WorkerNext(w) PROVE Slots'
  BY <1>1, <1>4 DEF WorkerNext, TakeMorsel, TakeNothing, RunRow, BodyReturns,
                    BodyRaises
<1>5. CASE UNCHANGED vars
  BY <1>5 DEF vars
<1>6. QED
  BY <1>2, <1>3, <1>4, <1>5 DEF Next

LEMMA FirstStep == IInv /\ Slots /\ RaisesFirstByWorker /\ [Next]_vars
                     => RaisesFirstByWorker'
<1> SUFFICES ASSUME IInv, Slots, RaisesFirstByWorker, [Next]_vars
             PROVE  RaisesFirstByWorker'
  OBVIOUS
<1> USE ProcFacts DEF RaisesFirstByWorker, job, span
<1>1. CASE Raise
  <2>1. PICK w \in Workers : FirstOf(Told, w) /\ error' = failures[w]
    BY <1>1 DEF Raise
  <2>2. mode[w] = "failed"
    BY <2>1 DEF FirstOf, Told, Slots
  <2>3. Crew \in Nat
    BY <1>1, CrewFacts DEF Raise, Joined, IInv, Phases
  <2>4. \A v \in 0 .. w - 1 : failures[v] = NoText
    BY <2>1, <2>3 DEF FirstOf, Told
  <2>5. QED
    BY <1>1, <2>1, <2>2, <2>4 DEF Raise
<1>2. CASE phase # "raised" /\ phase' # "raised"
  BY <1>2
<1>3. CASE phase = "raised"
  <2>1. UNCHANGED <<phase, error, mode, failures>>
    <3>1. phase \notin {"call", "fork", "inline"} /\ mode[Caller] # "busy"
          /\ \A w \in Workers : mode[w] # "ready" /\ mode[w] # "busy"
      BY <1>3 DEF IInv, Phases, Left
    <3>2. ~CallerNext /\ ~InlineNext
      BY <3>1 DEF CallerNext, CallEmpty, CallInline, CallFork, CreateTask,
                  Return, Raise, Joined, InlineNext, RunRow, InlineReturns,
                  InlineRaises
    <3>3. ASSUME NEW w \in Workers PROVE ~WorkerNext(w)
      BY <3>1 DEF WorkerNext, TakeMorsel, TakeNothing, RunRow, BodyReturns,
                  BodyRaises
    <3>4. QED
      BY <3>2, <3>3 DEF Next, vars
  <2>2. QED
    BY <1>3, <2>1
<1>4. CASE phase' = "raised" /\ phase # "raised" /\ ~Raise
  <2>1. PICK m \in Messages : InlineRaises(m)
    BY <1>4 DEF Next, vars, CallerNext, CallEmpty, CallInline, CallFork,
                CreateTask, Return, InlineNext, RunRow, InlineReturns,
                WorkerNext, TakeMorsel, TakeNothing, BodyReturns, BodyRaises
  <2>2. QED
    BY <2>1 DEF InlineRaises, IInv, TypeOK
<1>5. QED
  BY <1>1, <1>2, <1>3, <1>4

(***************************************************************************)
(* The error of the call is that of the first worker that left a text,     *)
(* whichever of them failed first in time.                                 *)
(***************************************************************************)
THEOREM FirstByWorker == Spec => []RaisesFirstByWorker
<1>1. Init => Slots /\ RaisesFirstByWorker
  BY DEF Init, Slots, RaisesFirstByWorker
<1>2. QED
  BY Inductive, <1>1, SlotsStep, FirstStep, PTL DEF Spec
-----------------------------------------------------------------------------
\* When every error has a text, a failed worker's slot says so.
Heard == \A w \in Workers : mode[w] = "failed" => failures[w] # NoText

LEMMA HeardStep ==
  ASSUME NoText \notin Messages, IInv, Heard, [Next]_vars
  PROVE  Heard'
<1> USE ProcFacts DEF Heard, job, span
<1>1. mode \in [Procs -> {"absent", "ready", "busy", "drained", "failed"}]
      /\ failures \in [Workers -> Messages \cup {NoText}]
  BY DEF IInv, TypeOK
<1>2. CASE CallerNext
  BY <1>1, <1>2 DEF CallerNext, CallEmpty, CallInline, CallFork, CreateTask,
                    Return, Raise
<1>3. CASE InlineNext
  BY <1>1, <1>3 DEF InlineNext, RunRow, InlineReturns, InlineRaises
<1>4. ASSUME NEW w \in Workers, WorkerNext(w) PROVE Heard'
  BY <1>1, <1>4 DEF WorkerNext, TakeMorsel, TakeNothing, RunRow, BodyReturns,
                    BodyRaises
<1>5. CASE UNCHANGED vars
  BY <1>5 DEF vars
<1>6. QED
  BY <1>2, <1>3, <1>4, <1>5 DEF Next

\* A call that forks starts at least one task.
LEMMA CrewNotEmpty ==
  ASSUME TypeOK, total > 0
  PROVE  Crew \in Nat \ {0}
<1> DEFINE q == QueueRows(rows)
           n == QueueTotal(total) + q - 1
<1>1. q \in Nat \ {0} /\ n \in Nat /\ n >= q
  BY QueueFacts DEF TypeOK
<1>2. n \div q \in Nat \ {0}
  <2> HIDE DEF q, n
  <2>1. n = q * (n \div q) + (n % q) /\ n % q < q /\ n \div q \in Nat
        /\ n % q \in Nat
    BY <1>1
  <2>2. n \div q # 0
    <3>1. SUFFICES ASSUME n \div q = 0 PROVE FALSE
      OBVIOUS
    <3>2. q * (n \div q) = 0
      BY <1>1, <3>1
    <3>3. QED
      BY <1>1, <2>1, <3>2
  <2>3. QED
    BY <2>1, <2>2
<1>3. Morsels \in Nat \ {0}
  BY <1>2 DEF Morsels
<1>4. QED
  BY <1>3, ProcFacts DEF Crew

LEMMA PromiseStep ==
  ASSUME NoText \notin Messages, IInv, Slots, Heard, [Next]_vars
  PROVE  [Promise!Next]_(Promise!vars)
<1> DEFINE Broke == \E p \in Procs : mode[p] = "failed"
<1> USE ProcFacts DEF job, span
<1>1. mode \in [Procs -> {"absent", "ready", "busy", "drained", "failed"}]
      /\ at \in [Procs -> Int] /\ stop \in [Procs -> Int]
      /\ runs \in [Row -> Nat] /\ total \in Int /\ cursor \in Int
  BY QueueFacts DEF IInv, TypeOK
<1>2. ASSUME UNCHANGED <<total, runs>>, Left' = Left, Left => phase' = phase,
             Broke' = Broke
      PROVE  UNCHANGED Promise!vars
  BY <1>2 DEF Promise!vars, Row
<1>3. ASSUME UNCHANGED <<total, runs, mode>>, ~Left, ~Broke,
             \A r \in Row : runs[r] = 1, phase' = "returned"
      PROVE  Promise!Next
  BY <1>3 DEF Promise!Next, Promise!Return, Row, Left
<1>4. CASE CallEmpty
  <2>1. Row = {} /\ ~Broke /\ ~Left
    BY <1>1, <1>4 DEF CallEmpty, Row, IInv, Phases, Left
  <2>2. QED
    BY <1>3, <1>4, <2>1 DEF CallEmpty
<1>5. CASE CallInline \/ CallFork
  <2>1. \A p \in Procs : mode[p] = "absent" /\ mode'[p] # "failed"
    BY <1>1, <1>5 DEF CallInline, CallFork, IInv, Phases
  <2>2. QED
    BY <1>2, <1>5, <2>1 DEF CallInline, CallFork, Left
<1>6. CASE CreateTask
  <2>1. created \in Workers => mode[created] = "absent"
    BY DEF IInv, Phases
  <2>2. created \in Workers
    BY <1>6, CrewFacts DEF CreateTask, IInv, TypeOK, Phases, Workers
  <2>3. \A p \in Procs : mode'[p] = "failed" <=> mode[p] = "failed"
    BY <1>1, <1>6, <2>1, <2>2 DEF CreateTask
  <2>4. QED
    BY <1>2, <1>6, <2>3 DEF CreateTask, Left
<1>7. CASE Return
  <2>1. /\ mode[Caller] = "absent" /\ total > 0 /\ ~Left
        /\ \A w \in Workers : w < created <=> mode[w] # "absent"
    BY <1>7 DEF Return, Joined, IInv, Phases, Left
  <2>2. Crew \in Nat /\ Crew # 0 /\ created = Crew /\ Crew <= WorkerCount
    BY <1>7, <2>1, CrewNotEmpty, CrewFacts DEF Return, Joined, IInv
  <2>3. \A w \in 0 .. Crew - 1 : w \in Workers /\ mode[w] = "drained"
    BY <1>7, <2>2 DEF Return, Joined, Told, Heard, Workers
  <2>4. \A w \in Workers : mode[w] \in {"drained", "absent"}
    BY <2>1, <2>2, <2>3 DEF Workers
  <2>5. ~Broke
    BY <2>1, <2>4 DEF Procs
  <2>6. cursor >= total
    BY <2>2, <2>3 DEF IInv, CursorRoom
  <2>7. \A r \in Row : runs[r] = 1
    BY SMTT(30), <1>1, <2>1, <2>4, <2>6 DEF IInv, Covered, Live, Row
  <2>8. QED
    BY <1>3, <1>7, <2>1, <2>5, <2>7 DEF Return
<1>8. CASE Raise
  <2>1. PICK w \in Workers : w \in Told
    BY <1>8 DEF Raise, FirstOf
  <2>2. mode[w] = "failed" /\ UNCHANGED <<total, runs, mode>> /\ ~Left
        /\ phase' = "raised"
    BY <1>8, <2>1 DEF Raise, Joined, Told, Slots, Left
  <2>3. QED
    BY <2>2 DEF Promise!Next, Promise!Raise, Row, Left
<1>9. ASSUME NEW p \in Procs, RunRow(p) PROVE Promise!Next
  <2>1. at[p] \in Row /\ runs[at[p]] = 0
    BY <1>9, NextRow
  <2>2. ~Left
    BY <1>9 DEF RunRow, IInv, Phases, Procs, Left
  <2>3. runs' = [runs EXCEPT ![at[p]] = 1]
    BY <1>1, <1>9, <2>1 DEF RunRow
  <2>4. UNCHANGED <<total, mode, phase>>
    BY <1>9 DEF RunRow
  <2>5. Promise!Run(at[p])
    BY <2>1, <2>2, <2>3, <2>4 DEF Promise!Run, Row, Left
  <2>6. QED
    BY <2>1, <2>5 DEF Promise!Next
<1>10. CASE InlineReturns
  <2>1. mode[Caller] = "busy" /\ at[Caller] = stop[Caller]
        /\ phase = "inline" /\ \A w \in Workers : mode[w] = "absent"
    BY <1>10 DEF InlineReturns, IInv, Phases
  <2>2. ~Left /\ ~Broke /\ \A p \in Procs : mode'[p] # "failed"
    BY <1>1, <1>10, <2>1 DEF InlineReturns, Left, Procs
  <2>3. \A r \in Row : runs[r] = 1
    BY <1>1, <2>1 DEF IInv, Covered, Row
  <2>4. UNCHANGED <<total, runs>> /\ phase' = "returned"
    BY <1>10 DEF InlineReturns
  <2>5. QED
    BY <2>2, <2>3, <2>4 DEF Promise!Next, Promise!Return, Row, Left
<1>11. ASSUME NEW m \in Messages, InlineRaises(m) PROVE Promise!Next
  <2>1. mode'[Caller] = "failed" /\ UNCHANGED <<total, runs>>
        /\ phase' = "raised" /\ ~Left
    BY <1>1, <1>11 DEF InlineRaises, IInv, Phases, Left
  <2>2. QED
    BY <2>1 DEF Promise!Next, Promise!Raise, Row, Left
<1>12. ASSUME NEW w \in Workers,
              TakeMorsel(w) \/ TakeNothing(w) \/ BodyReturns(w)
       PROVE  UNCHANGED Promise!vars
  <2>1. \A p \in Procs : mode'[p] = "failed" <=> mode[p] = "failed"
    BY <1>1, <1>12 DEF TakeMorsel, TakeNothing, BodyReturns
  <2>2. QED
    BY <1>2, <1>12, <2>1 DEF TakeMorsel, TakeNothing, BodyReturns, Left
<1>13. ASSUME NEW w \in Workers, NEW m \in Messages, BodyRaises(w, m)
       PROVE  Promise!Next
  <2>1. mode'[w] = "failed" /\ UNCHANGED <<total, runs, phase>>
    BY <1>1, <1>13 DEF BodyRaises
  <2>2. ~Left
    BY <1>13 DEF BodyRaises, IInv, Phases
  <2>3. QED
    BY <2>1, <2>2 DEF Promise!Next, Promise!Break, Row, Left
<1>14. CASE UNCHANGED vars
  BY <1>2, <1>14 DEF vars, Left
<1>15. QED
  BY <1>4, <1>5, <1>6, <1>7, <1>8, <1>9, <1>10, <1>11, <1>12, <1>13, <1>14
     DEF Next, CallerNext, InlineNext, WorkerNext

(***************************************************************************)
(* When every error carries a text, a call of parallel_morsels is the fork *)
(* and join its callers are promised: whatever the number of workers, the  *)
(* size of a morsel and the bodies that raise.                             *)
(***************************************************************************)
THEOREM ImplementsPromise ==
  ASSUME NoText \notin Messages
  PROVE  Spec => ImplementsForkJoin
<1>1. Init => Promise!Init
  <2> SUFFICES ASSUME Init PROVE Promise!Init
    OBVIOUS
  <2>1. Row \in SUBSET UNION {0 .. t - 1 : t \in Totals}
    BY DEF Init, Row
  <2>2. \A p \in Procs : mode[p] # "failed"
    BY DEF Init
  <2>3. QED
    BY <2>1, <2>2 DEF Init, Promise!Init, Left
<1>2. Init => Slots /\ Heard
  BY ProcFacts DEF Init, Slots, Heard
<1>3. IInv /\ Heard /\ [Next]_vars => Heard'
  BY HeardStep
<1>4. IInv /\ Slots /\ Heard /\ [Next]_vars => [Promise!Next]_(Promise!vars)
  BY PromiseStep
<1>5. QED
  BY Inductive, SlotsStep, <1>1, <1>2, <1>3, <1>4, PTL
     DEF Spec, ImplementsForkJoin, Promise!Spec
-----------------------------------------------------------------------------
(* A call of parallel_for.  That no index is missed when it leaves rests   *)
(* on what the caller knows while it waits: the tasks created are those    *)
(* below a counter, and none is absent once it has reached the last.       *)

TaskModes == {"absent", "ready", "busy", "done", "failed"}

\* What the phase of the caller says of the bodies.
ForPhases ==
  /\ for_phase = "call" => for_created = 0
  /\ for_phase = "inline" =>
       count = 1 /\ for_created = 0 /\ for_mode[0] \in {"busy", "done"}
  /\ for_phase = "fork" => count > 1
  /\ for_phase \in {"call", "fork"} =>
       \A i \in For!Index : i < for_created <=> for_mode[i] # "absent"
  /\ For!Left => \A i \in For!Index : for_mode[i] \in {"done", "failed"}

\* A body that has ended has been run, and no other has.
ForCounted ==
  \A i \in For!Index : for_runs[i] = IF for_mode[i] = "done" THEN 1 ELSE 0

\* A slot is written by the body of its index, when it raises.
ForSlots ==
  \A i \in For!Index : for_failures[i] # For!NoText => for_mode[i] = "failed"

\* When every error has a text, a failed index's slot says so.
ForHeard ==
  count > 1 =>
    \A i \in For!Index : for_mode[i] = "failed" => for_failures[i] # For!NoText

ForInv == For!TypeOK /\ ForPhases /\ ForCounted /\ ForSlots
-----------------------------------------------------------------------------
LEMMA ForInit ==
  ASSUME Counts \subseteq Int
  PROVE  For!Init => ForInv
<1> SUFFICES ASSUME For!Init PROVE ForInv
  OBVIOUS
<1> USE DEF For!Init, For!Index
<1>1. For!TypeOK
  BY DEF For!TypeOK
<1>2. ForPhases
  BY DEF ForPhases, For!Left
<1>3. ForCounted /\ ForSlots
  BY DEF ForCounted, ForSlots
<1>4. QED
  BY <1>1, <1>2, <1>3 DEF ForInv

LEMMA ForCallerStep ==
  ASSUME Counts \subseteq Int, ForInv, For!CallerNext
  PROVE  ForInv'
<1> USE DEF ForInv, For!TypeOK, For!Index
<1>1. CASE For!CallNone
  BY <1>1 DEF For!CallNone, ForPhases, ForCounted, ForSlots, For!Left
<1>2. CASE For!CallInline
  BY <1>2 DEF For!CallInline, ForPhases, ForCounted, ForSlots, For!Left
<1>3. CASE For!CallFork
  BY <1>3 DEF For!CallFork, ForPhases, ForCounted, ForSlots, For!Left
<1>4. CASE For!CreateTask
  <2>1. /\ count \in Int /\ for_created \in 0 .. count - 1
        /\ for_mode[for_created] = "absent"
    BY <1>4 DEF For!CreateTask, ForPhases
  <2>2. For!TypeOK'
    BY <1>4, <2>1 DEF For!CreateTask
  <2>3. ForPhases' /\ ForCounted' /\ ForSlots'
    BY <1>4, <2>1 DEF For!CreateTask, ForPhases, ForCounted, ForSlots, For!Left
  <2>4. QED
    BY <2>2, <2>3
<1>5. CASE For!Return
  BY <1>5 DEF For!Return, For!Joined, ForPhases, ForCounted, ForSlots, For!Left
<1>6. CASE For!Raise
  BY <1>6
     DEF For!Raise, For!Joined, For!FirstTold, For!Told, ForPhases, ForCounted,
         ForSlots, For!Left
<1>7. CASE For!InlineReturns
  BY <1>7 DEF For!InlineReturns, ForPhases, ForCounted, ForSlots, For!Left
<1>8. ASSUME NEW m \in Messages, For!InlineRaises(m) PROVE ForInv'
  BY <1>8 DEF For!InlineRaises, ForPhases, ForCounted, ForSlots, For!Left
<1>9. QED
  BY <1>1, <1>2, <1>3, <1>4, <1>5, <1>6, <1>7, <1>8 DEF For!CallerNext

LEMMA ForTaskStep ==
  ASSUME Counts \subseteq Int, ForInv, NEW i \in For!Index, For!TaskNext(i)
  PROVE  ForInv'
<1> USE DEF ForInv, For!TypeOK, For!Index
<1>1. CASE For!BodyStarts(i)
  BY <1>1 DEF For!BodyStarts, ForPhases, ForCounted, ForSlots, For!Left
<1>2. CASE For!BodyReturns(i)
  <2>1. For!TypeOK'
    BY <1>2 DEF For!BodyReturns
  <2>2. ForPhases' /\ ForCounted' /\ ForSlots'
    BY <1>2 DEF For!BodyReturns, ForPhases, ForCounted, ForSlots, For!Left
  <2>3. QED
    BY <2>1, <2>2
<1>3. ASSUME NEW m \in Messages, For!BodyRaises(i, m) PROVE ForInv'
  BY <1>3 DEF For!BodyRaises, ForPhases, ForCounted, ForSlots, For!Left
<1>4. QED
  BY <1>1, <1>2, <1>3 DEF For!TaskNext

LEMMA ForInductive ==
  ASSUME Counts \subseteq Int
  PROVE  ForInv /\ [For!Next]_for_vars => ForInv'
<1>1. SUFFICES ASSUME ForInv, [For!Next]_for_vars PROVE ForInv'
  OBVIOUS
<1>2. CASE UNCHANGED for_vars
  BY <1>1, <1>2
     DEF for_vars, ForInv, For!TypeOK, ForPhases, ForCounted, ForSlots,
         For!Left, For!Index
<1>3. QED
  BY <1>1, <1>2, ForCallerStep, ForTaskStep DEF For!Next

\* Once the call has raised nothing changes, so the error stays the first.
LEMMA ForFirstStep ==
  ASSUME Counts \subseteq Int, ForInv, For!RaisesFirstByIndex,
         [For!Next]_for_vars
  PROVE  For!RaisesFirstByIndex'
<1> USE DEF For!Index
<1>1. CASE for_phase = "raised"
  <2>1. UNCHANGED for_vars
    BY <1>1
       DEF For!Next, For!CallerNext, For!CallNone, For!CallInline,
           For!CallFork, For!CreateTask, For!Return, For!Raise, For!Joined,
           For!InlineReturns, For!InlineRaises, For!TaskNext, For!BodyStarts,
           For!BodyReturns, For!BodyRaises, ForInv, ForPhases, For!Left
  <2>2. QED
    BY <2>1 DEF for_vars, For!RaisesFirstByIndex
<1>2. CASE For!Raise
  <2>1. PICK i \in For!Told : For!FirstTold(i) /\ for_error' = for_failures[i]
    BY <1>2 DEF For!Raise
  <2>2. for_mode[i] = "failed" /\ i \in For!Index /\ count \in Int
    BY <2>1 DEF For!Told, ForInv, ForSlots, For!TypeOK
  <2>3. \A j \in 0 .. i - 1 : for_failures[j] = For!NoText
    BY <2>1, <2>2 DEF For!FirstTold, For!Told
  <2>4. QED
    BY <1>2, <2>1, <2>2, <2>3 DEF For!Raise, For!RaisesFirstByIndex
<1>3. CASE for_phase # "raised" /\ ~For!Raise /\ for_phase' = "raised"
  <2>1. PICK m \in Messages : For!InlineRaises(m)
    BY <1>3
       DEF For!Next, for_vars, For!CallerNext, For!CallNone, For!CallInline,
           For!CallFork, For!CreateTask, For!Return, For!InlineReturns,
           For!TaskNext, For!BodyStarts, For!BodyReturns, For!BodyRaises
  <2>2. QED
    BY <2>1 DEF For!InlineRaises, ForInv, ForPhases, For!RaisesFirstByIndex
<1>4. QED
  BY <1>1, <1>2, <1>3 DEF For!RaisesFirstByIndex

LEMMA ForHeardStep ==
  ASSUME Counts \subseteq Int, For!NoText \notin Messages, ForInv, ForHeard,
         [For!Next]_for_vars
  PROVE  ForHeard'
<1> USE DEF For!Index, ForHeard
<1>1. /\ for_mode \in [For!Index -> TaskModes] /\ count \in Int
      /\ for_failures \in [For!Index -> Messages \cup {For!NoText}]
  BY DEF ForInv, For!TypeOK, TaskModes
<1>2. CASE For!CallerNext
  BY <1>1, <1>2
     DEF For!CallerNext, For!CallNone, For!CallInline, For!CallFork,
         For!CreateTask, For!Return, For!Raise, For!InlineReturns,
         For!InlineRaises, ForInv, ForPhases
<1>3. ASSUME NEW i \in For!Index, For!TaskNext(i) PROVE ForHeard'
  BY <1>1, <1>3
     DEF For!TaskNext, For!BodyStarts, For!BodyReturns, For!BodyRaises
<1>4. CASE UNCHANGED for_vars
  BY <1>4 DEF for_vars
<1>5. QED
  BY <1>2, <1>3, <1>4 DEF For!Next
-----------------------------------------------------------------------------
LEMMA ForPromiseStep ==
  ASSUME Counts \subseteq Int, ForInv, ForHeard, [For!Next]_for_vars
  PROVE  [For!Promise!Next]_(For!Promise!vars)
<1> DEFINE Broke == \E i \in For!Index : for_mode[i] = "failed"
<1>1. /\ for_mode \in [For!Index -> TaskModes] /\ count \in Int
      /\ for_runs \in [For!Index -> Nat]
  BY DEF ForInv, For!TypeOK, TaskModes
<1>2. ASSUME UNCHANGED <<count, for_runs>>, For!Left' = For!Left,
             For!Left => for_phase' = for_phase, Broke' = Broke
      PROVE  UNCHANGED For!Promise!vars
  BY <1>2 DEF For!Promise!vars, For!Index
<1>3. ASSUME UNCHANGED <<count, for_runs, for_mode>>, ~For!Left, ~Broke,
             \A i \in For!Index : for_runs[i] = 1, for_phase' = "returned"
      PROVE  For!Promise!Next
  BY <1>3 DEF For!Promise!Next, For!Promise!Return, For!Index, For!Left
<1>4. CASE For!CallNone
  <2>1. For!Index = {} /\ ~For!Left
    BY <1>1, <1>4 DEF For!CallNone, For!Index, For!Left
  <2>2. QED
    BY <1>3, <1>4, <2>1 DEF For!CallNone
<1>5. CASE For!CallInline \/ For!CallFork
  <2>1. \A i \in For!Index : for_mode[i] # "failed" /\ for_mode'[i] # "failed"
    BY <1>1, <1>5
       DEF For!CallInline, For!CallFork, ForInv, ForPhases, For!Index
  <2>2. Broke' = Broke
    BY <1>5, <2>1 DEF For!CallInline, For!CallFork, For!Index
  <2>3. QED
    BY <1>2, <1>5, <2>2 DEF For!CallInline, For!CallFork, For!Left
<1>6. CASE For!CreateTask
  <2>1. for_created \in For!Index /\ for_mode[for_created] = "absent"
    BY <1>1, <1>6 DEF For!CreateTask, ForInv, ForPhases, For!TypeOK, For!Index
  <2>2. \A i \in For!Index : for_mode'[i] = "failed" <=> for_mode[i] = "failed"
    BY <1>1, <1>6, <2>1 DEF For!CreateTask
  <2>3. Broke' = Broke
    BY <1>6, <2>2 DEF For!CreateTask, For!Index
  <2>4. QED
    BY <1>2, <1>6, <2>3 DEF For!CreateTask, For!Left
<1>7. CASE For!Return
  <2>1. count > 1 /\ ~For!Left
    BY <1>7 DEF For!Return, For!Joined, ForInv, ForPhases, For!Left
  <2>2. \A i \in For!Index : for_mode[i] = "done"
    BY <1>7, <2>1 DEF For!Return, For!Joined, For!Told, ForHeard
  <2>3. ~Broke /\ \A i \in For!Index : for_runs[i] = 1
    BY <2>2 DEF ForInv, ForCounted
  <2>4. QED
    BY <1>3, <1>7, <2>1, <2>3 DEF For!Return
<1>8. CASE For!Raise
  <2>1. /\ Broke /\ UNCHANGED <<count, for_runs, for_mode>>
        /\ ~For!Left /\ for_phase' = "raised"
    BY <1>8
       DEF For!Raise, For!Joined, For!Told, For!FirstTold, ForInv, ForSlots,
           For!Left
  <2>2. QED
    BY <2>1 DEF For!Promise!Next, For!Promise!Raise, For!Index, For!Left
<1>9. CASE For!InlineReturns
  <2>1. For!Index = {0} /\ for_mode[0] = "done" /\ ~For!Left
    BY <1>9 DEF For!InlineReturns, ForInv, ForPhases, For!Index, For!Left
  <2>2. ~Broke /\ \A i \in For!Index : for_runs[i] = 1
    BY <2>1 DEF ForInv, ForCounted
  <2>3. QED
    BY <1>3, <1>9, <2>1, <2>2 DEF For!InlineReturns
<1>10. ASSUME NEW m \in Messages, For!InlineRaises(m) PROVE For!Promise!Next
  <2>1. For!Index = {0} /\ For!Index' = For!Index /\ ~For!Left
    BY <1>10 DEF For!InlineRaises, ForInv, ForPhases, For!Index, For!Left
  <2>2. /\ for_mode'[0] = "failed" /\ for_phase' = "raised"
        /\ UNCHANGED <<count, for_runs>>
    BY <1>1, <1>10, <2>1 DEF For!InlineRaises
  <2>3. QED
    BY <2>1, <2>2 DEF For!Promise!Next, For!Promise!Raise, For!Left
<1>11. ASSUME NEW i \in For!Index, For!BodyStarts(i)
       PROVE  UNCHANGED For!Promise!vars
  <2>1. \A j \in For!Index : for_mode'[j] = "failed" <=> for_mode[j] = "failed"
    BY <1>1, <1>11 DEF For!BodyStarts
  <2>2. Broke' = Broke
    BY <1>11, <2>1 DEF For!BodyStarts, For!Index
  <2>3. QED
    BY <1>2, <1>11, <2>2 DEF For!BodyStarts, For!Left
<1>12. ASSUME NEW i \in For!Index, For!BodyReturns(i) PROVE For!Promise!Next
  <2>1. for_runs[i] = 0 /\ ~For!Left
    BY <1>12 DEF For!BodyReturns, ForInv, ForCounted, ForPhases
  <2>2. /\ for_runs' = [for_runs EXCEPT ![i] = 1]
        /\ For!Index' = For!Index /\ for_phase' = for_phase
    BY <1>1, <1>12, <2>1 DEF For!BodyReturns, For!Index
  <2>3. Broke' = Broke
    BY <1>1, <1>12, <2>2 DEF For!BodyReturns
  <2>4. For!Promise!Run(i)
    BY <2>1, <2>2, <2>3 DEF For!Promise!Run, For!Left
  <2>5. QED
    BY <2>4 DEF For!Promise!Next
<1>13. ASSUME NEW i \in For!Index, NEW m \in Messages, For!BodyRaises(i, m)
       PROVE  For!Promise!Next
  <2>1. for_mode'[i] = "failed" /\ UNCHANGED <<count, for_runs, for_phase>>
    BY <1>1, <1>13 DEF For!BodyRaises
  <2>2. ~For!Left
    BY <1>13 DEF For!BodyRaises, ForInv, ForPhases
  <2>3. QED
    BY <2>1, <2>2 DEF For!Promise!Next, For!Promise!Break, For!Index, For!Left
<1>14. CASE UNCHANGED for_vars
  BY <1>2, <1>14 DEF for_vars, For!Left, For!Index
<1>15. QED
  BY <1>4, <1>5, <1>6, <1>7, <1>8, <1>9, <1>10, <1>11, <1>12, <1>13, <1>14
     DEF For!Next, For!CallerNext, For!TaskNext

LEMMA ForIsForkJoin ==
  ASSUME Counts \subseteq Int, For!NoText \notin Messages
  PROVE  For!Spec => ForKeepsItsPromise
<1>1. For!Init => For!Promise!Init
  BY DEF For!Init, For!Promise!Init, For!Left, For!Index
<1>2. For!Init => ForHeard /\ For!RaisesFirstByIndex
  BY DEF For!Init, ForHeard, For!RaisesFirstByIndex
<1>3. ForInv /\ [For!Next]_for_vars => ForInv'
  BY ForInductive
<1>4. ForInv /\ ForHeard /\ [For!Next]_for_vars => ForHeard'
  BY ForHeardStep
<1>5. ForInv /\ ForHeard /\ [For!Next]_for_vars => [For!Promise!Next]_(For!Promise!vars)
  BY ForPromiseStep
<1>6. ForInv /\ For!RaisesFirstByIndex /\ [For!Next]_for_vars => For!RaisesFirstByIndex'
  BY ForFirstStep
<1>7. ForInv => For!TypeOK /\ For!EveryIndexRun
  BY DEF ForInv, ForPhases, ForCounted, For!EveryIndexRun
<1>8. [For!Next]_(For!vars) => [For!Next]_for_vars
  BY DEF For!vars, for_vars
<1>9. QED
  BY ForInit, <1>1, <1>2, <1>3, <1>4, <1>5, <1>6, <1>7, <1>8, PTL
     DEF For!Spec, ForKeepsItsPromise, For!ForKeepsItsPromise,
         For!ImplementsForkJoin, For!Promise!Spec

(***************************************************************************)
(* When every error carries a text, a call of parallel_for is the fork and *)
(* join its callers are promised, for any number of indexes: each is run   *)
(* to its end or raises by itself, whatever the others do, and the error   *)
(* is that of the lowest index.                                            *)
(***************************************************************************)
THEOREM ForAlwaysKeepsItsPromise ==
  ASSUME Counts \subseteq Int, For!NoText \notin Messages
  PROVE  ForksSpec => ForKeepsItsPromise
<1>1. ForksInit => For!Init
  BY DEF ForksInit
<1>2. [ForksNext]_<<forks, vars, for_vars>> => [For!Next]_for_vars
  BY DEF ForksNext
<1>3. ForksSpec => For!Spec
  BY <1>1, <1>2, PTL DEF ForksSpec, For!Spec, for_vars, For!vars
<1>4. QED
  BY <1>3, ForIsForkJoin, PTL
=============================================================================
