-------------------------- MODULE FacadeProofs ---------------------------
(***************************************************************************)
(* Proofs about the facade, for any instance of its parts: to_sql lands    *)
(* whole or not at all, leaving a context puts back the options it set, an *)
(* online mean goes on as one run over all rows would, lookups of labels   *)
(* read the rows they should, and the two tables that a frame is split     *)
(* over have the same rows.                                                *)
(*                                                                         *)
(* That the disk holds whole calls is not inductive: a commit writes what  *)
(* this connection reads, which is whole too but for the call whose        *)
(* batches are going in.  So the invariant also says how far that call has *)
(* come, and that it never stops short of its last row when its steps go   *)
(* forward; when they do not it has written nothing.                       *)
(***************************************************************************)
EXTENDS MCFacade, FiniteSetTheorems, WellFoundedInduction, TLAPS

\* What the frames and the arguments are.
LengthsAreCounts == Lengths \subseteq Nat
ChunksAreCounts == \A c \in Chunks : c = <<>> \/ c[1] \in Int

Between == call.pc \in {"idle", "returned", "raised"}
HasTable == call.pc \in {"check", "index", "commit_table", "insert"}

CallFields == {"pc", "table", "mode", "rows", "chunk", "keyed", "clash", "next",
           "before", "stood"}

\* The shape of a call, and of one that is under way.
Shape ==
  /\ call = Idle \/ DOMAIN call = CallFields
  /\ ~Between =>
       /\ call.next \in Nat
       /\ call.rows \in Nat
       /\ call.chunk = <<>> \/ call.chunk[1] \in Int
       /\ ~At("insert") => call.next = 0
  /\ HasTable => call.table \in DOMAIN mine

InWhole(db) == \A t \in DOMAIN db : \A r \in db[t] :
               Rows(r[1], 1, r[3], r[3]) \subseteq db[t]

\* A row of the call whose batches are going in.
UnderWay(t, r) == /\ At("insert") /\ call.next > 0
                  /\ t = call.table /\ r[1] = calls /\ r[3] = call.rows

MineWhole == \A t \in DOMAIN mine : \A r \in mine[t] :
               UnderWay(t, r) \/ Rows(r[1], 1, r[3], r[3]) \subseteq mine[t]

\* How far that call has come.
Come ==
  At("insert") =>
    /\ call.next > 0 => Step > 0
    /\ \A i \in 1 .. call.rows :
         i <= call.next => <<calls, i, call.rows>> \in mine[call.table]

IInv == Shape /\ InWhole(disk) /\ MineWhole /\ Come
-----------------------------------------------------------------------------
(* InWhole tables stay whole under what a statement does to them.            *)

\* A set of whole calls in the place of a table.
LEMMA WithWhole ==
  ASSUME NEW db, InWhole(db), NEW t, NEW rows,
         \A r \in rows : Rows(r[1], 1, r[3], r[3]) \subseteq rows
  PROVE  InWhole(With(db, t, rows))
BY DEF InWhole, With

\* A table that is dropped.
LEMMA WithoutWhole ==
  ASSUME NEW db, InWhole(db), NEW t
  PROVE  InWhole(Without(db, t))
BY DEF InWhole, Without

\* Between the batches of calls, this connection reads whole calls only.
LEMMA MineWholeOutside ==
  ASSUME MineWhole, ~At("insert") \/ ~(call.next > 0)
  PROVE  InWhole(mine)
BY DEF MineWhole, InWhole, UnderWay

LEMMA WholeIsEnough ==
  ASSUME InWhole(mine)
  PROVE  MineWhole
BY DEF MineWhole, InWhole
-----------------------------------------------------------------------------
LEMMA InitIInv == Init => IInv
BY DEF Init, IInv, Shape, CallFields, Idle, Between, HasTable, At, InWhole,
       MineWhole,
       Come, NoTables

LEMMA CallerStep ==
  ASSUME LengthsAreCounts, ChunksAreCounts, IInv,
         \/ \E t \in Tables, n \in Lengths, chunk \in Chunks,
               named \in {"fail", "replace", "append", "delete_rows"},
               keyed, clash \in BOOLEAN :
              to_sql(t, named, n, chunk, keyed, clash)
         \/ \E t \in Tables : OwnInsert(t)
         \/ OwnCommit \/ OwnRollback \/ Crash
  PROVE  IInv'
<1> USE DEF IInv
<1>1. ASSUME NEW t \in Tables, NEW n \in Lengths, NEW chunk \in Chunks,
             NEW named, NEW keyed, NEW clash, to_sql(t, named, n, chunk, keyed,
             clash)
      PROVE  IInv'
  <2>1. InWhole(mine)
    BY <1>1, MineWholeOutside DEF to_sql, At
  <2>2. InWhole(mine)' /\ InWhole(disk)'
    BY <1>1, <2>1 DEF to_sql, Unmoved, InWhole
  <2>3. Shape' /\ Come'
    BY <1>1 DEF to_sql, LengthsAreCounts, ChunksAreCounts, Shape, CallFields,
                Idle, Between, HasTable,
       At, Come
  <2>4. QED
    BY <2>2, <2>3 DEF InWhole, MineWhole
<1>2. ASSUME NEW t \in Tables, OwnInsert(t)
      PROVE  IInv'
  <2>1. InWhole(mine)
    BY <1>2, MineWholeOutside DEF OwnInsert, Own, At
  <2> DEFINE more == mine[t] \cup {OwnRow}
  <2>2. \A r \in more : Rows(r[1], 1, r[3], r[3]) \subseteq more
    <3>1. Rows(0, 1, 1, 1) = {OwnRow}
      BY DEF Rows, OwnRow
    <3>2. OwnRow[1] = 0 /\ OwnRow[3] = 1
      BY DEF OwnRow
    <3>3. QED
      BY <1>2, <2>1, <3>1, <3>2 DEF InWhole, OwnInsert
  <2>3. InWhole(With(mine, t, more))
    BY <2>1, <2>2, WithWhole
  <2>4. InWhole(mine)' /\ InWhole(disk)'
    BY <1>2, <2>3 DEF OwnInsert, Change, InWhole
  <2>5. Shape' /\ Come'
    BY <1>2 DEF OwnInsert, Own, Shape, CallFields, Idle, Between, HasTable, At,
                Come
  <2>6. QED
    BY <2>4, <2>5 DEF InWhole, MineWhole
<1>3. CASE OwnCommit
  <2>1. InWhole(mine)
    BY <1>3, MineWholeOutside DEF OwnCommit, Own, At
  <2>2. InWhole(mine)' /\ InWhole(disk)'
    BY <1>3, <2>1 DEF OwnCommit, Commit, InWhole
  <2>3. Shape' /\ Come'
    BY <1>3 DEF OwnCommit, Own, Shape, CallFields, Idle, Between, HasTable, At,
                Come
  <2>4. QED
    BY <2>2, <2>3 DEF InWhole, MineWhole
<1>4. CASE OwnRollback \/ Crash
  <2>1. InWhole(mine)' /\ InWhole(disk)'
    BY <1>4 DEF OwnRollback, Crash, Rollback, InWhole
  <2>2. Shape' /\ Come'
    BY <1>4 DEF OwnRollback, Crash, Own, Shape, CallFields, Idle, Between,
       HasTable, At, Come
  <2>3. QED
    BY <2>1, <2>2 DEF InWhole, MineWhole
<1>5. QED
  BY <1>1, <1>2, <1>3, <1>4

\* The statements before the batches, and the failures.
LEMMA StatementStep ==
  ASSUME IInv,
         \/ has_table \/ DropTable \/ CreateTable \/ CreateIndex \/ CommitTable
         \/ DeleteRows \/ Check \/ Fails
  PROVE  IInv'
<1> USE DEF IInv, Goto
<1>1. CASE has_table
  <2>1. InWhole(mine)' /\ InWhole(disk)'
    BY <1>1, MineWholeOutside DEF has_table, At, Unmoved, InWhole
  <2>2. Shape' /\ Come'
    BY <1>1 DEF has_table, Unmoved, Shape, CallFields, Idle, Between, HasTable,
       At, Come
  <2>3. QED
    BY <2>1, <2>2 DEF InWhole, MineWhole
<1>2. CASE DropTable
  <2>1. InWhole(mine)
    BY <1>2, MineWholeOutside DEF DropTable, At
  <2>2. InWhole(mine)' /\ InWhole(disk)'
    BY <1>2, <2>1, WithoutWhole DEF DropTable, Define, InWhole
  <2>3. Shape' /\ Come'
    BY <1>2 DEF DropTable, Shape, CallFields, Idle, Between, HasTable, At, Come
  <2>4. QED
    BY <2>2, <2>3 DEF InWhole, MineWhole
<1>3. CASE CreateTable
  <2>1. InWhole(mine)
    BY <1>3, MineWholeOutside DEF CreateTable, At
  <2>2. InWhole(With(mine, call.table, {}))
    BY <2>1, WithWhole
  <2>3. InWhole(mine)' /\ InWhole(disk)'
    BY <1>3, <2>2 DEF CreateTable, Define, InWhole
  <2>4. Shape' /\ Come'
    BY <1>3 DEF CreateTable, Define, With, Shape, CallFields, Idle, Between,
       HasTable, At, Come
  <2>5. QED
    BY <2>3, <2>4 DEF InWhole, MineWhole
<1>4. CASE CreateIndex \/ CommitTable \/ Check
  <2>1. InWhole(mine)
    BY <1>4, MineWholeOutside DEF CreateIndex, CommitTable, Check, At
  <2>2. InWhole(mine)' /\ InWhole(disk)'
    BY <1>4, <2>1 DEF CreateIndex, CommitTable, Check, Define, Commit, Unmoved,
                      InWhole
  <2>3. Shape'
    <3>1. CASE CreateIndex
      BY <3>1 DEF CreateIndex, Define, Shape, CallFields, Idle, Between,
                  HasTable, At
    <3>2. CASE CommitTable
      BY <3>2 DEF CommitTable, Commit, Shape, CallFields, Idle, Between,
                  HasTable, At
    <3>3. CASE Check
      BY <3>3 DEF Check, Unmoved, Shape, CallFields, Idle, Between, HasTable, At
    <3>4. QED
      BY <1>4, <3>1, <3>2, <3>3
  <2>4. Come'
    BY <1>4 DEF CreateIndex, CommitTable, Check, Shape, CallFields, Idle,
       Between, At, Come
  <2>5. QED
    BY <2>2, <2>3, <2>4 DEF InWhole, MineWhole
<1>5. CASE DeleteRows
  <2>1. InWhole(mine)
    BY <1>5, MineWholeOutside DEF DeleteRows, At
  <2>2. InWhole(With(mine, call.table, {}))
    BY <2>1, WithWhole
  <2>3. InWhole(mine)' /\ InWhole(disk)'
    BY <1>5, <2>2 DEF DeleteRows, Change, InWhole
  <2>4. Shape' /\ Come'
    BY <1>5 DEF DeleteRows, Change, With, Shape, CallFields, Idle, Between,
       HasTable, At, Come
  <2>5. QED
    BY <2>3, <2>4 DEF InWhole, MineWhole
<1>6. CASE Fails
  <2>1. InWhole(mine)' /\ InWhole(disk)'
    BY <1>6 DEF Fails, Rollback, InWhole
  <2>2. Shape' /\ Come'
    BY <1>6 DEF Fails, Shape, CallFields, Idle, Between, HasTable, At, Come
  <2>3. QED
    BY <2>1, <2>2 DEF InWhole, MineWhole
<1>7. QED
  BY <1>1, <1>2, <1>3, <1>4, <1>5, <1>6

\* A batch goes in: its rows are those of the call under way.
LEMMA BatchStep ==
  ASSUME IInv, InsertBatch
  PROVE  IInv'
<1> DEFINE t == call.table
           to == IF call.next + Step < call.rows THEN call.next + Step
                 ELSE call.rows
           new == Rows(calls, call.next + 1, to, call.rows)
<1>1. /\ At("insert") /\ call.next \in Nat /\ call.rows \in Nat /\ Step \in Int
      /\ Step > 0 /\ call.next < call.rows /\ t \in DOMAIN mine
  BY DEF IInv, InsertBatch, More, Shape, CallFields, Idle, Between, HasTable,
         At,
     Step
<1>2. mine' = With(mine, t, mine[t] \cup new) /\ disk' = disk
  BY DEF InsertBatch, Change, Batch
<1>3. call' = [call EXCEPT !.next = call.next + Step] /\ calls' = calls
  BY DEF InsertBatch, Advanced
<1>4. /\ DOMAIN call = CallFields
      /\ call.chunk = <<>> \/ call.chunk[1] \in Int
  BY <1>1 DEF IInv, Shape, Idle, Between, At
<1>5. /\ call'.pc = "insert" /\ call'.next = call.next + Step
      /\ call'.rows = call.rows /\ call'.table = t /\ call'.chunk = call.chunk
      /\ DOMAIN call' = DOMAIN call
  BY <1>1, <1>3, <1>4 DEF At, CallFields
<1>6. /\ DOMAIN mine' = DOMAIN mine
      /\ mine'[t] = mine[t] \cup new
      /\ \A u \in DOMAIN mine : u # t => mine'[u] = mine[u]
  BY <1>1, <1>2 DEF With
<1> HIDE DEF t, new
<1>7. Shape'
  BY <1>1, <1>4, <1>5, <1>6 DEF Shape, CallFields, Idle, Between, HasTable, At
<1>8. MineWhole'
  <2>1. SUFFICES ASSUME NEW u \in DOMAIN mine, NEW r \in mine'[u],
                        ~UnderWay(u, r)'
                 PROVE  Rows(r[1], 1, r[3], r[3]) \subseteq mine'[u]
    BY <1>6 DEF MineWhole
  <2>2. ~(u = t /\ r[1] = calls /\ r[3] = call.rows)
    BY <1>1, <1>3, <1>5, <2>1 DEF UnderWay, At
  <2>3. u = t => r \notin new
    BY <1>1, <2>2 DEF new, Rows, t
  <2>4. r \in mine[u] /\ mine[u] \subseteq mine'[u]
    BY <1>6, <2>1, <2>2, <2>3
  <2>5. QED
    BY <2>2, <2>4 DEF IInv, MineWhole, UnderWay, t
<1>9. Come'
  <2>1. Step' = Step
    BY <1>5 DEF Step
  <2>2. ASSUME NEW i \in 1 .. call.rows, i <= call.next + Step
        PROVE  <<calls, i, call.rows>> \in mine'[t]
    <3>1. CASE i <= call.next
      BY <1>1, <1>6, <2>2, <3>1 DEF IInv, Come, t
    <3>2. CASE ~(i <= call.next)
      BY <1>1, <1>6, <2>2, <3>2 DEF new, Rows
    <3>3. QED
      BY <3>1, <3>2
  <2>3. QED
    BY <1>1, <1>3, <1>5, <2>1, <2>2 DEF Come, At, t
<1>10. QED
  BY <1>2, <1>7, <1>8, <1>9 DEF IInv, InWhole

\* The commit finds every row of the call in, or none.
LEMMA CommitStep ==
  ASSUME IInv, CommitRows
  PROVE  IInv'
<1>1. /\ At("insert") /\ ~More /\ call.next \in Nat /\ call.rows \in Nat
      /\ Step \in Int
  BY DEF IInv, CommitRows, Shape, CallFields, Idle, Between, At, Step
<1>2. InWhole(mine)
  <2>1. CASE ~(call.next > 0)
    BY <2>1, MineWholeOutside DEF IInv
  <2>2. CASE call.next > 0
    <3>1. Step > 0 /\ call.rows <= call.next
      BY <1>1, <2>2 DEF IInv, Come, More
    <3>2. Rows(calls, 1, call.rows, call.rows) \subseteq mine[call.table]
      BY <1>1, <3>1 DEF IInv, Come, Rows
    <3>3. QED
      BY <3>2 DEF IInv, MineWhole, InWhole, UnderWay
  <2>3. QED
    BY <2>1, <2>2
<1>3. InWhole(mine)' /\ InWhole(disk)'
  BY <1>2 DEF CommitRows, Commit, InWhole
<1>4. Shape' /\ Come'
  BY DEF CommitRows, Goto, IInv, Shape, CallFields, Idle, Between, HasTable,
         At, Come
<1>5. QED
  BY <1>3, <1>4 DEF IInv, InWhole, MineWhole

LEMMA Inductive ==
  ASSUME LengthsAreCounts, ChunksAreCounts
  PROVE  IInv /\ [Next]_vars => IInv'
<1>1. SUFFICES ASSUME IInv, [Next]_vars PROVE IInv'
  OBVIOUS
<1>2. CASE UNCHANGED vars
  BY <1>1, <1>2 DEF vars, IInv, Shape, Between, HasTable, At, InWhole,
                    MineWhole,
                    UnderWay, Come, Step
<1>3. QED
  BY <1>1, <1>2, CallerStep, StatementStep, BatchStep, CommitStep DEF Next

(***************************************************************************)
(* Whatever fails, wherever the program ends and whatever the caller       *)
(* commits of its own between the calls, another connection finds every    *)
(* row of a call of to_sql or none: for chunks of any size, of none and    *)
(* backwards.                                                              *)
(***************************************************************************)
THEOREM LandsWhole ==
  ASSUME LengthsAreCounts, ChunksAreCounts
  PROVE  Spec => []CallsLandWhole
<1>1. IInv /\ [Next]_vars => IInv'
  BY Inductive
<1>2. IInv => CallsLandWhole
  BY DEF IInv, InWhole, CallsLandWhole
<1>3. QED
  BY InitIInv, <1>1, <1>2, PTL DEF Spec
-----------------------------------------------------------------------------
(***************************************************************************)
(* What a call that ends has done.  At every statement the tables are      *)
(* those the call found with what its mode and its batches made of one of  *)
(* them, and a call that replaces no table has not yet touched the disk.   *)
(***************************************************************************)
Function(db) == db = [t \in DOMAIN db |-> db[t]]

KeptRows == IF call.mode = "append" /\ call.table \in DOMAIN call.before
        THEN call.before[call.table] ELSE {}

In == IF call.next < call.rows THEN call.next ELSE call.rows

\* The call makes the table: there was none, or it takes its place.
Makes == call.mode = "replace" \/ call.table \notin DOMAIN call.before

Made ==
  /\ At("look") \/ At("drop") \/ At("delete") => mine = call.before
  /\ At("drop") \/ At("create") \/ At("index") \/ At("commit_table") => Makes
  /\ At("delete") => call.mode = "delete_rows"
  /\ At("create") => mine = Without(call.before, call.table)
  /\ At("index") \/ At("commit_table") =>
       mine = With(call.before, call.table, {})
  /\ At("check") => mine = With(call.before, call.table, KeptRows)
  /\ At("insert") => mine = With(call.before, call.table,
                                 KeptRows \cup Rows(calls, 1, In, call.rows))

Untouched == ~Between /\ ~Makes => disk = call.stood

Modes == {"fail", "replace", "append", "delete_rows"}

JInv == /\ Shape
        /\ ~Between => call.mode \in Modes
        /\ Function(mine) /\ Function(disk)
        /\ Made /\ Untouched /\ CallsEndAsAsked

LEMMA InitJInv == Init => JInv
BY DEF Init, JInv, Shape, Between, HasTable, At, Idle, NoTables, Function, Made,
       Untouched, CallsEndAsAsked

\* Tables that a statement makes are functions.
LEMMA AreFunctions ==
  ASSUME NEW db, NEW t, NEW rows
  PROVE  Function(With(db, t, rows)) /\ Function(Without(db, t))
BY DEF Function, With, Without

\* Writing a table twice leaves what was written last.
LEMMA WithTwice ==
  ASSUME NEW db, NEW t, NEW a, NEW b
  PROVE  With(With(db, t, a), t, b) = With(db, t, b)
BY DEF With

LEMMA WithoutThenWith ==
  ASSUME NEW db, NEW t, NEW a
  PROVE  With(Without(db, t), t, a) = With(db, t, a)
BY DEF With, Without

LEMMA WithItsOwn ==
  ASSUME NEW db, Function(db), NEW t \in DOMAIN db
  PROVE  With(db, t, db[t]) = db
BY DEF With, Function

LEMMA WithoutNone ==
  ASSUME NEW db, Function(db), NEW t, t \notin DOMAIN db
  PROVE  Without(db, t) = db
<1>1. DOMAIN db \ {t} = DOMAIN db
  OBVIOUS
<1>2. QED
  BY <1>1 DEF Without, Function

\* A statement that ends no call and begins none.
LEMMA OnTheWay ==
  ASSUME JInv, Shape', Made', ~Between, ~Between', Function(mine)',
         Function(disk)', Makes \/ disk' = disk,
         \E pc : call' = [call EXCEPT !.pc = pc]
  PROVE  JInv'
<1>1. DOMAIN call = CallFields
  BY DEF JInv, Shape, Idle, Between
<1>2. /\ call'.mode = call.mode /\ call'.table = call.table
      /\ call'.before = call.before /\ call'.stood = call.stood
  BY <1>1 DEF CallFields
<1>3. Makes' <=> Makes
  BY <1>2 DEF Makes
<1>4. Untouched'
  BY <1>2, <1>3 DEF JInv, Untouched
<1>5. CallsEndAsAsked'
  BY DEF CallsEndAsAsked, Between, At
<1>6. QED
  BY <1>2, <1>4, <1>5 DEF JInv

\* A call that raises has left the disk alone, unless it makes the table.
LEMMA Raising ==
  ASSUME JInv, ~Between, disk' = disk, Function(mine)',
         call' = [call EXCEPT !.pc = "raised"]
  PROVE  JInv'
<1>1. DOMAIN call = CallFields
  BY DEF JInv, Shape, Idle, Between
<1>2. /\ call'.mode = call.mode /\ call'.table = call.table
      /\ call'.before = call.before /\ call'.stood = call.stood
      /\ call'.pc = "raised" /\ DOMAIN call' = CallFields
  BY <1>1 DEF CallFields
<1>3. Shape'
  BY <1>2 DEF Shape, Between, HasTable
<1>4. CallsEndAsAsked'
  BY <1>2 DEF JInv, Untouched, Makes, CallsEndAsAsked, At
<1>5. QED
  BY <1>2, <1>3, <1>4 DEF JInv, Between, Function, Made, Untouched, At

\* Between two calls, what the caller does ends the memory of the last.
LEMMA CallerStepAsked ==
  ASSUME LengthsAreCounts, ChunksAreCounts, JInv,
         \/ \E t \in Tables, n \in Lengths, chunk \in Chunks, named \in Modes,
               keyed, clash \in BOOLEAN :
               to_sql(t, named, n, chunk, keyed, clash)
         \/ \E t \in Tables : OwnInsert(t)
         \/ OwnCommit \/ OwnRollback \/ Crash
  PROVE  JInv'
<1> USE DEF JInv
<1>1. ASSUME NEW t \in Tables, NEW n \in Lengths, NEW chunk \in Chunks,
             NEW named \in Modes, NEW keyed, NEW clash,
             to_sql(t, named, n, chunk, keyed, clash)
      PROVE  JInv'
  <2>1. /\ call'.pc = "look" /\ call'.mode = named /\ call'.before = mine
        /\ call'.stood = disk /\ mine' = mine /\ disk' = disk
    BY <1>1 DEF to_sql, Unmoved
  <2>2. Shape'
    BY <1>1 DEF to_sql, LengthsAreCounts, ChunksAreCounts, Shape, CallFields,
                Between, HasTable, At
  <2>3. Made' /\ Untouched' /\ CallsEndAsAsked'
    BY <2>1 DEF Made, Untouched, CallsEndAsAsked, At
  <2>4. QED
    BY <2>1, <2>2, <2>3 DEF Function
<1>2. CASE \/ \E t \in Tables : OwnInsert(t)
           \/ OwnCommit \/ OwnRollback \/ Crash
  <2>1. call' = Idle
    BY <1>2 DEF OwnInsert, OwnCommit, OwnRollback, Crash, Own
  <2>2. Function(mine)' /\ Function(disk)'
    <3>1. ASSUME NEW t \in Tables, OwnInsert(t)
          PROVE  Function(mine)' /\ Function(disk)'
      BY <3>1, AreFunctions DEF OwnInsert, Change, Function
    <3>2. CASE OwnCommit \/ OwnRollback \/ Crash
      BY <3>2 DEF OwnCommit, OwnRollback, Crash, Commit, Rollback, Function
    <3>3. QED
      BY <1>2, <3>1, <3>2
  <2>3. Shape' /\ Made' /\ Untouched' /\ CallsEndAsAsked'
    BY <2>1 DEF Idle, Shape, Between, HasTable, Made, Untouched,
                CallsEndAsAsked,
                At
  <2>4. QED
    BY <2>1, <2>2, <2>3 DEF Between, Idle
<1>3. QED
  BY <1>1, <1>2

\* The statements before the batches.
LEMMA StatementStepAsked ==
  ASSUME JInv, Shape',
         \/ has_table \/ DropTable \/ CreateTable \/ CreateIndex \/ CommitTable
         \/ DeleteRows \/ Check
  PROVE  JInv'
<1> USE DEF Goto
<1>0. ~Between /\ DOMAIN call = CallFields /\ Function(mine) /\ Function(disk)
  BY DEF JInv, Shape, Idle, Between, At, has_table, DropTable, CreateTable,
         CreateIndex, CommitTable, DeleteRows, Check
<1>1. ASSUME NEW pc, call' = [call EXCEPT !.pc = pc]
      PROVE  /\ call'.pc = pc /\ call'.table = call.table
             /\ call'.before = call.before /\ call'.mode = call.mode
             /\ call'.rows = call.rows /\ call'.next = call.next
             /\ (Makes' <=> Makes) /\ KeptRows' = KeptRows
  <2>1. /\ call'.pc = pc /\ call'.table = call.table
        /\ call'.before = call.before /\ call'.mode = call.mode
        /\ call'.rows = call.rows /\ call'.next = call.next
    BY <1>0, <1>1 DEF CallFields
  <2>2. QED
    BY <2>1 DEF Makes, KeptRows
<1>2. CASE has_table
  <2> DEFINE pc == IF call.table \notin DOMAIN mine THEN "create"
                   ELSE CASE call.mode = "fail" -> "raised"
                          [] call.mode = "replace" -> "drop"
                          [] call.mode = "append" -> "check"
                          [] call.mode = "delete_rows" -> "delete"
  <2>1. /\ call' = [call EXCEPT !.pc = pc] /\ mine' = mine /\ disk' = disk
        /\ mine = call.before /\ call.mode \in Modes
    BY <1>0, <1>2 DEF has_table, Unmoved, JInv, Made
  <2>2. CASE call.table \notin DOMAIN mine
    <3>1. pc = "create" /\ Without(mine, call.table) = mine
      BY <1>0, <2>2, WithoutNone
    <3>2. Made'
      BY <1>1, <2>1, <2>2, <3>1 DEF Made, At, Makes
    <3>3. QED
      BY <1>0, <1>1, <2>1, <3>1, <3>2, OnTheWay DEF Between, Function
  <2>3. CASE call.table \in DOMAIN mine /\ call.mode = "fail"
    <3>1. pc = "raised"
      BY <2>3
    <3>2. QED
      BY <1>0, <2>1, <3>1, Raising DEF Function
  <2>4. CASE call.table \in DOMAIN mine /\ call.mode # "fail"
    <3>1. \/ pc = "drop" /\ call.mode = "replace"
          \/ pc = "check" /\ call.mode = "append"
          \/ pc = "delete" /\ call.mode = "delete_rows"
      BY <2>1, <2>4 DEF Modes
    <3>2. With(mine, call.table, mine[call.table]) = mine
      BY <1>0, <2>4, WithItsOwn
    <3>3. Made'
      BY <1>1, <2>1, <2>4, <3>1, <3>2 DEF Made, At, Makes, KeptRows
    <3>4. QED
      BY <1>0, <1>1, <2>1, <3>1, <3>3, OnTheWay DEF Between, Function
  <2>5. QED
    BY <2>2, <2>3, <2>4
<1>3. CASE DropTable \/ CreateTable \/ CreateIndex \/ CommitTable
  <2>1. Makes
    BY <1>3 DEF DropTable, CreateTable, CreateIndex, CommitTable, JInv, Made
  <2>2. Function(mine)' /\ Function(disk)'
    BY <1>0, <1>3, AreFunctions DEF DropTable, CreateTable, CreateIndex,
       CommitTable, Define, Commit, Function
  <2>3. CASE DropTable
    <3>1. Made'
      BY <1>1, <2>1, <2>3 DEF DropTable, Define, JInv, Made, At
    <3>2. QED
      BY <1>0, <1>1, <2>1, <2>2, <2>3, <3>1, OnTheWay DEF DropTable, Between
  <2>4. CASE CreateTable
    <3>1. mine' = With(call.before, call.table, {})
      BY <2>4, WithoutThenWith DEF CreateTable, Define, JInv, Made
    <3>2. Made'
      BY <1>1, <2>1, <2>4, <3>1 DEF CreateTable, Made, At
    <3>3. QED
      BY <1>0, <1>1, <2>1, <2>2, <2>4, <3>2, OnTheWay DEF CreateTable, Between
  <2>5. CASE CreateIndex
    <3>1. Made'
      BY <1>1, <2>1, <2>5 DEF CreateIndex, Define, JInv, Made, At
    <3>2. QED
      BY <1>0, <1>1, <2>1, <2>2, <2>5, <3>1, OnTheWay DEF CreateIndex, Between
  <2>6. CASE CommitTable
    <3>1. KeptRows = {}
      BY <2>1 DEF Makes, KeptRows
    <3>2. Made'
      BY <1>1, <2>1, <2>6, <3>1 DEF CommitTable, Commit, JInv, Made, At
    <3>3. QED
      BY <1>0, <1>1, <2>1, <2>2, <2>6, <3>2, OnTheWay DEF CommitTable, Between
  <2>7. QED
    BY <1>3, <2>3, <2>4, <2>5, <2>6
<1>4. CASE DeleteRows
  <2>1. /\ mine' = With(call.before, call.table, {}) /\ disk' = disk
        /\ KeptRows = {} /\ Function(mine)' /\ Function(disk)'
    BY <1>0, <1>4, AreFunctions DEF DeleteRows, Change, JInv, Made, KeptRows,
       Function
  <2>2. Made'
    BY <1>1, <1>4, <2>1 DEF DeleteRows, Made, At
  <2>3. QED
    BY <1>0, <1>1, <1>4, <2>1, <2>2, OnTheWay DEF DeleteRows, Between
<1>5. CASE Check
  <2>1. /\ mine' = mine /\ disk' = disk /\ calls' = calls
        /\ mine = With(call.before, call.table, KeptRows)
        /\ call.next = 0 /\ call.rows \in Nat
    BY <1>0, <1>5 DEF Check, Unmoved, JInv, Made, Shape, At
  <2>2. CASE Refused
    BY <1>0, <1>5, <2>1, <2>2, Raising DEF Check, Function
  <2>3. CASE ~Refused /\ call.rows = 0
    <3>1. call' = [call EXCEPT !.pc = "returned"]
      BY <1>5, <2>3 DEF Check
    <3>2. QED
      BY <1>0, <1>1, <2>1, <2>3, <3>1
         DEF JInv, Function, Made, Untouched, CallsEndAsAsked, Between, At
  <2>4. CASE ~Refused /\ call.rows # 0
    <3>1. call' = [call EXCEPT !.pc = "insert"]
      BY <1>5, <2>4 DEF Check
    <3>2. Rows(calls, 1, In', call.rows) = {}
      BY <1>1, <2>1, <3>1 DEF In, Rows
    <3>3. Made'
      BY <1>1, <2>1, <3>1, <3>2 DEF Made, At
    <3>4. QED
      BY <1>0, <1>1, <2>1, <3>1, <3>3, OnTheWay DEF Between, Function
  <2>5. QED
    BY <2>2, <2>3, <2>4
<1>6. QED
  BY <1>2, <1>3, <1>4, <1>5

LEMMA BatchStepAsked ==
  ASSUME JInv, Shape', InsertBatch
  PROVE  JInv'
<1> DEFINE t == call.table
           to == IF call.next + Step < call.rows THEN call.next + Step
                 ELSE call.rows
           was == KeptRows \cup Rows(calls, 1, In, call.rows)
           new == Rows(calls, call.next + 1, to, call.rows)
<1>1. /\ At("insert") /\ call.next \in Nat /\ call.rows \in Nat /\ Step \in Int
      /\ Step > 0 /\ call.next < call.rows /\ DOMAIN call = CallFields
      /\ mine = With(call.before, t, was) /\ ~Between /\ call.mode \in Modes
  BY DEF JInv, InsertBatch, More, Shape, Idle, Between, At, Step, Made
<1>2. /\ mine' = With(mine, t, mine[t] \cup new) /\ disk' = disk
      /\ call' = [call EXCEPT !.next = call.next + Step] /\ calls' = calls
  BY DEF InsertBatch, Change, Batch, Advanced
<1>3. /\ call'.pc = "insert" /\ call'.next = call.next + Step
      /\ call'.rows = call.rows /\ call'.table = t /\ call'.mode = call.mode
      /\ call'.before = call.before /\ call'.stood = call.stood
  BY <1>1, <1>2 DEF At, CallFields
<1>4. KeptRows' = KeptRows /\ (Makes' <=> Makes) /\ In' = to
  BY <1>1, <1>3 DEF KeptRows, Makes, In
<1>5. mine[t] = was
  BY <1>1 DEF With
<1>6. was \cup new = KeptRows \cup Rows(calls, 1, to, call.rows)
  <2>1. Rows(calls, 1, In, call.rows) \cup new = Rows(calls, 1, to, call.rows)
    BY <1>1 DEF In, Rows
  <2>2. QED
    BY <2>1
<1>7. mine' = With(call.before, t, was \cup new)
  <2> HIDE DEF t, was, new
  <2>1. mine' = With(With(call.before, t, was), t, was \cup new)
    BY <1>1, <1>2, <1>5
  <2>2. QED
    BY <2>1, WithTwice
<1>8. Function(mine)' /\ Function(disk)'
  <2> HIDE DEF t, was, new
  <2>1. Function(With(mine, t, mine[t] \cup new))
    BY AreFunctions
  <2>2. QED
    BY <1>2, <2>1 DEF JInv, Function
<1>9. Made'
  BY <1>2, <1>3, <1>4, <1>6, <1>7 DEF Made, At
<1>10. Untouched' /\ CallsEndAsAsked'
  BY <1>1, <1>2, <1>3, <1>4 DEF JInv, Untouched, CallsEndAsAsked, Between, At
<1>11. QED
  BY <1>1, <1>3, <1>8, <1>9, <1>10 DEF JInv

LEMMA CommitStepAsked ==
  ASSUME JInv, Shape', CommitRows
  PROVE  JInv'
<1>1. /\ At("insert") /\ ~More /\ call.next \in Nat /\ call.rows \in Nat
      /\ Step \in Int /\ DOMAIN call = CallFields
      /\ mine = With(call.before, call.table,
                     KeptRows \cup Rows(calls, 1, In, call.rows))
  BY DEF JInv, CommitRows, Shape, Idle, Between, At, Step, Made
<1>2. /\ call' = [call EXCEPT !.pc = "returned"] /\ calls' = calls
      /\ mine' = mine /\ disk' = mine /\ open' = FALSE
  BY DEF CommitRows, Commit, Goto
<1>3. /\ call'.pc = "returned" /\ call'.chunk = call.chunk
      /\ call'.rows = call.rows /\ call'.table = call.table
      /\ call'.mode = call.mode /\ call'.before = call.before
  BY <1>1, <1>2 DEF CallFields
<1>4. Step' = Step /\ KeptRows' = KeptRows
  BY <1>3 DEF Step, KeptRows
<1>5. Step > 0 => In = call.rows
  BY <1>1 DEF More, In
<1>6. CallsEndAsAsked'
  BY <1>1, <1>2, <1>3, <1>4, <1>5 DEF CallsEndAsAsked, At, KeptRows
<1>7. QED
  BY <1>2, <1>3, <1>6 DEF JInv, Function, Made, Untouched, Between, At

(***************************************************************************)
(* A call of to_sql that returned with rows, in chunks that go forward, is *)
(* on disk: the tables it found, with its rows after those its mode keeps. *)
(* One that raised left a table that it does not replace as it stood.      *)
(***************************************************************************)
THEOREM EndsAsAsked ==
  ASSUME LengthsAreCounts, ChunksAreCounts
  PROVE  Spec => []CallsEndAsAsked
<1>1. IInv /\ [Next]_vars => IInv'
  BY Inductive
<1>2. IInv /\ JInv /\ [Next]_vars => JInv'
  <2>1. SUFFICES ASSUME IInv, JInv, [Next]_vars PROVE JInv'
    OBVIOUS
  <2>2. Shape'
    BY <1>1, <2>1 DEF IInv
  <2>3. CASE UNCHANGED vars
    BY <2>1, <2>3 DEF vars, JInv, Shape, Between, HasTable, At, Function, Made,
       Makes, KeptRows, In, Untouched, CallsEndAsAsked, Step
  <2>4. CASE Fails
    BY <2>1, <2>4, Raising DEF Fails, Rollback, Goto, JInv, Function, Between
  <2>5. QED
    BY <2>1, <2>2, <2>3, <2>4, CallerStepAsked, StatementStepAsked,
       BatchStepAsked, CommitStepAsked DEF Next, Modes
<1>3. JInv => CallsEndAsAsked
  BY DEF JInv
<1>4. QED
  BY InitIInv, InitJInv, <1>1, <1>2, <1>3, PTL DEF Spec
-----------------------------------------------------------------------------
(* Numbers. *)

\* A set of naturals that reaches from 0 to each next one is all of them.
LEMMA AllNaturals ==
  ASSUME NEW S, 0 \in S, \A k \in Nat : k \in S => k + 1 \in S
  PROVE  \A k \in Nat : k \in S
<1> DEFINE T == {k \in Nat : k \notin S}
<1>1. SUFFICES ASSUME T # {} PROVE FALSE
  OBVIOUS
<1>2. PICK m \in T : \A k \in T : ~ (k < m)
  <2> DEFINE R == {ss \in Nat \X Nat : ss[1] < ss[2]}
  <2>1. IsWellFoundedOn(R, Nat)
    BY NatLessThanWellFounded DEF OpToRel
  <2>2. \A x, y \in Nat : x < y => <<x, y>> \in R
    OBVIOUS
  <2> HIDE DEF R
  <2>3. \E x \in T : \A y \in T : ~ (<<y, x>> \in R)
    BY <1>1, <2>1, WFMin DEF R
  <2>4. QED
    BY <2>2, <2>3
<1>3. m # 0 /\ m - 1 \in Nat /\ m - 1 \notin S
  BY <1>2
<1>4. QED
  BY <1>2, <1>3

\* The largest and the smallest place of a set of places.
LEMMA Ends ==
  ASSUME NEW n \in Nat, NEW S \in SUBSET (1 .. n), S # {}
  PROVE  /\ Max(S) \in S /\ \A x \in S : x <= Max(S)
         /\ Min(S) \in S /\ \A x \in S : Min(S) <= x
<1> DEFINE R == {ss \in Nat \X Nat : ss[1] < ss[2]}
           T == {n - x : x \in S}
<1>1. IsWellFoundedOn(R, Nat)
  BY NatLessThanWellFounded DEF OpToRel
<1>2. \A x, y \in Nat : x < y => <<x, y>> \in R
  OBVIOUS
<1> HIDE DEF R
<1>3. S \subseteq Nat /\ T \subseteq Nat /\ T # {}
  <2>1. \A x \in S : n - x \in Nat
    OBVIOUS
  <2>2. S \subseteq Nat
    OBVIOUS
  <2>3. T \subseteq Nat /\ T # {}
    BY <2>1
  <2>4. QED
    BY <2>2, <2>3
<1> HIDE DEF T
<1>4. PICK low \in S : \A x \in S : ~ (<<x, low>> \in R)
  BY <1>1, <1>3, WFMin DEF R
<1>5. \A x \in S : low <= x
  <2>1. TAKE x \in S
  <2>2. x \in Nat /\ low \in Nat /\ ~ (x < low)
    BY <1>2, <1>3, <1>4
  <2>3. QED
    BY <2>2
<1>6. PICK m \in T : \A k \in T : ~ (<<k, m>> \in R)
  BY <1>1, <1>3, WFMin DEF R
<1>7. PICK high \in S : m = n - high
  BY DEF T
<1>8. \A x \in S : high >= x
  <2>1. TAKE x \in S
  <2>2. n - x \in T /\ n - x \in Nat /\ n - high \in Nat
    BY <1>3 DEF T
  <2>3. ~ (n - x < n - high)
    BY <1>2, <1>6, <1>7, <2>2
  <2>4. QED
    BY <2>3
<1>9. Max(S) \in S /\ \A x \in S : Max(S) >= x
  BY <1>8 DEF Max
<1>10. Min(S) \in S /\ \A x \in S : Min(S) <= x
  BY <1>5 DEF Min
<1>11. QED
  BY <1>9, <1>10

-----------------------------------------------------------------------------
(***************************************************************************)
(* The options.  A context undoes what it did with pairs that it looked up *)
(* on the way in; whatever else is set meanwhile, setting those pairs      *)
(* gives each option they name the value it had.                           *)
(***************************************************************************)
HeldValues ==
  {h \in [DOMAIN Legal -> UNION {Legal[key] : key \in DOMAIN Legal}] :
     \A key \in DOMAIN Legal : h[key] \in Legal[key]}

KnownCalls == {pairs \in OptionCalls : Opt!Known(pairs)}

Looked(h, pairs) ==
  [i \in DOMAIN pairs |-> <<pairs[i][1], h[Opt!one_key(pairs[i][1])]>>]

Undos == {Looked(h, pairs) : h \in HeldValues, pairs \in KnownCalls}
Entries == HeldValues \X SUBSET DOMAIN Legal

OptionsInv ==
  /\ values \in HeldValues
  /\ contexts \in Seq(Undos) /\ found \in Seq(Entries)
  /\ Len(contexts) = Len(found)
  /\ \A i \in 1 .. Len(contexts) :
       \E h \in HeldValues, pairs \in KnownCalls :
         contexts[i] = Looked(h, pairs) /\ found[i] = <<h, Opt!Named(pairs)>>

LEMMA MaxIsIn ==
  ASSUME NEW n \in Nat, NEW S \in SUBSET (1 .. n), S # {}
  PROVE  Opt!Max(S) \in S
<1>1. Opt!Max(S) = Max(S)
  BY DEF Opt!Max, Max
<1>2. QED
  BY <1>1, Ends

LEMMA NamedIsOne ==
  ASSUME NEW pat, Opt!IsOne(pat)
  PROVE  /\ Opt!one_key(pat) \in DOMAIN Legal
         /\ pat = {Opt!one_key(pat)}
BY DEF Opt!IsOne, Opt!one_key, Opt!Registered

\* An option that no pair names keeps its value.
LEMMA SetKeepsOthers ==
  ASSUME NEW h, NEW pairs, NEW key \in DOMAIN Legal,
         \A i \in DOMAIN pairs : Opt!one_key(pairs[i][1]) # key
  PROVE  Opt!Set(h, pairs)[key] = h[key]
BY DEF Opt!Set, Opt!Setting, Opt!Registered

\* What is set is let through by the checks.
LEMMA SetIsLegal ==
  ASSUME NEW h \in HeldValues, NEW pairs, NEW n \in Nat,
         DOMAIN pairs = 1 .. n
  PROVE  Opt!Set(h, pairs) \in HeldValues
<1>1. SUFFICES ASSUME NEW key \in DOMAIN Legal
               PROVE  Opt!Set(h, pairs)[key] \in Legal[key]
  <2>1. Opt!Set(h, pairs) =
          [key \in DOMAIN Legal |-> Opt!Set(h, pairs)[key]]
    BY DEF Opt!Set, Opt!Registered
  <2> HIDE DEF Opt!Set
  <2>2. QED
    BY <2>1 DEF HeldValues
<1> DEFINE naming == Opt!Setting(pairs, key)
<1>2. Opt!Set(h, pairs)[key] = IF naming = {} THEN h[key]
                               ELSE pairs[Opt!Max(naming)][2]
  BY DEF Opt!Set, Opt!Registered
<1>3. CASE naming = {}
  BY <1>2, <1>3 DEF HeldValues
<1>4. CASE naming # {}
  <2>1. Opt!Max(naming) \in naming
    <3>1. naming \in SUBSET (1 .. n)
      BY DEF Opt!Setting
    <3> HIDE DEF naming
    <3>2. QED
      BY <1>4, <3>1, MaxIsIn
  <2>2. Opt!Sets(pairs[Opt!Max(naming)]) /\ Opt!one_key(pairs[Opt!Max(naming)][1]) = key
    BY <2>1 DEF Opt!Setting
  <2>3. QED
    BY <1>2, <1>4, <2>2 DEF Opt!Sets
<1>5. QED
  BY <1>3, <1>4

\* The pairs looked up put back what they were looked up in.
LEMMA PutsBack ==
  ASSUME NEW h \in HeldValues, NEW pairs \in KnownCalls, NEW v
  PROVE  Opt!Set(v, Looked(h, pairs)) =
           [key \in DOMAIN Legal |-> IF key \in Opt!Named(pairs) THEN h[key]
                                     ELSE v[key]]
<1> DEFINE undo == Looked(h, pairs)
<1>1. PICK n \in Nat : DOMAIN pairs = 1 .. n
  BY OptionsAssumption DEF KnownCalls
<1>2. DOMAIN undo = 1 .. n
  BY <1>1 DEF Looked
<1>3. \A i \in 1 .. n : /\ undo[i][1] = pairs[i][1]
                        /\ undo[i][2] = h[Opt!one_key(pairs[i][1])]
                        /\ Opt!IsOne(pairs[i][1])
  BY <1>1 DEF Looked, KnownCalls, Opt!Known
<1>4. \A i \in 1 .. n : Opt!Sets(undo[i])
  <2>1. TAKE i \in 1 .. n
  <2>2. Opt!one_key(pairs[i][1]) \in DOMAIN Legal
    BY <1>3, NamedIsOne
  <2>3. QED
    BY <1>3, <2>2 DEF Opt!Sets, HeldValues
<1> HIDE DEF undo
<1>5. SUFFICES ASSUME NEW key \in DOMAIN Legal
               PROVE  Opt!Set(v, undo)[key] =
                        IF key \in Opt!Named(pairs) THEN h[key] ELSE v[key]
  BY DEF Opt!Set, Opt!Registered, undo
<1> DEFINE naming == Opt!Setting(undo, key)
<1>6. Opt!Set(v, undo)[key] = IF naming = {} THEN v[key]
                              ELSE undo[Opt!Max(naming)][2]
  BY DEF Opt!Set, Opt!Registered
<1>7. naming = {i \in 1 .. n : Opt!one_key(pairs[i][1]) = key}
  BY <1>2, <1>3, <1>4 DEF Opt!Setting
<1>8. key \in Opt!Named(pairs) <=> naming # {}
  BY <1>1, <1>7 DEF Opt!Named
<1>9. ASSUME naming # {}
      PROVE  undo[Opt!Max(naming)][2] = h[key]
  <2>1. naming \in SUBSET (1 .. n)
    BY <1>7
  <2> HIDE DEF naming
  <2>2. Opt!Max(naming) \in naming
    BY <1>9, <2>1, MaxIsIn
  <2>3. QED
    BY <1>3, <1>7, <2>2
<1>10. QED
  BY <1>6, <1>8, <1>9

LEMMA EntersOptions ==
  ASSUME OptionsInv, NEW pairs \in OptionCalls, Opt!Enter(pairs)
  PROVE  OptionsInv'
<1>1. PICK n \in Nat : DOMAIN pairs = 1 .. n
  BY OptionsAssumption
<1>2. values' \in HeldValues
  BY <1>1, SetIsLegal DEF Opt!Enter, OptionsInv
<1>3. pairs \in KnownCalls
  BY DEF KnownCalls, Opt!Enter
<1>4. Opt!UndoOf(pairs) = Looked(values, pairs)
  BY DEF Opt!UndoOf, Looked
<1>5. Looked(values, pairs) \in Undos
  BY <1>3 DEF OptionsInv, Undos
<1>6. <<values, Opt!Named(pairs)>> \in Entries
  <2>1. \A i \in DOMAIN pairs : Opt!one_key(pairs[i][1]) \in DOMAIN Legal
    BY <1>3, NamedIsOne DEF KnownCalls, Opt!Known
  <2>2. Opt!Named(pairs) \subseteq DOMAIN Legal
    BY <2>1 DEF Opt!Named
  <2>3. QED
    BY <2>2 DEF OptionsInv, Entries
<1>7. /\ contexts' = Append(contexts, Looked(values, pairs))
      /\ found' = Append(found, <<values, Opt!Named(pairs)>>)
  BY <1>4 DEF Opt!Enter
<1>8. /\ contexts' \in Seq(Undos) /\ Len(contexts') = Len(contexts) + 1
      /\ found' \in Seq(Entries) /\ Len(found') = Len(found) + 1
  BY <1>5, <1>6, <1>7 DEF OptionsInv
<1>9. ASSUME NEW i \in 1 .. Len(contexts')
      PROVE  \E h \in HeldValues, p \in KnownCalls :
               contexts'[i] = Looked(h, p) /\ found'[i] = <<h, Opt!Named(p)>>
  <2>1. CASE i = Len(contexts) + 1
    <3>1. /\ contexts'[i] = Looked(values, pairs)
          /\ found'[i] = <<values, Opt!Named(pairs)>>
      BY <1>5, <1>6, <1>7, <2>1 DEF OptionsInv
    <3>2. QED
      BY <1>3, <3>1 DEF OptionsInv
  <2>2. CASE i # Len(contexts) + 1
    <3>1. i \in 1 .. Len(contexts)
      BY <1>8, <2>2 DEF OptionsInv
    <3>2. contexts'[i] = contexts[i] /\ found'[i] = found[i]
      BY <1>5, <1>6, <1>7, <3>1 DEF OptionsInv
    <3>3. QED
      BY <3>1, <3>2 DEF OptionsInv
  <2>3. QED
    BY <2>1, <2>2
<1>10. QED
  BY <1>2, <1>8, <1>9 DEF OptionsInv

\* What the innermost context undoes.
LEMMA Innermost ==
  ASSUME OptionsInv, contexts # <<>>
  PROVE  \E h \in HeldValues, pairs \in KnownCalls :
           Last(contexts) = Looked(h, pairs) /\ Last(found) = <<h, Opt!Named(pairs)>>
<1>1. Len(contexts) \in 1 .. Len(contexts)
  BY DEF OptionsInv
<1>2. Last(contexts) = contexts[Len(contexts)] /\ Last(found) = found[Len(contexts)]
  BY DEF Last, OptionsInv
<1>3. QED
  BY <1>1, <1>2 DEF OptionsInv

LEMMA LeavesOptions ==
  ASSUME OptionsInv, Opt!Exit
  PROVE  /\ OptionsInv'
         /\ values' = [key \in DOMAIN Legal |->
                         IF key \in Last(found)[2] THEN Last(found)[1][key]
                         ELSE values[key]]
<1>1. contexts # <<>>
  BY DEF Opt!Exit
<1>2. PICK h \in HeldValues, pairs \in KnownCalls :
        Last(contexts) = Looked(h, pairs) /\ Last(found) = <<h, Opt!Named(pairs)>>
  BY <1>1, Innermost
<1>3. values' = Opt!Set(values, Looked(h, pairs))
  BY <1>2 DEF Opt!Exit, Opt!Last, Last
<1>4. values' = [key \in DOMAIN Legal |-> IF key \in Opt!Named(pairs) THEN h[key]
                                          ELSE values[key]]
  BY <1>3, PutsBack
<1>5. values' \in HeldValues
  BY <1>4 DEF OptionsInv, HeldValues
<1>6. /\ contexts' = SubSeq(contexts, 1, Len(contexts) - 1)
      /\ found' = SubSeq(found, 1, Len(found) - 1)
  BY DEF Opt!Exit, Opt!Front
<1>7. /\ contexts' \in Seq(Undos) /\ Len(contexts') = Len(contexts) - 1
      /\ found' \in Seq(Entries) /\ Len(found') = Len(contexts) - 1
      /\ \A i \in 1 .. Len(contexts) - 1 :
           contexts'[i] = contexts[i] /\ found'[i] = found[i]
  BY <1>1, <1>6 DEF OptionsInv
<1>8. values' = [key \in DOMAIN Legal |->
                  IF key \in Last(found)[2] THEN Last(found)[1][key] ELSE values[key]]
  BY <1>2, <1>4
<1>9. \A i \in 1 .. Len(contexts') :
        \E g \in HeldValues, p \in KnownCalls :
          contexts'[i] = Looked(g, p) /\ found'[i] = <<g, Opt!Named(p)>>
  <2>1. TAKE i \in 1 .. Len(contexts')
  <2>2. i \in 1 .. Len(contexts) /\ i \in 1 .. Len(contexts) - 1
    BY <1>7 DEF OptionsInv
  <2>3. contexts'[i] = contexts[i] /\ found'[i] = found[i]
    BY <1>7, <2>2
  <2>4. QED
    BY <2>2, <2>3 DEF OptionsInv
<1>10. OptionsInv'
  BY <1>5, <1>7, <1>9 DEF OptionsInv
<1>11. QED
  BY <1>8, <1>10

\* An entry that fails leaves every option as it was.
LEMMA FailsAsItWas ==
  ASSUME OptionsInv, NEW pairs \in OptionCalls, Opt!EnterFails(pairs)
  PROVE  values' = values /\ UNCHANGED <<contexts, found>>
<1> DEFINE set == Opt!Set(values, pairs)
<1>1. pairs \in KnownCalls
  BY DEF KnownCalls, Opt!EnterFails
<1>2. values' = Opt!Set(set, Looked(values, pairs))
  BY DEF Opt!EnterFails, Opt!UndoOf, Looked
<1>3. values' = [key \in DOMAIN Legal |-> IF key \in Opt!Named(pairs)
                                          THEN values[key] ELSE set[key]]
  BY <1>1, <1>2, PutsBack DEF OptionsInv
<1>4. \A key \in DOMAIN Legal : key \notin Opt!Named(pairs) => set[key] = values[key]
  BY SetKeepsOthers DEF Opt!Named
<1>5. values = [key \in DOMAIN Legal |-> values[key]]
  BY DEF OptionsInv, HeldValues
<1>6. UNCHANGED <<contexts, found>>
  BY DEF Opt!EnterFails
<1> HIDE DEF set
<1>7. values' = [key \in DOMAIN Legal |-> values[key]]
  BY <1>3, <1>4
<1>8. QED
  BY <1>5, <1>6, <1>7

LEMMA OptionsInductive == OptionsInv /\ [Opt!Next]_option_vars => OptionsInv'
<1> SUFFICES ASSUME OptionsInv, [Opt!Next]_option_vars PROVE OptionsInv'
  OBVIOUS
<1>1. ASSUME NEW pairs \in OptionCalls, Opt!set_option(pairs)
      PROVE  OptionsInv'
  <2>1. PICK n \in Nat : DOMAIN pairs = 1 .. n
    BY OptionsAssumption
  <2>2. values' \in HeldValues
    BY <1>1, <2>1, SetIsLegal DEF Opt!set_option, OptionsInv
  <2>3. QED
    BY <1>1, <2>2 DEF Opt!set_option, OptionsInv
<1>2. ASSUME NEW pairs \in OptionCalls, Opt!Enter(pairs)
      PROVE  OptionsInv'
  BY <1>2, EntersOptions
<1>3. ASSUME NEW pairs \in OptionCalls, Opt!EnterFails(pairs)
      PROVE  OptionsInv'
  BY <1>3, FailsAsItWas DEF OptionsInv
<1>4. ASSUME NEW pat \in Patterns, Opt!reset_option(pat)
      PROVE  OptionsInv'
  <2>1. values' \in HeldValues
    <3>1. \A key \in DOMAIN Legal : values'[key] \in Legal[key]
      BY <1>4, OptionsAssumption DEF Opt!reset_option, Opt!Registered, OptionsInv,
         HeldValues
    <3>2. values' = [key \in DOMAIN Legal |-> values'[key]]
      BY <1>4 DEF Opt!reset_option, Opt!Registered
    <3>3. QED
      BY <3>1, <3>2 DEF HeldValues
  <2>2. QED
    BY <1>4, <2>1 DEF Opt!reset_option, OptionsInv
<1>5. CASE Opt!Exit
  BY <1>5, LeavesOptions
<1>6. CASE UNCHANGED option_vars
  BY <1>6 DEF option_vars, OptionsInv
<1>7. QED
  BY <1>1, <1>2, <1>3, <1>4, <1>5, <1>6 DEF Opt!Next

LEMMA OptionsStep ==
  ASSUME OptionsInv
  PROVE  /\ Opt!Exit => values' = [key \in Opt!Registered |->
                                     IF key \in Opt!Last(found)[2]
                                     THEN Opt!Last(found)[1][key] ELSE values[key]]
         /\ \A pairs \in OptionCalls : Opt!EnterFails(pairs) => values' = values
<1>1. Opt!Exit => values' = [key \in DOMAIN Legal |->
                               IF key \in Last(found)[2] THEN Last(found)[1][key]
                               ELSE values[key]]
  BY LeavesOptions
<1>2. Opt!Last(found) = Last(found)
  BY DEF Opt!Last, Last
<1>3. QED
  BY <1>1, <1>2, FailsAsItWas DEF Opt!Registered

\* The facade keeps to the options' steps.
LEMMA FacadeSetsOptions ==
  [FacadeNext]_<<part, vars, option_vars, mean_vars, store_vars, label_vars>> =>
  [Opt!Next]_option_vars
BY DEF FacadeNext, StateNext, LabelNext, option_vars

(***************************************************************************)
(* "Set options for the length of a with block and put them back after     *)
(* it": for any options and checks, any pairs, nested to any depth.        *)
(***************************************************************************)
THEOREM OptionsArePutBack == FacadeSpec => ContextsPutBack
<1>1. FacadeInit => OptionsInv
  <2>1. Opt!Init => OptionsInv
    <3>1. Default \in HeldValues
      BY OptionsAssumption DEF HeldValues
    <3>2. QED
      BY <3>1 DEF Opt!Init, OptionsInv
  <2>2. QED
    BY <2>1 DEF FacadeInit
<1>2. OptionsInv /\ [Opt!Next]_option_vars => OptionsInv'
  BY OptionsInductive
<1>3. OptionsInv /\ [Opt!Next]_option_vars =>
        [/\ Opt!Exit => values' = [key \in Opt!Registered |->
                                     IF key \in Opt!Last(found)[2]
                                     THEN Opt!Last(found)[1][key] ELSE values[key]]
         /\ \A pairs \in OptionCalls : Opt!EnterFails(pairs) => values' = values]_(Opt!vars)
  BY OptionsStep
<1>4. QED
  BY <1>1, <1>2, <1>3, FacadeSetsOptions, PTL
     DEF FacadeSpec, ContextsPutBack, Opt!ContextsPutBack
-----------------------------------------------------------------------------
(***************************************************************************)
(* Reindexing.  What padding finds is the last of the labels on its side,  *)
(* which the order of the index makes the nearest of them; a limit counts  *)
(* the targets up to each, so the last that is filled bounds them all.     *)
(***************************************************************************)
\* Labels in order are in order however far apart they are.
LEMMA InOrderAcross ==
  ASSUME NEW own \in Seq(Int)
  PROVE  /\ Rises(own) => \A i, j \in DOMAIN own : i <= j => own[i] <= own[j]
         /\ Falls(own) => \A i, j \in DOMAIN own : i <= j => own[i] >= own[j]
<1> DEFINE U == {k \in Nat : Rises(own) =>
                   \A i, j \in DOMAIN own : j = i + k => own[i] <= own[j]}
           D == {k \in Nat : Falls(own) =>
                   \A i, j \in DOMAIN own : j = i + k => own[i] >= own[j]}
<1>1. DOMAIN own = 1 .. Len(own) /\ Len(own) \in Nat /\ \A i \in DOMAIN own : own[i] \in Int
  OBVIOUS
<1>2. 0 \in U /\ 0 \in D
  BY <1>1
<1>3. ASSUME NEW k \in Nat, k \in U PROVE k + 1 \in U
  <2>1. SUFFICES ASSUME Rises(own), NEW i \in DOMAIN own, NEW j \in DOMAIN own,
                        j = i + (k + 1)
                 PROVE  own[i] <= own[j]
    OBVIOUS
  <2>2. j - 1 \in DOMAIN own /\ j - 1 = i + k /\ j - 1 \in 1 .. Len(own) - 1
    BY <1>1, <1>3, <2>1
  <2>3. own[i] <= own[j - 1]
    BY <1>3, <2>1, <2>2
  <2>4. own[j - 1] <= own[(j - 1) + 1] /\ (j - 1) + 1 = j
    BY <1>1, <2>1, <2>2 DEF Rises
  <2>5. QED
    BY <1>1, <2>2, <2>3, <2>4
<1>4. ASSUME NEW k \in Nat, k \in D PROVE k + 1 \in D
  <2>1. SUFFICES ASSUME Falls(own), NEW i \in DOMAIN own, NEW j \in DOMAIN own,
                        j = i + (k + 1)
                 PROVE  own[i] >= own[j]
    OBVIOUS
  <2>2. j - 1 \in DOMAIN own /\ j - 1 = i + k /\ j - 1 \in 1 .. Len(own) - 1
    BY <1>1, <2>1
  <2>3. own[i] >= own[j - 1]
    BY <1>4, <2>1, <2>2
  <2>4. own[j - 1] >= own[(j - 1) + 1] /\ (j - 1) + 1 = j
    BY <1>1, <2>1, <2>2 DEF Falls
  <2>5. QED
    BY <1>1, <2>2, <2>3, <2>4
<1>5. /\ \A k \in Nat : k \in U
      /\ \A k \in Nat : k \in D
  <2> HIDE DEF U, D
  <2>1. QED
    BY <1>2, <1>3, <1>4, AllNaturals
<1>6. ASSUME NEW i \in DOMAIN own, NEW j \in DOMAIN own, i <= j
      PROVE  /\ Rises(own) => own[i] <= own[j]
             /\ Falls(own) => own[i] >= own[j]
  <2>1. j - i \in Nat /\ j = i + (j - i)
    BY <1>1, <1>6
  <2>2. j - i \in U /\ j - i \in D
    BY <1>5, <2>1
  <2>3. QED
    BY <2>1, <2>2
<1>7. QED
  BY <1>6


\* The first place of a label, or none when it is not there.
LEMMA ExactIs ==
  ASSUME NEW own \in Seq(Int), NEW label
  PROVE  LET place == Exact(own, label) IN
         /\ place = Nowhere => \A i \in DOMAIN own : own[i] # label
         /\ place # Nowhere => place + 1 \in DOMAIN own /\ own[place + 1] = label
<1> DEFINE at == {i \in DOMAIN own : own[i] = label}
<1>1. at \in SUBSET (1 .. Len(own)) /\ Len(own) \in Nat
  OBVIOUS
<1>2. Exact(own, label) = IF at = {} THEN Nowhere ELSE Min(at) - 1
  BY DEF Exact
<1>3. CASE at = {}
  BY <1>2, <1>3
<1>4. CASE at # {}
  <2>1. Min(at) \in at
    <3> HIDE DEF at
    <3>1. QED
      BY <1>1, <1>4, Ends
  <2>2. Min(at) \in DOMAIN own /\ own[Min(at)] = label /\ (Min(at) - 1) + 1 = Min(at)
    BY <2>1
  <2>3. Min(at) - 1 # Nowhere
    BY <2>2 DEF Nowhere
  <2>4. QED
    BY <1>2, <1>4, <2>2, <2>3
<1>5. QED
  BY <1>3, <1>4

\* The labels a method may read from on its side of a label.
Side(own, label, pad) ==
  {i \in DOMAIN own : IF Rises(own) = pad THEN own[i] <= label ELSE own[i] >= label}

\* What padding or backfilling finds is the nearest on that side.
LEMMA NeighbourIs ==
  ASSUME NEW own \in Seq(Int), NEW label \in Int, label # Gap, NEW pad \in BOOLEAN,
         Rises(own) \/ Falls(own)
  PROVE  LET place == Neighbour(own, label, pad, Rises(own)) IN
         /\ place = Nowhere => Side(own, label, pad) = {}
         /\ place # Nowhere =>
              /\ place + 1 \in Side(own, label, pad)
              /\ \A i \in Side(own, label, pad) :
                   \/ Distance(own[place + 1], label) < Distance(own[i], label)
                   \/ own[i] = own[place + 1]
<1> DEFINE at == Side(own, label, pad)
           end == IF pad THEN Max(at) ELSE Min(at)
<1>1. /\ DOMAIN own = 1 .. Len(own) /\ Len(own) \in Nat
      /\ \A i \in DOMAIN own : own[i] \in Int
  OBVIOUS
<1>2. Neighbour(own, label, pad, Rises(own)) = IF at = {} THEN Nowhere ELSE end - 1
  BY DEF Neighbour, Side
<1>3. CASE at = {}
  BY <1>2, <1>3
<1>4. CASE at # {}
  <2>1. at \in SUBSET (1 .. Len(own))
    BY <1>1 DEF Side
  <2>2. /\ Max(at) \in at /\ \A x \in at : x <= Max(at)
        /\ Min(at) \in at /\ \A x \in at : Min(at) <= x
    <3> HIDE DEF at
    <3>1. QED
      BY <1>1, <1>4, <2>1, Ends
  <2>3. /\ end \in at /\ end \in DOMAIN own
        /\ \A x \in at : IF pad THEN x <= end ELSE end <= x
    BY <1>1, <2>1, <2>2
  <2> HIDE DEF end
  <2>4. (end - 1) + 1 = end /\ end - 1 # Nowhere
    BY <1>1, <2>3 DEF Nowhere
  <2>5. ASSUME NEW i \in at
        PROVE  \/ Distance(own[end], label) < Distance(own[i], label)
               \/ own[i] = own[end]
    <3>1. i \in DOMAIN own /\ own[i] \in Int /\ own[end] \in Int
      BY <1>1, <2>3 DEF Side
    <3>2. CASE Rises(own)
      <4>1. IF pad THEN own[i] <= own[end] ELSE own[end] <= own[i]
        BY <2>3, <3>1, <3>2, InOrderAcross
      <4>2. IF pad THEN own[i] <= label /\ own[end] <= label
            ELSE own[i] >= label /\ own[end] >= label
        BY <2>3, <3>2 DEF Side
      <4>3. QED
        BY <3>1, <4>1, <4>2 DEF Distance
    <3>3. CASE ~ Rises(own)
      <4>1. IF pad THEN own[i] >= own[end] ELSE own[end] >= own[i]
        BY <2>3, <3>1, <3>3, InOrderAcross
      <4>2. IF pad THEN own[i] >= label /\ own[end] >= label
            ELSE own[i] <= label /\ own[end] <= label
        <5>1. (Rises(own) = pad) = ~pad
          BY <3>3 DEF Rises
        <5>2. QED
          BY <2>3, <5>1 DEF Side
      <4>3. QED
        BY <3>1, <4>1, <4>2 DEF Distance
    <3>4. QED
      BY <3>2, <3>3
  <2>6. QED
    BY <1>2, <1>4, <2>3, <2>4, <2>5
<1>5. QED
  BY <1>3, <1>4

\* The targets one label fills.
FilledBy(own, target, kept, p) ==
  {u \in DOMAIN target : kept[u] = p /\ own[p + 1] # target[u]}

\* A limit takes targets away and changes none.
LEMMA LimitTakes ==
  ASSUME NEW own, NEW target, NEW place, NEW pad, NEW limit
  PROVE  LET kept == Limited(own, target, place, pad, limit) IN
         \A t \in DOMAIN target : /\ kept[t] \in {place[t], Nowhere}
                                  /\ limit = Unlimited => kept[t] = place[t]
BY DEF Limited

\* A limit is kept.
LEMMA LimitKeeps ==
  ASSUME NEW own, NEW target \in Seq(Int), NEW place,
         NEW pad \in BOOLEAN, NEW limit \in Nat, limit # Unlimited, NEW p, p # Nowhere
  PROVE  LET from == FilledBy(own, target, Limited(own, target, place, pad, limit), p) IN
         Cardinality(from) \in Nat /\ IsFiniteSet(from) /\ Cardinality(from) <= limit
<1> DEFINE kept == Limited(own, target, place, pad, limit)
           inexact == {t \in DOMAIN target : place[t] # Nowhere /\ own[place[t] + 1] # target[t]}
           before(t) == {u \in inexact : place[u] = place[t] /\ (IF pad THEN u <= t ELSE u >= t)}
           from == FilledBy(own, target, kept, p)
<1>1. kept = [t \in DOMAIN target |->
                IF limit # Unlimited /\ t \in inexact /\ Cardinality(before(t)) > limit
                THEN Nowhere ELSE place[t]]
  BY DEF Limited
<1>2. from = {u \in DOMAIN target : kept[u] = p /\ own[p + 1] # target[u]}
  BY DEF FilledBy
<1>3. Cardinality(from) \in Nat /\ Cardinality(from) <= limit
  <2>1. /\ DOMAIN target = 1 .. Len(target) /\ Len(target) \in Nat
        /\ IsFiniteSet(DOMAIN target)
    <3>1. DOMAIN target = 1 .. Len(target) /\ Len(target) \in Nat
      OBVIOUS
    <3>2. IsFiniteSet(1 .. Len(target))
      BY <3>1, FS_Interval
    <3>3. QED
      BY <3>1, <3>2
  <2>2. \A u \in from : place[u] = p /\ u \in inexact
    BY <1>1, <1>2
  <2>3. CASE from = {}
    <3>1. Cardinality(from) = 0
      <4> HIDE DEF from
      <4>1. QED
        BY <2>3, FS_EmptySet
    <3>2. QED
      BY <2>1, <3>1
  <2>4. CASE from # {}
    <3>1. from \in SUBSET (1 .. Len(target))
      BY <1>2, <2>1
    <3> DEFINE final == IF pad THEN Max(from) ELSE Min(from)
    <3>2. final \in from /\ \A u \in from : IF pad THEN u <= final ELSE u >= final
      <4> HIDE DEF from
      <4>1. /\ Max(from) \in from /\ \A x \in from : x <= Max(from)
            /\ Min(from) \in from /\ \A x \in from : Min(from) <= x
        BY <2>1, <2>4, <3>1, Ends
      <4>2. QED
        BY <2>1, <3>1, <4>1
    <3> HIDE DEF final
    <3>3. from \subseteq before(final)
      BY <2>2, <3>2
    <3>4. ~ (Cardinality(before(final)) > limit)
      <4>1. final \in DOMAIN target /\ final \in inexact /\ kept[final] # Nowhere
        BY <1>2, <2>2, <3>2
      <4> HIDE DEF inexact, before, kept
      <4>2. QED
        BY <1>1, <4>1
    <3>5. IsFiniteSet(before(final)) /\ Cardinality(before(final)) \in Nat
      <4>1. before(final) \subseteq DOMAIN target
        OBVIOUS
      <4>2. QED
        BY <2>1, <4>1, FS_Subset, FS_CardinalityType
    <3>6. Cardinality(from) \in Nat /\ Cardinality(from) <= Cardinality(before(final))
      <4> HIDE DEF from, before
      <4>1. QED
        BY <3>3, <3>5, FS_Subset, FS_CardinalityType
    <3>7. QED
      BY <2>1, <3>4, <3>5, <3>6
  <2>5. QED
    BY <2>3, <2>4
<1>4. IsFiniteSet(from)
  <2>1. from \subseteq DOMAIN target /\ DOMAIN target = 1 .. Len(target) /\ Len(target) \in Nat
    BY <1>2
  <2>2. IsFiniteSet(1 .. Len(target))
    BY <2>1, FS_Interval
  <2> HIDE DEF from
  <2>3. QED
    BY <2>1, <2>2, FS_Subset
<1>5. QED
  BY <1>3, <1>4

\* The nearer of the neighbours on the two sides is the nearest label.
LEMMA NearerIs ==
  ASSUME NEW own \in Seq(Int), NEW label \in Int, label # Gap,
         Rises(own) \/ Falls(own), \A i \in DOMAIN own : own[i] # label
  PROVE  LET rising == Rises(own)
             place == Nearer(own, label, Neighbour(own, label, TRUE, rising),
                             Neighbour(own, label, FALSE, rising), rising) IN
         /\ place = Nowhere => DOMAIN own = {}
         /\ place # Nowhere =>
              /\ place + 1 \in DOMAIN own
              /\ \A i \in DOMAIN own :
                   \/ Distance(own[place + 1], label) < Distance(own[i], label)
                   \/ /\ Distance(own[place + 1], label) = Distance(own[i], label)
                      /\ own[i] <= own[place + 1]
<1> DEFINE rising == Rises(own)
           left == Neighbour(own, label, TRUE, rising)
           right == Neighbour(own, label, FALSE, rising)
           near == Distance(own[left + 1], label)
           far == Distance(own[right + 1], label)
           place == Nearer(own, label, left, right, rising)
           Good(p) ==
             /\ p = Nowhere => DOMAIN own = {}
             /\ p # Nowhere =>
                  /\ p + 1 \in DOMAIN own
                  /\ \A i \in DOMAIN own :
                       \/ Distance(own[p + 1], label) < Distance(own[i], label)
                       \/ /\ Distance(own[p + 1], label) = Distance(own[i], label)
                          /\ own[i] <= own[p + 1]
<1>1. rising \in BOOLEAN /\ \A i \in DOMAIN own : own[i] \in Int
  BY DEF Rises
<1>2. /\ left = Nowhere => Side(own, label, TRUE) = {}
      /\ left # Nowhere =>
           /\ left + 1 \in Side(own, label, TRUE)
           /\ \A i \in Side(own, label, TRUE) :
                near < Distance(own[i], label) \/ own[i] = own[left + 1]
  BY NeighbourIs
<1>3. /\ right = Nowhere => Side(own, label, FALSE) = {}
      /\ right # Nowhere =>
           /\ right + 1 \in Side(own, label, FALSE)
           /\ \A i \in Side(own, label, FALSE) :
                far < Distance(own[i], label) \/ own[i] = own[right + 1]
  BY NeighbourIs
<1>4. /\ \A i \in DOMAIN own : i \in Side(own, label, TRUE) \/ i \in Side(own, label, FALSE)
      /\ \A i \in Side(own, label, TRUE) :
           i \in DOMAIN own /\ (IF rising THEN own[i] < label ELSE own[i] > label)
      /\ \A i \in Side(own, label, FALSE) :
           i \in DOMAIN own /\ (IF rising THEN own[i] > label ELSE own[i] < label)
  BY <1>1 DEF Side
<1>5. place = IF right = Nowhere THEN left ELSE IF left = Nowhere THEN right
              ELSE IF near < far \/ (~rising /\ near = far) THEN left ELSE right
  BY DEF Nearer
<1>12. near = Distance(own[left + 1], label) /\ far = Distance(own[right + 1], label)
  OBVIOUS
<1> HIDE DEF left, right, rising, place, near, far
<1>6. ASSUME left = Nowhere, right = Nowhere PROVE Good(place)
  BY <1>2, <1>3, <1>4, <1>5, <1>6
<1>7. ASSUME left # Nowhere, right = Nowhere PROVE Good(place)
  <2>1. place = left /\ left + 1 \in DOMAIN own
    BY <1>2, <1>4, <1>5, <1>7
  <2>2. \A i \in DOMAIN own : near < Distance(own[i], label) \/ own[i] = own[left + 1]
    BY <1>2, <1>3, <1>4, <1>7
  <2>3. QED
    BY <1>1, <1>7, <1>12, <2>1, <2>2
<1>8. ASSUME left = Nowhere, right # Nowhere PROVE Good(place)
  <2>1. place = right /\ right + 1 \in DOMAIN own
    BY <1>3, <1>4, <1>5, <1>8
  <2>2. \A i \in DOMAIN own : far < Distance(own[i], label) \/ own[i] = own[right + 1]
    BY <1>2, <1>3, <1>4, <1>8
  <2>3. QED
    BY <1>1, <1>8, <1>12, <2>1, <2>2
<1>9. ASSUME left # Nowhere, right # Nowhere PROVE Good(place)
  <2>1. /\ left + 1 \in DOMAIN own /\ right + 1 \in DOMAIN own
        /\ IF rising THEN own[left + 1] < label /\ own[right + 1] > label
           ELSE own[left + 1] > label /\ own[right + 1] < label
    BY <1>2, <1>3, <1>4, <1>9
  <2>2. near \in Int /\ far \in Int
    BY <1>1, <1>12, <2>1 DEF Distance
  <2>3. ASSUME NEW i \in DOMAIN own
        PROVE  /\ own[i] \in Int /\ Distance(own[i], label) \in Int
               /\ \/ /\ near < Distance(own[i], label) \/ own[i] = own[left + 1]
                     /\ IF rising THEN own[i] < label ELSE own[i] > label
                  \/ /\ far < Distance(own[i], label) \/ own[i] = own[right + 1]
                     /\ IF rising THEN own[i] > label ELSE own[i] < label
    <3>1. own[i] \in Int
      BY <1>1
    <3>2. Distance(own[i], label) \in Int
      BY <3>1 DEF Distance
    <3>3. QED
      BY <1>2, <1>3, <1>4, <1>9, <3>1, <3>2
  <2>4. CASE near < far \/ (~rising /\ near = far)
    <3>1. place = left
      BY <1>5, <1>9, <2>4
    <3>2. ASSUME NEW i \in DOMAIN own
          PROVE  \/ near < Distance(own[i], label)
                 \/ near = Distance(own[i], label) /\ own[i] <= own[left + 1]
      <4>1. CASE own[i] = own[left + 1]
        BY <1>1, <1>12, <2>1, <2>2, <4>1
      <4>2. CASE own[i] = own[right + 1]
        BY <1>1, <1>12, <2>1, <2>2, <2>4, <4>2
      <4>3. CASE near < Distance(own[i], label)
        BY <4>3
      <4>4. CASE /\ far < Distance(own[i], label)
                 /\ IF rising THEN own[i] > label ELSE own[i] < label
        BY <2>2, <2>3, <2>4, <4>4
      <4>5. QED
        BY <2>3, <4>1, <4>2, <4>3, <4>4
    <3>3. QED
      BY <1>9, <1>12, <2>1, <3>1, <3>2
  <2>5. CASE ~ (near < far \/ (~rising /\ near = far))
    <3>1. place = right
      BY <1>5, <1>9, <2>5
    <3>2. ASSUME NEW i \in DOMAIN own
          PROVE  \/ far < Distance(own[i], label)
                 \/ far = Distance(own[i], label) /\ own[i] <= own[right + 1]
      <4>1. CASE own[i] = own[left + 1]
        BY <1>1, <1>12, <2>1, <2>2, <2>5, <4>1
      <4>2. CASE own[i] = own[right + 1]
        BY <1>1, <1>12, <2>1, <2>2, <2>5, <4>2
      <4>3. CASE far < Distance(own[i], label)
        BY <4>3
      <4>4. CASE /\ near < Distance(own[i], label)
                 /\ IF rising THEN own[i] < label ELSE own[i] > label
        BY <2>2, <2>3, <2>5, <4>4
      <4>5. QED
        BY <2>3, <4>1, <4>2, <4>3, <4>4
    <3>3. QED
      BY <1>9, <1>12, <2>1, <3>1, <3>2
  <2>6. QED
    BY <2>4, <2>5
<1>10. Good(place)
  BY <1>6, <1>7, <1>8, <1>9
<1>11. QED
  BY <1>10 DEF place, left, right, rising

Filling == {"pad", "backfill", "nearest"}

FillsFrom(own, target, method, limit) ==
  IF method = "nearest" THEN NearestPlaces(own, target, limit, Rises(own))
  ELSE FillPlaces(own, target, method = "pad", limit, Rises(own))

\* The labels a method may fill from.
Beyond(own, label, method) ==
  IF method = "nearest" THEN DOMAIN own ELSE Side(own, label, method = "pad")

\* What one method fills, before a tolerance.
LEMMA FillPlacesAre ==
  ASSUME NEW own, NEW target \in Seq(Int), NEW pad \in BOOLEAN,
         NEW limit \in {Unlimited} \cup Nat
  PROVE  LET kept == FillPlaces(own, target, pad, limit, Rises(own)) IN
         /\ \A t \in DOMAIN target :
              /\ kept[t] \in {Neighbour(own, target[t], pad, Rises(own)), Nowhere}
              /\ limit = Unlimited => kept[t] = Neighbour(own, target[t], pad, Rises(own))
         /\ \A p : p # Nowhere /\ limit # Unlimited =>
              LET from == FilledBy(own, target, kept, p)
              IN  Cardinality(from) \in Nat /\ IsFiniteSet(from) /\ Cardinality(from) <= limit
<1> DEFINE place == [t \in DOMAIN target |-> Neighbour(own, target[t], pad, Rises(own))]
           kept == Limited(own, target, place, pad, limit)
<1>1. kept = FillPlaces(own, target, pad, limit, Rises(own))
  BY DEF FillPlaces
<1>2. \A t \in DOMAIN target : place[t] = Neighbour(own, target[t], pad, Rises(own))
  OBVIOUS
<1> HIDE DEF place
<1>3. \A t \in DOMAIN target : kept[t] \in {place[t], Nowhere}
                               /\ (limit = Unlimited => kept[t] = place[t])
  BY LimitTakes
<1>4. ASSUME NEW p, p # Nowhere, limit # Unlimited
      PROVE  LET from == FilledBy(own, target, kept, p)
             IN  Cardinality(from) \in Nat /\ IsFiniteSet(from) /\ Cardinality(from) <= limit
  BY <1>4, LimitKeeps
<1> HIDE DEF kept
<1>5. QED
  BY <1>1, <1>2, <1>3, <1>4

\* A label is filled from the nearest there is.
FillsNearest(own, target, method, limit, t) ==
  LET p == FillsFrom(own, target, method, limit)[t]
      near(i) == Distance(own[i], target[t])
      beside == Beyond(own, target[t], method)
  IN  /\ p # Nowhere =>
           /\ p + 1 \in beside
           /\ method # "nearest" \/ limit = Unlimited =>
                \A i \in beside :
                  \/ near(p + 1) < near(i)
                  \/ near(p + 1) = near(i) /\ own[i] <= own[p + 1]
      /\ p = Nowhere => beside = {} \/ limit # Unlimited

\* A label that is not there is.
LEMMA FilledIs ==
  ASSUME NEW own \in Seq(Int), NEW target \in Seq(Int), NEW method \in Filling,
         NEW limit \in {Unlimited} \cup Nat, Rises(own) \/ Falls(own),
         NEW t \in DOMAIN target, target[t] # Gap,
         \A i \in DOMAIN own : own[i] # target[t]
  PROVE  FillsNearest(own, target, method, limit, t)
<1> DEFINE label == target[t]
           near(i) == Distance(own[i], label)
           one(pad) == Neighbour(own, label, pad, Rises(own))
           kept(pad) == FillPlaces(own, target, pad, limit, Rises(own))[t]
           p == FillsFrom(own, target, method, limit)[t]
           beside == Beyond(own, label, method)
<1> SUFFICES /\ p # Nowhere =>
                  /\ p + 1 \in beside
                  /\ method # "nearest" \/ limit = Unlimited =>
                       \A i \in beside :
                         \/ near(p + 1) < near(i)
                         \/ near(p + 1) = near(i) /\ own[i] <= own[p + 1]
             /\ p = Nowhere => beside = {} \/ limit # Unlimited
  BY DEF FillsNearest
<1>1. label \in Int /\ \A i \in DOMAIN own : own[i] \in Int
  OBVIOUS
<1>2. \A pad \in BOOLEAN : /\ kept(pad) \in {one(pad), Nowhere}
                           /\ limit = Unlimited => kept(pad) = one(pad)
  BY FillPlacesAre
<1>3. \A pad \in BOOLEAN :
        /\ one(pad) = Nowhere => Side(own, label, pad) = {}
        /\ one(pad) # Nowhere =>
             /\ one(pad) + 1 \in Side(own, label, pad)
             /\ \A i \in Side(own, label, pad) :
                  near(one(pad) + 1) < near(i) \/ own[i] = own[one(pad) + 1]
  BY <1>1, NeighbourIs
<1>4. \A pad \in BOOLEAN : Side(own, label, pad) \subseteq DOMAIN own
  BY DEF Side
<1>5. CASE method # "nearest"
  <2> DEFINE pad == method = "pad"
             at == Side(own, label, pad)
  <2>1. /\ pad \in BOOLEAN /\ p = kept(pad)
        /\ Beyond(own, label, method) = at
    BY <1>5 DEF FillsFrom, Beyond
  <2> HIDE DEF pad, kept, one, p
  <2>2. ASSUME p # Nowhere
        PROVE  /\ p + 1 \in at
               /\ \A i \in at : \/ near(p + 1) < near(i)
                                \/ near(p + 1) = near(i) /\ own[i] <= own[p + 1]
    <3>1. p = one(pad)
      BY <1>2, <2>1, <2>2
    <3>2. p + 1 \in at /\ \A i \in at : near(p + 1) < near(i) \/ own[i] = own[p + 1]
      BY <1>3, <2>1, <2>2, <3>1
    <3>3. \A i \in at : own[i] = own[p + 1] => near(p + 1) = near(i) /\ own[i] <= own[p + 1]
      BY <1>1, <1>4, <2>1, <3>2
    <3>4. QED
      BY <3>2, <3>3
  <2>3. p = Nowhere => at = {} \/ limit # Unlimited
    BY <1>2, <1>3, <2>1
  <2>4. QED
    BY <2>1, <2>2, <2>3 DEF p
<1>6. CASE method = "nearest"
  <2>1. p = Nearer(own, label, kept(TRUE), kept(FALSE), Rises(own))
    BY <1>6 DEF FillsFrom, NearestPlaces
  <2>2. Beyond(own, label, method) = DOMAIN own
    BY <1>6 DEF Beyond
  <2>3. CASE limit = Unlimited
    <3>1. p = Nearer(own, label, one(TRUE), one(FALSE), Rises(own))
      BY <1>2, <2>1, <2>3
    <3>2. /\ p = Nowhere => DOMAIN own = {}
          /\ p # Nowhere =>
               /\ p + 1 \in DOMAIN own
               /\ \A i \in DOMAIN own :
                    \/ near(p + 1) < near(i)
                    \/ near(p + 1) = near(i) /\ own[i] <= own[p + 1]
      BY <1>1, <3>1, NearerIs
    <3> HIDE DEF p
    <3>3. QED
      BY <2>2, <3>2 DEF p
  <2>4. CASE limit # Unlimited
    <3>1. p \in {kept(TRUE), kept(FALSE)}
      BY <2>1 DEF Nearer
    <3>2. p # Nowhere => p + 1 \in DOMAIN own
      <4> HIDE DEF p, kept, one
      <4>1. ASSUME NEW pad \in BOOLEAN, p = kept(pad), p # Nowhere
            PROVE  p + 1 \in DOMAIN own
        <5>1. p = one(pad)
          BY <1>2, <4>1
        <5>2. one(pad) + 1 \in Side(own, label, pad)
          BY <1>3, <4>1, <5>1
        <5>3. QED
          BY <1>4, <5>1, <5>2
      <4>2. QED
        BY <3>1, <4>1
    <3> HIDE DEF p
    <3>3. QED
      BY <1>6, <2>2, <2>4, <3>2 DEF p
  <2>5. QED
    BY <2>3, <2>4
<1>7. QED
  BY <1>5, <1>6

\* What was asked, and that the answer is the positions it has.
ReindexInv ==
  /\ owner \in Seq(Int)
  /\ asked.of = "reindex" =>
       /\ asked.target \in Seq(Int) /\ asked.method \in Methods
       /\ asked.limit \in {Unlimited} \cup Nat /\ asked.tolerance \in {Unlimited} \cup Nat
       /\ asked.method = "exact" => asked.limit = Unlimited /\ asked.tolerance = Unlimited
       /\ asked.places =
            Positions(owner, asked.target, asked.method, asked.limit, asked.tolerance)
       /\ asked.places # Unanswered

\* An answer is an exact place, or a filled one within the tolerance.
AnswersAs(own, target, method, limit, tolerance) ==
  LET places == Positions(own, target, method, limit, tolerance)
      filled == FillsFrom(own, target, method, limit)
  IN  /\ method = "exact" => \A t \in DOMAIN target : places[t] = Exact(own, target[t])
      /\ method # "exact" =>
           /\ method \in Filling /\ (Rises(own) \/ Falls(own))
           /\ \A t \in DOMAIN target :
                LET exact == Exact(own, target[t])
                IN  places[t] = Tolerated(own, target[t],
                                  IF exact # Nowhere THEN exact ELSE filled[t], tolerance)

LEMMA PositionsAre ==
  ASSUME NEW own, NEW target, NEW method \in Methods, NEW limit, NEW tolerance,
         Positions(own, target, method, limit, tolerance) # Unanswered
  PROVE  AnswersAs(own, target, method, limit, tolerance)
<1> DEFINE rising == Rises(own)
           exact == [t \in DOMAIN target |-> Exact(own, target[t])]
           filled == FillsFrom(own, target, method, limit)
           tolerated == [t \in DOMAIN target |->
                           Tolerated(own, target[t],
                             IF exact[t] # Nowhere THEN exact[t] ELSE filled[t], tolerance)]
           places == Positions(own, target, method, limit, tolerance)
<1>1. places = IF Cardinality({own[i] : i \in DOMAIN own}) # Len(own) THEN Unanswered
               ELSE IF method = "exact" THEN exact
               ELSE IF \/ limit # Unlimited /\ ~(rising /\ Rises(target))
                       \/ ~rising /\ ~Falls(own)
               THEN Unanswered ELSE tolerated
  BY DEF Positions, FillsFrom
<1>2. \A t \in DOMAIN target : exact[t] = Exact(own, target[t])
  OBVIOUS
<1>3. \A t \in DOMAIN target :
        tolerated[t] = Tolerated(own, target[t],
                         IF exact[t] # Nowhere THEN exact[t] ELSE filled[t], tolerance)
  OBVIOUS
<1> HIDE DEF exact, filled, tolerated
<1>4. CASE method = "exact"
  <2>1. places = exact
    BY <1>1, <1>4
  <2>2. QED
    BY <1>2, <1>4, <2>1 DEF AnswersAs
<1>5. CASE method # "exact"
  <2>1. places = tolerated /\ (Rises(own) \/ Falls(own))
    BY <1>1, <1>5
  <2>2. method \in Filling
    BY <1>5 DEF Methods, Filling
  <2>3. \A t \in DOMAIN target :
          places[t] = Tolerated(own, target[t],
                        IF Exact(own, target[t]) # Nowhere THEN Exact(own, target[t])
                        ELSE filled[t], tolerance)
    BY <1>2, <1>3, <2>1
  <2>4. QED
    BY <1>5, <2>1, <2>2, <2>3 DEF filled, AnswersAs
<1>6. QED
  BY <1>4, <1>5

\* A label that is missing is filled from nowhere.
LEMMA GapsStay ==
  ASSUME NEW own, NEW target \in Seq(Int), NEW method \in Filling,
         NEW limit \in {Unlimited} \cup Nat, NEW t \in DOMAIN target, target[t] = Gap
  PROVE  FillsFrom(own, target, method, limit)[t] = Nowhere
<1>1. \A pad \in BOOLEAN : FillPlaces(own, target, pad, limit, Rises(own))[t] = Nowhere
  <2>1. \A pad \in BOOLEAN : Neighbour(own, target[t], pad, Rises(own)) = Nowhere
    BY DEF Neighbour
  <2>2. QED
    BY <2>1, FillPlacesAre
<1>2. CASE method = "nearest"
  BY <1>1, <1>2 DEF FillsFrom, NearestPlaces, Nearer
<1>3. CASE method # "nearest"
  BY <1>1, <1>3 DEF FillsFrom
<1>4. QED
  BY <1>2, <1>3

\* The places on a method's side are those the property names.
LEMMA BesideIs ==
  ASSUME asked.method \in Filling, NEW label
  PROVE  Beside(label) = Beyond(owner, label, asked.method)
<1>1. CASE asked.method = "pad"
  BY <1>1 DEF Beside, Beyond, Side, Reaches, Rises
<1>2. CASE asked.method = "backfill"
  BY <1>2 DEF Beside, Beyond, Side, Reaches, Rises
<1>3. CASE asked.method = "nearest"
  BY <1>3 DEF Beside, Beyond
<1>4. QED
  BY <1>1, <1>2, <1>3 DEF Filling

LEMMA AnswersAreNearest == ReindexInv => ReindexReadsTheNearest
<1> SUFFICES ASSUME ReindexInv, asked.of = "reindex", NEW t \in DOMAIN asked.target
             PROVE  LET label == asked.target[t]
                        place == asked.places[t]
                        near(i) == Distance(owner[i], label)
                    IN  IF label = Gap THEN place # Nowhere => owner[place + 1] = Gap
                        ELSE IF label \in ToSet(owner) THEN owner[place + 1] = label
                        ELSE IF place # Nowhere
                        THEN /\ place + 1 \in Beside(label)
                             /\ asked.method # "nearest" \/ asked.limit = Unlimited =>
                                  \A i \in Beside(label) :
                                    \/ near(place + 1) < near(i)
                                    \/ near(place + 1) = near(i) /\ owner[i] <= owner[place + 1]
                             /\ asked.tolerance # Unlimited => near(place + 1) <= asked.tolerance
                             /\ asked.limit # Unlimited /\ asked.method # "nearest" =>
                                  Cardinality({u \in DOMAIN asked.target :
                                                 FilledFrom(u) /\ asked.places[u] = place})
                                    <= asked.limit
                        ELSE \/ Beside(label) = {} \/ asked.limit # Unlimited
                             \/ asked.tolerance # Unlimited /\ \A i \in Beside(label) :
                                  \/ near(i) > asked.tolerance
                                  \/ \E j \in Beside(label) :
                                       near(j) <= near(i) /\ near(j) > asked.tolerance
  BY DEF ReindexReadsTheNearest
<1> DEFINE label == asked.target[t]
           place == asked.places[t]
           near(i) == Distance(owner[i], label)
           method == asked.method
           limit == asked.limit
           tolerance == asked.tolerance
           exact == Exact(owner, label)
           filled == FillsFrom(owner, asked.target, method, limit)
           p == filled[t]
<1>1. /\ owner \in Seq(Int) /\ asked.target \in Seq(Int) /\ method \in Methods
      /\ limit \in {Unlimited} \cup Nat /\ tolerance \in {Unlimited} \cup Nat
      /\ label \in Int /\ DOMAIN owner = 1 .. Len(owner) /\ Len(owner) \in Nat
      /\ \A i \in DOMAIN owner : owner[i] \in Int
  BY DEF ReindexInv
<1>2. /\ exact = Nowhere => \A i \in DOMAIN owner : owner[i] # label
      /\ exact # Nowhere => exact + 1 \in DOMAIN owner /\ owner[exact + 1] = label
  BY <1>1, ExactIs
<1>3. label \in ToSet(owner) <=> exact # Nowhere
  <2>1. label \in ToSet(owner) <=> \E i \in DOMAIN owner : owner[i] = label
    BY DEF ToSet
  <2>2. QED
    BY <1>2, <2>1
<1>13. /\ method = "exact" =>
            \A u \in DOMAIN asked.target : asked.places[u] = Exact(owner, asked.target[u])
       /\ method # "exact" =>
            /\ method \in Filling /\ (Rises(owner) \/ Falls(owner))
            /\ \A u \in DOMAIN asked.target :
                 asked.places[u] =
                   Tolerated(owner, asked.target[u],
                             IF Exact(owner, asked.target[u]) # Nowhere
                             THEN Exact(owner, asked.target[u]) ELSE filled[u], tolerance)
  <2>1. asked.places = Positions(owner, asked.target, method, limit, tolerance)
        /\ Positions(owner, asked.target, method, limit, tolerance) # Unanswered
    BY DEF ReindexInv
  <2> HIDE DEF method, limit, tolerance
  <2>2. method \in Methods
    BY <1>1
  <2>3. AnswersAs(owner, asked.target, method, limit, tolerance)
    BY <2>1, <2>2, PositionsAre
  <2>4. QED
    BY <2>1, <2>3 DEF AnswersAs
<1>4. /\ method = "exact" => place = exact
      /\ method # "exact" =>
           /\ method \in Filling /\ (Rises(owner) \/ Falls(owner))
           /\ place = Tolerated(owner, label, IF exact # Nowhere THEN exact ELSE p, tolerance)
  BY <1>13
<1> HIDE DEF place, exact, p
<1>5. ASSUME exact # Nowhere PROVE place = exact
  <2>1. CASE method = "exact"
    BY <1>4, <2>1
  <2>2. CASE method # "exact"
    <3>1. Distance(owner[exact + 1], label) = 0
      BY <1>1, <1>2, <1>5 DEF Distance
    <3>2. ~ (tolerance # Unlimited /\ Distance(owner[exact + 1], label) > tolerance)
      BY <1>1, <3>1
    <3>3. QED
      BY <1>4, <1>5, <2>2, <3>2 DEF Tolerated
  <2>3. QED
    BY <2>1, <2>2
<1>6. ASSUME exact = Nowhere, method # "exact", place # Nowhere
      PROVE  place = p /\ (tolerance # Unlimited => ~ (near(place + 1) > tolerance))
  BY <1>4, <1>6 DEF Tolerated
<1>7. ASSUME exact = Nowhere, method # "exact", place = Nowhere
      PROVE  p # Nowhere => tolerance # Unlimited /\ near(p + 1) > tolerance
  BY <1>4, <1>7 DEF Tolerated
<1>8. CASE label = Gap
  <2>1. ASSUME place # Nowhere PROVE owner[place + 1] = Gap
    <3>1. CASE exact # Nowhere
      BY <1>2, <1>5, <1>8, <3>1
    <3>2. CASE exact = Nowhere
      <4>1. method # "exact"
        BY <1>4, <2>1, <3>2
      <4>2. p = Nowhere
        BY <1>1, <1>4, <1>8, <4>1, GapsStay DEF p
      <4>3. QED
        BY <1>6, <2>1, <3>2, <4>1, <4>2
    <3>3. QED
      BY <3>1, <3>2
  <2>2. QED
    BY <1>8, <2>1 DEF place
<1>9. CASE label # Gap /\ exact # Nowhere
  <2>1. owner[place + 1] = label
    BY <1>2, <1>5, <1>9
  <2>2. QED
    BY <1>3, <1>9, <2>1 DEF place
<1>10. CASE label # Gap /\ exact = Nowhere /\ method = "exact"
  <2>1. place = Nowhere
    BY <1>4, <1>10
  <2>2. Beside(label) = {}
    BY <1>2, <1>10 DEF Beside
  <2>3. QED
    BY <1>3, <1>10, <2>1, <2>2 DEF place
<1>11. CASE label # Gap /\ exact = Nowhere /\ method # "exact"
  <2> DEFINE beside == Beside(label)
  <2>1. beside = Beyond(owner, label, method)
    BY <1>4, <1>11, BesideIs
  <2>2. /\ p # Nowhere =>
             /\ p + 1 \in beside
             /\ method # "nearest" \/ limit = Unlimited =>
                  \A i \in beside : \/ near(p + 1) < near(i)
                                    \/ near(p + 1) = near(i) /\ owner[i] <= owner[p + 1]
        /\ p = Nowhere => beside = {} \/ limit # Unlimited
    <3>1. /\ \A i \in DOMAIN owner : owner[i] # asked.target[t]
          /\ method \in Filling /\ asked.target[t] # Gap
          /\ Rises(owner) \/ Falls(owner)
      BY <1>2, <1>4, <1>11
    <3>2. FillsNearest(owner, asked.target, method, limit, t)
      <4> HIDE DEF method, limit
      <4>1. QED
        BY <1>1, <3>1, FilledIs
    <3>3. QED
      BY <2>1, <3>2 DEF FillsNearest, p
  <2>3. beside \subseteq DOMAIN owner
    BY DEF Beside
  <2> HIDE DEF beside
  <2>4. CASE place # Nowhere
    <3>1. place = p /\ (tolerance # Unlimited => near(place + 1) <= tolerance)
      <4>1. place = p /\ (tolerance # Unlimited => ~ (near(place + 1) > tolerance))
        BY <1>6, <1>11, <2>4
      <4>2. near(place + 1) \in Int
        BY <1>1, <2>2, <2>3, <2>4, <4>1 DEF Distance
      <4>3. QED
        BY <1>1, <4>1, <4>2
    <3>2. ASSUME limit # Unlimited, method # "nearest"
          PROVE  Cardinality({u \in DOMAIN asked.target :
                                FilledFrom(u) /\ asked.places[u] = place}) <= limit
      <4> DEFINE some == {u \in DOMAIN asked.target : FilledFrom(u) /\ asked.places[u] = place}
                 all == FilledBy(owner, asked.target, filled, place)
      <4>1. ASSUME NEW u \in some PROVE u \in all
        <5> DEFINE own_u == Exact(owner, asked.target[u])
        <5>1. /\ u \in DOMAIN asked.target /\ asked.places[u] = place
              /\ owner[place + 1] # asked.target[u]
          BY DEF FilledFrom
        <5>2. asked.places[u] = Tolerated(owner, asked.target[u],
                                  IF own_u # Nowhere THEN own_u ELSE filled[u], tolerance)
          BY <1>11, <1>13, <5>1
        <5>3. own_u # Nowhere => owner[own_u + 1] = asked.target[u]
          BY <1>1, <5>1, ExactIs
        <5> HIDE DEF own_u, filled
        <5>4. filled[u] = place
          BY <2>4, <5>1, <5>2, <5>3 DEF Tolerated
        <5>5. QED
          BY <5>1, <5>4 DEF FilledBy
      <4>2. Cardinality(all) \in Nat /\ IsFiniteSet(all) /\ Cardinality(all) <= limit
        <5>1. filled = FillPlaces(owner, asked.target, method = "pad", limit, Rises(owner))
          BY <3>2 DEF FillsFrom
        <5> HIDE DEF filled
        <5>2. QED
          BY <1>1, <2>4, <3>2, <5>1, FillPlacesAre
      <4> HIDE DEF some, all
      <4>3. Cardinality(some) \in Nat /\ Cardinality(some) <= Cardinality(all)
        BY <4>1, <4>2, FS_Subset, FS_CardinalityType
      <4>4. QED
        BY <1>1, <3>2, <4>2, <4>3 DEF some
    <3>3. QED
      BY <1>3, <1>11, <2>2, <2>4, <3>1, <3>2 DEF beside, place
  <2>5. CASE place = Nowhere
    <3>1. CASE p = Nowhere
      BY <1>3, <1>11, <2>2, <2>5, <3>1 DEF beside, place
    <3>2. CASE p # Nowhere
      <4>1. tolerance # Unlimited /\ near(p + 1) > tolerance
        BY <1>7, <1>11, <2>5, <3>2
      <4>2. CASE limit # Unlimited
        BY <1>3, <1>11, <2>5, <4>2 DEF beside, place
      <4>3. CASE limit = Unlimited
        <5>1. \A i \in beside : near(p + 1) <= near(i) /\ p + 1 \in beside
          <6>1. \A i \in beside : near(i) \in Int
            BY <1>1, <2>3 DEF Distance
          <6> HIDE DEF near
          <6>2. QED
            BY <2>2, <3>2, <4>3, <6>1
        <5>2. QED
          BY <1>3, <1>11, <2>5, <4>1, <5>1 DEF beside, place
      <4>4. QED
        BY <4>2, <4>3
    <3>3. QED
      BY <3>1, <3>2
  <2>6. QED
    BY <2>4, <2>5
<1>12. QED
  BY <1>8, <1>9, <1>10, <1>11

LEMMA ReindexInvHoldsAtFirst == LookupInit \/ LookupRests => ReindexInv
<1> USE LabelsAssumption
<1>1. LookupInit => ReindexInv
  BY DEF LookupInit, NotAsked, ReindexInv
<1>2. LookupRests => ReindexInv
  <2>1. <<>> \in Seq(Int)
    OBVIOUS
  <2>2. QED
    BY <2>1 DEF LookupRests, NotAsked, ReindexInv
<1>3. QED
  BY <1>1, <1>2

LEMMA ReindexInvIsKept == ReindexInv /\ [LookupNext]_lookupVars => ReindexInv'
<1> SUFFICES ASSUME ReindexInv, [LookupNext]_lookupVars PROVE ReindexInv'
  OBVIOUS
<1>1. CASE Sliced
  BY <1>1 DEF Sliced, ReindexInv
<1>2. CASE GetIndexerNonUnique
  BY <1>2 DEF GetIndexerNonUnique, ReindexInv
<1>3. CASE Asof
  BY <1>3 DEF Asof, ReindexInv
<1>4. CASE AsofMasked
  BY <1>4 DEF AsofMasked, ReindexInv
<1>5. CASE Reindexed
  <2>1. PICK target \in UNION {[1 .. k -> Targets \cup {Gap}] : k \in 1 .. 3},
             method \in Methods, limit \in {Unlimited, 1}, tolerance \in {Unlimited, 0, 1} :
          /\ method = "exact" => limit = Unlimited /\ tolerance = Unlimited
          /\ Positions(owner, target, method, limit, tolerance) # Unanswered
          /\ asked' = [of |-> "reindex", target |-> target, method |-> method, limit |-> limit,
                       tolerance |-> tolerance,
                       places |-> Positions(owner, target, method, limit, tolerance)]
          /\ UNCHANGED owner
    BY <1>5 DEF Reindexed
  <2>2. target \in Seq(Int)
    <3>1. PICK k \in 1 .. 3 : target \in [1 .. k -> Targets \cup {Gap}]
      BY <2>1
    <3>2. Targets \cup {Gap} \subseteq Int
      BY LabelsAssumption DEF Gap
    <3>3. k \in Nat /\ target \in [1 .. k -> Int]
      BY <3>1, <3>2
    <3>4. QED
      BY <3>3
  <2>3. limit \in {Unlimited} \cup Nat /\ tolerance \in {Unlimited} \cup Nat
    BY <2>1
  <2>4. QED
    BY <2>1, <2>2, <2>3 DEF ReindexInv
<1>6. CASE UNCHANGED lookupVars
  BY <1>6 DEF lookupVars, ReindexInv
<1>7. QED
  BY <1>1, <1>2, <1>3, <1>4, <1>5, <1>6 DEF LookupNext

(***************************************************************************)
(* What reindex and get_indexer say of pad, backfill and nearest, with a   *)
(* limit and a tolerance: for any index and any labels asked for, a label  *)
(* that is there reads from its own row and another from the nearest row   *)
(* its method has, no more often than the limit and no farther than the    *)
(* tolerance.                                                              *)
(***************************************************************************)
THEOREM ReindexesReadTheNearest == FacadeSpec => []ReindexReadsTheNearest
<1>1. FacadeInit => ReindexInv
  BY ReindexInvHoldsAtFirst DEF FacadeInit
<1>2. [FacadeNext]_<<part, vars, option_vars, mean_vars, store_vars, label_vars>> =>
      [LookupNext]_lookupVars
  BY DEF FacadeNext, StateNext, LabelNext, label_vars
<1>3. QED
  BY <1>1, <1>2, ReindexInvIsKept, AnswersAreNearest, PTL DEF FacadeSpec
-----------------------------------------------------------------------------
(***************************************************************************)
(* The store.  Two tables have the same rows as long as each call gives    *)
(* rows to both or to neither, and no call on another key reaches them:    *)
(* neither the groups above and below that key nor the categories it       *)
(* keeps.  What is read is what was written as the codes of a table stay   *)
(* below the number of its categories.                                     *)
(***************************************************************************)
\* The names on the paths of the keys and of their metadata.
PathNames == {"meta", "c"} \cup UNION {{k[i] : i \in DOMAIN k} : k \in StoreKeys}

\* One path begins with another place by place.
LEMMA PrefixIs ==
  ASSUME NEW s \in Seq(PathNames), NEW t \in Seq(PathNames), Store!IsPrefix(s, t)
  PROVE  Len(s) <= Len(t) /\ \A i \in 1 .. Len(s) : s[i] = t[i]
<1>1. Len(s) <= Len(t) /\ SubSeq(s, 1, Len(s)) = SubSeq(t, 1, Len(s))
  BY DEF Store!IsPrefix
<1>2. SUFFICES ASSUME NEW i \in 1 .. Len(s) PROVE s[i] = t[i]
  BY <1>1
<1>3. SubSeq(s, 1, Len(s))[i] = s[i]
  OBVIOUS
<1>4. SubSeq(t, 1, Len(s))[i] = t[i]
  BY <1>1
<1>5. QED
  BY <1>1, <1>3, <1>4

LEMMA ConcatIs ==
  ASSUME NEW S, NEW s \in Seq(S), NEW t \in Seq(S)
  PROVE  /\ s \o t \in Seq(S) /\ Len(s \o t) = Len(s) + Len(t)
         /\ \A i \in 1 .. Len(s) : (s \o t)[i] = s[i]
         /\ \A i \in 1 .. Len(t) : (s \o t)[Len(s) + i] = t[i]
OBVIOUS

LEMMA MetadataPathIs ==
  ASSUME NEW k \in StoreKeys
  PROVE  /\ k \in Seq(PathNames) /\ Store!MetadataPath(k) \in Seq(PathNames)
         /\ Len(Store!MetadataPath(k)) = Len(k) + 3
         /\ \A i \in 1 .. Len(k) : k[i] # "meta" /\ Store!MetadataPath(k)[i] = k[i]
         /\ Store!MetadataPath(k)[Len(k) + 1] = "meta"
         /\ Store!MetadataPath(k)[Len(k) + 2] = "c"
<1>1. k \in Seq(PathNames) /\ \A i \in DOMAIN k : k[i] # "meta"
  <2>1. /\ Len(k) \in Nat /\ k = [i \in 1 .. Len(k) |-> k[i]]
        /\ \A i \in DOMAIN k : k[i] # "meta"
    BY StoreAssumption DEF IsSequence
  <2>2. \A i \in 1 .. Len(k) : k[i] \in PathNames
    BY <2>1 DEF PathNames
  <2>3. QED
    BY <2>1, <2>2
<1> DEFINE m == <<"meta", "c", "meta">>
<1>2. m \in Seq(PathNames) /\ Len(m) = 3 /\ m[1] = "meta" /\ m[2] = "c"
  <2>1. m \in Seq(PathNames)
    <3>1. "meta" \in PathNames /\ "c" \in PathNames
      BY DEF PathNames
    <3>2. QED
      BY <3>1
  <2>2. Len(m) = 3
    OBVIOUS
  <2>3. m[1] = "meta" /\ m[2] = "c"
    OBVIOUS
  <2>4. QED
    BY <2>1, <2>2, <2>3
<1> HIDE DEF m
<1>3. /\ k \o m \in Seq(PathNames) /\ Len(k \o m) = Len(k) + 3
      /\ \A i \in 1 .. Len(k) : (k \o m)[i] = k[i]
      /\ (k \o m)[Len(k) + 1] = m[1] /\ (k \o m)[Len(k) + 2] = m[2]
  <2>1. /\ k \o m \in Seq(PathNames) /\ Len(k \o m) = Len(k) + Len(m)
        /\ \A i \in 1 .. Len(k) : (k \o m)[i] = k[i]
        /\ \A i \in 1 .. Len(m) : (k \o m)[Len(k) + i] = m[i]
    BY <1>1, <1>2, ConcatIs
  <2>2. QED
    BY <1>2, <2>1
<1>4. k \o m = Store!MetadataPath(k)
  BY DEF Store!MetadataPath, m
<1>5. QED
  BY <1>1, <1>2, <1>3, <1>4

\* No key lies inside the metadata of a key, and metadata of two keys lie apart.
LEMMA KeysApart ==
  ASSUME NEW j \in StoreKeys, NEW k \in StoreKeys
  PROVE  /\ Store!IsPrefix(k, Store!MetadataPath(j)) => Store!IsPrefix(k, j)
         /\ ~ Store!IsPrefix(Store!MetadataPath(k), j)
         /\ Store!IsPrefix(Store!MetadataPath(k), Store!MetadataPath(j)) => j = k
         /\ Store!MetadataPath(k) # j
<1> DEFINE mj == Store!MetadataPath(j)
           mk == Store!MetadataPath(k)
<1>1. /\ j \in Seq(PathNames) /\ mj \in Seq(PathNames) /\ Len(mj) = Len(j) + 3
      /\ \A i \in 1 .. Len(j) : j[i] # "meta" /\ mj[i] = j[i]
      /\ mj[Len(j) + 1] = "meta" /\ mj[Len(j) + 2] = "c"
  BY MetadataPathIs
<1>2. /\ k \in Seq(PathNames) /\ mk \in Seq(PathNames) /\ Len(mk) = Len(k) + 3
      /\ \A i \in 1 .. Len(k) : k[i] # "meta" /\ mk[i] = k[i]
      /\ mk[Len(k) + 1] = "meta" /\ mk[Len(k) + 2] = "c"
  BY MetadataPathIs
<1> HIDE DEF mj, mk
<1>3. Store!IsPrefix(k, mj) => Store!IsPrefix(k, j)
  <2>1. SUFFICES ASSUME Store!IsPrefix(k, mj) PROVE Store!IsPrefix(k, j)
    OBVIOUS
  <2>2. Len(k) <= Len(mj) /\ \A i \in 1 .. Len(k) : k[i] = mj[i]
    BY <1>1, <1>2, <2>1, PrefixIs
  <2>3. Len(k) <= Len(j)
    <3>1. SUFFICES ASSUME Len(j) < Len(k) PROVE FALSE
      BY <1>1, <1>2
    <3>2. Len(j) + 1 \in 1 .. Len(k)
      BY <1>1, <1>2, <3>1
    <3>3. QED
      BY <1>1, <1>2, <2>2, <3>2
  <2>4. SubSeq(k, 1, Len(k)) = SubSeq(j, 1, Len(k))
    <3>1. \A i \in 1 .. Len(k) : k[i] = j[i]
      BY <1>1, <1>2, <2>2, <2>3
    <3>2. QED
      BY <1>1, <1>2, <2>3, <3>1
  <2>5. QED
    BY <2>3, <2>4 DEF Store!IsPrefix
<1>4. ~ Store!IsPrefix(mk, j)
  <2>1. SUFFICES ASSUME Store!IsPrefix(mk, j) PROVE FALSE
    OBVIOUS
  <2>2. Len(mk) <= Len(j) /\ \A i \in 1 .. Len(mk) : mk[i] = j[i]
    BY <1>1, <1>2, <2>1, PrefixIs
  <2>3. Len(k) + 1 \in 1 .. Len(mk) /\ Len(k) + 1 \in 1 .. Len(j)
    BY <1>1, <1>2, <2>2
  <2>4. QED
    BY <1>1, <1>2, <2>2, <2>3
<1>5. Store!IsPrefix(mk, mj) => j = k
  <2>1. SUFFICES ASSUME Store!IsPrefix(mk, mj) PROVE j = k
    OBVIOUS
  <2>2. Len(mk) <= Len(mj) /\ \A i \in 1 .. Len(mk) : mk[i] = mj[i]
    BY <1>1, <1>2, <2>1, PrefixIs
  <2>3. Len(k) <= Len(j) /\ Len(k) + 1 \in 1 .. Len(mk) /\ Len(k) \in Nat /\ Len(j) \in Nat
    BY <1>1, <1>2, <2>2
  <2>4. mj[Len(k) + 1] = "meta"
    BY <1>2, <2>2, <2>3
  <2>5. Len(k) = Len(j)
    <3>1. SUFFICES ASSUME Len(k) < Len(j) PROVE FALSE
      BY <2>3
    <3>2. Len(k) + 1 \in 1 .. Len(j)
      BY <2>3, <3>1
    <3>3. QED
      BY <1>1, <2>4, <3>2
  <2>6. \A i \in 1 .. Len(k) : k[i] = j[i]
    BY <1>1, <1>2, <2>2, <2>5
  <2>7. QED
    BY <1>1, <1>2, <2>5, <2>6
<1>6. mk # j
  <2>1. Len(k) + 1 \in 1 .. Len(mk)
    BY <1>2
  <2>2. QED
    BY <1>1, <1>2, <2>1
<1>7. QED
  BY <1>3, <1>4, <1>5, <1>6 DEF mj, mk

LEMMA SameCount ==
  ASSUME NEW S
  PROVE  Store!Cardinality(S) = Cardinality(S)
BY DEF Store!Cardinality, Cardinality

\* The n-th of some places is one of them.
LEMMA NthIsIn ==
  ASSUME NEW n \in Nat, NEW S \in SUBSET (1 .. n)
  PROVE  /\ Cardinality(S) \in Nat
         /\ \A k \in 1 .. Cardinality(S) : Store!Nth(S, k) \in S
<1> DEFINE Upto(i) == {j \in S : j <= i}
           K == {k \in Nat : \/ k = 0 \/ k > Cardinality(S)
                             \/ \E i \in S : Cardinality(Upto(i)) = k}
<1>1. IsFiniteSet(S) /\ Cardinality(S) \in Nat
  <2>1. IsFiniteSet(1 .. n)
    BY FS_Interval
  <2>2. S \subseteq 1 .. n
    OBVIOUS
  <2>3. IsFiniteSet(S)
    BY ONLY <2>1, <2>2, FS_Subset
  <2>4. QED
    BY <2>3, FS_CardinalityType
<1>2. \A k \in Nat : k \in K => k + 1 \in K
  <2>1. SUFFICES ASSUME NEW k \in Nat, k \in K, ~ (k + 1 > Cardinality(S))
                 PROVE  \E i \in S : Cardinality(Upto(i)) = k + 1
    <3>1. ASSUME NEW k \in Nat,
                 k + 1 > Cardinality(S) \/ \E i \in S : Cardinality(Upto(i)) = k + 1
          PROVE  k + 1 \in K
      BY <3>1
    <3> HIDE DEF K
    <3>2. QED
      BY <3>1
  <2>2. PICK B \in SUBSET S : /\ Cardinality(B) = k
                              /\ \A x \in B, y \in S \ B : x < y
    <3>1. CASE k = 0
      BY <3>1, FS_EmptySet
    <3>2. CASE k # 0
      <4>1. PICK i \in S : Cardinality(Upto(i)) = k
        BY <1>1, <2>1, <3>2
      <4>2. \A x \in Upto(i), y \in S \ Upto(i) : x < y
        OBVIOUS
      <4>3. QED
        BY <4>1, <4>2
    <3>3. QED
      BY <3>1, <3>2
  <2>3. S \ B # {}
    <3>1. SUFFICES ASSUME S = B PROVE FALSE
      OBVIOUS
    <3>2. QED
      BY <1>1, <2>1, <2>2, <3>1
  <2>4. PICK m \in S \ B : \A x \in S \ B : m <= x
    BY <2>3, Ends
  <2>5. Upto(m) = B \cup {m}
    <3>1. ASSUME NEW x \in Upto(m) PROVE x \in B \cup {m}
      BY <2>4
    <3>2. ASSUME NEW x \in B \cup {m} PROVE x \in Upto(m)
      BY <2>2
    <3>3. QED
      BY <3>1, <3>2
  <2>6. IsFiniteSet(B)
    BY <1>1, FS_Subset
  <2>7. Cardinality(B \cup {m}) = k + 1
    BY <2>2, <2>4, <2>6, FS_AddElement
  <2>8. QED
    BY <2>4, <2>5, <2>7
<1>3. \A k \in Nat : k \in K
  <2>1. 0 \in K
    OBVIOUS
  <2> HIDE DEF K
  <2>2. QED
    BY <1>2, <2>1, AllNaturals
<1>4. ASSUME NEW k \in 1 .. Cardinality(S)
      PROVE  Store!Nth(S, k) \in S
  <2>1. \E i \in S : Cardinality({j \in S : j <= i}) = k
    BY <1>1, <1>3
  <2>2. QED
    BY <2>1, SameCount DEF Store!Nth
<1>5. QED
  BY <1>1, <1>4

-----------------------------------------------------------------------------
\* The nodes of a file, and what a key reads as being the same in another one.
IsFile(f) ==
  /\ f = [p \in DOMAIN f |-> f[p]]
  /\ \A p \in DOMAIN f : f[p] = [type |-> f[p].type, leaf |-> f[p].leaf, made |-> f[p].made]

SameAt(f, g, j) ==
  /\ j \in DOMAIN f => j \in DOMAIN g /\ g[j].leaf = f[j].leaf /\ g[j].type = f[j].type
  /\ j \in DOMAIN g \ DOMAIN f => g[j].leaf = <<>>
  /\ Store!read_metadata(g, j) = Store!read_metadata(f, j)

\* A file with the groups down to p, and one with another node at q.
MadeDownTo(f, g, p) ==
  /\ IsFile(g)
  /\ \A q \in DOMAIN f : q \in DOMAIN g /\ g[q] = f[q]
  /\ \A q \in DOMAIN g \ DOMAIN f :
       /\ g[q].leaf = <<>> /\ g[q].type = "none"
       /\ Store!IsPrefix(q, p)
  /\ p \in DOMAIN g

OtherAt(f, g, q) ==
  /\ IsFile(g) /\ DOMAIN g = DOMAIN f
  /\ \A r \in DOMAIN f : r # q => g[r] = f[r]

LEMMA SameTwice ==
  ASSUME NEW f, NEW g, NEW h, NEW j, SameAt(f, g, j), SameAt(g, h, j)
  PROVE  SameAt(f, h, j)
BY DEF SameAt

LEMMA BeginsWith ==
  ASSUME NEW p \in Seq(PathNames), NEW i \in 1 .. Len(p)
  PROVE  /\ Store!IsPrefix(SubSeq(p, 1, i), p)
         /\ i = Len(p) => SubSeq(p, 1, i) = p
<1> DEFINE q == SubSeq(p, 1, i)
<1>1. q \in Seq(PathNames) /\ Len(q) = i /\ \A k \in 1 .. i : q[k] = p[k]
  OBVIOUS
<1>2. i = Len(p) => q = p
  BY <1>1
<1>3. SubSeq(q, 1, i) = q
  BY <1>1
<1>4. Store!IsPrefix(q, p)
  BY <1>1, <1>3 DEF Store!IsPrefix
<1>5. QED
  BY <1>2, <1>4

LEMMA CreatesNodes ==
  ASSUME NEW f, NEW p \in Seq(PathNames), p # <<>>, IsFile(f)
  PROVE  MadeDownTo(f, Store!create_nodes(f, p), p)
<1> DEFINE new == {SubSeq(p, 1, i) : i \in 1 .. Len(p)} \ DOMAIN f
           g == Store!create_nodes(f, p)
<1>1. g = [q \in new \cup DOMAIN f |->
             IF q \in new THEN [type |-> "none", leaf |-> <<>>, made |-> writes] ELSE f[q]]
  BY DEF Store!create_nodes, Store!None
<1>2. \A q \in new : Store!IsPrefix(q, p)
  BY BeginsWith
<1>3. p \in {SubSeq(p, 1, i) : i \in 1 .. Len(p)}
  <2>1. Len(p) \in 1 .. Len(p)
    OBVIOUS
  <2>2. QED
    BY <2>1, BeginsWith
<1>4. new \cap DOMAIN f = {} /\ p \in new \cup DOMAIN f
  BY <1>3
<1> HIDE DEF new, g
<1>5. DOMAIN g = new \cup DOMAIN f
  BY <1>1
<1>6. \A q \in DOMAIN f : q \in DOMAIN g /\ g[q] = f[q]
  BY <1>1, <1>4
<1>7. \A q \in new : g[q] = [type |-> "none", leaf |-> <<>>, made |-> writes]
  BY <1>1
<1>8. IsFile(g)
  <2>1. g = [q \in DOMAIN g |-> g[q]]
    BY <1>1
  <2>2. QED
    BY <1>5, <1>6, <1>7, <2>1 DEF IsFile
<1>9. QED
  BY <1>2, <1>4, <1>5, <1>6, <1>7, <1>8 DEF MadeDownTo, g

LEMMA MadeIsSame ==
  ASSUME NEW f, NEW g, NEW p, NEW j \in StoreKeys, MadeDownTo(f, g, p),
         ~ Store!IsPrefix(Store!MetadataPath(j), p)
  PROVE  SameAt(f, g, j)
BY DEF MadeDownTo, SameAt, Store!read_metadata

LEMMA RemovedIsSame ==
  ASSUME NEW f, NEW p, NEW j \in StoreKeys, IsFile(f),
         ~ Store!IsPrefix(p, j), ~ Store!IsPrefix(p, Store!MetadataPath(j))
  PROVE  IsFile(Store!remove_node(f, p)) /\ SameAt(f, Store!remove_node(f, p), j)
BY DEF Store!remove_node, IsFile, SameAt, Store!read_metadata

LEMMA OtherIsSame ==
  ASSUME NEW f, NEW g, NEW q, NEW j, OtherAt(f, g, q),
         q # j, q # Store!MetadataPath(j)
  PROVE  SameAt(f, g, j)
BY DEF OtherAt, SameAt, Store!read_metadata

LEMMA SetsLeaf ==
  ASSUME NEW f, NEW q, NEW l, IsFile(f)
  PROVE  /\ OtherAt(f, [f EXCEPT ![q].leaf = l], q)
         /\ q \in DOMAIN f => /\ [f EXCEPT ![q].leaf = l][q].leaf = l
                              /\ [f EXCEPT ![q].leaf = l][q].type = f[q].type
BY DEF OtherAt, IsFile

LEMMA SetsLeafElsewhere ==
  ASSUME NEW f, NEW q, NEW l, NEW j, IsFile(f), q # j, q # Store!MetadataPath(j)
  PROVE  IsFile([f EXCEPT ![q].leaf = l]) /\ SameAt(f, [f EXCEPT ![q].leaf = l], j)
<1> DEFINE g == [f EXCEPT ![q].leaf = l]
<1>1. OtherAt(f, g, q)
  BY SetsLeaf
<1> HIDE DEF g
<1>2. IsFile(g) /\ SameAt(f, g, j)
  BY <1>1, OtherIsSame DEF OtherAt
<1>3. QED
  BY <1>2 DEF g

LEMMA SetsType ==
  ASSUME NEW f, NEW q, NEW t, IsFile(f)
  PROVE  /\ OtherAt(f, [f EXCEPT ![q].type = t], q)
         /\ q \in DOMAIN f => /\ [f EXCEPT ![q].type = t][q].type = t
                              /\ [f EXCEPT ![q].type = t][q].leaf = f[q].leaf
BY DEF OtherAt, IsFile

-----------------------------------------------------------------------------
\* The categories go under the path of their own and nowhere else.
MetadataWritten(f, g, p, frame) ==
  /\ IsFile(g)
  /\ \A j \in StoreKeys \ {p} : SameAt(f, g, j)
  /\ p \in DOMAIN f => p \in DOMAIN g /\ g[p] = f[p]
  /\ Store!read_metadata(g, p) =
       IF frame.c # "cat" \/ frame.cats = <<>> THEN Store!read_metadata(f, p)
       ELSE <<[rows |-> frame.cats]>>

LEMMA WritesMetadata ==
  ASSUME NEW f, NEW p \in StoreKeys, NEW frame, IsFile(f)
  PROVE  MetadataWritten(f, Store!write_metadata(f, p, frame), p, frame)
<1> DEFINE q == Store!MetadataPath(p)
           removed == Store!remove_node(f, q)
           made == Store!create_nodes(removed, q)
           typed == [made EXCEPT ![q].type = "series_table"]
           full == [typed EXCEPT ![q].leaf = <<[rows |-> frame.cats]>>]
           g == Store!write_metadata(f, p, frame)
<1>1. CASE frame.c # "cat" \/ frame.cats = <<>>
  <2>1. g = f
    BY <1>1 DEF Store!write_metadata
  <2>2. QED
    BY <1>1, <2>1 DEF SameAt, MetadataWritten
<1>2. CASE frame.c = "cat" /\ frame.cats # <<>>
  <2>1. g = full
    BY <1>2 DEF Store!write_metadata
  <2>2. q \in Seq(PathNames) /\ q # <<>>
    <3>1. q \in Seq(PathNames) /\ Len(q) = Len(p) + 3 /\ p \in Seq(PathNames)
      BY MetadataPathIs
    <3> HIDE DEF q
    <3>2. QED
      BY <3>1
  <2>3. \A j \in StoreKeys : ~ Store!IsPrefix(q, j) /\ q # j
    BY KeysApart
  <2>4. \A j \in StoreKeys \ {p} :
          /\ ~ Store!IsPrefix(q, Store!MetadataPath(j))
          /\ ~ Store!IsPrefix(Store!MetadataPath(j), q)
          /\ q # Store!MetadataPath(j)
    <3>1. Store!IsPrefix(q, q)
      BY <2>2 DEF Store!IsPrefix
    <3>2. QED
      BY <3>1, KeysApart
  <2>5. ~ Store!IsPrefix(Store!MetadataPath(p), p)
    BY KeysApart
  <2> HIDE DEF q
  <2>6. IsFile(removed) /\ \A j \in StoreKeys \ {p} : SameAt(f, removed, j)
    <3>1. IsFile(removed)
      BY DEF Store!remove_node, IsFile
    <3>2. QED
      BY <2>3, <2>4, <3>1, RemovedIsSame
  <2>7. p \in DOMAIN f => p \in DOMAIN removed /\ removed[p] = f[p]
    BY <2>3 DEF Store!remove_node
  <2> HIDE DEF removed
  <2>8. MadeDownTo(removed, made, q)
    BY <2>2, <2>6, CreatesNodes
  <2>9. \A j \in StoreKeys \ {p} : SameAt(removed, made, j)
    BY <2>4, <2>8, MadeIsSame
  <2> HIDE DEF made
  <2>10. IsFile(made)
    BY <2>8 DEF MadeDownTo
  <2>11. OtherAt(made, typed, q)
    BY <2>10, SetsType
  <2>12. IsFile(typed)
    BY <2>11 DEF OtherAt
  <2> HIDE DEF typed
  <2>13. OtherAt(typed, full, q)
    BY <2>12, SetsLeaf
  <2>14. q \in DOMAIN typed
    BY <2>8, <2>11 DEF MadeDownTo, OtherAt
  <2>15. full[q].leaf = <<[rows |-> frame.cats]>> /\ q \in DOMAIN full
    BY <2>12, <2>13, <2>14, SetsLeaf DEF OtherAt
  <2> HIDE DEF full
  <2>16. \A j \in StoreKeys \ {p} : SameAt(made, typed, j) /\ SameAt(typed, full, j)
    BY <2>3, <2>4, <2>11, <2>13, OtherIsSame
  <2>17. \A j \in StoreKeys \ {p} : SameAt(f, full, j)
    BY <2>6, <2>9, <2>16, SameTwice
  <2>18. p \in DOMAIN f => p \in DOMAIN full /\ full[p] = f[p]
    BY <2>3, <2>7, <2>8, <2>11, <2>13 DEF MadeDownTo, OtherAt
  <2>19. Store!read_metadata(full, p) = <<[rows |-> frame.cats]>>
    BY <2>15 DEF Store!read_metadata, q
  <2>20. IsFile(full)
    BY <2>13 DEF OtherAt
  <2>21. QED
    BY <1>2, <2>1, <2>17, <2>18, <2>19, <2>20 DEF MetadataWritten
<1>3. QED
  BY <1>1, <1>2

\* A write to one key, refused or not, leaves what the others read.
LEMMA WritesElsewhere ==
  ASSUME NEW f, NEW p \in StoreKeys, NEW j \in StoreKeys, p # j, IsFile(f),
         NEW frame, NEW rows, NEW format, NEW append, NEW dropna, NEW by,
         append \/ ~ Store!IsPrefix(p, j)
  PROVE  LET g == Store!write_to_group(f, p, frame, rows, format, append, dropna, by).file
         IN  IsFile(g) /\ SameAt(f, g, j)
<1> DEFINE base == IF append THEN f ELSE Store!remove_node(f, p)
           made == Store!create_nodes(base, p)
           type == IF made[p].type # "none" THEN made[p].type
                   ELSE IF format = "table" THEN "frame_table" ELSE "frame"
           typed == [made EXCEPT ![p].type = type]
           result == Store!write_to_group(f, p, frame, rows, format, append, dropna, by).file
           leaf == Store!create_axes(typed, p, frame, rows)
           new == Store!Encoded(Store!Unmasked(rows, frame, dropna), frame)
           kept == Store!write_metadata(typed, p, frame)
           grown == [leaf EXCEPT !.rows = @ \o new]
<1>1. p # Store!MetadataPath(j) /\ ~ Store!IsPrefix(Store!MetadataPath(j), p)
  BY KeysApart
<1>2. IsFile(base) /\ SameAt(f, base, j)
  <2>1. CASE append
    BY <2>1 DEF SameAt
  <2>2. CASE ~append
    <3>1. ~ Store!IsPrefix(p, j) /\ ~ Store!IsPrefix(p, Store!MetadataPath(j))
      BY <2>2, KeysApart
    <3>2. QED
      BY <2>2, <3>1, RemovedIsSame
  <2>3. QED
    BY <2>1, <2>2
<1> HIDE DEF base
<1>3. p \in Seq(PathNames) /\ p # <<>>
  BY MetadataPathIs, StoreAssumption
<1>4. MadeDownTo(base, made, p)
  BY <1>2, <1>3, CreatesNodes
<1>5. IsFile(made) /\ SameAt(f, made, j)
  BY <1>1, <1>2, <1>4, MadeIsSame, SameTwice DEF MadeDownTo
<1>6. result \in {f, made, typed, [typed EXCEPT ![p].leaf = <<[rows |-> rows]>>],
                  [kept EXCEPT ![p].leaf = <<grown>>]}
  BY DEF Store!write_to_group, Store!WriteFixed, Store!WriteTable, Store!Refused, Store!Returned,
         base
<1> HIDE DEF made, type, leaf, new, grown, result
<1>7. IsFile(typed) /\ SameAt(f, typed, j)
  <2>1. OtherAt(made, typed, p)
    BY <1>5, SetsType
  <2>2. SameAt(made, typed, j)
    BY <1>1, <2>1, OtherIsSame
  <2>3. SameAt(f, typed, j)
    BY <1>5, <2>2, SameTwice
  <2>4. QED
    BY <2>1, <2>3 DEF OtherAt
<1> HIDE DEF typed
<1>8. IsFile([typed EXCEPT ![p].leaf = <<[rows |-> rows]>>])
      /\ SameAt(f, [typed EXCEPT ![p].leaf = <<[rows |-> rows]>>], j)
  <2>1. SameAt(typed, [typed EXCEPT ![p].leaf = <<[rows |-> rows]>>], j)
    BY <1>1, <1>7, SetsLeafElsewhere
  <2>2. QED
    BY <1>1, <1>7, <2>1, SetsLeafElsewhere, SameTwice
<1>9. IsFile(kept) /\ SameAt(f, kept, j)
  <2>1. MetadataWritten(typed, kept, p, frame)
    BY <1>7, WritesMetadata
  <2>2. QED
    BY <1>7, <2>1, SameTwice DEF MetadataWritten
<1> HIDE DEF kept
<1>10. IsFile([kept EXCEPT ![p].leaf = <<grown>>])
       /\ SameAt(f, [kept EXCEPT ![p].leaf = <<grown>>], j)
  <2>1. SameAt(kept, [kept EXCEPT ![p].leaf = <<grown>>], j)
    BY <1>1, <1>9, SetsLeafElsewhere
  <2>2. QED
    BY <1>1, <1>9, <2>1, SetsLeafElsewhere, SameTwice
<1>11. IsFile(f) /\ SameAt(f, f, j)
  BY DEF SameAt
<1>12. QED
  BY <1>5, <1>6, <1>7, <1>8, <1>10, <1>11 DEF result

-----------------------------------------------------------------------------
\* The categories of a table, and a table whose codes are all among them.
Categories(metadata) == IF metadata = <<>> THEN <<>> ELSE metadata[1].rows

IsRow(r) == r = [at |-> r.at, c |-> r.c, x |-> r.x]

CanBeRead(leaf, metadata) ==
  /\ leaf = <<leaf[1]>>
  /\ leaf[1] = [c |-> leaf[1].c, x |-> leaf[1].x,
                rows |-> leaf[1].rows, width |-> leaf[1].width]
  /\ IsSequence(leaf[1].rows)
  /\ \A i \in DOMAIN leaf[1].rows :
       /\ IsRow(leaf[1].rows[i])
       /\ leaf[1].c = "cat" => /\ leaf[1].rows[i].c \in Int
                               /\ leaf[1].rows[i].c < Len(Categories(metadata))

HalfIsATable(f, p) ==
  /\ LET metadata == Store!read_metadata(f, p)
     IN  metadata # <<>> => IsSequence(metadata[1].rows) /\ metadata[1].rows # <<>>
  /\ p \in DOMAIN f => f[p].leaf = <<>> \/ /\ f[p].type # "frame"
                                           /\ CanBeRead(f[p].leaf, Store!read_metadata(f, p))

\* The labels of its rows.
LabelsIn(f, p) == IF p \notin DOMAIN f \/ f[p].leaf = <<>> THEN <<>>
                  ELSE [i \in DOMAIN f[p].leaf[1].rows |-> f[p].leaf[1].rows[i].at]

LEMMA ReadsItsLabels ==
  ASSUME NEW f, NEW p, HalfIsATable(f, p)
  PROVE  LabelsIn(f, p) = IF Store!get(f, p) = Store!None THEN <<>>
                          ELSE [i \in DOMAIN Store!get(f, p)[1] |-> Store!get(f, p)[1][i].at]
<1> DEFINE leaf == f[p].leaf
           rows == leaf[1].rows
           metadata == Store!read_metadata(f, p)
           known == IF metadata = Store!None THEN <<>> ELSE metadata[1].rows
           decoded == [i \in DOMAIN rows |->
                         [rows[i] EXCEPT !.c = IF @ = -1 THEN Store!NA ELSE known[@ + 1]]]
<1>1. CASE p \notin DOMAIN f \/ leaf = <<>>
  BY <1>1 DEF Store!get, Store!None, LabelsIn
<1>2. CASE p \in DOMAIN f /\ leaf # <<>>
  <2>1. f[p].type # "frame" /\ CanBeRead(leaf, metadata)
    BY <1>2 DEF HalfIsATable
  <2>2. Store!get(f, p) = Store!Decoded(rows, leaf[1].c, metadata)
    BY <1>2, <2>1 DEF Store!get, Store!None, Store!read_table
  <2>3. LabelsIn(f, p) = [i \in DOMAIN rows |-> rows[i].at]
    BY <1>2 DEF LabelsIn
  <2>4. CASE leaf[1].c # "cat"
    <3>1. Store!get(f, p) = <<rows>>
      BY <2>2, <2>4 DEF Store!Decoded
    <3>2. QED
      BY <2>3, <3>1 DEF Store!None
  <2>5. CASE leaf[1].c = "cat"
    <3>1. IsSequence(known)
      BY DEF HalfIsATable, IsSequence, Store!None
    <3>2. known = Categories(metadata)
      BY DEF Categories, Store!None
    <3>3. \A i \in DOMAIN rows : ~ (rows[i].c >= Len(known)) /\ IsRow(rows[i])
      BY <2>1, <2>5, <3>1, <3>2 DEF CanBeRead, IsSequence
    <3>4. Store!get(f, p) = <<decoded>>
      BY <2>2, <2>5, <3>3 DEF Store!Decoded
    <3> DEFINE value(c) == IF c = -1 THEN Store!NA ELSE known[c + 1]
    <3>5. decoded = [i \in DOMAIN rows |-> [rows[i] EXCEPT !.c = value(rows[i].c)]]
      OBVIOUS
    <3> HIDE DEF decoded, value
    <3>6. /\ DOMAIN decoded = DOMAIN rows
          /\ \A i \in DOMAIN rows : decoded[i].at = rows[i].at
      <4>1. DOMAIN decoded = DOMAIN rows
        BY <3>5
      <4>2. ASSUME NEW i \in DOMAIN rows PROVE decoded[i].at = rows[i].at
        <5>1. decoded[i] = [rows[i] EXCEPT !.c = value(rows[i].c)]
          BY <3>5
        <5>2. IsRow(rows[i])
          BY <3>3
        <5>3. QED
          BY <5>1, <5>2 DEF IsRow
      <4>3. QED
        BY <4>1, <4>2
    <3>7. QED
      BY <2>3, <3>4, <3>6 DEF Store!None
  <2>6. QED
    BY <2>4, <2>5
<1>3. QED
  BY <1>1, <1>2

LEMMA SameHalf ==
  ASSUME NEW f, NEW g, NEW p, SameAt(f, g, p), HalfIsATable(f, p)
  PROVE  HalfIsATable(g, p) /\ LabelsIn(g, p) = LabelsIn(f, p)
BY DEF SameAt, HalfIsATable, LabelsIn

\* The rows of a half, a categorical's values among its categories.
RowsFit(rows, frame) ==
  /\ IsSequence(rows) /\ IsSequence(frame.cats)
  /\ \A i \in DOMAIN rows :
       /\ IsRow(rows[i])
       /\ frame.c = "cat" => \/ rows[i].c = Store!NA
                             \/ \E m \in DOMAIN frame.cats : frame.cats[m] = rows[i].c

CodesOf(codes, rows, frame) ==
  /\ IsSequence(codes) /\ Len(codes) = Len(rows) /\ Len(frame.cats) \in Nat
  /\ \A i \in 1 .. Len(rows) :
       /\ IsRow(codes[i]) /\ codes[i].at = rows[i].at
       /\ frame.c = "cat" => codes[i].c \in Int /\ codes[i].c < Len(frame.cats)

LEMMA CodesAreKnown ==
  ASSUME NEW rows, NEW frame, RowsFit(rows, frame)
  PROVE  CodesOf(Store!Encoded(rows, frame), rows, frame)
<1>1. /\ Len(rows) \in Nat /\ DOMAIN rows = 1 .. Len(rows)
      /\ rows = [i \in 1 .. Len(rows) |-> rows[i]]
      /\ Len(frame.cats) \in Nat /\ DOMAIN frame.cats = 1 .. Len(frame.cats)
  BY DEF RowsFit, IsSequence
<1>2. CASE frame.c # "cat"
  BY <1>1, <1>2 DEF Store!Encoded, CodesOf, RowsFit
<1>3. CASE frame.c = "cat"
  <2> DEFINE code(v) == IF v = Store!NA THEN -1
                        ELSE (CHOOSE m \in DOMAIN frame.cats : frame.cats[m] = v) - 1
             codes == [i \in DOMAIN rows |-> [rows[i] EXCEPT !.c = code(@)]]
  <2>1. Store!Encoded(rows, frame) = codes
    BY <1>3 DEF Store!Encoded
  <2>2. \A i \in DOMAIN rows : code(rows[i].c) \in Int /\ code(rows[i].c) < Len(frame.cats)
    <3>1. SUFFICES ASSUME NEW i \in DOMAIN rows, rows[i].c # Store!NA
                   PROVE  code(rows[i].c) \in Int /\ code(rows[i].c) < Len(frame.cats)
      BY <1>1
    <3>2. \E m \in DOMAIN frame.cats : frame.cats[m] = rows[i].c
      BY <1>3, <3>1 DEF RowsFit
    <3>3. (CHOOSE m \in DOMAIN frame.cats : frame.cats[m] = rows[i].c) \in DOMAIN frame.cats
      BY <3>2
    <3>4. QED
      BY <1>1, <3>1, <3>3
  <2> HIDE DEF code
  <2>3. \A i \in DOMAIN rows :
          codes[i] = [at |-> rows[i].at, c |-> code(rows[i].c), x |-> rows[i].x]
    BY DEF RowsFit, IsRow
  <2>4. DOMAIN codes = 1 .. Len(rows) /\ Len(codes) = Len(rows) /\ IsSequence(codes)
    BY <1>1 DEF IsSequence
  <2> HIDE DEF codes
  <2>5. QED
    BY <1>1, <2>1, <2>2, <2>3, <2>4 DEF CodesOf, IsRow
<1>4. QED
  BY <1>2, <1>3

LEMMA SequencesJoin ==
  ASSUME NEW s, NEW t, IsSequence(s), IsSequence(t)
  PROVE  /\ IsSequence(s \o t) /\ Len(s \o t) = Len(s) + Len(t)
         /\ \A i \in 1 .. Len(s) : (s \o t)[i] = s[i]
         /\ \A i \in 1 .. Len(t) : (s \o t)[Len(s) + i] = t[i]
<1> DEFINE S == {s[i] : i \in 1 .. Len(s)} \cup {t[i] : i \in 1 .. Len(t)}
<1>1. s \in Seq(S) /\ t \in Seq(S)
  <2>1. /\ Len(s) \in Nat /\ s = [i \in 1 .. Len(s) |-> s[i]]
        /\ Len(t) \in Nat /\ t = [i \in 1 .. Len(t) |-> t[i]]
    BY DEF IsSequence
  <2>2. s \in [1 .. Len(s) -> S] /\ t \in [1 .. Len(t) -> S]
    BY <2>1
  <2> HIDE DEF S
  <2>3. QED
    BY <2>1, <2>2
<1> HIDE DEF S
<1>2. /\ s \o t \in Seq(S) /\ Len(s \o t) = Len(s) + Len(t)
      /\ \A i \in 1 .. Len(s) : (s \o t)[i] = s[i]
      /\ \A i \in 1 .. Len(t) : (s \o t)[Len(s) + i] = t[i]
  BY <1>1, ConcatIs
<1>3. \A u \in Seq(S) : IsSequence(u)
  BY DEF IsSequence
<1>4. QED
  BY <1>2, <1>3

LabelsOf(rows) == [i \in DOMAIN rows |-> rows[i].at]

LEMMA LabelsJoin ==
  ASSUME NEW s, NEW t, IsSequence(s), IsSequence(t)
  PROVE  LabelsOf(s \o t) = LabelsOf(s) \o LabelsOf(t)
<1>1. /\ Len(s) \in Nat /\ DOMAIN s = 1 .. Len(s)
      /\ Len(t) \in Nat /\ DOMAIN t = 1 .. Len(t)
  BY DEF IsSequence
<1> DEFINE u == s \o t
           a == LabelsOf(s)
           b == LabelsOf(t)
           ab == a \o b
<1>2. /\ IsSequence(u) /\ Len(u) = Len(s) + Len(t)
      /\ \A i \in 1 .. Len(s) : u[i] = s[i]
      /\ \A i \in 1 .. Len(t) : u[Len(s) + i] = t[i]
  BY SequencesJoin
<1>3. /\ IsSequence(a) /\ Len(a) = Len(s) /\ \A i \in 1 .. Len(s) : a[i] = s[i].at
      /\ IsSequence(b) /\ Len(b) = Len(t) /\ \A i \in 1 .. Len(t) : b[i] = t[i].at
  BY <1>1 DEF LabelsOf, IsSequence
<1> HIDE DEF u, a, b
<1>4. /\ IsSequence(ab) /\ Len(ab) = Len(a) + Len(b)
      /\ \A i \in 1 .. Len(a) : ab[i] = a[i]
      /\ \A i \in 1 .. Len(b) : ab[Len(a) + i] = b[i]
  <2>1. IsSequence(a) /\ IsSequence(b)
    BY <1>3
  <2>2. QED
    BY <2>1, SequencesJoin
<1> HIDE DEF ab
<1>5. DOMAIN u = 1 .. Len(s) + Len(t) /\ DOMAIN ab = 1 .. Len(s) + Len(t)
  BY <1>2, <1>3, <1>4 DEF IsSequence
<1>6. ASSUME NEW i \in 1 .. Len(s) + Len(t) PROVE u[i].at = ab[i]
  <2>1. CASE i \in 1 .. Len(s)
    BY <1>2, <1>3, <1>4, <2>1
  <2>2. CASE i \notin 1 .. Len(s)
    <3>1. i - Len(s) \in 1 .. Len(t) /\ i = Len(s) + (i - Len(s))
      BY <1>1, <2>2
    <3>2. u[i] = t[i - Len(s)] /\ ab[i] = b[i - Len(s)]
      BY <1>2, <1>3, <1>4, <3>1
    <3>3. QED
      BY <1>3, <3>1, <3>2
  <2>3. QED
    BY <2>1, <2>2
<1>7. ab = [i \in 1 .. Len(s) + Len(t) |-> ab[i]]
  BY <1>1, <1>3, <1>4 DEF IsSequence
<1>8. LabelsOf(u) = ab
  BY <1>5, <1>6, <1>7 DEF LabelsOf
<1>9. QED
  BY <1>8 DEF u, ab, a, b

\* The rows a table grows by, and the categories it then has.
RoomFor(old, now, frame) ==
  frame.c = "cat" => /\ Len(Categories(old)) \in Int /\ Len(Categories(now)) \in Int
                     /\ Len(Categories(old)) <= Len(Categories(now))
                     /\ Len(frame.cats) <= Len(Categories(now))

TableGrown(leaf, grown, rows, now) ==
  /\ CanBeRead(<<grown>>, now)
  /\ LabelsOf(grown.rows) = LabelsOf(leaf.rows) \o LabelsOf(rows)

LEMMA GrowsTable ==
  ASSUME NEW leaf, NEW old, NEW now, NEW frame, NEW rows, NEW new,
         CanBeRead(<<leaf>>, old), IsSequence(rows), CodesOf(new, rows, frame),
         leaf.c = frame.c, RoomFor(old, now, frame)
  PROVE  TableGrown(leaf, [leaf EXCEPT !.rows = @ \o new], rows, now)
<1> DEFINE grown == [leaf EXCEPT !.rows = @ \o new]
           all == leaf.rows \o new
<1>1. /\ leaf = [c |-> leaf.c, x |-> leaf.x, rows |-> leaf.rows, width |-> leaf.width]
      /\ IsSequence(leaf.rows)
      /\ \A i \in DOMAIN leaf.rows :
           /\ IsRow(leaf.rows[i])
           /\ leaf.c = "cat" => /\ leaf.rows[i].c \in Int
                                /\ leaf.rows[i].c < Len(Categories(old))
  BY DEF CanBeRead
<1>2. /\ IsSequence(new) /\ Len(new) = Len(rows) /\ Len(frame.cats) \in Nat
      /\ \A i \in 1 .. Len(rows) :
           /\ IsRow(new[i]) /\ new[i].at = rows[i].at
           /\ frame.c = "cat" => new[i].c \in Int /\ new[i].c < Len(frame.cats)
  BY DEF CodesOf
<1>3. /\ IsSequence(all) /\ Len(all) = Len(leaf.rows) + Len(new)
      /\ \A i \in 1 .. Len(leaf.rows) : all[i] = leaf.rows[i]
      /\ \A i \in 1 .. Len(new) : all[Len(leaf.rows) + i] = new[i]
  BY <1>1, <1>2, SequencesJoin
<1>4. LabelsOf(all) = LabelsOf(leaf.rows) \o LabelsOf(new)
  BY <1>1, <1>2, LabelsJoin
<1>5. LabelsOf(new) = LabelsOf(rows)
  BY <1>2 DEF LabelsOf, IsSequence
<1>6. grown = [c |-> leaf.c, x |-> leaf.x, rows |-> all, width |-> leaf.width]
  <2>1. grown = [leaf EXCEPT !.rows = all]
    OBVIOUS
  <2>2. leaf = [c |-> leaf.c, x |-> leaf.x, rows |-> leaf.rows, width |-> leaf.width]
    BY <1>1
  <2> HIDE DEF grown, all
  <2>3. QED
    BY <2>1, <2>2
<1> HIDE DEF grown, all
<1>7. ASSUME NEW i \in DOMAIN all
      PROVE  /\ IsRow(all[i])
             /\ leaf.c = "cat" => /\ all[i].c \in Int
                                  /\ all[i].c < Len(Categories(now))
  <2>1. /\ Len(leaf.rows) \in Nat /\ DOMAIN leaf.rows = 1 .. Len(leaf.rows)
        /\ Len(new) \in Nat /\ i \in 1 .. Len(leaf.rows) + Len(new)
    BY <1>1, <1>2, <1>3 DEF IsSequence
  <2>2. CASE i \in 1 .. Len(leaf.rows)
    BY <1>1, <1>3, <2>1, <2>2 DEF RoomFor
  <2>3. CASE i \notin 1 .. Len(leaf.rows)
    <3>1. i - Len(leaf.rows) \in 1 .. Len(new) /\ i = Len(leaf.rows) + (i - Len(leaf.rows))
      BY <2>1, <2>3
    <3>2. all[i] = new[i - Len(leaf.rows)]
      BY <1>3, <3>1
    <3>3. QED
      BY <1>2, <3>1, <3>2 DEF RoomFor
  <2>4. QED
    BY <2>2, <2>3
<1>8. CanBeRead(<<grown>>, now)
  BY <1>3, <1>6, <1>7 DEF CanBeRead
<1>9. LabelsOf(grown.rows) = LabelsOf(leaf.rows) \o LabelsOf(rows)
  BY <1>4, <1>5, <1>6
<1>10. QED
  BY <1>8, <1>9 DEF grown, TableGrown

\* What a call that writes to a half comes to.
HalfWritten(f, g, landed, ok, p, rows) ==
  /\ IsFile(g) /\ HalfIsATable(g, p)
  /\ landed => /\ ok /\ rows # <<>>
               /\ LabelsIn(g, p) = LabelsIn(f, p) \o LabelsOf(rows)
  /\ ~ landed => /\ LabelsIn(g, p) = LabelsIn(f, p)
                 /\ ok => rows = <<>> /\ g = f

LEMMA WritesRows ==
  ASSUME NEW f, NEW p \in StoreKeys, NEW frame, NEW rows, IsFile(f), HalfIsATable(f, p),
         p \in DOMAIN f, f[p].type # "frame",
         RowsFit(rows, frame), rows # <<>>
  PROVE  LET r == Store!WriteTable(f, p, frame, rows, FALSE, "all")
         IN  HalfWritten(f, r.file, r.landed, r.ok, p, rows)
<1> DEFINE leaf == Store!create_axes(f, p, frame, rows)
           new == Store!Encoded(rows, frame)
           kept == Store!write_metadata(f, p, frame)
           grown == [leaf EXCEPT !.rows = @ \o new]
           written == [kept EXCEPT ![p].leaf = <<grown>>]
           fits == /\ Store!Matches(leaf, frame) /\ Store!Fits(leaf, frame, rows)
                   /\ Store!validate_metadata(f, p, frame)
           r == Store!WriteTable(f, p, frame, rows, FALSE, "all")
           old == Store!read_metadata(f, p)
           now == Store!read_metadata(kept, p)
<1>1. /\ fits => r.file = written /\ r.landed /\ r.ok
      /\ ~ fits => r.file = f /\ ~ r.landed /\ ~ r.ok
  <2>1. /\ fits => r = [Store!Returned(written) EXCEPT !.ok = ~ ("all" = "x" /\ frame.x)]
        /\ ~ fits => r = Store!Refused(f)
    BY DEF Store!WriteTable, Store!Unmasked
  <2> DEFINE yes == ~ ("all" = "x" /\ frame.x)
  <2>2. yes
    OBVIOUS
  <2>3. fits => r = [Store!Returned(written) EXCEPT !.ok = yes]
    BY <2>1
  <2> HIDE DEF fits, written, r, yes
  <2>4. fits => r = [file |-> written, landed |-> TRUE, ok |-> yes]
    BY <2>3 DEF Store!Returned
  <2>5. fits => r.file = written /\ r.landed /\ r.ok
    BY <2>2, <2>4
  <2>6. ~ fits => r.file = f /\ ~ r.landed /\ ~ r.ok
    BY <2>1 DEF Store!Refused
  <2>7. QED
    BY <2>5, <2>6
<1>2. IsSequence(rows) /\ CodesOf(new, rows, frame) /\ IsSequence(frame.cats)
  BY CodesAreKnown DEF RowsFit
<1>3. /\ CanBeRead(<<leaf>>, old)
      /\ LabelsIn(f, p) = LabelsOf(leaf.rows)
  <2>1. CASE f[p].leaf # <<>>
    <3>1. leaf = f[p].leaf[1]
      BY <2>1 DEF Store!create_axes, Store!None
    <3>2. CanBeRead(f[p].leaf, old)
      BY <2>1 DEF HalfIsATable
    <3>3. <<leaf>> = f[p].leaf
      BY <3>1, <3>2 DEF CanBeRead
    <3>4. QED
      BY <2>1, <3>1, <3>2, <3>3 DEF LabelsIn, LabelsOf
  <2>2. CASE f[p].leaf = <<>>
    <3> DEFINE w == IF frame.c = "text" THEN Store!TextWidth(rows) ELSE 0
    <3>1. leaf = [c |-> frame.c, x |-> frame.x, rows |-> <<>>, width |-> w]
      BY <2>2 DEF Store!create_axes, Store!None
    <3> HIDE DEF leaf, w
    <3>2. CanBeRead(<<leaf>>, old)
      BY <3>1 DEF CanBeRead, IsSequence
    <3>3. LabelsOf(leaf.rows) = <<>>
      BY <3>1 DEF LabelsOf
    <3>4. QED
      BY <2>2, <3>2, <3>3 DEF LabelsIn
  <2>3. QED
    BY <2>1, <2>2
<1>4. /\ IsFile(kept) /\ p \in DOMAIN kept /\ kept[p] = f[p]
      /\ now = IF frame.c # "cat" \/ frame.cats = <<>> THEN old ELSE <<[rows |-> frame.cats]>>
  <2>1. MetadataWritten(f, kept, p, frame)
    BY WritesMetadata
  <2> HIDE DEF kept
  <2>2. QED
    BY <2>1 DEF MetadataWritten
<1>5. old # <<>> => IsSequence(old[1].rows) /\ old[1].rows # <<>>
  BY DEF HalfIsATable
<1>6. now # <<>> => IsSequence(now[1].rows) /\ now[1].rows # <<>>
  <2>1. CASE now = old
    BY <1>5, <2>1
  <2>2. CASE now # old
    <3>1. now = <<[rows |-> frame.cats]>> /\ frame.cats # <<>>
      BY <1>4, <2>2
    <3>2. now[1].rows = frame.cats
      BY <3>1
    <3>3. QED
      BY <1>2, <3>1, <3>2
  <2>3. QED
    BY <2>1, <2>2
<1>7. ASSUME fits
      PROVE  HalfWritten(f, r.file, r.landed, r.ok, p, rows)
  <2>1. leaf.c = frame.c
    BY <1>7 DEF Store!Matches
  <2>2. RoomFor(old, now, frame)
    <3>1. SUFFICES ASSUME frame.c = "cat"
                   PROVE  /\ Len(Categories(old)) \in Int /\ Len(Categories(now)) \in Int
                          /\ Len(Categories(old)) <= Len(Categories(now))
                          /\ Len(frame.cats) <= Len(Categories(now))
      BY DEF RoomFor
    <3>2. old # <<>> => old[1].rows = frame.cats
      BY <1>7, <3>1 DEF Store!validate_metadata, Store!None
    <3>3. Len(frame.cats) \in Nat
      BY <1>2 DEF IsSequence
    <3>4. Categories(old) = <<>> \/ Categories(old) = frame.cats
      BY <3>2 DEF Categories
    <3>5. Categories(now) = frame.cats
      <4>1. CASE frame.cats = <<>>
        <5>1. now = old
          BY <1>4, <4>1
        <5>2. QED
          BY <3>4, <4>1, <5>1
      <4>2. CASE frame.cats # <<>>
        <5>1. now = <<[rows |-> frame.cats]>>
          BY <1>4, <3>1, <4>2
        <5>2. now # <<>> /\ now[1].rows = frame.cats
          BY <5>1
        <5>3. QED
          BY <5>2 DEF Categories
      <4>3. QED
        BY <4>1, <4>2
    <3>6. Len(<<>>) = 0
      OBVIOUS
    <3> HIDE DEF old, now
    <3>7. QED
      BY <3>3, <3>4, <3>5, <3>6
  <2> HIDE DEF leaf, new, old
  <2>3. /\ CanBeRead(<<grown>>, now)
        /\ LabelsOf(grown.rows) = LabelsOf(leaf.rows) \o LabelsOf(rows)
    <3> HIDE DEF now
    <3>1. TableGrown(leaf, grown, rows, now)
      BY <1>2, <1>3, <2>1, <2>2, GrowsTable
    <3>2. QED
      BY <3>1 DEF TableGrown
  <2> HIDE DEF kept, grown, r
  <2>4. /\ OtherAt(kept, written, p) /\ written[p].leaf = <<grown>>
        /\ written[p].type = f[p].type
    <3>1. IsFile(kept) /\ p \in DOMAIN kept /\ kept[p].type = f[p].type
      BY <1>4
    <3>2. OtherAt(kept, written, p)
      BY <3>1, SetsLeaf
    <3>3. written[p].leaf = <<grown>> /\ written[p].type = kept[p].type
      BY <3>1, SetsLeaf
    <3>4. QED
      BY <3>1, <3>2, <3>3
  <2> HIDE DEF written
  <2>5. Store!read_metadata(written, p) = now
    <3>1. Store!MetadataPath(p) # p
      BY KeysApart
    <3>2. QED
      BY <2>4, <3>1 DEF OtherAt, Store!read_metadata, now
  <2> HIDE DEF now
  <2>6. HalfIsATable(written, p) /\ IsFile(written)
    BY <1>6, <2>3, <2>4, <2>5 DEF HalfIsATable, OtherAt
  <2>7. LabelsIn(written, p) = LabelsIn(f, p) \o LabelsOf(rows)
    <3>1. p \in DOMAIN written /\ written[p].leaf # <<>> /\ written[p].leaf[1] = grown
      BY <1>4, <2>4 DEF OtherAt
    <3>2. LabelsIn(written, p) = LabelsOf(grown.rows)
      BY <3>1 DEF LabelsIn, LabelsOf
    <3>3. QED
      BY <1>3, <2>3, <3>2
  <2>8. r.file = written /\ r.landed /\ r.ok
    BY <1>1, <1>7
  <2>9. QED
    BY <2>6, <2>7, <2>8 DEF HalfWritten
<1>8. ASSUME ~ fits
      PROVE  HalfWritten(f, r.file, r.landed, r.ok, p, rows)
  <2>1. r.file = f /\ ~ r.landed /\ ~ r.ok
    BY <1>1, <1>8
  <2>2. QED
    BY <2>1 DEF HalfWritten
<1>9. QED
  BY <1>7, <1>8

LEMMA WritesHalf ==
  ASSUME NEW f, NEW p \in StoreKeys, NEW frame, NEW rows, IsFile(f), HalfIsATable(f, p),
         RowsFit(rows, frame)
  PROVE  LET r == Store!write_to_group(f, p, frame, rows, "table", TRUE, FALSE, "all")
         IN  HalfWritten(f, r.file, r.landed, r.ok, p, rows)
<1> DEFINE made == Store!create_nodes(f, p)
           type == IF made[p].type # "none" THEN made[p].type ELSE "frame_table"
           typed == [made EXCEPT ![p].type = type]
           r == Store!write_to_group(f, p, frame, rows, "table", TRUE, FALSE, "all")
           w == Store!WriteTable(typed, p, frame, rows, FALSE, "all")
<1>1. CASE rows = <<>>
  <2>1. r = [file |-> f, landed |-> FALSE, ok |-> TRUE]
    BY <1>1 DEF Store!write_to_group
  <2> HIDE DEF r
  <2>2. r.file = f /\ ~ r.landed /\ r.ok
    BY <2>1
  <2>3. HalfWritten(f, r.file, r.landed, r.ok, p, rows)
    BY <1>1, <2>2 DEF HalfWritten
  <2>4. QED
    BY <2>3 DEF r
<1>2. CASE rows # <<>>
  <2>1. p \in Seq(PathNames) /\ p # <<>>
    BY MetadataPathIs, StoreAssumption
  <2>2. MadeDownTo(f, made, p)
    BY <2>1, CreatesNodes
  <2>3. SameAt(f, made, p)
    BY <2>2, KeysApart, MadeIsSame
  <2>4. /\ IsFile(made) /\ HalfIsATable(made, p) /\ LabelsIn(made, p) = LabelsIn(f, p)
        /\ p \in DOMAIN made
    BY <2>2, <2>3, SameHalf DEF MadeDownTo
  <2>5. \/ r = Store!Refused(made)
        \/ type # "frame" /\ r = w
    BY <1>2 DEF Store!write_to_group
  <2>6. CASE r = Store!Refused(made)
    <3> HIDE DEF made, r
    <3>1. r.file = made /\ ~ r.landed /\ ~ r.ok
      BY <2>6 DEF Store!Refused
    <3>2. HalfWritten(f, r.file, r.landed, r.ok, p, rows)
      BY <2>4, <3>1 DEF HalfWritten
    <3>3. QED
      BY <3>2 DEF r
  <2>7. CASE type # "frame" /\ r = w
    <3> HIDE DEF made, type, r
    <3>1. OtherAt(made, typed, p) /\ typed[p].type = type /\ typed[p].leaf = made[p].leaf
      BY <2>4, SetsType
    <3>2. Store!MetadataPath(p) # p
      BY KeysApart
    <3> HIDE DEF typed
    <3>3. Store!read_metadata(typed, p) = Store!read_metadata(made, p)
      BY <3>1, <3>2 DEF OtherAt, Store!read_metadata
    <3>4. /\ IsFile(typed) /\ HalfIsATable(typed, p) /\ LabelsIn(typed, p) = LabelsIn(f, p)
          /\ p \in DOMAIN typed /\ typed[p].type # "frame"
      BY <2>4, <2>7, <3>1, <3>3 DEF OtherAt, HalfIsATable, LabelsIn
    <3>5. HalfWritten(typed, w.file, w.landed, w.ok, p, rows)
      BY <1>2, <3>4, WritesRows
    <3> HIDE DEF w
    <3>6. HalfWritten(f, r.file, r.landed, r.ok, p, rows)
      BY <1>2, <2>7, <3>4, <3>5 DEF HalfWritten
    <3>7. QED
      BY <3>6 DEF r
  <2>8. QED
    BY <2>5, <2>6, <2>7
<1>3. QED
  BY <1>1, <1>2

-----------------------------------------------------------------------------
LEMMA MakesRows ==
  \A a, c, v : LET r == [at |-> a, c |-> c, x |-> v]
               IN  IsRow(r) /\ r.at = a /\ r.c = c /\ r.x = v
BY DEF IsRow

LEMMA HalfOfIs ==
  ASSUME NEW r, NEW k, IsRow(r)
  PROVE  Store!HalfOf(r, k) = IF k = Selector THEN [at |-> r.at, c |-> r.c, x |-> Store!NA]
                              ELSE [at |-> r.at, c |-> Store!NA, x |-> r.x]
<1>1. r = [at |-> r.at, c |-> r.c, x |-> r.x]
  BY DEF IsRow
<1>2. /\ [r EXCEPT !.x = Store!NA] = [at |-> r.at, c |-> r.c, x |-> Store!NA]
      /\ [r EXCEPT !.c = Store!NA] = [at |-> r.at, c |-> Store!NA, x |-> r.x]
  BY <1>1
<1>3. QED
  BY <1>2 DEF Store!HalfOf

\* The halves of a frame: the same rows in both, as both can be written.
LEMMA PartsFit ==
  ASSUME NEW frame \in StoreFrames, NEW dropna, NEW k \in {Selector, Other}
  PROVE  RowsFit(Store!PartRows(Store!RowsOf(frame), k, dropna), Store!Part(frame, k))
<1> DEFINE rows == Store!RowsOf(frame)
           kept == {i \in DOMAIN rows :
                      dropna => rows[i].c # Store!NA /\ rows[i].x # Store!NA}
           n == Cardinality(kept)
           part_rows == Store!PartRows(rows, k, dropna)
           part_frame == Store!Part(frame, k)
<1>1. /\ frame = [c |-> frame.c, cats |-> frame.cats, x |-> frame.x, rows |-> frame.rows]
      /\ IsSequence(frame.rows) /\ IsSequence(frame.cats)
      /\ frame.c = "cat" => \A i \in DOMAIN frame.rows :
           \/ frame.rows[i][1] = Store!NA
           \/ \E m \in DOMAIN frame.cats : frame.cats[m] = frame.rows[i][1]
  BY StoreAssumption DEF Frame
<1>2. /\ Len(frame.rows) \in Nat /\ DOMAIN frame.rows = 1 .. Len(frame.rows)
  BY <1>1 DEF IsSequence
<1>3. /\ DOMAIN rows = 1 .. Len(frame.rows)
      /\ \A i \in DOMAIN rows :
           rows[i] = [at |-> <<writes, i>>, c |-> frame.rows[i][1], x |-> frame.rows[i][2]]
  BY <1>2 DEF Store!RowsOf
<1>4. part_rows = [m \in 1 .. n |-> Store!HalfOf(rows[Store!Nth(kept, m)], k)]
  BY SameCount DEF Store!PartRows
<1> HIDE DEF rows, part_rows
<1>5. n \in Nat /\ \A m \in 1 .. n : Store!Nth(kept, m) \in kept
  BY <1>2, <1>3, NthIsIn
<1> HIDE DEF n, kept
<1>6. IsSequence(part_rows) /\ DOMAIN part_rows = 1 .. n
  BY <1>4, <1>5 DEF IsSequence
<1>7. ASSUME NEW m \in 1 .. n
      PROVE  \E i \in DOMAIN rows : part_rows[m] = Store!HalfOf(rows[i], k)
  <2>1. Store!Nth(kept, m) \in DOMAIN rows
    BY <1>5 DEF kept
  <2>2. QED
    BY <1>4, <2>1
<1>8. CASE k = Selector
  <2>1. part_frame = [c |-> frame.c, cats |-> frame.cats, x |-> FALSE, rows |-> frame.rows]
    BY <1>1, <1>8 DEF Store!Part
  <2>2. \A i \in DOMAIN rows :
          Store!HalfOf(rows[i], k) = [at |-> rows[i].at, c |-> frame.rows[i][1], x |-> Store!NA]
    <3>1. \A i \in DOMAIN rows : IsRow(rows[i])
      BY <1>3, MakesRows
    <3>2. ASSUME NEW i \in DOMAIN rows PROVE rows[i].c = frame.rows[i][1]
      <4> DEFINE v == frame.rows[i][1]
                 u == frame.rows[i][2]
      <4>1. rows[i] = [at |-> <<writes, i>>, c |-> v, x |-> u]
        BY <1>3
      <4> HIDE DEF v, u
      <4>2. rows[i].c = v
        BY <4>1
      <4>3. QED
        BY <4>2 DEF v
    <3>3. QED
      BY <1>8, <3>1, <3>2, HalfOfIs
  <2> HIDE DEF part_frame
  <2>3. part_frame.c = frame.c /\ part_frame.cats = frame.cats
    BY <2>1
  <2>4. ASSUME NEW m \in 1 .. n
        PROVE  /\ IsRow(part_rows[m])
               /\ frame.c = "cat" => \/ part_rows[m].c = Store!NA
                                     \/ \E q \in DOMAIN frame.cats : frame.cats[q] = part_rows[m].c
    <3>1. PICK i \in DOMAIN rows : part_rows[m] = Store!HalfOf(rows[i], k)
      BY <1>7
    <3>2. part_rows[m] = [at |-> rows[i].at, c |-> frame.rows[i][1], x |-> Store!NA]
      BY <2>2, <3>1
    <3>3. part_rows[m].c = frame.rows[i][1]
      BY <3>2
    <3>4. i \in DOMAIN frame.rows
      BY <1>2, <1>3
    <3>5. QED
      BY <1>1, <3>2, <3>3, <3>4 DEF IsRow
  <2>5. RowsFit(part_rows, part_frame)
    BY <1>1, <1>6, <2>3, <2>4 DEF RowsFit
  <2>6. QED
    BY <2>5 DEF part_rows, part_frame, rows
<1>9. CASE k # Selector
  <2>1. part_frame = [c |-> "none", cats |-> <<>>, x |-> frame.x, rows |-> frame.rows]
    BY <1>1, <1>9 DEF Store!Part
  <2>2. \A i \in DOMAIN rows :
          Store!HalfOf(rows[i], k) = [at |-> rows[i].at, c |-> Store!NA, x |-> rows[i].x]
    <3>1. \A i \in DOMAIN rows : IsRow(rows[i])
      BY <1>3, MakesRows
    <3>2. QED
      BY <1>9, <3>1, HalfOfIs
  <2> HIDE DEF part_frame
  <2>3. part_frame.c = "none" /\ IsSequence(part_frame.cats)
    BY <2>1 DEF IsSequence
  <2>4. ASSUME NEW m \in 1 .. n PROVE IsRow(part_rows[m])
    BY <1>7, <2>2 DEF IsRow
  <2>5. RowsFit(part_rows, part_frame)
    BY <1>6, <2>3, <2>4 DEF RowsFit
  <2>6. QED
    BY <2>5 DEF part_rows, part_frame, rows
<1>10. QED
  BY <1>8, <1>9

LEMMA PartsHaveTheSameLabels ==
  ASSUME NEW frame \in StoreFrames, NEW dropna
  PROVE  LET half(k) == Store!PartRows(Store!RowsOf(frame), k, dropna)
         IN  /\ LabelsOf(half(Selector)) = LabelsOf(half(Other))
             /\ half(Selector) = <<>> <=> half(Other) = <<>>
<1> DEFINE rows == Store!RowsOf(frame)
           kept == {i \in DOMAIN rows :
                      dropna => rows[i].c # Store!NA /\ rows[i].x # Store!NA}
           n == Cardinality(kept)
           half(k) == Store!PartRows(rows, k, dropna)
<1>1. Len(frame.rows) \in Nat /\ DOMAIN frame.rows = 1 .. Len(frame.rows)
  BY StoreAssumption DEF IsSequence
<1>2. /\ DOMAIN rows = 1 .. Len(frame.rows)
      /\ \A i \in DOMAIN rows :
           rows[i] = [at |-> <<writes, i>>, c |-> frame.rows[i][1], x |-> frame.rows[i][2]]
  BY <1>1 DEF Store!RowsOf
<1>3. \A k : half(k) = [m \in 1 .. n |-> Store!HalfOf(rows[Store!Nth(kept, m)], k)]
  BY SameCount DEF Store!PartRows
<1> HIDE DEF rows, half
<1>4. n \in Nat /\ \A m \in 1 .. n : Store!Nth(kept, m) \in kept
  BY <1>1, <1>2, NthIsIn
<1> HIDE DEF n
<1>5. \A m \in 1 .. n : Store!Nth(kept, m) \in DOMAIN rows
  BY <1>4
<1> HIDE DEF kept
<1>6. \A k : \A i \in DOMAIN rows : Store!HalfOf(rows[i], k).at = rows[i].at
  <2>1. \A i \in DOMAIN rows : IsRow(rows[i])
    BY <1>2, MakesRows
  <2>2. QED
    BY <2>1, HalfOfIs
<1>7. \A k : LabelsOf(half(k)) = [m \in 1 .. n |-> rows[Store!Nth(kept, m)].at]
  BY <1>3, <1>5, <1>6 DEF LabelsOf
<1>8. \A k : half(k) = <<>> <=> n = 0
  BY <1>3, <1>4
<1>9. LabelsOf(half(Selector)) = LabelsOf(half(Other)) /\ (half(Selector) = <<>> <=> half(Other) = <<>>)
  BY <1>7, <1>8
<1>10. QED
  BY <1>9 DEF half, rows

-----------------------------------------------------------------------------
\* The halves in the file: as long as only whole calls wrote them.
HalvesAre(f) == /\ IsFile(f)
                /\ HalfIsATable(f, Selector) /\ HalfIsATable(f, Other)
                /\ LabelsIn(f, Selector) = LabelsIn(f, Other)

HalvesInv == paired => HalvesAre(file)

LEMMA HalvesAreMatched == HalvesInv => HalvesMatch
<1> DEFINE labels(k) == IF Store!get(file, k) = Store!None THEN <<>>
                        ELSE [i \in DOMAIN Store!get(file, k)[1] |-> Store!get(file, k)[1][i].at]
<1>1. SUFFICES ASSUME HalvesInv, paired PROVE labels(Selector) = labels(Other)
  BY DEF HalvesMatch, Store!HalvesMatch
<1>2. HalvesAre(file)
  BY <1>1 DEF HalvesInv
<1>3. LabelsIn(file, Selector) = labels(Selector) /\ LabelsIn(file, Other) = labels(Other)
  BY <1>2, ReadsItsLabels DEF HalvesAre
<1> HIDE DEF labels
<1>4. QED
  BY <1>2, <1>3 DEF HalvesAre

LEMMA EmptyHasHalves ==
  ASSUME NEW f, f = [p \in {} |-> Store!None]
  PROVE  HalvesAre(f)
BY DEF HalvesAre, IsFile, HalfIsATable, LabelsIn, Store!read_metadata, Store!None

LEMMA SameHalves ==
  ASSUME NEW f, NEW g, HalvesAre(f), IsFile(g), SameAt(f, g, Selector), SameAt(f, g, Other)
  PROVE  HalvesAre(g)
BY SameHalf DEF HalvesAre

LEMMA PutsElsewhere ==
  ASSUME NEW k \in StoreKeys, NEW frame, NEW format, NEW by, HalvesInv,
         Store!put(k, frame, format, by)
  PROVE  HalvesInv'
<1> DEFINE rows == Store!RowsOf(frame)
           g == Store!write_to_group(file, k, frame, rows, format, FALSE, FALSE, by).file
<1>1. /\ file' = g
      /\ paired' = (paired /\ \A j \in {Selector, Other} : ~ Store!IsPrefix(k, j))
  BY DEF Store!put
<1> HIDE DEF rows
<1>2. SUFFICES ASSUME paired, \A j \in {Selector, Other} : ~ Store!IsPrefix(k, j)
               PROVE  HalvesAre(g)
  BY <1>1 DEF HalvesInv, HalvesAre, IsFile, HalfIsATable, LabelsIn
<1>3. HalvesAre(file)
  BY <1>2 DEF HalvesInv
<1>4. \A j \in {Selector, Other} : j \in StoreKeys /\ k # j
  <2>1. \A j \in StoreKeys : Store!IsPrefix(j, j)
    BY MetadataPathIs DEF Store!IsPrefix
  <2>2. QED
    BY <1>2, <2>1, StoreAssumption
<1>5. \A j \in {Selector, Other} : IsFile(g) /\ SameAt(file, g, j)
  BY <1>2, <1>3, <1>4, WritesElsewhere DEF HalvesAre
<1> HIDE DEF g
<1>6. QED
  BY <1>3, <1>5, SameHalves

LEMMA AppendsElsewhere ==
  ASSUME NEW k \in StoreKeys, NEW frame, NEW format, NEW dropna, NEW by, HalvesInv,
         Store!append(k, frame, format, dropna, by)
  PROVE  HalvesInv'
<1> DEFINE rows == Store!RowsOf(frame)
           g == Store!write_to_group(file, k, frame, rows, format, TRUE, dropna, by).file
<1>1. /\ file' = g
      /\ paired' = (paired /\ k \notin {Selector, Other})
  BY DEF Store!append, Store!Direct
<1> HIDE DEF rows
<1>2. SUFFICES ASSUME paired, k \notin {Selector, Other}
               PROVE  HalvesAre(g)
  BY <1>1 DEF HalvesInv, HalvesAre, IsFile, HalfIsATable, LabelsIn
<1>3. HalvesAre(file)
  BY <1>2 DEF HalvesInv
<1>4. \A j \in {Selector, Other} : IsFile(g) /\ SameAt(file, g, j)
  BY <1>2, <1>3, WritesElsewhere, StoreAssumption DEF HalvesAre
<1> HIDE DEF g
<1>5. QED
  BY <1>3, <1>4, SameHalves

LEMMA RemovesElsewhere ==
  ASSUME NEW k \in StoreKeys, NEW where, NEW span, HalvesInv,
         Store!remove(k, where, span)
  PROVE  HalvesInv'
<1>1. CASE /\ file' = Store!remove_node(file, k)
           /\ paired' = (paired /\ \A j \in {Selector, Other} : ~ Store!IsPrefix(k, j))
  <2> DEFINE g == Store!remove_node(file, k)
  <2>1. SUFFICES ASSUME paired, \A j \in {Selector, Other} : ~ Store!IsPrefix(k, j)
                 PROVE  HalvesAre(g)
    BY <1>1 DEF HalvesInv, HalvesAre, IsFile, HalfIsATable, LabelsIn
  <2>2. HalvesAre(file)
    BY <2>1 DEF HalvesInv
  <2>3. \A j \in {Selector, Other} : IsFile(g) /\ SameAt(file, g, j)
    BY <2>1, <2>2, KeysApart, RemovedIsSame, StoreAssumption DEF HalvesAre
  <2> HIDE DEF g
  <2>4. QED
    BY <2>2, <2>3, SameHalves
<1>2. CASE /\ \E rows : file' = [file EXCEPT ![k].leaf[1].rows = rows]
           /\ paired' = (paired /\ k \notin {Selector, Other})
  <2>1. SUFFICES ASSUME paired, k \notin {Selector, Other}
                 PROVE  HalvesInv'
    BY <1>2 DEF HalvesInv
  <2>2. HalvesAre(file)
    BY <2>1 DEF HalvesInv
  <2>3. PICK leaf : file' = [file EXCEPT ![k].leaf = leaf]
    <3>1. PICK rows : file' = [file EXCEPT ![k].leaf[1].rows = rows]
      BY <1>2
    <3>2. file' = [file EXCEPT ![k].leaf = [file[k].leaf EXCEPT ![1].rows = rows]]
      BY <3>1
    <3>3. QED
      BY <3>2
  <2> DEFINE g == [file EXCEPT ![k].leaf = leaf]
  <2>4. \A j \in {Selector, Other} : IsFile(g) /\ SameAt(file, g, j)
    <3>1. \A j \in {Selector, Other} : j # k /\ Store!MetadataPath(j) # k
      BY <2>1, KeysApart, StoreAssumption
    <3>2. QED
      BY <2>2, <3>1, SetsLeafElsewhere DEF HalvesAre
  <2> HIDE DEF g
  <2>5. HalvesAre(g)
    BY <2>2, <2>4, SameHalves
  <2>6. file' = g
    BY <2>3 DEF g
  <2>7. QED
    BY <2>5, <2>6 DEF HalvesInv, HalvesAre, IsFile, HalfIsATable, LabelsIn
<1>3. QED
  BY <1>1, <1>2 DEF Store!remove, Store!Direct

LEMMA AppendsToBoth ==
  ASSUME NEW frame \in StoreFrames, NEW first \in {Selector, Other}, NEW dropna, HalvesInv,
         Store!append_to_multiple(frame, first, dropna)
  PROVE  HalvesInv'
<1> DEFINE second == IF first = Selector THEN Other ELSE Selector
           rows(k) == Store!PartRows(Store!RowsOf(frame), k, dropna)
           write(f, k) == Store!write_to_group(f, k, Store!Part(frame, k), rows(k), "table",
                                               TRUE, FALSE, "all")
           r == write(file, first)
           s == IF r.ok THEN write(r.file, second) ELSE Store!Refused(r.file)
<1>1. file' = s.file /\ paired' = (paired /\ (s.ok \/ ~ r.landed))
  BY DEF Store!append_to_multiple
<1>2. first \in StoreKeys /\ second \in StoreKeys /\ {first, second} = {Selector, Other}
      /\ first # second
  BY StoreAssumption
<1>3. \A k \in {Selector, Other} : RowsFit(rows(k), Store!Part(frame, k))
  BY PartsFit
<1>4. /\ LabelsOf(rows(first)) = LabelsOf(rows(second))
      /\ rows(first) = <<>> <=> rows(second) = <<>>
  BY <1>2, PartsHaveTheSameLabels
<1> HIDE DEF rows, second, s
<1>5. SUFFICES ASSUME paired, s.ok \/ ~ r.landed
               PROVE  HalvesAre(s.file)
  BY <1>1 DEF HalvesInv, HalvesAre, IsFile, HalfIsATable, LabelsIn
<1>6. HalvesAre(file)
  BY <1>5 DEF HalvesInv
<1>7. /\ IsFile(file) /\ HalfIsATable(file, first) /\ HalfIsATable(file, second)
      /\ LabelsIn(file, first) = LabelsIn(file, second)
  BY <1>2, <1>6 DEF HalvesAre
<1>8. HalfWritten(file, r.file, r.landed, r.ok, first, rows(first))
  BY <1>2, <1>3, <1>7, WritesHalf
<1>9. SameAt(file, r.file, second)
  BY <1>2, <1>7, WritesElsewhere
<1> HIDE DEF r
<1>10. HalfIsATable(r.file, second) /\ LabelsIn(r.file, second) = LabelsIn(file, second)
  BY <1>7, <1>9, SameHalf
<1>11. IsFile(r.file) /\ HalfIsATable(r.file, first)
  BY <1>8 DEF HalfWritten
<1> DEFINE w == write(r.file, second)
<1>12. HalfWritten(r.file, w.file, w.landed, w.ok, second, rows(second))
  BY <1>2, <1>3, <1>10, <1>11, WritesHalf
<1>13. SameAt(r.file, w.file, first)
  BY <1>2, <1>11, WritesElsewhere
<1> HIDE DEF w
<1>14. HalfIsATable(w.file, first) /\ LabelsIn(w.file, first) = LabelsIn(r.file, first)
  BY <1>11, <1>13, SameHalf
<1>15. s = IF r.ok THEN w ELSE Store!Refused(r.file)
  BY DEF s, w
<1>16. /\ IsFile(s.file) /\ HalfIsATable(s.file, first) /\ HalfIsATable(s.file, second)
       /\ LabelsIn(s.file, first) = LabelsIn(s.file, second)
  <2>1. CASE r.ok /\ r.landed
    <3>1. s = w /\ s.ok
      BY <1>5, <1>15, <2>1
    <3>2. w.landed
      BY <1>4, <1>8, <1>12, <2>1, <3>1 DEF HalfWritten
    <3>3. QED
      BY <1>4, <1>7, <1>8, <1>10, <1>12, <1>14, <2>1, <3>1, <3>2 DEF HalfWritten
  <2>2. CASE r.ok /\ ~ r.landed
    <3>1. s = w
      BY <1>15, <2>2
    <3>2. ~ w.landed
      BY <1>4, <1>8, <1>12, <2>2 DEF HalfWritten
    <3>3. QED
      BY <1>7, <1>8, <1>10, <1>12, <1>14, <2>2, <3>1, <3>2 DEF HalfWritten
  <2>3. CASE ~ r.ok
    <3>1. s.file = r.file /\ ~ s.ok
      BY <1>15, <2>3 DEF Store!Refused
    <3>2. QED
      BY <1>5, <1>7, <1>8, <1>10, <1>11, <3>1 DEF HalfWritten
  <2>4. QED
    BY <2>1, <2>2, <2>3
<1>17. QED
  BY <1>2, <1>16 DEF HalvesAre

LEMMA HalvesStayMatched ==
  ASSUME HalvesInv, [Store!Next]_store_vars
  PROVE  HalvesInv'
<1>1. ASSUME NEW k \in StoreKeys, NEW frame \in StoreFrames, NEW by, NEW format,
             Store!put(k, frame, format, by)
      PROVE  HalvesInv'
  BY <1>1, PutsElsewhere
<1>2. ASSUME NEW k \in StoreKeys, NEW frame \in StoreFrames, NEW by, NEW format, NEW dropna,
             Store!append(k, frame, format, dropna, by)
      PROVE  HalvesInv'
  BY <1>2, AppendsElsewhere
<1>3. ASSUME NEW frame \in StoreFrames, NEW first \in {Selector, Other}, NEW dropna,
             Store!append_to_multiple(frame, first, dropna)
      PROVE  HalvesInv'
  BY <1>3, AppendsToBoth
<1>4. ASSUME NEW k \in StoreKeys, NEW where, NEW span, Store!remove(k, where, span)
      PROVE  HalvesInv'
  BY <1>4, RemovesElsewhere
<1>5. CASE UNCHANGED <<file, paired>>
  BY <1>5 DEF HalvesInv, HalvesAre, IsFile, HalfIsATable, LabelsIn, Store!read_metadata
<1>6. ASSUME NEW m, Store!open(m)
      PROVE  HalvesInv'
  <2>1. CASE m = "w"
    <3>1. file' = [p \in {} |-> Store!None]
      BY <1>6, <2>1 DEF Store!open
    <3>2. HalvesAre([p \in {} |-> Store!None])
      BY EmptyHasHalves
    <3>3. QED
      BY <3>1, <3>2 DEF HalvesInv, HalvesAre, IsFile, HalfIsATable, LabelsIn
  <2>2. CASE m # "w"
    <3>1. UNCHANGED <<file, paired>>
      BY <1>6, <2>2 DEF Store!open
    <3>2. QED
      BY <1>5, <3>1
  <2>3. QED
    BY <2>1, <2>2
<1>7. ASSUME NEW k, NEW where, NEW span, NEW size,
             Store!select_in_chunks(k, where, span, size)
      PROVE  HalvesInv'
  BY <1>5, <1>7 DEF Store!select_in_chunks
<1>8. CASE Store!next_chunk \/ Store!drop_chunks \/ Store!close
  BY <1>5, <1>8 DEF Store!next_chunk, Store!drop_chunks, Store!close
<1>9. CASE UNCHANGED store_vars
  BY <1>5, <1>9 DEF store_vars
<1>10. QED
  BY <1>1, <1>2, <1>3, <1>4, <1>6, <1>7, <1>8, <1>9 DEF Store!Next

LEMMA FacadeStoresKeep ==
  ASSUME [FacadeNext]_<<part, vars, option_vars, mean_vars, store_vars, label_vars>>
  PROVE  [Store!Next]_store_vars
BY DEF FacadeNext, StateNext, LabelNext

(***************************************************************************)
(* append_to_multiple: whatever calls are made on this store, and whichever*)
(* of them are refused, two tables that only whole calls of it wrote hold  *)
(* the same rows, so that select_as_multiple joins like with like.         *)
(***************************************************************************)
THEOREM HalvesAlwaysMatch == FacadeSpec => []HalvesMatch
<1>1. FacadeInit => HalvesInv
  <2>1. SUFFICES ASSUME Store!Init PROVE HalvesInv
    BY DEF FacadeInit
  <2>2. file = [p \in {} |-> Store!None]
    BY <2>1 DEF Store!Init
  <2>3. QED
    BY <2>2, EmptyHasHalves DEF HalvesInv
<1>2. HalvesInv /\ [FacadeNext]_<<part, vars, option_vars, mean_vars, store_vars, label_vars>>
        => HalvesInv'
  BY FacadeStoresKeep, HalvesStayMatched
<1>3. HalvesInv => HalvesMatch
  BY HalvesAreMatched
<1>4. QED
  BY <1>1, <1>2, <1>3, PTL DEF FacadeSpec
-----------------------------------------------------------------------------
(***************************************************************************)
(* The mean.  A call starts from the last row shown and the weight before  *)
(* it, so a run over the next rows goes through the averages and weights   *)
(* that one run over all of the rows goes through.  How many rows it has   *)
(* seen differs, and only whether there was one is told by what is shown.  *)
(***************************************************************************)
\* r is what a run over the first n rows goes through.
Goes(w, weight, rows, n, r) ==
  r = [i \in 1 .. n |-> IF i = 1 THEN Mean!Start(weight, rows[1])
                        ELSE Mean!Row(w, r[i - 1], rows[i])]

\* However many rows there are, a run goes through them.
LEMMA RunGoes ==
  ASSUME NEW w, NEW weight, NEW rows, Len(rows) \in Nat
  PROVE  Goes(w, weight, rows, Len(rows), Mean!Run(w, weight, rows))
<1> DEFINE K == {n \in Nat : \E r : Goes(w, weight, rows, n, r)}
<1>1. 0 \in K
  <2>1. Goes(w, weight, rows, 0, [i \in 1 .. 0 |-> Mean!Gap])
    BY DEF Goes
  <2>2. QED
    BY <2>1
<1>2. \A k \in Nat : k \in K => k + 1 \in K
  <2>1. SUFFICES ASSUME NEW k \in Nat, k \in K
                 PROVE  \E r : Goes(w, weight, rows, k + 1, r)
    OBVIOUS
  <2>2. PICK r : Goes(w, weight, rows, k, r)
    BY <2>1
  <2> DEFINE longer == [i \in 1 .. k + 1 |->
                          IF i = 1 THEN Mean!Start(weight, rows[1])
                          ELSE Mean!Row(w, r[i - 1], rows[i])]
  <2>3. \A i \in 1 .. k : longer[i] = r[i]
    BY <2>2 DEF Goes
  <2>4. \A i \in 1 .. k + 1 : i # 1 => i - 1 \in 1 .. k
    OBVIOUS
  <2>5. longer = [i \in 1 .. k + 1 |->
                    IF i = 1 THEN Mean!Start(weight, rows[1])
                    ELSE Mean!Row(w, longer[i - 1], rows[i])]
    BY <2>3, <2>4
  <2>6. Goes(w, weight, rows, k + 1, longer)
    BY <2>5 DEF Goes
  <2>7. QED
    BY <2>6
<1> HIDE DEF K
<1>3. Len(rows) \in K
  BY <1>1, <1>2, AllNaturals
<1>4. QED
  BY <1>3 DEF K, Goes, Mean!Run

\* The same, row by row.
LEMMA RunIs ==
  ASSUME NEW w, NEW weight, NEW rows, Len(rows) \in Nat
  PROVE  /\ DOMAIN Mean!Run(w, weight, rows) = 1 .. Len(rows)
         /\ 1 <= Len(rows) => Mean!Run(w, weight, rows)[1] = Mean!Start(weight, rows[1])
         /\ \A i \in 1 .. Len(rows) : i + 1 <= Len(rows) =>
              Mean!Run(w, weight, rows)[i + 1]
                = Mean!Row(w, Mean!Run(w, weight, rows)[i], rows[i + 1])
<1> DEFINE r == Mean!Run(w, weight, rows)
<1>1. Goes(w, weight, rows, Len(rows), r)
  BY RunGoes
<1> HIDE DEF r
<1>2. DOMAIN r = 1 .. Len(rows)
  BY <1>1 DEF Goes
<1>3. \A i \in 1 .. Len(rows) :
        r[i] = IF i = 1 THEN Mean!Start(weight, rows[1])
               ELSE Mean!Row(w, r[i - 1], rows[i])
  BY <1>1 DEF Goes
<1>4. ASSUME NEW i \in 1 .. Len(rows), i + 1 <= Len(rows)
      PROVE  r[i + 1] = Mean!Row(w, r[i], rows[i + 1])
  <2>1. i + 1 \in 1 .. Len(rows) /\ i + 1 # 1 /\ (i + 1) - 1 = i
    BY <1>4
  <2>2. QED
    BY <1>3, <2>1
<1>5. QED
  BY <1>2, <1>3, <1>4 DEF r

\* What the states of a run have in common: there is a mean once a row that
\* is no gap has been seen.
Good(s) == /\ s = [average |-> s.average, weight |-> s.weight, seen |-> s.seen]
           /\ s.seen \in Nat
           /\ s.seen >= 1 <=> s.average # Mean!Gap

Alike(s, t) == s.average = t.average /\ s.weight = t.weight

LEMMA BlendIsAMean ==
  ASSUME NEW w, NEW weight, NEW average, NEW x
  PROVE  Mean!Blend(w, weight, average, x) # Mean!Gap
<1>1. \A n, d : Mean!Ratio(n, d) # Mean!Gap
  BY DEF Mean!Ratio, Mean!Gap
<1>2. QED
  BY <1>1 DEF Mean!Blend

LEMMA StartIsGood ==
  ASSUME NEW weight, NEW x
  PROVE  Good(Mean!Start(weight, x))
BY DEF Good, Mean!Start

LEMMA RowIsGood ==
  ASSUME NEW w, NEW s, NEW x, Good(s)
  PROVE  Good(Mean!Row(w, s, x))
<1>1. CASE s.average = Mean!Gap
  <2>1. CASE x = Mean!Gap
    BY <1>1, <2>1 DEF Mean!Row
  <2>2. CASE x # Mean!Gap
    <3>1. Mean!Row(w, s, x) = [s EXCEPT !.average = x, !.seen = @ + 1]
      BY <1>1, <2>2 DEF Mean!Row
    <3>2. Mean!Row(w, s, x) = [average |-> x, weight |-> s.weight, seen |-> s.seen + 1]
      BY <3>1 DEF Good
    <3>3. QED
      BY <2>2, <3>2 DEF Good
  <2>3. QED
    BY <2>1, <2>2
<1>2. CASE s.average # Mean!Gap /\ x = Mean!Gap
  BY <1>2 DEF Good, Mean!Row
<1>3. CASE s.average # Mean!Gap /\ x # Mean!Gap
  BY <1>3, BlendIsAMean DEF Good, Mean!Row
<1>4. QED
  BY <1>1, <1>2, <1>3

\* A row takes states that are alike to states that are alike.
LEMMA RowKeepsAlike ==
  ASSUME NEW w, NEW s, NEW t, NEW x, Good(s), Good(t), Alike(s, t)
  PROVE  Alike(Mean!Row(w, s, x), Mean!Row(w, t, x))
<1>1. CASE s.average = Mean!Gap
  BY <1>1 DEF Good, Alike, Mean!Row
<1>2. CASE s.average # Mean!Gap /\ x = Mean!Gap
  BY <1>2 DEF Good, Alike, Mean!Row
<1>3. CASE s.average # Mean!Gap /\ x # Mean!Gap
  BY <1>3 DEF Good, Alike, Mean!Row
<1>4. QED
  BY <1>1, <1>2, <1>3

\* So long as one row is enough, the mean of a state is what it shows.
LEMMA GoodShowsItsMean ==
  ASSUME NEW w, w.least \in Nat, w.least <= 1, NEW s, Good(s)
  PROVE  Mean!Shown(w, s) = s.average
BY DEF Good, Mean!Shown, Mean!Gap

LEMMA RunsAreGood ==
  ASSUME NEW w, NEW weight, NEW rows, Len(rows) \in Nat
  PROVE  \A i \in 1 .. Len(rows) : Good(Mean!Run(w, weight, rows)[i])
<1> DEFINE r == Mean!Run(w, weight, rows)
           K == {k \in Nat : k + 1 <= Len(rows) => Good(r[k + 1])}
<1>1. /\ 1 <= Len(rows) => r[1] = Mean!Start(weight, rows[1])
      /\ \A i \in 1 .. Len(rows) : i + 1 <= Len(rows) =>
           r[i + 1] = Mean!Row(w, r[i], rows[i + 1])
  BY RunIs
<1> HIDE DEF r
<1>2. 0 \in K
  BY <1>1, StartIsGood
<1>3. \A k \in Nat : k \in K => k + 1 \in K
  <2>1. SUFFICES ASSUME NEW k \in Nat, k \in K, (k + 1) + 1 <= Len(rows)
                 PROVE  Good(r[(k + 1) + 1])
    OBVIOUS
  <2>2. k + 1 \in 1 .. Len(rows) /\ Good(r[k + 1])
    BY <2>1
  <2>3. r[(k + 1) + 1] = Mean!Row(w, r[k + 1], rows[(k + 1) + 1])
    BY <1>1, <2>1, <2>2
  <2>4. QED
    BY <2>2, <2>3, RowIsGood
<1>4. \A k \in Nat : k \in K
  <2> HIDE DEF K
  <2>1. QED
    BY <1>2, <1>3, AllNaturals
<1>5. ASSUME NEW i \in 1 .. Len(rows) PROVE Good(r[i])
  <2>1. i - 1 \in Nat /\ (i - 1) + 1 = i /\ i <= Len(rows)
    OBVIOUS
  <2>2. QED
    BY <1>4, <2>1
<1>6. QED
  BY <1>5 DEF r
-----------------------------------------------------------------------------
\* A run over f and then g begins as the run over f.
LEMMA RunBeginsTheSame ==
  ASSUME NEW w, NEW weight, NEW f, NEW g, IsSequence(f), IsSequence(g)
  PROVE  \A i \in 1 .. Len(f) : Mean!Run(w, weight, f \o g)[i] = Mean!Run(w, weight, f)[i]
<1> DEFINE a == Mean!Run(w, weight, f)
           c == Mean!Run(w, weight, f \o g)
           K == {k \in Nat : k + 1 <= Len(f) => c[k + 1] = a[k + 1]}
<1>1. /\ Len(f) \in Nat /\ Len(g) \in Nat /\ Len(f \o g) = Len(f) + Len(g)
      /\ \A i \in 1 .. Len(f) : (f \o g)[i] = f[i]
  BY SequencesJoin DEF IsSequence
<1>2. /\ 1 <= Len(f) => a[1] = Mean!Start(weight, f[1])
      /\ \A i \in 1 .. Len(f) : i + 1 <= Len(f) => a[i + 1] = Mean!Row(w, a[i], f[i + 1])
  BY <1>1, RunIs
<1>3. /\ 1 <= Len(f) + Len(g) => c[1] = Mean!Start(weight, (f \o g)[1])
      /\ \A i \in 1 .. Len(f) + Len(g) : i + 1 <= Len(f) + Len(g) =>
           c[i + 1] = Mean!Row(w, c[i], (f \o g)[i + 1])
  <2> DEFINE rows == f \o g
  <2>1. Len(rows) \in Nat /\ Len(rows) = Len(f) + Len(g)
    BY <1>1
  <2> HIDE DEF rows
  <2>2. /\ 1 <= Len(rows) => Mean!Run(w, weight, rows)[1] = Mean!Start(weight, rows[1])
        /\ \A i \in 1 .. Len(rows) : i + 1 <= Len(rows) =>
             Mean!Run(w, weight, rows)[i + 1]
               = Mean!Row(w, Mean!Run(w, weight, rows)[i], rows[i + 1])
    BY <2>1, RunIs
  <2>3. c = Mean!Run(w, weight, rows) /\ f \o g = rows
    BY DEF rows
  <2> HIDE DEF c
  <2>4. QED
    BY <2>1, <2>2, <2>3
<1> HIDE DEF a, c
<1>4. 0 \in K
  BY <1>1, <1>2, <1>3
<1>5. \A k \in Nat : k \in K => k + 1 \in K
  <2>1. SUFFICES ASSUME NEW k \in Nat, k \in K, (k + 1) + 1 <= Len(f)
                 PROVE  c[(k + 1) + 1] = a[(k + 1) + 1]
    OBVIOUS
  <2>2. /\ k + 1 \in 1 .. Len(f) /\ (k + 1) + 1 \in 1 .. Len(f)
        /\ k + 1 \in 1 .. Len(f) + Len(g) /\ (k + 1) + 1 <= Len(f) + Len(g)
    BY <1>1, <2>1
  <2>3. c[k + 1] = a[k + 1]
    BY <2>1, <2>2
  <2>4. QED
    BY <1>1, <1>2, <1>3, <2>1, <2>2, <2>3
<1>6. \A k \in Nat : k \in K
  <2> HIDE DEF K
  <2>1. QED
    BY <1>4, <1>5, AllNaturals
<1>7. ASSUME NEW i \in 1 .. Len(f) PROVE c[i] = a[i]
  <2>1. i - 1 \in Nat /\ (i - 1) + 1 = i /\ i <= Len(f)
    BY <1>1
  <2>2. QED
    BY <1>6, <2>1
<1>8. QED
  BY <1>7 DEF a, c

LEMMA OneBefore ==
  ASSUME NEW x, NEW g, IsSequence(g)
  PROVE  /\ Len(<<x>> \o g) = 1 + Len(g)
         /\ (<<x>> \o g)[1] = x
         /\ \A i \in 1 .. Len(g) : (<<x>> \o g)[1 + i] = g[i]
<1> DEFINE one == <<x>>
<1>1. IsSequence(one) /\ Len(one) = 1 /\ one[1] = x
  BY DEF IsSequence
<1> HIDE DEF one
<1>2. /\ Len(one \o g) = Len(one) + Len(g)
      /\ \A i \in 1 .. Len(one) : (one \o g)[i] = one[i]
      /\ \A i \in 1 .. Len(g) : (one \o g)[Len(one) + i] = g[i]
  <2>1. IsSequence(one)
    BY <1>1
  <2>2. QED
    BY <2>1, SequencesJoin
<1>3. QED
  BY <1>1, <1>2 DEF one

\* A run from where the run over f stopped goes on as one over f and then g.
LEMMA RunCarriesOn ==
  ASSUME NEW w, NEW weight, NEW f, NEW g, IsSequence(f), IsSequence(g), 1 <= Len(f),
         NEW s, s = Mean!Run(w, weight, f)[Len(f)]
  PROVE  \A j \in 1 .. Len(g) + 1 :
           Alike(Mean!Run(w, s.weight, <<s.average>> \o g)[j],
                 Mean!Run(w, weight, f \o g)[Len(f) + j - 1])
<1> DEFINE b == Mean!Run(w, s.weight, <<s.average>> \o g)
           c == Mean!Run(w, weight, f \o g)
           n == Len(f)
           K == {k \in Nat : k + 1 <= Len(g) + 1 => Alike(b[k + 1], c[n + k])}
<1>1. /\ n \in Nat /\ Len(g) \in Nat /\ Len(f \o g) = n + Len(g)
      /\ \A i \in 1 .. Len(g) : (f \o g)[n + i] = g[i]
  BY SequencesJoin DEF IsSequence
<1>3. /\ Len(<<s.average>> \o g) = 1 + Len(g)
      /\ (<<s.average>> \o g)[1] = s.average
      /\ \A i \in 1 .. Len(g) : (<<s.average>> \o g)[1 + i] = g[i]
  BY OneBefore
<1>4. /\ b[1] = Mean!Start(s.weight, s.average)
      /\ \A i \in 1 .. Len(g) : b[i + 1] = Mean!Row(w, b[i], g[i])
      /\ \A i \in 1 .. Len(g) + 1 : Good(b[i])
  <2> DEFINE rows == <<s.average>> \o g
  <2>1. Len(rows) \in Nat /\ Len(rows) = Len(g) + 1
    BY <1>1, <1>3
  <2>2. rows[1] = s.average /\ \A i \in 1 .. Len(g) : rows[i + 1] = g[i]
    BY <1>1, <1>3
  <2> HIDE DEF rows
  <2>3. /\ 1 <= Len(rows) => Mean!Run(w, s.weight, rows)[1] = Mean!Start(s.weight, rows[1])
        /\ \A i \in 1 .. Len(rows) : i + 1 <= Len(rows) =>
             Mean!Run(w, s.weight, rows)[i + 1]
               = Mean!Row(w, Mean!Run(w, s.weight, rows)[i], rows[i + 1])
        /\ \A i \in 1 .. Len(rows) : Good(Mean!Run(w, s.weight, rows)[i])
    BY <2>1, RunIs, RunsAreGood
  <2>4. b = Mean!Run(w, s.weight, rows)
    BY DEF rows
  <2> HIDE DEF b
  <2>5. QED
    BY <1>1, <2>1, <2>2, <2>3, <2>4
<1>5. /\ c[n] = s
      /\ \A i \in 1 .. Len(g) : c[n + i] = Mean!Row(w, c[n + i - 1], g[i])
      /\ \A i \in 1 .. n + Len(g) : Good(c[i])
  <2>1. c[n] = s
    BY <1>1, RunBeginsTheSame
  <2> DEFINE rows == f \o g
  <2>2. Len(rows) \in Nat /\ Len(rows) = n + Len(g)
    BY <1>1
  <2>3. \A i \in 1 .. Len(g) : rows[n + i] = g[i]
    BY <1>1
  <2> HIDE DEF rows
  <2>4. /\ \A i \in 1 .. Len(rows) : i + 1 <= Len(rows) =>
             Mean!Run(w, weight, rows)[i + 1]
               = Mean!Row(w, Mean!Run(w, weight, rows)[i], rows[i + 1])
        /\ \A i \in 1 .. Len(rows) : Good(Mean!Run(w, weight, rows)[i])
    BY <2>2, RunIs, RunsAreGood
  <2>5. c = Mean!Run(w, weight, rows)
    BY DEF rows
  <2> HIDE DEF c
  <2>6. ASSUME NEW i \in 1 .. Len(g) PROVE c[n + i] = Mean!Row(w, c[n + i - 1], g[i])
    <3>1. n + i - 1 \in 1 .. Len(rows) /\ (n + i - 1) + 1 = n + i /\ n + i <= Len(rows)
      BY <1>1, <2>2
    <3>2. QED
      BY <2>3, <2>4, <2>5, <3>1
  <2>7. QED
    BY <2>1, <2>2, <2>4, <2>5, <2>6
<1> HIDE DEF b, c
<1>6. 0 \in K
  BY <1>1, <1>4, <1>5 DEF Alike, Mean!Start
<1>7. \A k \in Nat : k \in K => k + 1 \in K
  <2>1. SUFFICES ASSUME NEW k \in Nat, k \in K, (k + 1) + 1 <= Len(g) + 1
                 PROVE  Alike(b[(k + 1) + 1], c[n + (k + 1)])
    <3>1. ASSUME NEW k \in Nat,
                 (k + 1) + 1 <= Len(g) + 1 => Alike(b[(k + 1) + 1], c[n + (k + 1)])
          PROVE  k + 1 \in K
      BY <3>1
    <3> HIDE DEF K
    <3>2. QED
      BY <3>1
  <2>2. /\ k + 1 \in 1 .. Len(g) /\ k + 1 \in 1 .. Len(g) + 1
        /\ n + k \in 1 .. n + Len(g) /\ n + (k + 1) - 1 = n + k
    BY <1>1, <2>1
  <2>3. Alike(b[k + 1], c[n + k]) /\ Good(b[k + 1]) /\ Good(c[n + k])
    BY <1>4, <1>5, <2>1, <2>2
  <2>4. /\ b[(k + 1) + 1] = Mean!Row(w, b[k + 1], g[k + 1])
        /\ c[n + (k + 1)] = Mean!Row(w, c[n + k], g[k + 1])
    BY <1>4, <1>5, <2>2
  <2>5. QED
    BY <2>3, <2>4, RowKeepsAlike
<1>8. \A k \in Nat : k \in K
  <2> HIDE DEF K
  <2>1. QED
    BY <1>6, <1>7, AllNaturals
<1>9. ASSUME NEW j \in 1 .. Len(g) + 1 PROVE Alike(b[j], c[n + j - 1])
  <2>1. j - 1 \in Nat /\ (j - 1) + 1 = j /\ n + (j - 1) = n + j - 1 /\ j <= Len(g) + 1
    BY <1>1
  <2>2. QED
    BY <1>8, <2>1
<1>10. QED
  BY <1>9 DEF b, c
-----------------------------------------------------------------------------
\* As long as mean() is not asked twice, a window that needs no second row to
\* show one keeps the average and the weight that one run would end on.
MeanInv ==
  /\ IsSequence(fed) /\ window.least \in Nat
  /\ fed = <<>> <=> last = <<>>
  /\ fed = <<>> => old_weight = Mean!One
  /\ Mean!Uncut =>
       LET s == Mean!Run(window, Mean!One, fed)[Len(fed)]
       IN  last = <<s.average>> /\ old_weight = s.weight
  /\ Mean!CutsAgree

\* What a call answers for the rows it runs over, all of them or all but the
\* first.
LEMMA AnswerIs ==
  ASSUME NEW rows, NEW skip \in 0 .. 1, IsSequence(rows), 1 <= Len(rows),
         Mean!Answer(rows, skip), NEW r, r = Mean!Run(window, old_weight, rows)
  PROVE  /\ old_weight' = r[Len(rows)].weight
         /\ last' = <<Mean!Shown(window, r[Len(rows)])>>
         /\ Len(shown') = Len(rows) - skip /\ DOMAIN shown' = 1 .. Len(rows) - skip
         /\ \A i \in 1 .. Len(rows) - skip : shown'[i] = Mean!Shown(window, r[i + skip])
         /\ window' = window
<1>1. Len(rows) \in Nat
  BY DEF IsSequence
<1>2. DOMAIN r = 1 .. Len(rows) /\ Len(r) = Len(rows)
  <2>1. Goes(window, old_weight, rows, Len(rows), r)
    BY <1>1, RunGoes
  <2>2. QED
    BY <1>1, <2>1 DEF Goes
<1> DEFINE result == [i \in 1 .. Len(rows) |-> Mean!Shown(window, r[i])]
<1>3. Len(result) = Len(rows) /\ result[Len(rows)] = Mean!Shown(window, r[Len(rows)])
  BY <1>1
<1>4. /\ old_weight' = r[Len(rows)].weight
      /\ last' = <<result[Len(rows)]>>
      /\ shown' = SubSeq(result, skip + 1, Len(rows))
      /\ window' = window
  BY <1>2, <1>3 DEF Mean!Answer, Mean!Last
<1>5. /\ Len(shown') = Len(rows) - skip /\ DOMAIN shown' = 1 .. Len(rows) - skip
      /\ \A i \in 1 .. Len(rows) - skip : shown'[i] = result[i + skip]
  <2> DEFINE S == {result[i] : i \in 1 .. Len(rows)}
  <2>1. result \in Seq(S)
    BY <1>1
  <2> HIDE DEF result, S
  <2>2. QED
    BY <1>1, <1>3, <1>4, <2>1
<1>6. ASSUME NEW i \in 1 .. Len(rows) - skip
      PROVE  shown'[i] = Mean!Shown(window, r[i + skip])
  <2>1. i + skip \in 1 .. Len(rows)
    BY <1>1
  <2>2. result[i + skip] = Mean!Shown(window, r[i + skip])
    BY <2>1
  <2> HIDE DEF result
  <2>3. QED
    BY <1>5, <2>2
<1> HIDE DEF result
<1>7. QED
  BY <1>3, <1>4, <1>5, <1>6

LEMMA MeanInvHoldsAtFirst == Mean!Init => MeanInv
<1>1. IsSequence(<<>>)
  BY DEF IsSequence
<1>2. QED
  BY <1>1, MeanAssumption DEF Mean!Init, MeanInv, Mean!Uncut, Mean!CutsAgree

\* The first call runs over the rows fed.
LEMMA FirstMeanKeeps ==
  ASSUME NEW rows, IsSequence(rows), 1 <= Len(rows), rows # <<>>, MeanInv, Mean!Mean(rows)
  PROVE  MeanInv'
<1> DEFINE r == Mean!Run(window, old_weight, rows)
<1>1. /\ old_weight' = r[Len(rows)].weight
      /\ last' = <<Mean!Shown(window, r[Len(rows)])>>
      /\ Len(shown') = Len(rows) /\ DOMAIN shown' = 1 .. Len(rows)
      /\ \A i \in 1 .. Len(rows) : shown'[i] = Mean!Shown(window, r[i])
      /\ window' = window
  <2>1. Mean!Answer(rows, 0) /\ Len(rows) \in Nat
    BY DEF Mean!Mean, IsSequence
  <2>2. QED
    BY <2>1, AnswerIs
<1>2. fed' = fed \o rows /\ again' = (last # <<>>) /\ IsSequence(fed) /\ Len(rows) \in Nat
  BY DEF Mean!Mean, MeanInv, IsSequence
<1>3. IsSequence(fed') /\ fed' # <<>>
  <2>1. IsSequence(fed \o rows) /\ Len(fed \o rows) = Len(fed) + Len(rows)
    BY <1>2, SequencesJoin
  <2>2. Len(fed) \in Nat
    BY <1>2 DEF IsSequence
  <2>3. QED
    BY <1>2, <2>1, <2>2
<1>4. window'.least \in Nat
  BY <1>1 DEF MeanInv
<1>5. ASSUME Mean!Uncut'
      PROVE  /\ fed' = rows /\ old_weight = Mean!One
             /\ last' = <<r[Len(rows)].average>>
  <2>1. last = <<>> /\ window.least <= 1 /\ window.least \in Nat
    BY <1>1, <1>2, <1>5 DEF Mean!Uncut, MeanInv
  <2>2. fed = <<>> /\ old_weight = Mean!One
    BY <2>1 DEF MeanInv
  <2>3. <<>> \o rows = rows
    BY DEF IsSequence
  <2>4. Good(r[Len(rows)])
    BY <1>2, RunsAreGood
  <2>5. QED
    BY <1>1, <1>2, <2>1, <2>2, <2>3, <2>4, GoodShowsItsMean
<1>6. ASSUME Mean!Uncut'
      PROVE  r = Mean!Run(window', Mean!One, fed') /\ Len(fed') = Len(rows)
  BY <1>1, <1>5, <1>6
<1> HIDE DEF r
<1>7. Mean!CutsAgree'
  BY <1>1, <1>2, <1>6 DEF Mean!CutsAgree, Mean!Place
<1>8. QED
  BY <1>1, <1>3, <1>4, <1>5, <1>6, <1>7 DEF MeanInv

\* A later one goes on from the last row shown.
LEMMA UpdateKeeps ==
  ASSUME NEW rows, IsSequence(rows), MeanInv, Mean!Update(rows)
  PROVE  MeanInv'
<1> DEFINE before == last \o rows
           b == Mean!Run(window, old_weight, before)
           n == Len(fed)
           every == fed \o rows
           whole == Mean!Run(window, Mean!One, every)
<1>1. /\ last # <<>> /\ Mean!Answer(before, 1)
      /\ fed' = every /\ again' = again
  BY DEF Mean!Update
<1>2. /\ n \in Nat /\ Len(rows) \in Nat /\ IsSequence(fed) /\ window.least \in Nat
      /\ fed # <<>> /\ 1 <= n
  BY <1>1 DEF MeanInv, IsSequence
<1>3. IsSequence(every) /\ Len(every) = n + Len(rows) /\ every # <<>>
  <2>1. IsSequence(every) /\ Len(every) = n + Len(rows)
    BY <1>2, SequencesJoin
  <2>2. QED
    BY <1>2, <2>1
<1>4. window' = window /\ last' # <<>>
  BY <1>1 DEF Mean!Answer
<1>5. ASSUME Mean!Uncut'
      PROVE  /\ last' = <<whole[n + Len(rows)].average>>
             /\ old_weight' = whole[n + Len(rows)].weight
             /\ Len(shown') = Len(rows) /\ DOMAIN shown' = 1 .. Len(rows)
             /\ \A i \in 1 .. Len(rows) : shown'[i] = Mean!Shown(window, whole[n + i])
  <2> DEFINE s == Mean!Run(window, Mean!One, fed)[n]
  <2>1. Mean!Uncut /\ window.least <= 1
    BY <1>1, <1>2, <1>4, <1>5 DEF Mean!Uncut
  <2>2. last = <<s.average>> /\ old_weight = s.weight
    BY <2>1 DEF MeanInv
  <2>3. \A j \in 1 .. Len(rows) + 1 : Alike(b[j], whole[n + j - 1])
    BY <1>2, <2>2, RunCarriesOn
  <2> HIDE DEF s
  <2>4. /\ IsSequence(before) /\ Len(before) = 1 + Len(rows) /\ 1 <= Len(before)
        /\ Len(before) \in Nat
    <3>1. IsSequence(last)
      BY <2>2 DEF IsSequence
    <3>2. IsSequence(before)
      BY <3>1, SequencesJoin
    <3>3. Len(before) = 1 + Len(rows)
      BY <2>2, OneBefore
    <3>4. QED
      BY <1>2, <3>2, <3>3
  <2> HIDE DEF before, every
  <2>5. \A j \in 1 .. Len(rows) + 1 : Good(b[j])
    <3>1. \A j \in 1 .. Len(before) : Good(b[j])
      BY <2>4, RunsAreGood
    <3>2. QED
      BY <1>2, <2>4, <3>1
  <2>6. \A j \in 1 .. n + Len(rows) : Good(whole[j])
    <3>1. Len(every) \in Nat
      BY <1>2, <1>3
    <3>2. \A j \in 1 .. Len(every) : Good(whole[j])
      BY <3>1, RunsAreGood
    <3>3. QED
      BY <1>3, <3>2
  <2>7. /\ old_weight' = b[Len(before)].weight
        /\ last' = <<Mean!Shown(window, b[Len(before)])>>
        /\ Len(shown') = Len(before) - 1 /\ DOMAIN shown' = 1 .. Len(before) - 1
        /\ \A i \in 1 .. Len(before) - 1 : shown'[i] = Mean!Shown(window, b[i + 1])
    BY <1>1, <2>4, AnswerIs
  <2> HIDE DEF b, whole
  <2>8. ASSUME NEW j \in 1 .. Len(rows) + 1
        PROVE  /\ Mean!Shown(window, b[j]) = whole[n + j - 1].average
               /\ Mean!Shown(window, b[j]) = Mean!Shown(window, whole[n + j - 1])
               /\ b[j].weight = whole[n + j - 1].weight
    <3>1. n + j - 1 \in 1 .. n + Len(rows)
      BY <1>2
    <3>2. Good(b[j]) /\ Good(whole[n + j - 1]) /\ Alike(b[j], whole[n + j - 1])
      BY <2>3, <2>5, <2>6, <3>1
    <3>3. Mean!Shown(window, b[j]) = b[j].average
      BY <1>2, <2>1, <3>2, GoodShowsItsMean
    <3>4. Mean!Shown(window, whole[n + j - 1]) = whole[n + j - 1].average
      BY <1>2, <2>1, <3>2, GoodShowsItsMean
    <3>5. QED
      BY <3>2, <3>3, <3>4 DEF Alike
  <2>9. Len(rows) + 1 \in 1 .. Len(rows) + 1 /\ n + (Len(rows) + 1) - 1 = n + Len(rows)
    BY <1>2
  <2>10. ASSUME NEW i \in 1 .. Len(rows)
         PROVE  shown'[i] = Mean!Shown(window, whole[n + i])
    <3>1. i + 1 \in 1 .. Len(rows) + 1 /\ n + (i + 1) - 1 = n + i
      BY <1>2
    <3>2. Mean!Shown(window, b[i + 1]) = Mean!Shown(window, whole[n + (i + 1) - 1])
      BY <2>8, <3>1
    <3>3. i \in 1 .. Len(before) - 1
      BY <1>2, <2>4
    <3>4. shown'[i] = Mean!Shown(window, b[i + 1])
      BY <2>7, <3>3
    <3>5. QED
      BY <3>1, <3>2, <3>4
  <2>11. QED
    BY <1>2, <2>4, <2>7, <2>8, <2>9, <2>10
<1>6. whole = Mean!Run(window', Mean!One, fed')
  BY <1>1, <1>4
<1> HIDE DEF whole, before, b, every
<1>7. Mean!CutsAgree'
  <2>1. SUFFICES ASSUME Mean!Uncut', NEW i \in DOMAIN shown'
                 PROVE  shown'[i] = Mean!Shown(window', whole[Len(fed') - Len(shown') + i])
    BY <1>6 DEF Mean!CutsAgree, Mean!Place
  <2>2. i \in 1 .. Len(rows) /\ Len(fed') - Len(shown') + i = n + i
    <3>1. Len(fed') = n + Len(rows)
      BY <1>1, <1>3
    <3>2. Len(shown') = Len(rows) /\ DOMAIN shown' = 1 .. Len(rows)
      BY <1>5, <2>1
    <3> HIDE DEF n
    <3>3. QED
      BY <1>2, <2>1, <3>1, <3>2
  <2>3. QED
    BY <1>4, <1>5, <2>1, <2>2
<1>8. QED
  BY <1>1, <1>2, <1>3, <1>4, <1>5, <1>6, <1>7 DEF MeanInv

LEMMA MeanInvIsKept ==
  MeanInv /\ [Mean!Next]_mean_vars => MeanInv'
<1>1. SUFFICES ASSUME MeanInv, [Mean!Next]_mean_vars PROVE MeanInv'
  OBVIOUS
<1>2. CASE Mean!Next
  <2>1. CASE Mean!Reset
    <3>1. IsSequence(<<>>)
      BY DEF IsSequence
    <3>2. QED
      BY <1>1, <2>1, <3>1 DEF MeanInv, Mean!Reset, Mean!Uncut, Mean!CutsAgree
  <2>2. ASSUME NEW n \in 0 .. MaxRows, NEW rows \in [1 .. n -> Mean!Cells],
               Mean!Mean(rows) \/ Mean!Update(rows)
        PROVE  MeanInv'
    <3>1. IsSequence(rows)
      BY DEF IsSequence
    <3>2. CASE Mean!Mean(rows)
      <4>1. rows # <<>> /\ 1 <= Len(rows)
        BY <3>1, <3>2 DEF Mean!Mean, IsSequence
      <4>2. QED
        BY <1>1, <3>1, <3>2, <4>1, FirstMeanKeeps
    <3>3. CASE Mean!Update(rows)
      BY <1>1, <3>1, <3>3, UpdateKeeps
    <3>4. QED
      BY <2>2, <3>2, <3>3
  <2>3. QED
    BY <1>2, <2>1, <2>2 DEF Mean!Next
<1>3. CASE UNCHANGED mean_vars
  BY <1>1, <1>3 DEF MeanInv, Mean!Uncut, Mean!CutsAgree, Mean!Place, mean_vars
<1>4. QED
  BY <1>1, <1>2, <1>3

\* What a call shows for its rows is what one call over every row fed so far
\* shows for them, however many they are, wherever they were cut and whatever
\* number or gap each holds.
THEOREM MeansCarryOn == FacadeSpec => []CutsAgree
<1>1. FacadeInit => MeanInv
  BY MeanInvHoldsAtFirst DEF FacadeInit
<1>2. [FacadeNext]_<<part, vars, option_vars, mean_vars, store_vars, label_vars>> =>
      [Mean!Next]_mean_vars
  BY DEF FacadeNext, StateNext, LabelNext, mean_vars
<1>3. MeanInv => CutsAgree
  BY DEF MeanInv, CutsAgree
<1>4. QED
  BY <1>1, <1>2, <1>3, MeanInvIsKept, PTL DEF FacadeSpec
-----------------------------------------------------------------------------
(***************************************************************************)
(* Looking labels up.  In an index in order the rows before a label come   *)
(* first, so counting them tells where they end; and the k-th place of a   *)
(* set is the one that k - 1 of them are before.                           *)
(***************************************************************************)
\* Places in order, rising or falling.
Ahead(S, d, x) == {y \in S : IF d = 1 THEN y < x ELSE y > x}

Ranked(S, d) ==
  [k \in 1 .. Cardinality(S) |-> CHOOSE x \in S : Cardinality(Ahead(S, d, x)) = k - 1]

HasRank(S, d, x, k) == k \in 1 .. Cardinality(S) /\ Ranked(S, d)[k] = x

LEMMA SortedIsRanked ==
  ASSUME NEW S
  PROVE  Sorted(S, <) = Ranked(S, 1) /\ Sorted(S, >) = Ranked(S, -1)
BY DEF Sorted, Ranked, Ahead

\* A place that so many are before has the rank after theirs.
LEMMA RankIs ==
  ASSUME NEW n \in Nat, NEW S \in SUBSET (1 .. n), NEW d \in {-1, 1}, NEW x \in S,
         NEW k \in Int, Cardinality(Ahead(S, d, x)) = k - 1
  PROVE  HasRank(S, d, x, k)
<1>1. IsFiniteSet(S) /\ Cardinality(S) \in Nat
  <2>1. IsFiniteSet(1 .. n)
    BY FS_Interval
  <2>2. IsFiniteSet(S)
    BY <2>1, FS_Subset
  <2>3. QED
    BY <2>2, FS_CardinalityType
<1>2. \A z : Ahead(S, d, z) \in SUBSET S
  BY DEF Ahead
<1>3. \A z \in S : z \notin Ahead(S, d, z)
  BY DEF Ahead
<1>4. k \in 1 .. Cardinality(S)
  <2>1. /\ IsFiniteSet(Ahead(S, d, x)) /\ Cardinality(Ahead(S, d, x)) <= Cardinality(S)
        /\ Cardinality(S) = Cardinality(Ahead(S, d, x)) => S = Ahead(S, d, x)
    BY <1>1, <1>2, FS_Subset
  <2>2. Cardinality(Ahead(S, d, x)) \in Nat
    BY <2>1, FS_CardinalityType
  <2>3. Cardinality(S) # Cardinality(Ahead(S, d, x))
    BY <1>3, <2>1
  <2>4. QED
    BY <1>1, <2>1, <2>2, <2>3
<1>5. ASSUME NEW a \in S, NEW b \in S, a \in Ahead(S, d, b)
      PROVE  Cardinality(Ahead(S, d, a)) # Cardinality(Ahead(S, d, b))
  <2>1. Ahead(S, d, a) \subseteq Ahead(S, d, b)
    <3>1. a \in Int /\ b \in Int /\ \A y \in S : y \in Int
      OBVIOUS
    <3>2. ASSUME NEW y \in Ahead(S, d, a) PROVE y \in Ahead(S, d, b)
      BY <1>5, <3>1 DEF Ahead
    <3>3. QED
      BY <3>2
  <2>2. IsFiniteSet(Ahead(S, d, b))
    BY <1>1, <1>2, FS_Subset
  <2>3. a \notin Ahead(S, d, a)
    BY <1>3
  <2>4. QED
    BY <1>5, <2>1, <2>2, <2>3, FS_Subset
<1>6. ASSUME NEW z \in S, Cardinality(Ahead(S, d, z)) = k - 1 PROVE z = x
  <2>1. z \in Ahead(S, d, x) \/ x \in Ahead(S, d, z) \/ z = x
    BY DEF Ahead
  <2>2. QED
    BY <1>5, <1>6, <2>1
<1>7. QED
  BY <1>4, <1>6 DEF Ranked, HasRank

\* The places from one to another in order.
Extent(low, high) == IF high > low THEN high - low ELSE 0

LEMMA IntervalRanked ==
  ASSUME NEW n \in Nat, NEW low \in 0 .. n, NEW high \in 0 .. n, NEW d \in {-1, 1}
  PROVE  Ranked((low + 1) .. high, d) =
           [k \in 1 .. Extent(low, high) |-> IF d = 1 THEN low + k ELSE high + 1 - k]
<1> DEFINE S == (low + 1) .. high
           m == IF high > low THEN high - low ELSE 0
<1>1. Cardinality(S) = m
  <2>1. low + 1 \in Int /\ high \in Int
    OBVIOUS
  <2>2. Cardinality(S) = IF low + 1 > high THEN 0 ELSE high - (low + 1) + 1
    BY <2>1, FS_Interval
  <2>3. QED
    BY <2>2
<1>2. S \in SUBSET (1 .. n) /\ m \in Nat
  OBVIOUS
<1>3. ASSUME NEW k \in 1 .. m
      PROVE  Ranked(S, d)[k] = IF d = 1 THEN low + k ELSE high + 1 - k
  <2> DEFINE x == IF d = 1 THEN low + k ELSE high + 1 - k
             A == Ahead(S, d, x)
  <2>1. x \in S /\ k \in Int
    BY <1>2
  <2>2. Cardinality(A) = k - 1
    <3>1. CASE d = 1
      <4>1. A = (low + 1) .. (low + k - 1)
        BY <1>2, <3>1 DEF Ahead
      <4>2. low + 1 \in Int /\ low + k - 1 \in Int
        BY <1>2
      <4>3. Cardinality((low + 1) .. (low + k - 1))
              = IF low + 1 > low + k - 1 THEN 0 ELSE (low + k - 1) - (low + 1) + 1
        BY <4>2, FS_Interval
      <4> HIDE DEF A
      <4>4. QED
        BY <1>2, <4>1, <4>3
    <3>2. CASE d # 1
      <4>1. A = (high + 2 - k) .. high
        BY <1>2, <3>2 DEF Ahead
      <4>2. high + 2 - k \in Int /\ high \in Int
        BY <1>2
      <4>3. Cardinality((high + 2 - k) .. high)
              = IF high + 2 - k > high THEN 0 ELSE high - (high + 2 - k) + 1
        BY <4>2, FS_Interval
      <4> HIDE DEF A
      <4>4. QED
        BY <1>2, <4>1, <4>3
    <3>3. QED
      BY <3>1, <3>2
  <2> HIDE DEF S, x, m, A
  <2>3. Ranked(S, d)[k] = x
    <3>1. Cardinality(Ahead(S, d, x)) = k - 1
      BY <2>2 DEF A
    <3>2. S \in SUBSET (1 .. n) /\ x \in S /\ k \in Int
      BY <1>2, <2>1
    <3>3. QED
      <4>1. HasRank(S, d, x, k)
        BY <3>1, <3>2, RankIs
      <4>2. QED
        BY <4>1 DEF HasRank
  <2>4. QED
    BY <2>3 DEF x
<1> HIDE DEF S, m
<1>4. Ranked(S, d) = [k \in 1 .. m |-> Ranked(S, d)[k]]
  BY <1>1 DEF Ranked
<1>5. Ranked(S, d) = [k \in 1 .. m |-> IF d = 1 THEN low + k ELSE high + 1 - k]
  BY <1>3, <1>4
<1>6. QED
  BY <1>5 DEF S, m, Extent

\* Places that come before all others are counted off from the first.
LEMMA FirstPlaces ==
  ASSUME NEW n \in Nat, NEW S \in SUBSET (1 .. n),
         \A i \in S : \A j \in 1 .. n : j <= i => j \in S
  PROVE  Cardinality(S) \in 0 .. n /\ S = 1 .. Cardinality(S)
<1>1. CASE S = {}
  <2>1. Cardinality(S) = 0
    BY <1>1, FS_EmptySet
  <2>2. QED
    BY <1>1, <2>1
<1>2. CASE S # {}
  <2>1. Max(S) \in S /\ \A x \in S : x <= Max(S)
    BY <1>2, Ends
  <2> DEFINE final == Max(S)
  <2>2. final \in 1 .. n
    BY <2>1
  <2> HIDE DEF final
  <2>3. S = 1 .. final
    <3>1. S \subseteq 1 .. final
      BY <2>1, <2>2 DEF final
    <3>2. ASSUME NEW j \in 1 .. final PROVE j \in S
      <4>1. j \in 1 .. n /\ j <= final /\ final \in S
        BY <2>1, <2>2 DEF final
      <4>2. QED
        BY <4>1
    <3>3. QED
      BY <3>1, <3>2
  <2>4. Cardinality(1 .. final) = final
    <3>1. Cardinality(1 .. final) = IF 1 > final THEN 0 ELSE final - 1 + 1
      BY <2>2, FS_Interval
    <3>2. QED
      BY <2>2, <3>1
  <2>5. QED
    BY <2>2, <2>3, <2>4
<1>3. QED
  BY <1>1, <1>2

\* The rows before a label, or before it and at it.
RowsAhead(own, label, at) ==
  {i \in DOMAIN own : \/ IF Rises(own) THEN own[i] < label ELSE own[i] > label
                      \/ at /\ own[i] = label}

LEMMA AheadComesFirst ==
  ASSUME NEW own \in Seq(Int), NEW label \in Int, NEW at \in BOOLEAN, Ordered2(own)
  PROVE  /\ Cardinality(RowsAhead(own, label, at)) \in 0 .. Len(own)
         /\ RowsAhead(own, label, at) = 1 .. Cardinality(RowsAhead(own, label, at))
<1> DEFINE S == RowsAhead(own, label, at)
<1>1. Len(own) \in Nat /\ DOMAIN own = 1 .. Len(own) /\ \A i \in DOMAIN own : own[i] \in Int
  OBVIOUS
<1>2. S \in SUBSET (1 .. Len(own))
  BY <1>1 DEF RowsAhead
<1>3. ASSUME NEW i \in S, NEW j \in 1 .. Len(own), j <= i PROVE j \in S
  <2>1. i \in DOMAIN own /\ own[i] \in Int /\ own[j] \in Int
    BY <1>1, <1>2
  <2>2. CASE Rises(own)
    <3>1. own[j] <= own[i]
      BY <1>1, <1>3, <2>1, <2>2, InOrderAcross
    <3>2. own[i] < label \/ (at /\ own[i] = label)
      BY <2>2 DEF RowsAhead
    <3>3. own[j] < label \/ (at /\ own[j] = label)
      BY <2>1, <3>1, <3>2
    <3>4. QED
      BY <1>1, <2>2, <3>3 DEF RowsAhead
  <2>3. CASE ~ Rises(own)
    <3>1. own[j] >= own[i]
      BY <1>1, <1>3, <2>1, <2>3, InOrderAcross DEF Ordered2
    <3>2. own[i] > label \/ (at /\ own[i] = label)
      BY <2>3 DEF RowsAhead
    <3>3. own[j] > label \/ (at /\ own[j] = label)
      BY <2>1, <3>1, <3>2
    <3>4. QED
      BY <1>1, <2>3, <3>3 DEF RowsAhead
  <2>4. QED
    BY <2>2, <2>3
<1> HIDE DEF S
<1>4. Cardinality(S) \in 0 .. Len(own) /\ S = 1 .. Cardinality(S)
  BY <1>1, <1>2, <1>3, FirstPlaces
<1>5. QED
  BY <1>4 DEF S
-----------------------------------------------------------------------------
\* A slice.  The bounds of its labels, whichever way it is walked.
LowBound(own, label) ==
  IF label = Open THEN 0 ELSE Cardinality(RowsAhead(own, label, FALSE))
HighBound(own, label) ==
  IF label = Open THEN Len(own) ELSE Cardinality(RowsAhead(own, label, TRUE))

LEMMA BoundsAreIn ==
  ASSUME NEW own \in Seq(Int), NEW label \in Int, Ordered2(own)
  PROVE  LowBound(own, label) \in 0 .. Len(own) /\ HighBound(own, label) \in 0 .. Len(own)
<1>1. Len(own) \in Nat
  OBVIOUS
<1>2. /\ Cardinality(RowsAhead(own, label, FALSE)) \in 0 .. Len(own)
      /\ Cardinality(RowsAhead(own, label, TRUE)) \in 0 .. Len(own)
  <2>1. TRUE \in BOOLEAN /\ FALSE \in BOOLEAN
    OBVIOUS
  <2>2. QED
    BY <2>1, AheadComesFirst
<1>3. 0 \in 0 .. Len(own) /\ Len(own) \in 0 .. Len(own)
  BY <1>1
<1>4. QED
  BY <1>2, <1>3 DEF LowBound, HighBound

LEMMA SliceLocsAre ==
  ASSUME NEW own \in Seq(Int), NEW start \in Int, NEW end \in Int, Ordered2(own)
  PROVE  /\ SliceLocs(own, start, end, TRUE) = <<LowBound(own, start), HighBound(own, end)>>
         /\ SliceLocs(own, start, end, FALSE) =
              <<Wrapped(HighBound(own, start) - 1, Len(own)),
                Wrapped(LowBound(own, end) - 1, Len(own))>>
<1>1. ASSUME NEW label \in Int
      PROVE  /\ SliceBound(own, label, "left") = Cardinality(RowsAhead(own, label, FALSE))
             /\ SliceBound(own, label, "right") = Cardinality(RowsAhead(own, label, TRUE))
  BY DEF SliceBound, RowsAhead
<1>2. ASSUME NEW label \in Int
      PROVE  /\ LowBound(own, label)
                  = IF label = Open THEN 0 ELSE SliceBound(own, label, "left")
             /\ HighBound(own, label)
                  = IF label = Open THEN Len(own) ELSE SliceBound(own, label, "right")
  BY <1>1 DEF LowBound, HighBound
<1>3. \A a, b \in 0 .. Len(own) : Nowhere \notin ToSet(<<a, b>>)
  BY DEF ToSet, Nowhere
<1>4. /\ Nowhere \notin ToSet(<<LowBound(own, start), HighBound(own, end)>>)
      /\ Nowhere \notin ToSet(<<LowBound(own, end), HighBound(own, start)>>)
  BY <1>3, BoundsAreIn
<1>5. SliceLocs(own, start, end, TRUE) = <<LowBound(own, start), HighBound(own, end)>>
  BY <1>2, <1>4 DEF SliceLocs
<1>6. SliceLocs(own, start, end, FALSE) =
        <<Wrapped(HighBound(own, start) - 1, Len(own)),
          Wrapped(LowBound(own, end) - 1, Len(own))>>
  BY <1>2, <1>4 DEF SliceLocs
<1>7. QED
  BY <1>5, <1>6

\* The rows from one label to another of an index in order.
Between2(own, from, to) ==
  {i \in DOMAIN own :
     /\ from = Open \/ (IF Rises(own) THEN own[i] >= from ELSE own[i] <= from)
     /\ to = Open \/ (IF Rises(own) THEN to >= own[i] ELSE to <= own[i])}

LEMMA AheadOrNot ==
  ASSUME NEW own \in Seq(Int), NEW label \in Int, NEW i \in 1 .. Len(own)
  PROVE  /\ i \notin RowsAhead(own, label, FALSE)
              <=> (IF Rises(own) THEN own[i] >= label ELSE own[i] <= label)
         /\ i \in RowsAhead(own, label, TRUE)
              <=> (IF Rises(own) THEN label >= own[i] ELSE label <= own[i])
<1>1. i \in DOMAIN own /\ own[i] \in Int
  OBVIOUS
<1>2. CASE Rises(own)
  <2>1. i \in RowsAhead(own, label, FALSE) <=> own[i] < label
    BY <1>1, <1>2 DEF RowsAhead
  <2>2. i \in RowsAhead(own, label, TRUE) <=> own[i] < label \/ own[i] = label
    BY <1>1, <1>2 DEF RowsAhead
  <2>3. (~ (own[i] < label) <=> own[i] >= label) /\ (own[i] < label \/ own[i] = label <=> label >= own[i])
    BY <1>1
  <2>4. QED
    BY <1>2, <2>1, <2>2, <2>3, Zenon
<1>3. CASE ~ Rises(own)
  <2>1. i \in RowsAhead(own, label, FALSE) <=> own[i] > label
    BY <1>1, <1>3 DEF RowsAhead
  <2>2. i \in RowsAhead(own, label, TRUE) <=> own[i] > label \/ own[i] = label
    BY <1>1, <1>3 DEF RowsAhead
  <2>3. (~ (own[i] > label) <=> own[i] <= label) /\ (own[i] > label \/ own[i] = label <=> label <= own[i])
    BY <1>1
  <2>4. QED
    BY <1>3, <2>1, <2>2, <2>3, Zenon
<1>4. QED
  BY <1>2, <1>3

LEMMA BetweenIs ==
  ASSUME NEW own \in Seq(Int), NEW from \in Int, NEW to \in Int, Ordered2(own)
  PROVE  Between2(own, from, to) = (LowBound(own, from) + 1) .. HighBound(own, to)
<1> DEFINE low == LowBound(own, from)
           high == HighBound(own, to)
           height == Len(own)
<1>1. height \in Nat /\ DOMAIN own = 1 .. height
  OBVIOUS
<1>2. low \in 0 .. height /\ high \in 0 .. height
  BY BoundsAreIn
<1>a. TRUE \in BOOLEAN /\ FALSE \in BOOLEAN
  OBVIOUS
<1>3. from # Open => RowsAhead(own, from, FALSE) = 1 .. low
  BY <1>a, AheadComesFirst DEF LowBound
<1>4. to # Open => RowsAhead(own, to, TRUE) = 1 .. high
  BY <1>a, AheadComesFirst DEF HighBound
<1>5. from = Open => low = 0
  BY DEF LowBound
<1>6. to = Open => high = height
  BY DEF HighBound
<1> HIDE DEF low, high, height
<1>7. ASSUME NEW i \in 1 .. height
      PROVE  i \in Between2(own, from, to) <=> i > low /\ i <= high
  <2>1. i \in Between2(own, from, to) <=>
          /\ from = Open \/ i \notin RowsAhead(own, from, FALSE)
          /\ to = Open \/ i \in RowsAhead(own, to, TRUE)
    <3>1. i \in 1 .. Len(own) /\ i \in DOMAIN own
      BY <1>1 DEF height
    <3>2. QED
      BY <3>1, AheadOrNot, Zenon DEF Between2
  <2>2. from # Open => (i \in RowsAhead(own, from, FALSE) <=> i <= low)
    <3>1. i \in 1 .. low <=> i <= low
      BY <1>1, <1>2
    <3>2. QED
      BY <1>3, <3>1
  <2>3. to # Open => (i \in RowsAhead(own, to, TRUE) <=> i <= high)
    <3>1. i \in 1 .. high <=> i <= high
      BY <1>1, <1>2
    <3>2. QED
      BY <1>4, <3>1
  <2>4. (i > low <=> ~ (i <= low)) /\ i > 0 /\ i <= height
    BY <1>1, <1>2
  <2>5. (from = Open \/ ~ (i <= low)) <=> i > low
    BY <1>5, <2>4
  <2>6. (to = Open \/ i <= high) <=> i <= high
    BY <1>6, <2>4
  <2>7. QED
    BY <2>1, <2>2, <2>3, <2>5, <2>6
<1>8. ASSUME NEW i PROVE i \in Between2(own, from, to) <=> i \in (low + 1) .. high
  <2>1. i \in Between2(own, from, to) => i \in 1 .. height
    BY <1>1 DEF Between2
  <2>2. i \in (low + 1) .. high <=> i \in 1 .. height /\ i > low /\ i <= high
    BY <1>1, <1>2
  <2>3. QED
    BY <1>7, <2>1, <2>2
<1>9. QED
  BY <1>8 DEF low, high

LEMMA TheLarger ==
  ASSUME NEW a \in Int, NEW b \in Int
  PROVE  Max({a, b}) = (IF a > b THEN a ELSE b) /\ Min({a, b}) = (IF a > b THEN b ELSE a)
BY DEF Max, Min

\* Python's rule for three numbers, when no end is beyond the index.
Clamped(b, n, step) ==
  LET c == IF b < 0 THEN b + n ELSE b
  IN  IF step > 0 THEN Max({0, Min({c, n})}) ELSE Max({-1, Min({c, n - 1})})

Walked(n, first, final, step) ==
  {k \in 0 .. n : IF step > 0 THEN first + k * step < final ELSE first + k * step > final}

LEMMA SliceRowsAre ==
  ASSUME NEW n, NEW a, NEW b, NEW step
  PROVE  SliceRows(n, <<a, b>>, step) =
           [k \in 1 .. Cardinality(Walked(n, Clamped(a, n, step), Clamped(b, n, step), step)) |->
              Clamped(a, n, step) + (k - 1) * step]
BY DEF SliceRows, Clamped, Walked

\* So many strides fit between two bounds.
Strides(low, high, stride) ==
  (Extent(low, high) + stride - 1) \div stride

LEMMA StridesAre ==
  ASSUME NEW n \in Nat, NEW low \in 0 .. n, NEW high \in 0 .. n, NEW stride \in {1, 2}
  PROVE  /\ Strides(low, high, stride) \in 0 .. n
         /\ \A k \in Int : k >= 0 /\ low + k * stride < high
                             <=> k \in 0 .. (Strides(low, high, stride) - 1)
<1>1. CASE stride = 1
  BY <1>1 DEF Strides, Extent
<1>2. CASE stride = 2
  BY <1>2 DEF Strides, Extent
<1>3. QED
  BY <1>1, <1>2

LEMMA SliceRowsForward ==
  ASSUME NEW n \in Nat, NEW low \in 0 .. n, NEW high \in 0 .. n, NEW step \in {1, 2}
  PROVE  SliceRows(n, <<low, high>>, step) =
           [k \in 1 .. Strides(low, high, step) |-> low + (k - 1) * step]
<1>1. ASSUME NEW b \in 0 .. n PROVE Clamped(b, n, step) = b
  <2>1. Min({b, n}) = b
    <3>1. b \in Int /\ n \in Int
      OBVIOUS
    <3>2. Min({b, n}) = IF b > n THEN n ELSE b
      BY <3>1, TheLarger
    <3>3. QED
      BY <3>2
  <2>2. Max({0, b}) = b
    <3>1. Max({0, b}) = IF 0 > b THEN 0 ELSE b
      BY TheLarger
    <3>2. QED
      BY <3>1
  <2>3. step > 0 /\ ~ (b < 0)
    OBVIOUS
  <2>4. QED
    BY <2>1, <2>2, <2>3 DEF Clamped
<1>2. SliceRows(n, <<low, high>>, step)
        = [k \in 1 .. Cardinality(Walked(n, low, high, step)) |-> low + (k - 1) * step]
  BY <1>1, SliceRowsAre
<1>3. Cardinality(Walked(n, low, high, step)) = Strides(low, high, step)
  <2> DEFINE count == Strides(low, high, step)
  <2>1. count \in 0 .. n /\ \A k \in Int : k >= 0 /\ low + k * step < high <=> k \in 0 .. (count - 1)
    BY StridesAre
  <2> HIDE DEF count
  <2>2. Walked(n, low, high, step) = 0 .. (count - 1)
    <3>1. ASSUME NEW k PROVE k \in Walked(n, low, high, step) <=> k \in 0 .. (count - 1)
      <4>1. k \in Walked(n, low, high, step) <=> k \in 0 .. n /\ low + k * step < high
        BY DEF Walked
      <4>2. QED
        BY <2>1, <4>1
    <3>2. QED
      BY <3>1
  <2>3. Cardinality(0 .. (count - 1)) = IF 0 > count - 1 THEN 0 ELSE (count - 1) - 0 + 1
    BY <2>1, FS_Interval
  <2>4. QED
    BY <2>1, <2>2, <2>3 DEF count
<1>4. QED
  BY <1>2, <1>3

LEMMA SliceRowsBackward ==
  ASSUME NEW n \in Nat, NEW low \in 0 .. n, NEW high \in 0 .. n, NEW step \in {-1, -2}
  PROVE  SliceRows(n, <<Wrapped(high - 1, n), Wrapped(low - 1, n)>>, step) =
           [k \in 1 .. Strides(low, high, -step) |-> high - 1 + (k - 1) * step]
<1>1. ASSUME NEW b \in 0 .. n PROVE Clamped(Wrapped(b - 1, n), n, step) = b - 1
  <2>1. Min({b - 1, n - 1}) = b - 1
    <3>1. b - 1 \in Int /\ n - 1 \in Int
      OBVIOUS
    <3>2. Min({b - 1, n - 1}) = IF b - 1 > n - 1 THEN n - 1 ELSE b - 1
      BY <3>1, TheLarger
    <3>3. QED
      BY <3>2
  <2>2. Max({-1, b - 1}) = b - 1
    <3>1. b - 1 \in Int /\ -1 \in Int
      OBVIOUS
    <3>2. Max({-1, b - 1}) = IF -1 > b - 1 THEN -1 ELSE b - 1
      BY <3>1, TheLarger
    <3>3. QED
      BY <3>2
  <2>3. (IF Wrapped(b - 1, n) < 0 THEN Wrapped(b - 1, n) + n ELSE Wrapped(b - 1, n)) = b - 1
    BY DEF Wrapped
  <2>4. ~ (step > 0)
    OBVIOUS
  <2>5. QED
    BY <2>1, <2>2, <2>3, <2>4 DEF Clamped
<1>2. SliceRows(n, <<Wrapped(high - 1, n), Wrapped(low - 1, n)>>, step)
        = [k \in 1 .. Cardinality(Walked(n, high - 1, low - 1, step)) |-> high - 1 + (k - 1) * step]
  <2>1. /\ Clamped(Wrapped(high - 1, n), n, step) = high - 1
        /\ Clamped(Wrapped(low - 1, n), n, step) = low - 1
    BY <1>1
  <2>2. QED
    BY <2>1, SliceRowsAre
<1>3. Cardinality(Walked(n, high - 1, low - 1, step)) = Strides(low, high, -step)
  <2> DEFINE stride == -step
             count == Strides(low, high, stride)
  <2>0. stride \in {1, 2} /\ step = -stride
    OBVIOUS
  <2> HIDE DEF stride
  <2>1. count \in 0 .. n /\ \A k \in Int : k >= 0 /\ low + k * stride < high <=> k \in 0 .. (count - 1)
    BY <2>0, StridesAre
  <2> HIDE DEF count
  <2>2. Walked(n, high - 1, low - 1, step) = 0 .. (count - 1)
    <3>1. ASSUME NEW k PROVE k \in Walked(n, high - 1, low - 1, step) <=> k \in 0 .. (count - 1)
      <4>1. k \in Walked(n, high - 1, low - 1, step) <=> k \in 0 .. n /\ high - 1 + k * step > low - 1
        BY DEF Walked
      <4>2. k \in Int => (high - 1 + k * step > low - 1 <=> low + k * stride < high)
        <5>1. CASE stride = 1
          BY <2>0, <5>1
        <5>2. CASE stride = 2
          BY <2>0, <5>2
        <5>3. QED
          BY <2>0, <5>1, <5>2
      <4>3. k \in Int => (k \in 0 .. n => k >= 0) /\ (k \in 0 .. (count - 1) => k \in 0 .. n)
        BY <2>1
      <4>4. k \in 0 .. n => k \in Int
        OBVIOUS
      <4>5. k \in 0 .. (count - 1) => k \in Int
        BY <2>1
      <4>6. QED
        BY <2>1, <4>1, <4>2, <4>3, <4>4, <4>5
    <3>2. QED
      BY <3>1
  <2>3. Cardinality(0 .. (count - 1)) = IF 0 > count - 1 THEN 0 ELSE (count - 1) - 0 + 1
    BY <2>1, FS_Interval
  <2>4. QED
    BY <2>1, <2>2, <2>3 DEF count, stride
<1>4. QED
  BY <1>2, <1>3

\* Every so many of some rows, as places counted from nothing.
Every(walked, stride) ==
  [k \in 1 .. (Len(walked) + stride - 1) \div stride |-> walked[(k - 1) * stride + 1] - 1]

Stepped(low, high, stride, d) ==
  [k \in 1 .. Strides(low, high, stride) |->
     IF d = 1 THEN low + (k - 1) * stride ELSE high - 1 - (k - 1) * stride]

LEMMA EveryOfAnInterval ==
  ASSUME NEW n \in Nat, NEW low \in 0 .. n, NEW high \in 0 .. n, NEW stride \in {1, 2},
         NEW d \in {-1, 1}
  PROVE  Every(Ranked((low + 1) .. high, d), stride) = Stepped(low, high, stride, d)
<1> DEFINE w == Ranked((low + 1) .. high, d)
           m == Extent(low, high)
           count == Strides(low, high, stride)
<1>1. w = [k \in 1 .. m |-> IF d = 1 THEN low + k ELSE high + 1 - k]
  BY IntervalRanked
<1>2. m \in Nat /\ (m > 0 => m = high - low)
  BY DEF Extent
<1>3. count \in 0 .. n /\ \A k \in Int : k >= 0 /\ low + k * stride < high <=> k \in 0 .. (count - 1)
  BY StridesAre
<1>4. count = (m + stride - 1) \div stride
  BY DEF Strides
<1>5. low < high => m = high - low
  BY DEF Extent
<1> HIDE DEF w, m, count
<1>6. Len(w) = m
  BY <1>1, <1>2
<1>7. ASSUME NEW k \in 1 .. count
      PROVE  w[(k - 1) * stride + 1] - 1
               = IF d = 1 THEN low + (k - 1) * stride ELSE high - 1 - (k - 1) * stride
  <2> DEFINE at == (k - 1) * stride
  <2>1. k - 1 \in Int /\ k - 1 \in 0 .. (count - 1)
    BY <1>3
  <2>2. at \in Int /\ at >= 0 /\ low + at < high
    <3>1. low + at < high
      BY <1>3, <2>1
    <3>2. CASE stride = 1
      BY <2>1, <3>1, <3>2
    <3>3. CASE stride = 2
      BY <2>1, <3>1, <3>3
    <3>4. QED
      BY <3>2, <3>3
  <2> HIDE DEF at
  <2>3. at + 1 \in 1 .. m
    BY <1>2, <1>5, <2>2
  <2>4. w[at + 1] = IF d = 1 THEN low + (at + 1) ELSE high + 1 - (at + 1)
    BY <1>1, <2>3
  <2>5. w[at + 1] - 1 = IF d = 1 THEN low + at ELSE high - 1 - at
    BY <2>2, <2>4
  <2>6. QED
    BY <2>5 DEF at
<1>8. Every(w, stride) = [k \in 1 .. count |-> w[(k - 1) * stride + 1] - 1]
  BY <1>4, <1>6 DEF Every
<1>9. Every(w, stride)
        = [k \in 1 .. count |-> IF d = 1 THEN low + (k - 1) * stride ELSE high - 1 - (k - 1) * stride]
  BY <1>7, <1>8
<1>10. QED
  BY <1>9 DEF w, count, Stepped

LEMMA EveryFalling ==
  ASSUME NEW n \in Nat, NEW low \in 0 .. n, NEW high \in 0 .. n, NEW stride \in {1, 2}
  PROVE  Every(Ranked((low + 1) .. high, -1), stride) =
           [k \in 1 .. Strides(low, high, stride) |-> high - 1 - (k - 1) * stride]
<1> DEFINE d == -1
<1>1. d \in {-1, 1} /\ d # 1
  OBVIOUS
<1> HIDE DEF d
<1>2. Every(Ranked((low + 1) .. high, d), stride) = Stepped(low, high, stride, d)
  BY <1>1, EveryOfAnInterval
<1>3. QED
  BY <1>1, <1>2 DEF d, Stepped

\* A slice of an index in order, forward and backward.
Sliced2(own, start, end, step) == SliceRows(Len(own), SliceLocs(own, start, end, step > 0), step)

LEMMA SlicesAre ==
  ASSUME NEW own \in Seq(Int), NEW start \in Int, NEW end \in Int, NEW step \in {-2, -1, 1, 2},
         Ordered2(own)
  PROVE  Sliced2(own, start, end, step) =
           IF step > 0 THEN Every(Ranked(Between2(own, start, end), 1), step)
           ELSE Every(Ranked(Between2(own, end, start), -1), -step)
<1> DEFINE n == Len(own)
<1>1. n \in Nat
  OBVIOUS
<1>2. CASE step \in {1, 2}
  <2> DEFINE low == LowBound(own, start)
             high == HighBound(own, end)
  <2>1. low \in 0 .. n /\ high \in 0 .. n
    BY BoundsAreIn
  <2>2. Between2(own, start, end) = (low + 1) .. high
    BY BetweenIs
  <2>3. Sliced2(own, start, end, step) = SliceRows(n, <<low, high>>, step)
    <3>1. (step > 0) = TRUE
      BY <1>2
    <3>2. QED
      BY <3>1, SliceLocsAre DEF Sliced2
  <2> HIDE DEF n, low, high
  <2>4. SliceRows(n, <<low, high>>, step) = [k \in 1 .. Strides(low, high, step) |-> low + (k - 1) * step]
    BY <1>1, <1>2, <2>1, SliceRowsForward
  <2>5. Every(Ranked((low + 1) .. high, 1), step)
          = [k \in 1 .. Strides(low, high, step) |-> low + (k - 1) * step]
    <3>1. 1 \in {-1, 1}
      OBVIOUS
    <3>2. Every(Ranked((low + 1) .. high, 1), step) = Stepped(low, high, step, 1)
      BY <1>1, <1>2, <2>1, <3>1, EveryOfAnInterval
    <3>3. QED
      BY <3>2 DEF Stepped
  <2>6. step > 0
    BY <1>2
  <2>7. QED
    BY <2>2, <2>3, <2>4, <2>5, <2>6
<1>3. CASE step \in {-1, -2}
  <2> DEFINE low == LowBound(own, end)
             high == HighBound(own, start)
             stride == -step
  <2>1. low \in 0 .. n /\ high \in 0 .. n
    BY BoundsAreIn
  <2>2. Between2(own, end, start) = (low + 1) .. high
    BY BetweenIs
  <2>3. Sliced2(own, start, end, step)
          = SliceRows(n, <<Wrapped(high - 1, n), Wrapped(low - 1, n)>>, step)
    <3>1. (step > 0) = FALSE
      BY <1>3
    <3>2. QED
      BY <3>1, SliceLocsAre DEF Sliced2
  <2>4. stride \in {1, 2} /\ step = -stride
    BY <1>3
  <2>5. SliceRows(n, <<Wrapped(high - 1, n), Wrapped(low - 1, n)>>, step)
          = [k \in 1 .. Strides(low, high, stride) |-> high - 1 + (k - 1) * step]
    <3> HIDE DEF n, low, high
    <3>1. QED
      BY <1>1, <1>3, <2>1, SliceRowsBackward
  <2> HIDE DEF n, low, high, stride
  <2>6. Every(Ranked((low + 1) .. high, -1), stride)
          = [k \in 1 .. Strides(low, high, stride) |-> high - 1 - (k - 1) * stride]
    BY <1>1, <2>1, <2>4, EveryFalling
  <2>7. Strides(low, high, stride) \in 0 .. n
    BY <1>1, <2>1, <2>4, StridesAre
  <2>8. \A k \in 1 .. Strides(low, high, stride) :
          high - 1 + (k - 1) * step = high - 1 - (k - 1) * stride
    <3>1. CASE stride = 1
      BY <1>1, <2>1, <2>4, <2>7, <3>1
    <3>2. CASE stride = 2
      BY <1>1, <2>1, <2>4, <2>7, <3>2
    <3>3. QED
      BY <2>4, <3>1, <3>2
  <2>9. [k \in 1 .. Strides(low, high, stride) |-> high - 1 + (k - 1) * step]
          = [k \in 1 .. Strides(low, high, stride) |-> high - 1 - (k - 1) * stride]
    BY <2>8
  <2>10. ~ (step > 0)
    BY <1>3
  <2>11. QED
    BY <2>2, <2>3, <2>5, <2>6, <2>9, <2>10 DEF stride
<1>4. QED
  BY <1>2, <1>3
-----------------------------------------------------------------------------
\* As of a label: what padding reads for it.
Padded(own, label) == Positions(own, <<label>>, "pad", Unlimited, Unlimited)[1]

LEMMA PaddedIs ==
  ASSUME NEW own \in Seq(Int), NEW label \in Int, Ordered2(own), Distinct(own)
  PROVE  Padded(own, label) =
           IF Exact(own, label) # Nowhere THEN Exact(own, label)
           ELSE Neighbour(own, label, TRUE, Rises(own))
<1> DEFINE target == <<label>>
           exact == [t \in DOMAIN target |-> Exact(own, target[t])]
           filled == FillPlaces(own, target, TRUE, Unlimited, Rises(own))
<1>1. target \in Seq(Int) /\ 1 \in DOMAIN target /\ target[1] = label
  OBVIOUS
<1>2. filled[1] = Neighbour(own, label, TRUE, Rises(own))
  <2>1. TRUE \in BOOLEAN /\ Unlimited \in {Unlimited} \cup Nat
    OBVIOUS
  <2> HIDE DEF target
  <2>2. \A t \in DOMAIN target : filled[t] = Neighbour(own, target[t], TRUE, Rises(own))
    BY <1>1, <2>1, FillPlacesAre
  <2>3. QED
    BY <1>1, <2>2
<1>3. exact[1] = Exact(own, label)
  BY <1>1
<1>4. Positions(own, target, "pad", Unlimited, Unlimited)
        = [t \in DOMAIN target |->
             Tolerated(own, target[t], IF exact[t] # Nowhere THEN exact[t] ELSE filled[t], Unlimited)]
  <2>1. Cardinality({own[i] : i \in DOMAIN own}) = Len(own)
    BY DEF Distinct, ToSet
  <2>2. ("pad" = "pad") = TRUE /\ "pad" # "nearest" /\ "pad" # "exact"
    OBVIOUS
  <2>3. Rises(own) \/ Falls(own)
    BY DEF Ordered2
  <2> HIDE DEF target
  <2>4. QED
    BY <2>1, <2>2, <2>3 DEF Positions
<1> HIDE DEF filled, exact, target
<1>5. \A place : Tolerated(own, label, place, Unlimited) = place
  BY DEF Tolerated
<1>6. QED
  BY <1>1, <1>2, <1>3, <1>4, <1>5 DEF Padded, target

LEMMA AsofIsPadding ==
  ASSUME NEW own \in Seq(Int), NEW label \in Int \ {Gap}, Distinct(own),
         AsofLabel(own, label) # Nowhere
  PROVE  AsofLabel(own, label) =
           IF Padded(own, label) = Nowhere THEN Missing ELSE own[Padded(own, label) + 1]
<1> DEFINE S == RowsAhead(own, label, FALSE)
           c == Cardinality(S)
<1>1. Ordered2(own)
  BY DEF AsofLabel
<1>2. AsofLabel(own, label) =
        IF label \in ToSet(own) THEN label ELSE IF c = 0 THEN Missing ELSE own[c]
  <2>1. c = Cardinality({i \in DOMAIN own : IF Rises(own) THEN own[i] < label ELSE own[i] > label})
    BY DEF RowsAhead
  <2>2. QED
    BY <1>1, <2>1 DEF AsofLabel
<1>3. Padded(own, label) =
        IF Exact(own, label) # Nowhere THEN Exact(own, label)
        ELSE Neighbour(own, label, TRUE, Rises(own))
  BY <1>1, PaddedIs
<1>4. /\ Exact(own, label) = Nowhere => \A i \in DOMAIN own : own[i] # label
      /\ Exact(own, label) # Nowhere =>
           Exact(own, label) + 1 \in DOMAIN own /\ own[Exact(own, label) + 1] = label
  BY ExactIs
<1>5. CASE label \in ToSet(own)
  <2>1. Exact(own, label) # Nowhere
    BY <1>4, <1>5 DEF ToSet
  <2>2. QED
    BY <1>2, <1>3, <1>4, <1>5, <2>1
<1>6. CASE label \notin ToSet(own)
  <2>1. \A i \in DOMAIN own : own[i] \in Int /\ own[i] # label
    BY <1>6 DEF ToSet
  <2>2. Exact(own, label) = Nowhere
    BY <1>4, <2>1
  <2>3. Side(own, label, TRUE) = S
    <3>1. CASE Rises(own)
      <4>1. Side(own, label, TRUE) = {i \in DOMAIN own : own[i] <= label}
        BY <3>1 DEF Side
      <4>2. S = {i \in DOMAIN own : own[i] < label}
        BY <3>1 DEF RowsAhead
      <4>3. \A i \in DOMAIN own : own[i] <= label <=> own[i] < label
        BY <2>1
      <4> HIDE DEF S
      <4>4. QED
        BY <4>1, <4>2, <4>3, Zenon
    <3>2. CASE ~ Rises(own)
      <4>1. Side(own, label, TRUE) = {i \in DOMAIN own : own[i] >= label}
        BY <3>2 DEF Side
      <4>2. S = {i \in DOMAIN own : own[i] > label}
        BY <3>2 DEF RowsAhead
      <4>3. \A i \in DOMAIN own : own[i] >= label <=> own[i] > label
        BY <2>1
      <4> HIDE DEF S
      <4>4. QED
        BY <4>1, <4>2, <4>3, Zenon
    <3>3. QED
      BY <3>1, <3>2
  <2>4. Neighbour(own, label, TRUE, Rises(own)) = IF S = {} THEN Nowhere ELSE Max(S) - 1
    BY <2>3 DEF Neighbour, Side
  <2>5. c \in 0 .. Len(own) /\ S = 1 .. c
    <3>1. FALSE \in BOOLEAN
      OBVIOUS
    <3>2. QED
      BY <1>1, <3>1, AheadComesFirst
  <2> HIDE DEF S, c
  <2>6. c # 0 => Max(S) = c
    <3>1. SUFFICES ASSUME c # 0 PROVE Max(S) = c
      OBVIOUS
    <3>2. S \in SUBSET (1 .. c) /\ c \in Nat /\ c \in S
      BY <2>5, <3>1
    <3>3. Max(S) \in S /\ \A x \in S : x <= Max(S)
      BY <3>2, Ends
    <3>4. Max(S) \in 1 .. c /\ c <= Max(S)
      BY <3>2, <3>3
    <3>5. QED
      BY <3>2, <3>4
  <2>7. c = 0 <=> S = {}
    BY <2>5
  <2>8. c # 0 => c - 1 # Nowhere /\ c - 1 + 1 = c
    BY <2>5 DEF Nowhere
  <2>9. QED
    BY <1>2, <1>3, <1>6, <2>2, <2>4, <2>6, <2>7, <2>8
<1>7. QED
  BY <1>5, <1>6

\* As of a label among the rows of a mask: the last of them at or before it.
LEMMA AsofLocsAre ==
  ASSUME NEW own \in Seq(Int), NEW keep \in SUBSET DOMAIN own, keep # {}, NEW label \in Int,
         Rises(own)
  PROVE  AsofLocs(own, keep, label) =
           LET kept == {i \in keep : own[i] <= label}
           IN  IF kept = {} THEN Nowhere ELSE Max(kept) - 1
<1> DEFINE kept == {i \in keep : own[i] <= label}
           reached == Cardinality(kept)
           n == Len(own)
           places == Ranked(keep, 1)
<1>1. n \in Nat /\ DOMAIN own = 1 .. n /\ \A i \in DOMAIN own : own[i] \in Int
  OBVIOUS
<1>2. keep \in SUBSET (1 .. n) /\ kept \in SUBSET (1 .. n)
  BY <1>1
<1>3. IsFiniteSet(kept) /\ reached \in Nat
  <2>1. IsFiniteSet(1 .. n)
    BY FS_Interval, <1>1
  <2>2. IsFiniteSet(kept)
    BY <1>2, <2>1, FS_Subset
  <2>3. QED
    BY <2>2, FS_CardinalityType
<1>4. Min(keep) \in keep /\ \A x \in keep : Min(keep) <= x
  BY <1>1, <1>2, Ends
<1>5. AsofLocs(own, keep, label) =
        LET at == IF reached > 0 THEN reached - 1 ELSE 0
        IN  IF at = 0 /\ label < own[places[1]] THEN Nowhere ELSE places[at + 1] - 1
  BY SortedIsRanked DEF AsofLocs
<1>6. places[1] = Min(keep)
  <2>1. Ahead(keep, 1, Min(keep)) = {}
    BY <1>2, <1>4 DEF Ahead
  <2>2. Cardinality(Ahead(keep, 1, Min(keep))) = 1 - 1
    BY <2>1, FS_EmptySet
  <2>3. 1 \in {-1, 1} /\ 1 \in Int
    OBVIOUS
  <2>4. HasRank(keep, 1, Min(keep), 1)
    BY <1>1, <1>2, <1>4, <2>2, <2>3, RankIs
  <2>5. QED
    BY <2>4 DEF HasRank
<1>7. CASE kept = {}
  <2>1. reached = 0
    BY <1>7, FS_EmptySet
  <2>2. label < own[Min(keep)]
    <3>1. ~ (own[Min(keep)] <= label)
      BY <1>4, <1>7
    <3>2. own[Min(keep)] \in Int
      BY <1>1, <1>4
    <3>3. QED
      BY <3>1, <3>2
  <2> HIDE DEF kept, reached, places
  <2>3. AsofLocs(own, keep, label) = Nowhere
    BY <1>5, <1>6, <2>1, <2>2
  <2>4. QED
    BY <1>7, <2>3 DEF kept
<1>8. CASE kept # {}
  <2> DEFINE final == Max(kept)
  <2>1. final \in kept /\ \A x \in kept : x <= final
    BY <1>1, <1>2, <1>8, Ends
  <2>2. final \in keep /\ final \in 1 .. n /\ own[final] \in Int /\ own[final] <= label
    BY <1>1, <1>2, <2>1
  <2> HIDE DEF final, n
  <2>3. Ahead(keep, 1, final) = kept \ {final}
    <3>1. ASSUME NEW y \in Ahead(keep, 1, final) PROVE y \in kept \ {final}
      <4>1. y \in keep /\ y \in 1 .. n /\ y < final
        BY <1>2, <3>1 DEF Ahead
      <4>2. own[y] <= own[final] /\ own[y] \in Int
        BY <1>1, <2>2, <4>1, InOrderAcross
      <4>3. own[y] <= label
        BY <2>2, <4>2
      <4>4. y # final
        BY <2>2, <4>1
      <4>5. QED
        BY <4>1, <4>3, <4>4
    <3>2. ASSUME NEW y \in kept \ {final} PROVE y \in Ahead(keep, 1, final)
      <4>1. y \in keep /\ y \in 1 .. n /\ y <= final /\ y # final
        BY <1>2, <2>1, <3>2
      <4>2. y < final
        BY <2>2, <4>1
      <4>3. QED
        BY <4>1, <4>2 DEF Ahead
    <3>3. QED
      BY <3>1, <3>2
  <2> HIDE DEF kept
  <2>4. Cardinality(Ahead(keep, 1, final)) = reached - 1 /\ reached > 0
    <3>1. Cardinality(kept \ {final}) = reached - 1
      BY <1>3, <2>1, FS_RemoveElement
    <3>2. reached # 0
      BY <1>3, <2>1, FS_EmptySet
    <3>3. Cardinality(Ahead(keep, 1, final)) = reached - 1
      BY <2>3, <3>1, Zenon
    <3> HIDE DEF reached
    <3>4. reached > 0
      BY <1>3, <3>2
    <3>5. QED
      BY <3>3, <3>4, Zenon
  <2>5. places[reached] = final
    <3>1. 1 \in {-1, 1} /\ reached \in Int /\ n \in Nat
      BY <1>1, <1>3
    <3> HIDE DEF reached, places
    <3>2. HasRank(keep, 1, final, reached)
      BY <1>2, <2>2, <2>4, <3>1, RankIs
    <3>3. QED
      BY <3>2 DEF HasRank, places
  <2> HIDE DEF reached, places
  <2>6. own[places[1]] <= label
    <3>1. own[Min(keep)] <= own[final]
      <4>1. Min(keep) <= final /\ Min(keep) \in DOMAIN own /\ final \in DOMAIN own
        BY <1>4, <2>2, <1>1
      <4>2. QED
        BY <4>1, InOrderAcross
    <3>2. own[Min(keep)] \in Int
      BY <1>1, <1>4
    <3>3. QED
      BY <1>6, <2>2, <3>1, <3>2
  <2>7. own[places[1]] \in Int
    BY <1>1, <1>4, <1>6
  <2>8. ~ (label < own[places[1]])
    BY <2>6, <2>7
  <2>9. AsofLocs(own, keep, label) = final - 1
    BY <1>3, <1>5, <2>4, <2>5, <2>8
  <2>10. QED
    BY <1>8, <2>9 DEF kept, final
<1>9. QED
  BY <1>7, <1>8
-----------------------------------------------------------------------------
\* An index, and the answers that were made of it.
LookInv ==
  /\ owner \in Seq(Int)
  /\ asked.of = "slice" =>
       /\ asked.start \in Int /\ asked.end \in Int /\ asked.step \in {-2, -1, 1, 2}
       /\ asked.rows = Sliced2(owner, asked.start, asked.end, asked.step)
  /\ asked.of = "asof" =>
       /\ asked.label \in Int \ {Gap} /\ AsofLabel(owner, asked.label) # Nowhere
       /\ asked.found = AsofLabel(owner, asked.label)
  /\ asked.of = "masked" =>
       /\ asked.label \in Int /\ asked.keep \in SUBSET DOMAIN owner /\ asked.keep # {}
       /\ Rises(owner)
       /\ asked.found = AsofLocs(owner, asked.keep, asked.label)

LEMMA LookInvHoldsAtFirst == LookupInit \/ LookupRests => LookInv
<1> USE LabelsAssumption
<1>1. LookupInit => LookInv
  BY DEF LookupInit, NotAsked, LookInv
<1>2. LookupRests => LookInv
  <2>1. <<>> \in Seq(Int)
    OBVIOUS
  <2>2. QED
    BY <2>1 DEF LookupRests, NotAsked, LookInv
<1>3. QED
  BY <1>1, <1>2

LEMMA LookInvIsKept == LookInv /\ [LookupNext]_lookupVars => LookInv'
<1> SUFFICES ASSUME LookInv, [LookupNext]_lookupVars PROVE LookInv'
  OBVIOUS
<1>a. Targets \subseteq Int \ {Gap} /\ Targets \cup {Open} \subseteq Int
  BY LabelsAssumption DEF Open
<1>1. CASE Sliced
  <2>1. PICK start \in Targets \cup {Open}, end \in Targets \cup {Open}, step \in {-2, -1, 1, 2} :
          /\ asked' = [of |-> "slice", start |-> start, end |-> end, step |-> step,
                       rows |-> Sliced2(owner, start, end, step)]
          /\ owner' = owner
    BY <1>1 DEF Sliced, Sliced2
  <2>2. start \in Int /\ end \in Int
    BY <1>a
  <2>3. QED
    BY <2>1, <2>2 DEF LookInv
<1>2. CASE GetIndexerNonUnique
  BY <1>2 DEF GetIndexerNonUnique, LookInv
<1>3. CASE Asof
  BY <1>3, <1>a DEF Asof, LookInv
<1>4. CASE AsofMasked
  BY <1>4, <1>a DEF AsofMasked, LookInv
<1>5. CASE Reindexed
  BY <1>5 DEF Reindexed, LookInv
<1>6. CASE UNCHANGED lookupVars
  BY <1>6 DEF lookupVars, LookInv
<1>7. QED
  BY <1>1, <1>2, <1>3, <1>4, <1>5, <1>6 DEF LookupNext

LEMMA AnswersReadTheirRows == LookInv => LabelsReadTheirRows
<1> SUFFICES ASSUME LookInv PROVE LabelsReadTheirRows
  OBVIOUS
<1>1. SlicesReadWhatLiesBetween
  <2> SUFFICES ASSUME asked.of = "slice", Ordered2(owner) PROVE SlicesReadWhatLiesBetween
    BY DEF SlicesReadWhatLiesBetween
  <2>1. /\ owner \in Seq(Int) /\ asked.start \in Int /\ asked.end \in Int
        /\ asked.step \in {-2, -1, 1, 2}
        /\ asked.rows = Sliced2(owner, asked.start, asked.end, asked.step)
    BY DEF LookInv
  <2>2. asked.rows =
          IF asked.step > 0 THEN Every(Ranked(Between2(owner, asked.start, asked.end), 1), asked.step)
          ELSE Every(Ranked(Between2(owner, asked.end, asked.start), -1), -asked.step)
    BY <2>1, SlicesAre
  <2>3. ASSUME NEW from, NEW to
        PROVE  {i \in DOMAIN owner : /\ from = Open \/ Reaches(owner[i], from)
                                     /\ to = Open \/ Reaches(to, owner[i])}
                 = Between2(owner, from, to)
    BY DEF Between2, Reaches
  <2>4. CASE asked.step > 0
    <3> DEFINE between == {i \in DOMAIN owner :
                             /\ asked.start = Open \/ Reaches(owner[i], asked.start)
                             /\ asked.end = Open \/ Reaches(asked.end, owner[i])}
    <3>1. between = Between2(owner, asked.start, asked.end)
      BY <2>3
    <3>2. asked.rows = Every(Sorted(between, <), asked.step)
      BY <2>2, <2>4, <3>1, SortedIsRanked
    <3>3. QED
      BY <2>4, <3>2 DEF SlicesReadWhatLiesBetween, Every
  <2>5. CASE ~ (asked.step > 0)
    <3> DEFINE between == {i \in DOMAIN owner :
                             /\ asked.end = Open \/ Reaches(owner[i], asked.end)
                             /\ asked.start = Open \/ Reaches(asked.start, owner[i])}
    <3>1. between = Between2(owner, asked.end, asked.start)
      BY <2>3
    <3>2. asked.rows = Every(Sorted(between, >), -asked.step)
      BY <2>2, <2>5, <3>1, SortedIsRanked
    <3>3. QED
      BY <2>5, <3>2 DEF SlicesReadWhatLiesBetween, Every
  <2>6. QED
    BY <2>4, <2>5
<1>2. LookupsAgree
  <2>1. asked.of = "asof" /\ Distinct(owner) =>
          asked.found = IF Padded(owner, asked.label) = Nowhere THEN Missing
                        ELSE owner[Padded(owner, asked.label) + 1]
    BY AsofIsPadding DEF LookInv
  <2>2. asked.of = "masked" =>
          asked.found = LET kept == {i \in asked.keep : owner[i] <= asked.label}
                        IN  IF kept = {} THEN Nowhere ELSE Max(kept) - 1
    BY AsofLocsAre DEF LookInv
  <2>3. QED
    BY <2>1, <2>2 DEF LookupsAgree, Padded
<1>3. QED
  BY <1>1, <1>2 DEF LabelsReadTheirRows

(***************************************************************************)
(* What slices by labels, asof and asof_locs read: for any index in order, *)
(* rising or falling, a slice walked either way reads the rows between its *)
(* two labels, both of them included; and for any labels asked for, as of  *)
(* a label is the row that padding reads, or the last row of a mask that   *)
(* is at the label or before it.                                           *)
(***************************************************************************)
THEOREM LabelsAlwaysReadTheirRows == FacadeSpec => []LabelsReadTheirRows
<1>1. FacadeInit => LookInv
  BY LookInvHoldsAtFirst DEF FacadeInit
<1>2. [FacadeNext]_<<part, vars, option_vars, mean_vars, store_vars, label_vars>> =>
      [LookupNext]_lookupVars
  BY DEF FacadeNext, StateNext, LabelNext, label_vars
<1>3. QED
  BY <1>1, <1>2, LookInvIsKept, AnswersReadTheirRows, PTL DEF FacadeSpec
=============================================================================
