----------------------------- MODULE SqlTables ------------------------------
(***************************************************************************)
(* _sql.py: DataFrame.to_sql over a sqlite3 connection, watched from       *)
(* another one.  The connection is as sqlite3 leaves it by default: an     *)
(* INSERT or a DELETE opens a transaction, a CREATE or a DROP stands at    *)
(* once unless one is open.  A statement is a step, any of them may fail   *)
(* (the database is locked, an index has that name), and the program may   *)
(* end between two.  The caller writes, commits and rolls back on its own  *)
(* between the calls, over the same connection.                            *)
(*                                                                         *)
(* A row is the call it came in, its place and how many came with it.      *)
(***************************************************************************)
EXTENDS Integers, Sequences

CONSTANTS Tables,       \* the names of tables
          Lengths,      \* how many rows a frame may have
          Chunks,       \* the values of chunksize, None as <<>>, n as <<n>>
          MaxCalls      \* bound: how many calls a behaviour makes

VARIABLES disk,         \* the rows of each table, as another connection reads
          mine,         \* the same over this connection
          open,         \* con.in_transaction
          call,         \* the call under way, or the last that ended
          calls         \* how many have been made

vars == <<disk, mine, open, call, calls>>

Idle == [pc |-> "idle"]
OwnRow == <<0, 1, 1>>
Rows(k, from, to, n) == {<<k, i, n>> : i \in from .. to}

NoTables == [t \in {} |-> {}]
With(db, t, rows) == [u \in DOMAIN db \cup {t} |-> IF u = t THEN rows ELSE db[u]]
Without(db, t) == [u \in DOMAIN db \ {t} |-> db[u]]

Init == /\ disk = NoTables /\ mine = NoTables
        /\ open = FALSE
        /\ call = Idle /\ calls = 0
-----------------------------------------------------------------------------
(* The connection.                                                         *)

Define(db) == /\ mine' = db
              /\ disk' = IF open THEN disk ELSE db
              /\ UNCHANGED open

Change(db) == mine' = db /\ open' = TRUE /\ UNCHANGED disk

Commit == disk' = mine /\ open' = FALSE /\ UNCHANGED mine

Rollback == mine' = disk /\ open' = FALSE /\ UNCHANGED disk

Unmoved == UNCHANGED <<disk, mine, open>>
-----------------------------------------------------------------------------
(* The statements of a call.                                               *)

Goto(pc) == call' = [call EXCEPT !.pc = pc] /\ UNCHANGED calls
At(pc) == call.pc = pc

\* What the arguments decide: the rest of them is in the rows.
to_sql(t, mode, n, chunk, keyed, clash) ==
  /\ call.pc \in {"idle", "returned", "raised"}
  /\ calls < MaxCalls
  /\ calls' = calls + 1
  /\ call' = [pc |-> "look", table |-> t, mode |-> mode, rows |-> n,
              chunk |-> chunk, keyed |-> keyed, clash |-> clash, next |-> 0,
              before |-> mine, stood |-> disk]
  /\ Unmoved

has_table ==
  /\ At("look")
  /\ Unmoved
  /\ Goto(IF call.table \notin DOMAIN mine THEN "create"
          ELSE CASE call.mode = "fail" -> "raised"
                 [] call.mode = "replace" -> "drop"
                 [] call.mode = "append" -> "check"
                 [] call.mode = "delete_rows" -> "delete")

DropTable == At("drop") /\ Define(Without(mine, call.table)) /\ Goto("create")

\* A label that is a column too would be one column twice, which fails.
CreateTable == /\ At("create") /\ ~call.clash
               /\ Define(With(mine, call.table, {}))
               /\ Goto(IF call.keyed THEN "index" ELSE "commit_table")

CreateIndex == At("index") /\ Define(mine) /\ Goto("commit_table")

CommitTable == At("commit_table") /\ Commit /\ Goto("check")

\* Slip: the rows are deleted for good before there are others.
DeleteRowsForGood == /\ At("delete")
                     /\ mine' = With(mine, call.table, {})
                     /\ disk' = mine' /\ open' = FALSE
                     /\ Goto("check")

DeleteRows == At("delete") /\ Change(With(mine, call.table, {})) /\ Goto("check")

\* A label that is a column too, and a chunk of no rows, are found only now.
Refused == call.clash \/ (call.rows > 0 /\ call.chunk = <<0>>)

Check == /\ At("check")
         /\ Unmoved
         /\ Goto(IF Refused THEN "raised"
                 ELSE IF call.rows = 0 THEN "returned" ELSE "insert")

Step == IF call.chunk = <<>> THEN call.rows ELSE call.chunk[1]
More == call.next < call.rows /\ Step > 0
Batch == LET to == IF call.next + Step < call.rows THEN call.next + Step
                   ELSE call.rows
         IN  mine[call.table] \cup Rows(calls, call.next + 1, to, call.rows)

Advanced == call' = [call EXCEPT !.next = @ + Step] /\ UNCHANGED calls

\* Slip: a transaction for every batch.
InsertBatchForGood == /\ At("insert") /\ More
                      /\ mine' = With(mine, call.table, Batch)
                      /\ disk' = mine' /\ open' = FALSE
                      /\ Advanced

\* Slip: the batches after the first are lost.
InsertFirstBatch == /\ At("insert") /\ More
                    /\ IF call.next = 0 THEN Change(With(mine, call.table, Batch))
                                        ELSE Unmoved
                    /\ Advanced

InsertBatch == /\ At("insert") /\ More
               /\ Change(With(mine, call.table, Batch))
               /\ Advanced

CommitRows == At("insert") /\ ~More /\ Commit /\ Goto("returned")

\* Slip: the error goes up and the transaction stays.
FailsOpen == /\ call.pc \in {"look", "drop", "create", "index", "commit_table",
                             "delete", "insert"}
             /\ Unmoved
             /\ Goto("raised")

\* Every statement that fails rolls back, whoever's the transaction was.
Fails == /\ call.pc \in {"look", "drop", "create", "index", "commit_table",
                         "delete", "insert"}
         /\ Rollback
         /\ Goto("raised")
-----------------------------------------------------------------------------
(* What the caller does over its connection, and the end of the program.   *)

Own == call.pc \in {"idle", "returned", "raised"} /\ call' = Idle /\ UNCHANGED calls

OwnInsert(t) == /\ Own
                /\ t \in DOMAIN mine
                /\ Change(With(mine, t, mine[t] \cup {OwnRow}))

OwnCommit == Own /\ open /\ Commit

\* con.rollback(), or a read_sql whose query fails: _execute rolls back too.
OwnRollback == Own /\ open /\ Rollback

Crash == /\ Rollback /\ call' = Idle /\ UNCHANGED calls
         /\ (call # Idle \/ open)

Next == \/ \E t \in Tables, n \in Lengths, chunk \in Chunks,
              mode \in {"fail", "replace", "append", "delete_rows"},
              keyed, clash \in BOOLEAN :
                (clash => keyed) /\ to_sql(t, mode, n, chunk, keyed, clash)
        \/ has_table \/ DropTable \/ CreateTable \/ CreateIndex \/ CommitTable
        \/ DeleteRows \/ Check \/ InsertBatch \/ CommitRows \/ Fails
        \/ \E t \in Tables : OwnInsert(t)
        \/ OwnCommit \/ OwnRollback \/ Crash

Spec == Init /\ [][Next]_vars
-----------------------------------------------------------------------------
(***************************************************************************)
(* "Inserts the rows in batches inside one transaction": another           *)
(* connection, and whoever opens the database after a crash, finds every   *)
(* row of a call or none, whatever failed and whatever the caller commits  *)
(* of its own afterwards.                                                  *)
(***************************************************************************)
CallsLandWhole ==
  \A t \in DOMAIN disk : \A r \in disk[t] :
    Rows(r[1], 1, r[3], r[3]) \subseteq disk[t]

(***************************************************************************)
(* A call that returned with rows has put them on disk beside what its     *)
(* mode keeps of the table, and with them what the caller had pending; one *)
(* that raised left a table that it does not replace as it stood.          *)
(***************************************************************************)
CallsEndAsAsked ==
  /\ At("returned") /\ call.rows > 0 /\ Step > 0 =>
       LET kept == IF call.mode = "append" /\ call.table \in DOMAIN call.before
                   THEN call.before[call.table] ELSE {}
       IN  /\ disk = With(call.before, call.table,
                          kept \cup Rows(calls, 1, call.rows, call.rows))
           /\ ~open
  /\ At("raised") /\ call.table \in DOMAIN call.before /\ call.mode # "replace" =>
       disk = call.stood
=============================================================================
