------------------------------ MODULE SqlSession ------------------------------
(***************************************************************************)
(* py/session.mojo over sql/ddl.mojo and sql/cache.mojo: one catalog and   *)
(* one plan cache, and the statements a program gives them one after       *)
(* another.  A session is called by one thread at a time, so a statement   *)
(* is a step; what makes the steps hard is how they add up: transactions   *)
(* that are aborted, rolled back and committed, statements that fail part  *)
(* of the way, names that change kind, frames the program registers        *)
(* between statements, and plans kept from one catalog to the next.        *)
(*                                                                         *)
(* A statement is a record with its operation in op.  Tables have one      *)
(* column, so a key is a key over that column, and a row is its value.     *)
(***************************************************************************)
EXTENDS SqlPlans, FiniteSetsExt

CONSTANTS Names,        \* the names of tables and views
          Columns,      \* the column a table has
          Values,       \* what its rows hold
          Statements,   \* the statements a program may give
          Queries,      \* and the queries
          Bodies,       \* the statements it may prepare
          Prepared,     \* the names it prepares them under
          Handed,       \* the frames it registers itself, and under what name
          Null,         \* a missing value
          Empty,        \* a text of no bytes
          Capacity,     \* CAPACITY, 512 in the code
          MaxRows,      \* bound: the rows a table grows to
          MaxGeneration \* bound: how many changes a behaviour makes

ASSUME CapacityAssumption == Capacity \in Nat \ {0}

\* What the constants above are made of: a frame, a query, and a statement of
\* each operation with what is read of its text.
Tables == [schema : Columns, rows : Seq(Values)]
Selects == [from : Names, column : Columns, strict : BOOLEAN, pivot : BOOLEAN]
KeyKinds == {"primary", "unique"}
Modes == {"plain", "if_not_exists", "or_replace"}

Texts ==
  [op : {"create"}, name : Names, schema : Columns, keys : Seq(KeyKinds),
   mode : Modes]
  \cup [op : {"create_as", "create_view"}, name : Names, query : Selects,
        mode : Modes]
  \cup [op : {"insert"}, name : Names, rows : Seq(Values)]
  \cup [op : {"insert_from"}, name : Names, query : Selects]
  \cup [op : {"drop"}, names : Seq(Names), kind : {KIND_FRAME, KIND_VIEW},
        if_exists : BOOLEAN]
  \cup [op : {"begin"}, read_only : BOOLEAN]
  \cup [op : {"commit", "rollback", "reset"}]
  \cup [op : {"set"}, value : STRING]
  \cup [op : {"pragma"}, known : BOOLEAN, value : BOOLEAN]
  \cup [op : {"select"}, query : Selects]
  \cup [op : {"prepare"}, name : Prepared, body : Bodies]
  \cup [op : {"execute", "deallocate"}, name : Prepared]

ASSUME TextsAssumption ==
  /\ Statements \cup Bodies \subseteq Texts
  /\ Queries \subseteq Selects
  /\ Handed \subseteq [name : Names, frame : Tables]

VARIABLES catalog,      \* the lists and the generation
          setting,      \* default_order and the optimizer switch
          saved,        \* what the catalog held when the transaction began
          aborted, read_only,
          prepared,     \* the text under each prepared name
          plans,        \* the session's PlanCache
          error,        \* how the last statement ended
          began         \* ghost: what the names held at BEGIN

transaction == <<saved, aborted, read_only, began>>
vars == <<catalog, setting, transaction, prepared, plans, error>>

Nothing == [op |-> "nothing"]

in_transaction == saved # <<>>

Init == /\ catalog = EmptyCatalog
        /\ setting = Plain
        /\ saved = <<>> /\ aborted = FALSE /\ read_only = FALSE
        /\ prepared = [p \in Prepared |-> Nothing]
        /\ plans = NoPlans
        /\ error = Fine
        /\ began = Held(EmptyCatalog)
-----------------------------------------------------------------------------
(* The statements.  Each is over when it raises or when it has changed the *)
(* catalog; what its failure does to a transaction is in Execute.          *)

Raise(how) == error' = how /\ UNCHANGED <<catalog, setting, prepared>>
Makes(c) == catalog' = c /\ error' = Fine /\ UNCHANGED <<setting, prepared>>

at(n) == find(catalog, n)

\* The three answers a CREATE gives to a name that is taken.
Stands(b) == b.mode = "if_not_exists" /\ at(b.name) # NOT_FOUND
Refused(b, kind) ==
  /\ at(b.name) # NOT_FOUND
  /\ b.mode = "plain" \/ (b.mode = "or_replace" /\ ~IsKind(catalog, b.name, kind))
Free(b, kind) == at(b.name) = NOT_FOUND \/ (b.mode = "or_replace"
                                            /\ IsKind(catalog, b.name, kind))

Taken(b, kind) == \/ Stands(b) /\ Makes(catalog)
                  \/ Refused(b, kind) /\ Raise(Before)

\* CREATE TABLE name (column [key]): register, then constrain.
CreateTable(b) ==
  \/ Taken(b, KIND_FRAME)
  \/ /\ Free(b, KIND_FRAME)
     /\ LET made == register(catalog, b.name, [schema |-> b.schema, rows |-> <<>>])
        IN  Makes(constrain(made, find(made, b.name), b.keys))

\* CREATE TABLE name AS query: the query runs before anything is registered.
CreateTableAs(b) ==
  \/ Taken(b, KIND_FRAME)
  \/ /\ Free(b, KIND_FRAME)
     /\ \/ /\ Outcome(catalog, b.query) # Fine
           /\ Raise(Outcome(catalog, b.query))
        \/ /\ Outcome(catalog, b.query) = Fine
           /\ Makes(register(catalog, b.name, Answer(catalog, b.query)))

\* CREATE VIEW name AS query: checked against the catalog as it is now.
CreateView(b) ==
  \/ Taken(b, KIND_VIEW)
  \/ /\ Free(b, KIND_VIEW)
     /\ \/ /\ CheckOutcome(catalog, b.query) # Fine
           /\ Raise(CheckOutcome(catalog, b.query))
        \/ /\ CheckOutcome(catalog, b.query) = Fine
           /\ Makes(define(catalog, b.name, b.query))

\* _key_text, for a key of one column: a missing value reads as no text.
KeyText(row) == IF row = Null THEN Empty ELSE row

\* Slip: the new rows are compared with the rows already there and not with
\* one another.
check_keys_against_old(old, new, keys) ==
  keys # <<>> =>
    \A i \in DOMAIN new :
      KeyText(new[i]) # Empty =>
        \A j \in DOMAIN old : KeyText(old[j]) # KeyText(new[i])

\* _check_keys lets the new rows in: a key of no text is equal to nothing.
check_keys(old, new, keys) ==
  keys # <<>> =>
    \A i \in DOMAIN new :
      KeyText(new[i]) # Empty =>
        /\ \A j \in DOMAIN old : KeyText(old[j]) # KeyText(new[i])
        /\ \A j \in 1 .. i - 1 : KeyText(new[j]) # KeyText(new[i])

Nullable(keys) == "primary" \notin ToSet(keys)

\* The rows an INSERT brings: those it lists, or those of its query.
Given(b) == IF b.op = "insert" THEN b.rows ELSE Rows(catalog, b.query)
GivenOutcome(b) == IF b.op = "insert" THEN Fine ELSE Outcome(catalog, b.query)

\* INSERT INTO name: every row or none.
Insert(b) ==
  LET old == frame_at(catalog, at(b.name))
      keys == uniques_at(catalog, at(b.name))
      Fits == /\ ~Nullable(keys) => Null \notin ToSet(Given(b))
              /\ check_keys(old.rows, Given(b), keys)
  IN  \/ /\ ~IsKind(catalog, b.name, KIND_FRAME)
         /\ Raise(Before)
      \/ /\ IsKind(catalog, b.name, KIND_FRAME)
         /\ \/ /\ GivenOutcome(b) # Fine
               /\ Raise(GivenOutcome(b))
            \/ /\ GivenOutcome(b) = Fine
               /\ ~Fits
               /\ Raise(Running)
            \/ /\ GivenOutcome(b) = Fine
               /\ Fits
               /\ Len(old.rows) + Len(Given(b)) <= MaxRows
               /\ Makes(refill(catalog, at(b.name),
                               [old EXCEPT !.rows = @ \o Given(b)]))

\* The catalog after none of the names are dropped, one of them, two...
Without(c, names) ==
  LET after[k \in 0 .. Len(names)] ==
        IF k = 0 THEN c ELSE drop(after[k - 1], names[k])
  IN  after

\* DROP TABLE or DROP VIEW of a list of names: one after the other, until one
\* cannot be dropped, which stops there.
Drop(b) ==
  LET after == Without(catalog, b.names)
      Stops == {k \in DOMAIN b.names :
                  IF find(after[k - 1], b.names[k]) = NOT_FOUND
                  THEN ~b.if_exists
                  ELSE ~IsKind(after[k - 1], b.names[k], b.kind)}
  IN  \/ /\ Stops = {}
         /\ Makes(after[Len(b.names)])
      \/ /\ Stops # {}
         /\ catalog' = after[Min(Stops) - 1]
         /\ error' = Before
         /\ UNCHANGED <<setting, prepared>>

SetsTo(s) == /\ setting' = s
             /\ catalog' = moved(catalog)
             /\ error' = Fine
             /\ UNCHANGED prepared

\* Slip: the generation does not move with a setting.
SetSilently(b) ==
  \/ /\ b.value \in {"asc", "desc"}
     /\ setting' = [setting EXCEPT !.order = b.value]
     /\ error' = Fine
     /\ UNCHANGED <<catalog, prepared>>
  \/ b.value \notin {"asc", "desc"} /\ Raise(Running)

\* SET default_order: a value it does not take changes nothing.
Set(b) == \/ /\ b.value \in {"asc", "desc"}
             /\ SetsTo([setting EXCEPT !.order = b.value])
          \/ b.value \notin {"asc", "desc"} /\ Raise(Running)

Reset(b) == SetsTo([setting EXCEPT !.order = Plain.order])

\* PRAGMA: the generation moves before the pragma is known to be one.
Pragma(b) == \/ b.known /\ SetsTo([setting EXCEPT !.optimizer = b.value])
             \/ /\ ~b.known
                /\ catalog' = moved(catalog)
                /\ error' = Before
                /\ UNCHANGED <<setting, prepared>>

\* A query that execute runs, from its text.
Select(b) == Raise(Outcome(catalog, b.query))

Prepare(b) == /\ prepared' = [prepared EXCEPT ![b.name] = b.body]
              /\ error' = Fine
              /\ UNCHANGED <<catalog, setting>>

Deallocate(b) == /\ prepared' = [prepared EXCEPT ![b.name] = Nothing]
                 /\ error' = Fine
                 /\ UNCHANGED <<catalog, setting>>

\* EXECUTE of a name that holds no statement.
Unprepared(b) == Raise(Before)

\* Slip: DROP is not taken for a write.
WritesButDrops ==
  {"create", "create_as", "create_view", "insert", "insert_from"}

\* The statements a READ ONLY transaction refuses.
Writes == {"create", "create_as", "create_view", "insert", "insert_from", "drop"}

\* _statement: what a statement outside the transaction ones does.
Statement(b) ==
  IF b.op \in Writes /\ read_only
  THEN Raise(Running)
  ELSE CASE b.op = "create" -> CreateTable(b)
         [] b.op = "create_as" -> CreateTableAs(b)
         [] b.op = "create_view" -> CreateView(b)
         [] b.op \in {"insert", "insert_from"} -> Insert(b)
         [] b.op = "drop" -> Drop(b)
         [] b.op = "set" -> Set(b)
         [] b.op = "reset" -> Reset(b)
         [] b.op = "pragma" -> Pragma(b)
         [] b.op = "select" -> Select(b)
         [] b.op = "prepare" -> Prepare(b)
         [] b.op = "deallocate" -> Deallocate(b)
         [] b.op = "execute" -> Unprepared(b)
-----------------------------------------------------------------------------
(* Transactions. *)

Ended == saved' = <<>> /\ aborted' = FALSE /\ read_only' = FALSE
         /\ began' = Held(EmptyCatalog)

RollsBack == /\ catalog' = restore(catalog, saved[1])
             /\ Ended
             /\ error' = Fine

\* A second BEGIN is an error that fails the transaction it finds.
Begin(b) ==
  /\ \/ /\ in_transaction
        /\ aborted' = TRUE
        /\ error' = Running
        /\ UNCHANGED <<saved, read_only, began>>
     \/ /\ ~in_transaction
        /\ saved' = <<Save(catalog)>>
        /\ aborted' = FALSE
        /\ read_only' = b.read_only
        /\ began' = Held(catalog)
        /\ error' = Fine
  /\ UNCHANGED catalog

\* Slip: COMMIT keeps what an aborted transaction did.
CommitAnyway(b) ==
  \/ ~in_transaction /\ error' = Running /\ UNCHANGED <<catalog, transaction>>
  \/ in_transaction /\ Ended /\ error' = Fine /\ UNCHANGED catalog

\* COMMIT of an aborted transaction rolls it back without a word.
Commit(b) ==
  \/ /\ ~in_transaction
     /\ error' = Running
     /\ UNCHANGED <<catalog, transaction>>
  \/ in_transaction /\ aborted /\ RollsBack
  \/ /\ in_transaction /\ ~aborted
     /\ Ended
     /\ error' = Fine
     /\ UNCHANGED catalog

Rollback(b) ==
  \/ /\ ~in_transaction
     /\ error' = Running
     /\ UNCHANGED <<catalog, transaction>>
  \/ in_transaction /\ RollsBack

Transactions == {"begin", "commit", "rollback"}

Transaction(b) == /\ CASE b.op = "begin" -> Begin(b)
                       [] b.op = "commit" -> Commit(b)
                       [] b.op = "rollback" -> Rollback(b)
                  /\ UNCHANGED <<setting, prepared>>

\* The statement an EXECUTE runs, which execute is called for in its turn.
Body(s) == IF s.op = "execute" /\ prepared[s.name] # Nothing
           THEN prepared[s.name] ELSE s

\* _aborts and _unbound: an error that says something ran, and the binder's
\* own words when the statement is not itself a query.
Fails(s, how) == how = Running \/ (how = Unbound /\ s.op # "select")

\* Slip: the statements of an aborted transaction run.
ExecuteAborted(s) ==
  \/ Body(s).op \in Transactions /\ Transaction(Body(s)) /\ UNCHANGED plans
  \/ /\ Body(s).op \notin Transactions
     /\ Statement(Body(s))
     /\ aborted' = (aborted \/ (in_transaction /\ Fails(s, error')))
     /\ UNCHANGED <<saved, read_only, began, plans>>

\* Slip: a statement that fails leaves the transaction going.
ExecuteGoesOn(s) ==
  \/ /\ aborted /\ s.op \notin Transactions
     /\ error' = Running
     /\ UNCHANGED <<catalog, setting, transaction, prepared, plans>>
  \/ /\ ~aborted \/ s.op \in Transactions
     /\ Body(s).op \in Transactions
     /\ Transaction(Body(s)) /\ UNCHANGED plans
  \/ /\ ~aborted /\ Body(s).op \notin Transactions
     /\ Statement(Body(s))
     /\ UNCHANGED <<transaction, plans>>

\* execute: an aborted transaction runs nothing but its end.
Execute(s) ==
  \/ /\ aborted /\ s.op \notin Transactions
     /\ error' = Running
     /\ UNCHANGED <<catalog, setting, transaction, prepared>>
     /\ UNCHANGED plans
  \/ /\ ~aborted \/ s.op \in Transactions
     /\ Body(s).op \in Transactions
     /\ Transaction(Body(s))
     /\ UNCHANGED plans
  \/ /\ ~aborted
     /\ Body(s).op \notin Transactions
     /\ Statement(Body(s))
     /\ aborted' = (in_transaction /\ Fails(s, error'))
     /\ UNCHANGED <<saved, read_only, began, plans>>
-----------------------------------------------------------------------------
(* PlanCache.answer: a query given to the session. *)

AsSelect(q) == [op |-> "select", query |-> q]
KeyNow(q) == Key(q, catalog.generation)

\* Inside a transaction no plan is looked up or kept.
QueryInTransaction(q) == in_transaction /\ Execute(AsSelect(q))

Runs(plan, q) == /\ error' = RunOutcome(catalog, plan, q)
                 /\ UNCHANGED <<catalog, setting, transaction, prepared>>

QueryHit(q) == /\ ~in_transaction
               /\ KeyNow(q) \in DOMAIN plans
               /\ Runs(plans[KeyNow(q)], q)
               /\ UNCHANGED plans

\* A query that does not plan goes to execute, for its error.
QueryMiss(q) ==
  /\ ~in_transaction
  /\ KeyNow(q) \notin DOMAIN plans
  /\ \/ ~Plans(catalog, q) /\ Execute(AsSelect(q))
     \/ /\ Plans(catalog, q)
        /\ plans' = Keep(plans, KeyNow(q), PlanOf(catalog, setting, q), Capacity)
        /\ Runs(PlanOf(catalog, setting, q), q)

\* SqlSession.register, from the program: no transaction is asked about it.
Register(h) == /\ catalog' = register(catalog, h.name, h.frame)
               /\ error' = Fine
               /\ UNCHANGED <<setting, transaction, prepared, plans>>

Next == /\ catalog.generation < MaxGeneration
        /\ \/ \E s \in Statements : Execute(s)
           \/ \E q \in Queries :
                QueryInTransaction(q) \/ QueryHit(q) \/ QueryMiss(q)
           \/ \E h \in Handed : Register(h)

Spec == Init /\ [][Next]_vars
-----------------------------------------------------------------------------
\* Every variable holds what its declaration says.
TypeOK == /\ WellPacked(catalog)
          /\ setting \in [order : {"asc", "desc"}, optimizer : BOOLEAN]
          /\ Len(saved) <= 1
          /\ aborted \in BOOLEAN /\ read_only \in BOOLEAN
          /\ (aborted \/ read_only) => in_transaction
          /\ \A p \in Prepared : prepared[p] \in Bodies \cup {Nothing}
          /\ error \in {Fine, Before, Unbound, Running}

Frames == {n \in DOMAIN Held(catalog) : IsKind(catalog, n, KIND_FRAME)}

\* No two rows of a table agree on a key it was created with, and a primary
\* key is never missing, however the table was filled, rolled back, moved by
\* the drop of another or replaced: an insert checks the keys it finds beside
\* the frame and the two are kept in different lists.
KeysHold ==
  \A n \in Frames :
    LET keys == uniques_at(catalog, at(n))
        rows == frame_at(catalog, at(n)).rows
    IN  keys # <<>> =>
          /\ \A i, j \in DOMAIN rows :
               i # j /\ rows[i] = rows[j] => rows[i] = Null
          /\ ~Nullable(keys) => Null \notin ToSet(rows)

\* A kept plan that the next query would find is the plan that query would
\* be given afresh: no change to a name, to a view or to a setting, no
\* transaction and no rollback leaves a plan behind that is still looked at.
KeptPlansAreCurrent ==
  \A k \in DOMAIN plans :
    ~in_transaction /\ k = KeyNow(k[1]) =>
      /\ Plans(catalog, k[1])
      /\ plans[k] = PlanOf(catalog, setting, k[1])

\* A transaction that is rolled back, or committed after it was aborted,
\* leaves every name holding what it held at BEGIN, keys and views included.
RollbackRestores ==
  [][in_transaction /\ saved' = <<>>
     /\ (aborted \/ \E s \in Statements : Body(s).op = "rollback" /\ Execute(s))
       => Held(catalog') = began]_vars

\* Until it ends, an aborted transaction changes no name and no setting:
\* only the program's own register still can.
AbortedIsFrozen ==
  [][aborted /\ aborted' =>
       \/ Held(catalog') = Held(catalog) /\ setting' = setting
                                         /\ prepared' = prepared
       \/ \E h \in Handed : Register(h)]_vars

\* A transaction begun READ ONLY changes no name by any statement, prepared
\* ones included.
ReadOnlyChangesNothing ==
  [][read_only /\ read_only' =>
       \/ Held(catalog') = Held(catalog)
       \/ \E h \in Handed : Register(h)]_vars

\* The generation goes up with every change to what planning reads, and never
\* down, rollbacks included.
GenerationSeesEveryChange ==
  [][/\ catalog'.generation >= catalog.generation
     /\ Held(catalog') # Held(catalog) \/ setting' # setting =>
          catalog'.generation > catalog.generation]_vars

\* A statement that fails as it runs - a constraint, a cast - does so inside
\* a transaction that is then aborted: nothing after it is kept by a COMMIT.
RunningFailureAborts ==
  [][in_transaction /\ in_transaction' /\ error' = Running => aborted']_vars
=============================================================================
