------------------------------- MODULE SqlPlans -------------------------------
(***************************************************************************)
(* A query against a catalog: what planning reads (sql/plan.mojo,          *)
(* Dialect.plan_ast), what running reads (Prepared.run) and how a          *)
(* PlanCache keeps plans (sql/cache.mojo).                                 *)
(*                                                                         *)
(* A query reads one column of one name.  A strict query is one whose      *)
(* expressions fail on a row, a cast for instance, and a pivot is a PIVOT  *)
(* without an IN list.  A frame is a schema, which is the one column it    *)
(* has, and a sequence of rows.                                            *)
(***************************************************************************)
EXTENDS Catalog, FiniteSets

\* How a statement ends, told apart as _aborts and _unbound do: without an
\* error; refused under a prefix that says nothing ran; by the binder in the
\* words of the plan, which carry no such prefix; or while it ran.
Fine == "fine"
Before == "before"
Unbound == "unbound"
Running == "running"

Plain == [order |-> "asc", optimizer |-> TRUE]

\* The names a query over n reaches, a view at a time.
Reached(c, n) ==
  LET walk[k \in 0 .. Len(c.keys)] ==
        IF k = 0 THEN n
        ELSE IF IsKind(c, walk[k - 1], KIND_VIEW)
             THEN view_at(c, find(c, walk[k - 1])).from
             ELSE walk[k - 1]
  IN  walk

Scanned(c, n) == Reached(c, n)[Len(c.keys)]

\* _no_cycle refuses a view that reaches itself, and a name that nothing
\* holds is a catalog error: both before the columns are looked at.
Resolves(c, q) == IsKind(c, Scanned(c, q.from), KIND_FRAME)

\* bind: the column is produced by every view on the way, and by the frame.
Binds(c, q) ==
  /\ \A k \in DOMAIN Reached(c, q.from) :
       LET n == Reached(c, q.from)[k] IN
       IsKind(c, n, KIND_VIEW) => view_at(c, find(c, n)).column = q.column
  /\ frame_at(c, find(c, Scanned(c, q.from))).schema = q.column

Rows(c, q) == frame_at(c, find(c, Scanned(c, q.from))).rows

FailsOnARow(c, q) == q.strict /\ Rows(c, q) # <<>>

\* run_ast: lower, bind, optimize, find the frames, run.
Outcome(c, q) == IF ~Resolves(c, q) THEN Before
                 ELSE IF ~Binds(c, q) THEN Unbound
                 ELSE IF FailsOnARow(c, q) THEN Running
                 ELSE Fine

Answer(c, q) == [schema |-> q.column, rows |-> Rows(c, q)]

\* check_ast: lower and bind, and run nothing.
CheckOutcome(c, q) == IF ~Resolves(c, q) THEN Before
                      ELSE IF ~Binds(c, q) THEN Unbound
                      ELSE Fine

Plans(c, q) == Resolves(c, q) /\ Binds(c, q)

\* plan_ast: everything a plan holds.  The columns of a pivot with no list
\* are the values its source holds when the plan is made (_pivot_values).
PlanOf(c, setting, q) ==
  [scan |-> Scanned(c, q.from), schema |-> q.column,
   order |-> setting.order, optimizer |-> setting.optimizer,
   cells |-> IF q.pivot THEN ToSet(Rows(c, q)) ELSE {}]

\* Prepared.run: the scan is found again by name, whatever it holds now.
RunOutcome(c, plan, q) ==
  IF find(c, plan.scan) = NOT_FOUND THEN Before
  ELSE IF q.strict /\ frame_at(c, find(c, plan.scan)).rows # <<>>
  THEN Running ELSE Fine
-----------------------------------------------------------------------------
NoPlans == [k \in {} |-> {}]

\* PlanCache.key: the text and what the caller says of the catalog.
Key(q, scope) == <<q, scope>>

\* A full cache is emptied before a plan is kept.
Keep(plans, key, plan, capacity) ==
  LET room == IF Cardinality(DOMAIN plans) >= capacity THEN NoPlans ELSE plans
  IN  [k \in DOMAIN room \cup {key} |-> IF k = key THEN plan ELSE room[k]]

\* Slip: the columns of a frame are left out.
shape_of_names(c) == [at \in DOMAIN c.keys |-> <<c.keys[at], c.kinds[at]>>]

\* shape(): what binding reads of each entry, and no rows.
shape(c) ==
  [at \in DOMAIN c.keys |->
     IF c.kinds[at] = KIND_VIEW
     THEN <<c.keys[at], KIND_VIEW, view_at(c, at)>>
     ELSE <<c.keys[at], KIND_FRAME, frame_at(c, at).schema,
            uniques_at(c, at)>>]
=============================================================================
