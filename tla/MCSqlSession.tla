---------------------------- MODULE MCSqlSession ----------------------------
(***************************************************************************)
(* The SQL layer over two names, t and u, with tables of one column, C or  *)
(* D.  A behaviour is one of three: a session and its statements, the      *)
(* lists of a catalog under any order of calls (three names, which is what *)
(* it takes for a drop to move a payload of its own kind and leave one of  *)
(* the other alone), or the calls of firepanda.sql that share plans, with  *)
(* frames of two schemas and different rows.                               *)
(***************************************************************************)
EXTENDS SqlSession

CONSTANTS t, u, w, a, b, q,
          Parts,        \* "session", "lists" and "shared", or some of them
          SharedQueries, SharedFrames, SharedCapacity,
          ListNames, ListFrames, ListViews, ListKeys,   \* what the lists are given
          ListChanges   \* bound: how many changes the calls of the lists make

\* The calls of firepanda.sql are given frames and queries a session could be.
ASSUME SharedAssumption ==
  IsFiniteSet(Names) /\ SharedFrames \subseteq Tables /\ SharedQueries \subseteq Selects

VARIABLES part,         \* which of the three runs
          listed,       \* the catalog of the lists
          shared, ran, wanted

Lists == INSTANCE CatalogLists WITH
  Names <- ListNames, Frames <- ListFrames, Views <- ListViews,
  Keys <- ListKeys, MaxGeneration <- ListChanges, catalog <- listed

Shared == INSTANCE SharedPlans WITH
  Queries <- SharedQueries, Frames <- SharedFrames, Capacity <- SharedCapacity

others == <<part, listed, shared, ran, wanted>>

SqlInit == part \in Parts /\ Init /\ Lists!Init /\ Shared!Init

SqlNext ==
  \/ part = "session" /\ Next /\ UNCHANGED others
  \/ part = "lists" /\ Lists!Next /\ UNCHANGED <<vars, part, shared, ran, wanted>>
  \/ part = "shared" /\ Shared!Next /\ UNCHANGED <<vars, part, listed>>

SqlSpec == SqlInit /\ [][SqlNext]_<<vars, others>>

(***************************************************************************)
(* The lists and slots of a catalog are a map from names: every call       *)
(* changes the entry it names, as the map would, and no other, and leaves  *)
(* the payloads packed, no slot pointing past one that moved.              *)
(***************************************************************************)
ImplementsNameMap ==
  Lists!ImplementsNameMap /\ [](Lists!TypeOK /\ Lists!SlotsStayPacked)

(***************************************************************************)
(* The plan a call of firepanda.sql runs, kept from an earlier call over   *)
(* other frames or not, is the plan its own frames call for.               *)
(***************************************************************************)
RunsItsOwnPlan == Shared!RunsItsOwnPlan

(***************************************************************************)
(* Every change to what planning reads, a rollback included, moves the     *)
(* generation on, and so a kept plan that the next query would find is the *)
(* plan it would be given afresh.                                          *)
(***************************************************************************)
PlansFollowChanges ==
  [](TypeOK /\ KeptPlansAreCurrent) /\ GenerationSeesEveryChange

(***************************************************************************)
(* Refused is refused: neither an aborted transaction nor one begun READ   *)
(* ONLY changes a name or a setting it may not, prepared statements        *)
(* included, and a COMMIT of an aborted one keeps nothing; and a statement *)
(* that fails while it runs aborts the transaction it is in.               *)
(***************************************************************************)
RefusedChangesNothing ==
  AbortedIsFrozen /\ ReadOnlyChangesNothing /\ RunningFailureAborts
-----------------------------------------------------------------------------

Query(n, c) == [from |-> n, column |-> c, strict |-> FALSE, pivot |-> FALSE]
Cast(n, c) == [Query(n, c) EXCEPT !.strict = TRUE]
Pivot(n, c) == [Query(n, c) EXCEPT !.pivot = TRUE]

Make(n, c, keys, mode) ==
  [op |-> "create", name |-> n, schema |-> c, keys |-> keys, mode |-> mode]
MakeAs(n, query, mode) ==
  [op |-> "create_as", name |-> n, query |-> query, mode |-> mode]
MakeView(n, query, mode) ==
  [op |-> "create_view", name |-> n, query |-> query, mode |-> mode]
Add(n, rows) == [op |-> "insert", name |-> n, rows |-> rows]
AddFrom(n, query) == [op |-> "insert_from", name |-> n, query |-> query]
Away(ns, kind) ==
  [op |-> "drop", names |-> ns, kind |-> kind, if_exists |-> FALSE]
AwayIf(ns, kind) == [Away(ns, kind) EXCEPT !.if_exists = TRUE]
BeginAs(ro) == [op |-> "begin", read_only |-> ro]
Commits == [op |-> "commit"]
Rolls == [op |-> "rollback"]
Ask(query) == [op |-> "select", query |-> query]
PrepareAs(n, body) == [op |-> "prepare", name |-> n, body |-> body]
ExecuteOf(n) == [op |-> "execute", name |-> n]
Forget(n) == [op |-> "deallocate", name |-> n]
SetOrder(v) == [op |-> "set", value |-> v]
ResetOrder == [op |-> "reset"]
Optimizer(known, v) == [op |-> "pragma", known |-> known, value |-> v]

Ends == {BeginAs(FALSE), Commits, Rolls}

\* Tables with keys, the ways rows reach them, and transactions.
KeyStatements ==
  Ends \cup
  {BeginAs(TRUE),
   Make(t, "C", <<"primary">>, "plain"), Make(u, "C", <<"unique">>, "or_replace"),
   MakeAs(u, Query(t, "C"), "or_replace"), MakeView(t, Query(u, "C"), "plain"),
   Add(t, <<a>>), Add(t, <<Null>>), Add(u, <<a, a>>), Add(u, <<Null, Null>>),
   AddFrom(u, Query(t, "C")),
   Away(<<t>>, KIND_FRAME), Away(<<t, u>>, KIND_FRAME), Away(<<t>>, KIND_VIEW),
   AwayIf(<<u>>, KIND_FRAME),
   ExecuteOf(q), Forget(q)} \cup {PrepareAs(q, body) : body \in Bodies}
KeyBodies == {Add(t, <<a>>), Rolls}
KeyHanded == {[name |-> t, frame |-> [schema |-> "C", rows |-> <<a, a>>]]}

\* What changes a plan: names, views over them, settings and rollbacks.
PlanStatements ==
  Ends \cup
  {Make(t, "C", <<>>, "or_replace"), Make(t, "D", <<>>, "if_not_exists"),
   MakeView(u, Query(t, "C"), "or_replace"), MakeView(t, Query(u, "C"), "plain"),
   Add(t, <<a>>),
   Away(<<t>>, KIND_FRAME), Away(<<u>>, KIND_VIEW),
   SetOrder("desc"), SetOrder("sideways"), ResetOrder,
   Optimizer(TRUE, FALSE), Optimizer(FALSE, FALSE)}
PlanQueries == {Query(t, "C"), Pivot(t, "C"), Cast(u, "C")}
PlanHanded == {[name |-> u, frame |-> [schema |-> "C", rows |-> <<a>>]]}

\* A key of text, and a text of no bytes.
EmptyKeyStatements == Ends \cup
  {Make(t, "C", <<"primary">>, "plain"), Add(t, <<Empty>>), Add(t, <<a>>)}

None == {}

\* What the lists are given.
ThreeNames == {t, u, w}
TwoFrames == {"f", "g"}
TwoViews == {"v", "x"}
PrimaryKey == {<<"primary">>}

PlainShared == {Query(t, "C"), Query(t, "D"), Query(u, "C")}
PivotShared == PlainShared \cup {Pivot(t, "C")}

OneRowFrames == [schema : {"C", "D"}, rows : {<<a>>, <<b>>}]

\* All of them at once.
SessionStatements == KeyStatements \cup PlanStatements
SessionHanded == KeyHanded \cup PlanHanded
=============================================================================
