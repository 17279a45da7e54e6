----------------------------- MODULE SharedPlans -----------------------------
(***************************************************************************)
(* firepanda.sql (run_sql in py/frame.mojo): every call builds a catalog   *)
(* of its own out of the frames it is given, and the plan cache the calls  *)
(* share keeps plans under the text and the shape of that catalog, which   *)
(* has no rows in it.                                                      *)
(***************************************************************************)
EXTENDS SqlPlans

CONSTANTS Names,        \* the names a call gives its frames
          Frames,       \* the frames
          Queries,      \* the queries
          Capacity      \* CAPACITY, 512 in the code

VARIABLES shared,       \* the session's shared PlanCache
          ran,          \* the plan the last call ran
          wanted        \* ghost: the plan its own catalog calls for

vars == <<shared, ran, wanted>>

Unplanned == [scan |-> "nothing"]

Init == shared = NoPlans /\ ran = Unplanned /\ wanted = Unplanned

\* The catalog of a call: a register for each name, in the order they come.
CatalogOf(names, frames) ==
  LET after[k \in 0 .. Len(names)] ==
        IF k = 0 THEN EmptyCatalog
        ELSE register(after[k - 1], names[k], frames[names[k]])
  IN  after[Len(names)]

KeyOf(c, q) == Key(q, shape(c))

Wanted(c, q) == IF Plans(c, q) THEN PlanOf(c, Plain, q) ELSE Unplanned

\* A plan that is found is run, whatever this catalog would say of the query.
Hit(c, q) == /\ KeyOf(c, q) \in DOMAIN shared
             /\ ran' = shared[KeyOf(c, q)]
             /\ wanted' = Wanted(c, q)
             /\ UNCHANGED shared

Miss(c, q) ==
  /\ KeyOf(c, q) \notin DOMAIN shared
  /\ Plans(c, q)
  /\ ran' = PlanOf(c, Plain, q)
  /\ wanted' = Wanted(c, q)
  /\ shared' = Keep(shared, KeyOf(c, q), PlanOf(c, Plain, q), Capacity)

\* A query that does not plan is an error from execute: no plan is run or kept.
Unplannable(c, q) == /\ KeyOf(c, q) \notin DOMAIN shared
                     /\ ~Plans(c, q)
                     /\ ran' = Unplanned
                     /\ wanted' = Wanted(c, q)
                     /\ UNCHANGED shared

Call(names, frames, q) ==
  LET c == CatalogOf(names, frames)
  IN  Hit(c, q) \/ Miss(c, q) \/ Unplannable(c, q)

Orders == UNION {SetToSeqs(S) : S \in (SUBSET Names) \ {{}}}

Next == \E names \in Orders, q \in Queries :
          \E frames \in [Names -> Frames] : Call(names, frames, q)

Spec == Init /\ [][Next]_vars
-----------------------------------------------------------------------------
\* The plan a call runs, kept from an earlier call over other frames or not,
\* is the plan its own frames call for.
RunsItsOwnPlan == ran = wanted
=============================================================================
