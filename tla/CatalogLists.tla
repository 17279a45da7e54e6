----------------------------- MODULE CatalogLists -----------------------------
(***************************************************************************)
(* A catalog and the calls it takes, in any order: register and define     *)
(* over whatever a name holds, drop, refill and constrain on an entry that *)
(* find returned.  The statements that make these calls are in SqlSession. *)
(***************************************************************************)
EXTENDS Catalog

CONSTANTS Names, Frames, Views, Keys,
          MaxGeneration \* bound: how many changes a behaviour makes

VARIABLE catalog

Init == catalog = EmptyCatalog

Register(n, f) == catalog' = register(catalog, n, f)
Define(n, v) == catalog' = define(catalog, n, v)
Drop(n) == catalog' = drop(catalog, n)
Refill(n, f) == /\ IsKind(catalog, n, KIND_FRAME)
                /\ catalog' = refill(catalog, find(catalog, n), f)
Constrain(n, k) == /\ IsKind(catalog, n, KIND_FRAME)
                   /\ catalog' = constrain(catalog, find(catalog, n), k)

Next == /\ catalog.generation < MaxGeneration
        /\ \E n \in Names :
             \/ \E f \in Frames : Register(n, f) \/ Refill(n, f)
             \/ \E v \in Views : Define(n, v)
             \/ \E k \in Keys : Constrain(n, k)
             \/ Drop(n)

Spec == Init /\ [][Next]_catalog
-----------------------------------------------------------------------------
\* Every field of the catalog holds what its declaration says.
TypeOK == /\ catalog.keys \in Seq(Names)
          /\ catalog.kinds \in Seq({KIND_FRAME, KIND_VIEW})
          /\ catalog.slots \in Seq(Nat \ {0})
          /\ catalog.frames \in Seq(Frames)
          /\ catalog.uniques \in Seq(Keys \cup {<<>>})
          /\ catalog.views \in Seq(Views)
          /\ catalog.generation \in 0 .. MaxGeneration + 2

\* However frames and views are registered, replaced by one another and
\* dropped, the packed payload lists and the slots that index them agree:
\* no entry is left pointing past a payload that moved.
SlotsStayPacked == WellPacked(catalog)

NM == INSTANCE NameMap WITH held <- Held(catalog)

\* The lists are a map from names: every call changes the entry it names, as
\* the map would, and no other.
ImplementsNameMap == NM!Spec
=============================================================================
