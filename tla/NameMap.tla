------------------------------- MODULE NameMap -------------------------------
(***************************************************************************)
(* What a catalog is to its callers: a map from names to frames with keys  *)
(* and to views.  An operation on a name touches no other name.            *)
(***************************************************************************)
CONSTANTS Names, Frames, Views, Keys

VARIABLE held

NoNames == [n \in {} |-> {}]

With(n, e) == [m \in DOMAIN held \cup {n} |-> IF m = n THEN e ELSE held[m]]

Frame(f, k) == [kind |-> "frame", frame |-> f, keys |-> k]
View(v) == [kind |-> "view", view |-> v]

HoldsFrame(n) == n \in DOMAIN held /\ held[n].kind = "frame"

Init == held = NoNames

Register(n, f) == held' = With(n, Frame(f, <<>>))
Define(n, v) == held' = With(n, View(v))
Drop(n) == held' = [m \in DOMAIN held \ {n} |-> held[m]]
Refill(n, f) == HoldsFrame(n) /\ held' = With(n, Frame(f, held[n].keys))
Constrain(n, k) == HoldsFrame(n) /\ held' = With(n, Frame(held[n].frame, k))

Next == \E n \in Names :
          \/ \E f \in Frames : Register(n, f) \/ Refill(n, f)
          \/ \E v \in Views : Define(n, v)
          \/ \E k \in Keys : Constrain(n, k)
          \/ Drop(n)

Spec == Init /\ [][Next]_held
=============================================================================
