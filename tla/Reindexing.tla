------------------------------- MODULE Reindexing -------------------------------
(***************************************************************************)
(* Where each label asked for reads from among the labels an owner has     *)
(* (src/python/firepanda/_pandas.py, reindex and get_indexer): an exact    *)
(* match, else the neighbour a method names, so many times and so far.     *)
(* Labels are numbers and Gap a missing one; positions count from 0 and    *)
(* Nowhere is no position.                                                 *)
(***************************************************************************)
EXTENDS Integers, Sequences, FiniteSets, FiniteSetsExt

Gap == -99        \* a missing label, a number no label is
Nowhere == -1
Unlimited == -1
Unanswered == <<-2>>

Methods == {"exact", "pad", "backfill", "nearest"}

Rises(labels) == Gap \notin {labels[i] : i \in DOMAIN labels}
                 /\ \A i \in 1 .. Len(labels) - 1 : labels[i] <= labels[i + 1]
Falls(labels) == Gap \notin {labels[i] : i \in DOMAIN labels}
                 /\ \A i \in 1 .. Len(labels) - 1 : labels[i] >= labels[i + 1]

(* A set in the order of a strict total order on it.                       *)
Sorted(S, Precedes(_, _)) ==
  [k \in 1 .. Cardinality(S) |-> CHOOSE x \in S : Cardinality({y \in S : Precedes(y, x)}) = k - 1]

(* What a sequence has at some of its places, in their order.              *)
AtPlaces(s, places) ==
  LET order == Sorted(places, <) IN [k \in DOMAIN order |-> s[order[k]]]

Exact(own, label) ==
  LET at == {i \in DOMAIN own : own[i] = label}
  IN  IF at = {} THEN Nowhere ELSE Min(at) - 1

(* Slip: a falling index is searched as a rising one.                      *)
NeighbourRising(own, label, pad, rising) ==
  LET reaches(i) == IF pad THEN own[i] <= label ELSE own[i] >= label
      at == {i \in DOMAIN own : reaches(i)}
  IN  IF label = Gap \/ at = {} THEN Nowhere ELSE (IF pad THEN Max(at) ELSE Min(at)) - 1

(* pad reads from the last label at or before the target in the order of   *)
(* the index, backfill from the first at or after it; on a falling index   *)
(* pad therefore reads from the larger neighbour.                          *)
Neighbour(own, label, pad, rising) ==
  LET reaches(i) == IF rising = pad THEN own[i] <= label ELSE own[i] >= label
      at == {i \in DOMAIN own : reaches(i)}
  IN  IF label = Gap \/ at = {} THEN Nowhere ELSE (IF pad THEN Max(at) ELSE Min(at)) - 1

(* A limit caps how many targets without a match of their own one label    *)
(* fills, the targets nearest to it first.                                 *)
Limited(own, target, place, pad, limit) ==
  LET inexact == {t \in DOMAIN target : place[t] # Nowhere /\ own[place[t] + 1] # target[t]}
      before(t) == {u \in inexact : place[u] = place[t] /\ (IF pad THEN u <= t ELSE u >= t)}
  IN  [t \in DOMAIN target |->
         IF limit # Unlimited /\ t \in inexact /\ Cardinality(before(t)) > limit
         THEN Nowhere ELSE place[t]]

FillPlaces(own, target, pad, limit, rising) ==
  Limited(own, target, [t \in DOMAIN target |-> Neighbour(own, target[t], pad, rising)],
          pad, limit)

Distance(a, b) == IF a < b THEN b - a ELSE a - b

(* Between two neighbours the nearer, and the larger of two as near.       *)
Nearer(own, label, left, right, rising) ==
  IF right = Nowhere THEN left
  ELSE IF left = Nowhere THEN right
  ELSE LET near == Distance(own[left + 1], label)
           far == Distance(own[right + 1], label)
       IN  IF near < far \/ (~rising /\ near = far) THEN left ELSE right

NearestPlaces(own, target, limit, rising) ==
  LET left == FillPlaces(own, target, TRUE, limit, rising)
      right == FillPlaces(own, target, FALSE, limit, rising)
  IN  [t \in DOMAIN target |-> Nearer(own, target[t], left[t], right[t], rising)]

\* A label farther than the tolerance is no neighbour.
Tolerated(own, label, place, tolerance) ==
  IF /\ tolerance # Unlimited /\ place # Nowhere
     /\ Distance(own[place + 1], label) > tolerance
  THEN Nowhere ELSE place

Positions(own, target, method, limit, tolerance) ==
  LET rising == Rises(own)
      exact == [t \in DOMAIN target |-> Exact(own, target[t])]
      filled == IF method = "nearest" THEN NearestPlaces(own, target, limit, rising)
                ELSE FillPlaces(own, target, method = "pad", limit, rising)
  IN  IF Cardinality({own[i] : i \in DOMAIN own}) # Len(own) THEN Unanswered
      ELSE IF method = "exact" THEN exact
      ELSE IF \/ limit # Unlimited /\ ~(rising /\ Rises(target))
              \/ ~rising /\ ~Falls(own)
      THEN Unanswered
      ELSE [t \in DOMAIN target |->
              Tolerated(own, target[t], IF exact[t] # Nowhere THEN exact[t] ELSE filled[t],
                        tolerance)]
===============================================================================
