----------------------------- MODULE JoinProofs -----------------------------
(***************************************************************************)
(* Row labels of the facade, of any number: what Joined answers is a join  *)
(* of its two sides (JoinsLineUp of MCFacade) whichever path the code      *)
(* takes, and a range index is its labels (RangeIsItsLabels).              *)
(*                                                                         *)
(* A join's rows are the pairs of places with equal labels and the lonely  *)
(* places of the sides it keeps.  The answer is a sequence of them, and    *)
(* the promise is about its order, so the argument is about sequences that *)
(* list a finite set (Lists) in a strict order (Climbs): a set has one of  *)
(* them, the one Sorted makes.  From there, in order:                      *)
(*   - a sequence made group by group, or side by side, lists its groups'  *)
(*     sets one after another (the groups of equal labels of a merge);     *)
(*   - each path answers such a sequence: both sides sorted and merged,    *)
(*     the groups put back in the order of the left rows, and each label   *)
(*     of one side looked up in the other (JoinIs, JoinedIs);              *)
(*   - an answer a path gives is one JoinsPairTheirRows allows             *)
(*     (JoinIsItsRows), and the positions get_indexer_non_unique finds are *)
(*     the other side of a left join (HitsAreAJoin).                       *)
(*                                                                         *)
(* A range goes on while it is short of its stop (Within, SizeIs), and     *)
(* labels that an even step leads through are the points of the range read *)
(* back from them (ReadBack).  A slice of a range is a range of its places *)
(* (SliceIsARange); and two ranges meet (RangesMetIs) in the range whose   *)
(* points are the shared labels in rising order, as Euclid's passes find a *)
(* divisor and its factors (EuclidDivides) and those the shared labels     *)
(* (MeetingSteps).                                                         *)
(***************************************************************************)
EXTENDS FacadeProofs
-----------------------------------------------------------------------------
(***************************************************************************)
(* Sets in an order.  A strict total order on a finite set numbers its     *)
(* members by how many come before each, and that is the only sequence of  *)
(* them in order.                                                          *)
(***************************************************************************)
OrderOn(R, S) ==
  /\ \A x \in S : <<x, x>> \notin R
  /\ \A x, y \in S : x # y => <<x, y>> \in R \/ <<y, x>> \in R
  /\ \A x, y, z \in S : <<x, y>> \in R /\ <<y, z>> \in R => <<x, z>> \in R

Preceding(S, R, x) == {y \in S : <<y, x>> \in R}

ByOrder(S, R) ==
  [k \in 1 .. Cardinality(S) |-> CHOOSE x \in S : Cardinality(Preceding(S, R, x)) = k - 1]

\* A sequence that has each member of a set once.
Lists(f, S) ==
  /\ IsSequence(f)
  /\ \A k \in 1 .. Len(f) : f[k] \in S
  /\ \A x \in S : \E k \in 1 .. Len(f) : f[k] = x
  /\ \A k, m \in 1 .. Len(f) : f[k] = f[m] => k = m

Climbs(f, R) == \A k, m \in 1 .. Len(f) : k < m => <<f[k], f[m]>> \in R

\* A function from the numbers up to one is a sequence as long.
LEMMA MadeSequence ==
  ASSUME NEW n \in Nat, NEW s, s = [k \in 1 .. n |-> s[k]]
  PROVE  IsSequence(s) /\ Len(s) = n /\ DOMAIN s = 1 .. n
<1>1. Len(s) = n
  OBVIOUS
<1>2. QED
  BY <1>1 DEF IsSequence

LEMMA MoreComeBefore ==
  ASSUME NEW S, IsFiniteSet(S), NEW R, OrderOn(R, S)
  PROVE  /\ \A x \in S : Cardinality(Preceding(S, R, x)) \in 0 .. Cardinality(S) - 1
         /\ \A x, y \in S : <<x, y>> \in R =>
              Cardinality(Preceding(S, R, x)) < Cardinality(Preceding(S, R, y))
<1>1. Cardinality(S) \in Nat
  BY FS_CardinalityType
<1>2. \A x \in S : /\ Preceding(S, R, x) \in SUBSET S /\ x \notin Preceding(S, R, x)
  BY DEF Preceding, OrderOn
<1>3. \A T \in SUBSET S : /\ IsFiniteSet(T) /\ Cardinality(T) \in Nat
                          /\ Cardinality(T) <= Cardinality(S)
                          /\ Cardinality(S) = Cardinality(T) => S = T
  BY FS_Subset, FS_CardinalityType
<1>4. ASSUME NEW x \in S
      PROVE  Cardinality(Preceding(S, R, x)) \in 0 .. Cardinality(S) - 1
  BY <1>1, <1>2, <1>3
<1>5. ASSUME NEW x \in S, NEW y \in S, <<x, y>> \in R
      PROVE  Cardinality(Preceding(S, R, x)) < Cardinality(Preceding(S, R, y))
  <2>1. Preceding(S, R, x) \in SUBSET Preceding(S, R, y)
    BY <1>5 DEF Preceding, OrderOn
  <2>2. x \in Preceding(S, R, y) /\ x \notin Preceding(S, R, x)
    BY <1>2, <1>5 DEF Preceding
  <2>3. IsFiniteSet(Preceding(S, R, y))
    BY <1>2, <1>3
  <2>4. /\ Cardinality(Preceding(S, R, x)) <= Cardinality(Preceding(S, R, y))
        /\ Cardinality(Preceding(S, R, x)) # Cardinality(Preceding(S, R, y))
    BY <2>1, <2>2, <2>3, FS_Subset
  <2>5. QED
    BY <1>2, <1>3, <2>4
<1>6. QED
  BY <1>4, <1>5

LEMMA ByOrderIs ==
  ASSUME NEW S, IsFiniteSet(S), NEW R, OrderOn(R, S)
  PROVE  /\ Lists(ByOrder(S, R), S) /\ Climbs(ByOrder(S, R), R)
         /\ Len(ByOrder(S, R)) = Cardinality(S) /\ Cardinality(S) \in Nat
<1> DEFINE n == Cardinality(S)
           before(x) == Cardinality(Preceding(S, R, x))
           f == ByOrder(S, R)
<1>1. n \in Nat
  BY FS_CardinalityType
<1>2. /\ \A x \in S : before(x) \in 0 .. n - 1
      /\ \A x, y \in S : <<x, y>> \in R => before(x) < before(y)
  BY MoreComeBefore
<1> HIDE DEF n, before
<1>3. \A x, y \in S : before(x) = before(y) => x = y
  <2>1. TAKE x, y \in S
  <2>2. before(x) \in Int /\ before(y) \in Int
    BY <1>1, <1>2
  <2>3. x # y => <<x, y>> \in R \/ <<y, x>> \in R
    BY DEF OrderOn
  <2>4. x # y => before(x) < before(y) \/ before(y) < before(x)
    BY <1>2, <2>3
  <2>5. QED
    BY <2>2, <2>4
<1>4. \A k \in 1 .. n : \E x \in S : before(x) = k - 1
  <2> DEFINE b == [x \in S |-> before(x)]
             T == 0 .. n - 1
  <2>1. b \in Injection(S, T)
    BY <1>2, <1>3 DEF Injection, IsInjective
  <2>2. IsFiniteSet(T) /\ Cardinality(T) = n
    <3>1. 0 \in Int /\ n - 1 \in Int
      BY <1>1
    <3>2. IsFiniteSet(T) /\ Cardinality(T) = IF 0 > n - 1 THEN 0 ELSE n - 1 - 0 + 1
      BY <3>1, FS_Interval
    <3>3. QED
      BY <1>1, <3>2
  <2>3. b \in Surjection(S, T)
    BY <2>1, <2>2, FS_Injection DEF n
  <2>4. ASSUME NEW k \in 1 .. n PROVE \E x \in S : before(x) = k - 1
    <3>1. k - 1 \in T
      BY <1>1
    <3>2. \E x \in S : b[x] = k - 1
      BY <2>3, <3>1 DEF Surjection
    <3>3. QED
      BY <3>2
  <2>5. QED
    BY <2>4
<1>5. f = [k \in 1 .. n |-> f[k]] /\ \A k \in 1 .. n : f[k] \in S /\ before(f[k]) = k - 1
  <2>1. f = [k \in 1 .. n |-> CHOOSE x \in S : before(x) = k - 1]
    BY DEF ByOrder, before, n
  <2> HIDE DEF f
  <2>2. QED
    BY <1>4, <2>1
<1> HIDE DEF f
<1>6. IsSequence(f) /\ Len(f) = n
  BY <1>1, <1>5, MadeSequence
<1>7. \A x \in S : \E k \in 1 .. n : f[k] = x
  <2>1. TAKE x \in S
  <2>2. before(x) + 1 \in 1 .. n
    BY <1>1, <1>2
  <2>3. before(f[before(x) + 1]) = before(x) /\ f[before(x) + 1] \in S
    BY <1>1, <1>2, <1>5, <2>2
  <2>4. QED
    BY <1>3, <2>2, <2>3
<1>8. \A k, m \in 1 .. n : f[k] = f[m] => k = m
  BY <1>1, <1>5
<1>9. \A k, m \in 1 .. n : k < m => <<f[k], f[m]>> \in R
  <2>1. TAKE k, m \in 1 .. n
  <2>2. SUFFICES ASSUME k < m PROVE <<f[k], f[m]>> \in R
    OBVIOUS
  <2>3. /\ f[k] \in S /\ f[m] \in S /\ before(f[k]) = k - 1 /\ before(f[m]) = m - 1
    BY <1>5
  <2>4. f[k] # f[m] /\ ~ (before(f[m]) < before(f[k]))
    BY <1>1, <2>2, <2>3
  <2>5. QED
    BY <1>2, <2>3, <2>4 DEF OrderOn
<1>10. QED
  BY <1>1, <1>5, <1>6, <1>7, <1>8, <1>9 DEF Lists, Climbs, f, n

LEMMA ClimbingIsByOrder ==
  ASSUME NEW S, NEW R, OrderOn(R, S), NEW f, Lists(f, S), Climbs(f, R)
  PROVE  IsFiniteSet(S) /\ Cardinality(S) = Len(f) /\ f = ByOrder(S, R)
<1> DEFINE n == Len(f)
           before(x) == Cardinality(Preceding(S, R, x))
<1>1. n \in Nat /\ f = [k \in 1 .. n |-> f[k]] /\ \A k \in 1 .. n : f[k] \in S
  BY DEF Lists, IsSequence
<1>2. /\ \A x \in S : \E k \in 1 .. n : f[k] = x
      /\ \A k, m \in 1 .. n : f[k] = f[m] => k = m
      /\ \A k, m \in 1 .. n : k < m => <<f[k], f[m]>> \in R
  BY DEF Lists, Climbs
<1> HIDE DEF n
<1>3. ASSUME NEW j \in 0 .. n
      PROVE  LET T == {f[m] : m \in 1 .. j} IN IsFiniteSet(T) /\ Cardinality(T) = j
  <2> DEFINE T == {f[m] : m \in 1 .. j}
             g == [m \in 1 .. j |-> f[m]]
  <2>1. j \in Nat /\ 1 .. j \subseteq 1 .. n
    BY <1>1
  <2>2. g \in Bijection(1 .. j, T)
    <3>1. g \in [1 .. j -> T]
      OBVIOUS
    <3>2. \A a, b \in 1 .. j : g[a] = g[b] => a = b
      BY <1>2, <2>1
    <3>3. \A t \in T : \E a \in 1 .. j : g[a] = t
      OBVIOUS
    <3> HIDE DEF g, T
    <3>4. QED
      BY <3>1, <3>2, <3>3 DEF Bijection, Injection, Surjection, IsInjective
  <2>3. IsFiniteSet(1 .. j) /\ Cardinality(1 .. j) = j
    BY <2>1, FS_Interval
  <2> HIDE DEF g, T
  <2>4. IsFiniteSet(T) /\ Cardinality(T) = j
    BY <2>2, <2>3, FS_Bijection DEF ExistsBijection
  <2>5. QED
    BY <2>4 DEF T
<1>4. IsFiniteSet(S) /\ Cardinality(S) = n
  <2>1. S = {f[m] : m \in 1 .. n}
    BY <1>1, <1>2
  <2>2. n \in 0 .. n
    BY <1>1
  <2>3. QED
    BY <1>3, <2>1, <2>2
<1>5. \A k \in 1 .. n : before(f[k]) = k - 1
  <2>1. TAKE k \in 1 .. n
  <2>2. ASSUME NEW m \in 1 .. n
        PROVE  <<f[m], f[k]>> \in R <=> m < k
    <3>1. /\ f[m] \in S /\ f[k] \in S
          /\ m < k => <<f[m], f[k]>> \in R
          /\ k < m => <<f[k], f[m]>> \in R
      BY <1>1, <1>2
    <3>2. /\ <<f[m], f[m]>> \notin R
          /\ <<f[k], f[m]>> \in R /\ <<f[m], f[k]>> \in R => <<f[k], f[k]>> \in R
          /\ <<f[k], f[k]>> \notin R
      BY <3>1 DEF OrderOn
    <3>3. m = k \/ m < k \/ k < m
      BY <1>1
    <3>4. QED
      BY <1>1, <3>1, <3>2, <3>3
  <2>3. Preceding(S, R, f[k]) = {f[m] : m \in 1 .. k - 1}
    <3>1. ASSUME NEW x \in Preceding(S, R, f[k]) PROVE x \in {f[m] : m \in 1 .. k - 1}
      <4>1. PICK m \in 1 .. n : f[m] = x
        BY <1>2 DEF Preceding
      <4>2. m < k
        BY <2>2, <4>1 DEF Preceding
      <4>3. m \in 1 .. k - 1
        BY <1>1, <4>2
      <4>4. QED
        BY <4>1, <4>3
    <3>2. ASSUME NEW m \in 1 .. k - 1 PROVE f[m] \in Preceding(S, R, f[k])
      <4>1. m \in 1 .. n /\ m < k
        BY <1>1
      <4>2. QED
        BY <1>1, <2>2, <4>1 DEF Preceding
    <3>3. QED
      BY <3>1, <3>2
  <2>4. k - 1 \in 0 .. n
    BY <1>1
  <2>5. QED
    BY <1>3, <2>3, <2>4
<1>6. \A k \in 1 .. n : f[k] = CHOOSE x \in S : before(x) = k - 1
  <2>1. TAKE k \in 1 .. n
  <2>2. \A x \in S : before(x) = k - 1 => x = f[k]
    <3>1. TAKE x \in S
    <3>2. PICK m \in 1 .. n : f[m] = x
      BY <1>2
    <3>3. before(x) = m - 1
      BY <1>5, <3>2
    <3> HIDE DEF before
    <3>4. QED
      BY <1>1, <3>2, <3>3
  <2>3. f[k] \in S /\ before(f[k]) = k - 1
    BY <1>1, <1>5
  <2> HIDE DEF before
  <2>4. QED
    BY <2>2, <2>3
<1>7. f = [k \in 1 .. n |-> CHOOSE x \in S : before(x) = k - 1]
  <2> HIDE DEF before
  <2>1. QED
    BY <1>1, <1>6
<1>8. QED
  BY <1>4, <1>7 DEF ByOrder, n

-----------------------------------------------------------------------------
(***************************************************************************)
(* Sequences one after another: each piece begins where the one before it  *)
(* has ended.                                                              *)
(***************************************************************************)
Offsets(pieces, n, off) ==
  /\ off = [g \in 0 .. n |-> off[g]] /\ off[0] = 0
  /\ \A g \in 0 .. n : off[g] \in Nat
  /\ \A g \in 1 .. n : off[g] = off[g - 1] + Len(pieces[g])

Stacks(s, pieces, n, off) ==
  /\ Offsets(pieces, n, off)
  /\ IsSequence(s) /\ Len(s) = off[n]
  /\ \A g \in 1 .. n : \A k \in 1 .. Len(pieces[g]) :
       off[g - 1] + k \in 1 .. Len(s) /\ s[off[g - 1] + k] = pieces[g][k]
  /\ \A m \in 1 .. Len(s) : \E g \in 1 .. n : \E k \in 1 .. Len(pieces[g]) : m = off[g - 1] + k

LEMMA StacksNext ==
  ASSUME NEW pieces, NEW n \in Nat, NEW s, NEW off, Stacks(s, pieces, n, off),
         IsSequence(pieces[n + 1])
  PROVE  Stacks(s \o pieces[n + 1], pieces, n + 1,
                [g \in 0 .. n + 1 |-> IF g <= n THEN off[g] ELSE off[n] + Len(pieces[n + 1])])
<1> DEFINE p == pieces[n + 1]
           t == s \o p
           o == [g \in 0 .. n + 1 |-> IF g <= n THEN off[g] ELSE off[n] + Len(p)]
<1>1. /\ IsSequence(t) /\ Len(t) = Len(s) + Len(p)
      /\ \A i \in 1 .. Len(s) : t[i] = s[i]
      /\ \A i \in 1 .. Len(p) : t[Len(s) + i] = p[i]
  <2>1. IsSequence(s) /\ IsSequence(p)
    BY DEF Stacks
  <2> HIDE DEF p
  <2>2. QED
    BY <2>1, SequencesJoin
<1>2. Len(s) = off[n] /\ Len(s) \in Nat /\ Len(p) \in Nat /\ \A g \in 0 .. n : off[g] \in Nat
  BY DEF Stacks, IsSequence, Offsets
<1>3. /\ o[n + 1] = Len(t) /\ \A g \in 0 .. n : o[g] = off[g]
      /\ \A g \in 0 .. n + 1 : o[g] \in Nat
      /\ o = [g \in 0 .. n + 1 |-> o[g]]
  <2>1. n + 1 \in 0 .. n + 1 /\ ~ (n + 1 <= n) /\ \A g \in 0 .. n : g \in 0 .. n + 1 /\ g <= n
    OBVIOUS
  <2>2. o[n + 1] = off[n] + Len(p) /\ \A g \in 0 .. n : o[g] = off[g]
    BY <2>1
  <2>3. \A g \in 0 .. n + 1 : g \in 0 .. n \/ g = n + 1
    OBVIOUS
  <2>4. o = [g \in 0 .. n + 1 |-> o[g]]
    OBVIOUS
  <2> HIDE DEF o, t, p
  <2>5. o[n + 1] = Len(t) /\ o[n + 1] \in Nat
    BY <1>1, <1>2, <2>2
  <2>6. \A g \in 0 .. n + 1 : o[g] \in Nat
    BY <1>2, <2>2, <2>3, <2>5
  <2>7. QED
    BY <2>2, <2>4, <2>5, <2>6
<1> HIDE DEF o, t, p
<1>4. \A g \in 1 .. n + 1 : \/ g \in 1 .. n /\ g - 1 \in 0 .. n /\ g \in 0 .. n
                            \/ g = n + 1 /\ g - 1 = n /\ n \in 0 .. n
  OBVIOUS
<1>5. Offsets(pieces, n + 1, o)
  <2>0. Offsets(pieces, n, off)
    BY DEF Stacks
  <2>1. 0 \in 0 .. n /\ off[0] = 0 /\ \A g \in 1 .. n : off[g] = off[g - 1] + Len(pieces[g])
    <3>1. 0 \in 0 .. n
      OBVIOUS
    <3>2. QED
      BY <2>0, <3>1 DEF Offsets
  <2>2. \A g \in 1 .. n + 1 : o[g] = o[g - 1] + Len(pieces[g])
    <3>1. TAKE g \in 1 .. n + 1
    <3>2. CASE g \in 1 .. n /\ g - 1 \in 0 .. n /\ g \in 0 .. n
      BY <1>3, <2>1, <3>2
    <3>3. CASE g = n + 1 /\ g - 1 = n /\ n \in 0 .. n
      <4>1. pieces[g] = p
        BY <3>3 DEF p
      <4>2. QED
        BY <1>1, <1>2, <1>3, <3>3, <4>1
    <3>4. QED
      BY <1>4, <3>2, <3>3
  <2>3. QED
    BY <1>3, <2>1, <2>2 DEF Offsets
<1>6. ASSUME NEW g \in 1 .. n + 1, NEW k \in 1 .. Len(pieces[g])
      PROVE  o[g - 1] + k \in 1 .. Len(t) /\ t[o[g - 1] + k] = pieces[g][k]
  <2>1. CASE g \in 1 .. n /\ g - 1 \in 0 .. n /\ g \in 0 .. n
    <3>1. off[g - 1] + k \in 1 .. Len(s) /\ s[off[g - 1] + k] = pieces[g][k]
      BY <2>1 DEF Stacks
    <3>2. o[g - 1] = off[g - 1]
      BY <1>3, <2>1
    <3>3. 1 .. Len(s) \subseteq 1 .. Len(t)
      BY <1>1, <1>2
    <3>4. QED
      BY <1>1, <3>1, <3>2, <3>3
  <2>2. CASE g = n + 1 /\ g - 1 = n /\ n \in 0 .. n
    <3>1. o[g - 1] = Len(s) /\ k \in 1 .. Len(p) /\ pieces[g] = p
      BY <1>2, <1>3, <2>2 DEF p
    <3>2. t[Len(s) + k] = p[k]
      BY <1>1, <3>1
    <3>3. QED
      BY <1>1, <1>2, <2>2, <3>1, <3>2
  <2>3. QED
    BY <1>4, <2>1, <2>2
<1>7. ASSUME NEW m \in 1 .. Len(t)
      PROVE  \E g \in 1 .. n + 1 : \E k \in 1 .. Len(pieces[g]) : m = o[g - 1] + k
  <2>1. CASE m <= Len(s)
    <3>1. m \in 1 .. Len(s)
      BY <1>1, <1>2, <2>1
    <3>2. PICK g \in 1 .. n : \E k \in 1 .. Len(pieces[g]) : m = off[g - 1] + k
      BY <3>1 DEF Stacks
    <3>3. g \in 1 .. n + 1 /\ g - 1 \in 0 .. n
      OBVIOUS
    <3>4. QED
      BY <1>3, <3>2, <3>3
  <2>2. CASE ~ (m <= Len(s))
    <3>1. m - Len(s) \in 1 .. Len(p) /\ m = Len(s) + (m - Len(s))
      BY <1>1, <1>2, <2>2
    <3>2. n + 1 \in 1 .. n + 1 /\ (n + 1) - 1 = n /\ n \in 0 .. n
      OBVIOUS
    <3>3. o[(n + 1) - 1] = Len(s)
      BY <1>2, <1>3, <3>2
    <3>4. pieces[n + 1] = p
      BY DEF p
    <3>5. QED
      BY <3>1, <3>2, <3>3, <3>4
  <2>3. QED
    BY <2>1, <2>2
<1>8. Stacks(t, pieces, n + 1, o)
  BY <1>1, <1>3, <1>5, <1>6, <1>7 DEF Stacks
<1>9. QED
  BY <1>8 DEF o, t, p

\* What FlattenSeq works out, piece by piece.
LEMMA FlattenRuns ==
  ASSUME NEW pieces, NEW n \in Nat, \A g \in 1 .. n : IsSequence(pieces[g])
  PROVE  \E f : f = [i \in 1 .. n |-> IF i = 1 THEN pieces[i] ELSE f[i - 1] \o pieces[i]]
<1> DEFINE Is(f, m) == f = [i \in 1 .. m |-> IF i = 1 THEN pieces[i] ELSE f[i - 1] \o pieces[i]]
           K == {m \in Nat : \E f : Is(f, m)}
<1>1. 0 \in K
  <2>1. Is([i \in 1 .. 0 |-> 0], 0)
    OBVIOUS
  <2> HIDE DEF Is
  <2>2. QED
    BY <2>1
<1>2. ASSUME NEW m \in Nat, m \in K PROVE m + 1 \in K
  <2>1. PICK f : Is(f, m)
    BY <1>2
  <2> DEFINE h == [i \in 1 .. m + 1 |-> IF i <= m THEN f[i]
                                      ELSE IF i = 1 THEN pieces[i] ELSE f[i - 1] \o pieces[i]]
  <2>2. \A i \in 1 .. m : h[i] = f[i]
    <3>1. \A i \in 1 .. m : i \in 1 .. m + 1 /\ i <= m
      OBVIOUS
    <3>2. QED
      BY <3>1
  <2>3. \A i \in 1 .. m + 1 : h[i] = IF i = 1 THEN pieces[i] ELSE h[i - 1] \o pieces[i]
    <3>1. TAKE i \in 1 .. m + 1
    <3>2. CASE i <= m
      <4>1. i \in 1 .. m /\ (i # 1 => i - 1 \in 1 .. m)
        BY <3>2
      <4>2. f[i] = IF i = 1 THEN pieces[i] ELSE f[i - 1] \o pieces[i]
        BY <2>1, <4>1
      <4> HIDE DEF h
      <4>3. QED
        BY <2>2, <4>1, <4>2
    <3>3. CASE ~ (i <= m)
      <4>1. i # 1 => i - 1 \in 1 .. m
        BY <3>3
      <4>2. h[i] = IF i = 1 THEN pieces[i] ELSE f[i - 1] \o pieces[i]
        BY <3>3
      <4> HIDE DEF h
      <4>3. QED
        BY <2>2, <4>1, <4>2
    <3>4. QED
      BY <3>2, <3>3
  <2>4. h = [i \in 1 .. m + 1 |-> h[i]]
    OBVIOUS
  <2> HIDE DEF h
  <2>5. Is(h, m + 1)
    BY <2>3, <2>4
  <2> HIDE DEF Is
  <2>6. QED
    BY <2>5
<1> HIDE DEF K
<1>3. n \in K
  BY <1>1, <1>2, AllNaturals
<1>4. QED
  BY <1>3 DEF K

LEMMA Flattened ==
  ASSUME NEW pieces, IsSequence(pieces), \A g \in 1 .. Len(pieces) : IsSequence(pieces[g])
  PROVE  \E off : Stacks(FlattenSeq(pieces), pieces, Len(pieces), off)
<1> DEFINE n == Len(pieces)
           Is(f) == f = [i \in 1 .. n |-> IF i = 1 THEN pieces[i] ELSE f[i - 1] \o pieces[i]]
           flatten == CHOOSE f : Is(f)
<1>1. n \in Nat
  BY DEF IsSequence
<1>2. CASE n = 0
  <2>1. pieces = [i \in 1 .. 0 |-> pieces[i]]
    BY <1>2 DEF IsSequence
  <2> DEFINE off == [g \in 0 .. 0 |-> 0]
  <2>2. FlattenSeq(pieces) = pieces
    BY <1>2 DEF FlattenSeq
  <2>3. off[0] = 0 /\ \A g \in 0 .. 0 : off[g] \in Nat
    OBVIOUS
  <2>4. off = [g \in 0 .. 0 |-> off[g]]
    OBVIOUS
  <2> HIDE DEF off
  <2>5. Offsets(pieces, 0, off)
    BY <2>3, <2>4 DEF Offsets
  <2>6. Stacks(pieces, pieces, 0, off)
    BY <1>2, <2>3, <2>5 DEF Stacks
  <2>7. QED
    BY <1>2, <2>2, <2>6
<1>3. CASE n # 0
  <2>1. Is(flatten)
    <3>1. \E f : Is(f)
      BY <1>1, FlattenRuns
    <3> HIDE DEF Is
    <3>2. QED
      BY <3>1
  <2>2. FlattenSeq(pieces) = flatten[n]
    BY <1>3 DEF FlattenSeq
  <2> HIDE DEF flatten
  <2> DEFINE K == {m \in Nat : m + 1 \in 1 .. n => \E off : Stacks(flatten[m + 1], pieces, m + 1, off)}
  <2>3. 0 \in K
    <3>1. SUFFICES \E off : Stacks(flatten[1], pieces, 1, off)
      OBVIOUS
    <3>2. 1 \in 1 .. n
      BY <1>1, <1>3
    <3>3. flatten[1] = pieces[1] /\ IsSequence(pieces[1])
      BY <2>1, <3>2
    <3>4. /\ Len(pieces[1]) \in Nat
      BY <3>3 DEF IsSequence
    <3> DEFINE off == [g \in 0 .. 1 |-> IF g = 0 THEN 0 ELSE Len(pieces[1])]
    <3>5. off[0] = 0 /\ off[1] = Len(pieces[1]) /\ \A g \in 0 .. 1 : off[g] \in Nat
      BY <3>4
    <3>6. off = [g \in 0 .. 1 |-> off[g]]
      OBVIOUS
    <3> HIDE DEF off
    <3>7. \A g \in 1 .. 1 : g = 1
      OBVIOUS
    <3>8. Offsets(pieces, 1, off)
      BY <3>4, <3>5, <3>6, <3>7 DEF Offsets
    <3>9. \A k \in 1 .. Len(pieces[1]) : off[1 - 1] + k = k
      BY <3>5
    <3>10. Stacks(pieces[1], pieces, 1, off)
      BY <3>3, <3>5, <3>7, <3>8, <3>9 DEF Stacks
    <3>11. QED
      BY <3>3, <3>10
  <2>4. ASSUME NEW m \in Nat, m \in K PROVE m + 1 \in K
    <3>1. SUFFICES ASSUME (m + 1) + 1 \in 1 .. n
                   PROVE  \E off : Stacks(flatten[(m + 1) + 1], pieces, (m + 1) + 1, off)
      OBVIOUS
    <3>2. m + 1 \in 1 .. n /\ m + 1 \in Nat
      BY <1>1, <3>1
    <3>3. PICK off : Stacks(flatten[m + 1], pieces, m + 1, off)
      BY <2>4, <3>2
    <3>4. flatten[(m + 1) + 1] = flatten[m + 1] \o pieces[(m + 1) + 1]
      <4>1. (m + 1) + 1 # 1 /\ ((m + 1) + 1) - 1 = m + 1
        OBVIOUS
      <4>2. QED
        BY <2>1, <3>1, <4>1
    <3>5. IsSequence(pieces[(m + 1) + 1])
      BY <3>1
    <3> HIDE DEF K
    <3>6. QED
      BY <3>2, <3>3, <3>4, <3>5, StacksNext
  <2> HIDE DEF K
  <2>5. n - 1 \in K /\ n - 1 \in Nat
    BY <1>1, <1>3, <2>3, <2>4, AllNaturals
  <2>6. (n - 1) + 1 = n /\ n \in 1 .. n
    BY <1>1, <1>3
  <2>7. QED
    BY <2>2, <2>5, <2>6 DEF K
<1>4. QED
  BY <1>2, <1>3
-----------------------------------------------------------------------------
\* A later piece begins at or after the end of an earlier one.
LEMMA OffsetsRise ==
  ASSUME NEW pieces, NEW n \in Nat, NEW off, Offsets(pieces, n, off),
         \A g \in 1 .. n : Len(pieces[g]) \in Nat
  PROVE  \A g, h \in 0 .. n : g <= h => off[g] <= off[h]
<1>1. /\ \A g \in 0 .. n : off[g] \in Nat
      /\ \A g \in 1 .. n : off[g] = off[g - 1] + Len(pieces[g])
  BY DEF Offsets
<1> SUFFICES ASSUME NEW g \in 0 .. n
             PROVE  \A h \in 0 .. n : g <= h => off[g] <= off[h]
  OBVIOUS
<1> DEFINE K == {k \in Nat : g + k \in 0 .. n => off[g] <= off[g + k]}
<1>2. 0 \in K
  BY <1>1
<1>3. ASSUME NEW k \in Nat, k \in K PROVE k + 1 \in K
  <2>1. SUFFICES ASSUME g + (k + 1) \in 0 .. n PROVE off[g] <= off[g + (k + 1)]
    OBVIOUS
  <2>2. /\ g + k \in 0 .. n /\ g + (k + 1) \in 1 .. n /\ (g + (k + 1)) - 1 = g + k
    BY <2>1
  <2>3. off[g + (k + 1)] = off[g + k] + Len(pieces[g + (k + 1)])
    BY <1>1, <2>2
  <2>4. /\ off[g] \in Nat /\ off[g + k] \in Nat /\ Len(pieces[g + (k + 1)]) \in Nat
    BY <1>1, <2>2
  <2>5. off[g] <= off[g + k]
    BY <1>3, <2>2
  <2>6. QED
    BY <2>3, <2>4, <2>5
<1> HIDE DEF K
<1>4. \A k \in Nat : k \in K
  BY <1>2, <1>3, AllNaturals
<1>5. TAKE h \in 0 .. n
<1>6. SUFFICES ASSUME g <= h PROVE off[g] <= off[h]
  OBVIOUS
<1>7. h - g \in Nat /\ g + (h - g) = h
  BY <1>6
<1>8. QED
  BY <1>4, <1>7 DEF K

\* What relates the members of each piece in turn, and those of each piece to
\* those of the later ones, relates the members of the whole.
LEMMA StacksClimb ==
  ASSUME NEW pieces, NEW n \in Nat, NEW off, NEW s, Stacks(s, pieces, n, off), NEW R,
         \A g \in 1 .. n : IsSequence(pieces[g]) /\ Climbs(pieces[g], R),
         \A g, h \in 1 .. n : g < h =>
           \A k \in 1 .. Len(pieces[g]) : \A m \in 1 .. Len(pieces[h]) :
             <<pieces[g][k], pieces[h][m]>> \in R
  PROVE  Climbs(s, R)
<1>1. \A g \in 1 .. n : Len(pieces[g]) \in Nat
  BY DEF IsSequence
<1>2. Offsets(pieces, n, off)
  BY DEF Stacks
<1>3. \A g, h \in 0 .. n : g <= h => off[g] <= off[h]
  BY <1>1, <1>2, OffsetsRise
<1>4. /\ \A g \in 0 .. n : off[g] \in Nat
      /\ \A g \in 1 .. n : off[g] = off[g - 1] + Len(pieces[g])
  BY <1>2 DEF Offsets
<1>5. /\ \A g \in 1 .. n : \A k \in 1 .. Len(pieces[g]) : s[off[g - 1] + k] = pieces[g][k]
      /\ \A m \in 1 .. Len(s) : \E g \in 1 .. n : \E k \in 1 .. Len(pieces[g]) : m = off[g - 1] + k
  BY DEF Stacks
<1>6. SUFFICES ASSUME NEW a \in 1 .. Len(s), NEW b \in 1 .. Len(s), a < b
               PROVE  <<s[a], s[b]>> \in R
  BY DEF Climbs
<1>7. PICK g \in 1 .. n : \E k \in 1 .. Len(pieces[g]) : a = off[g - 1] + k
  BY <1>5
<1>8. PICK k \in 1 .. Len(pieces[g]) : a = off[g - 1] + k
  BY <1>7
<1>9. PICK h \in 1 .. n : \E m \in 1 .. Len(pieces[h]) : b = off[h - 1] + m
  BY <1>5
<1>10. PICK m \in 1 .. Len(pieces[h]) : b = off[h - 1] + m
  BY <1>9
<1>11. s[a] = pieces[g][k] /\ s[b] = pieces[h][m]
  BY <1>5, <1>8, <1>10
<1>12. /\ g - 1 \in 0 .. n /\ h - 1 \in 0 .. n /\ g \in 0 .. n /\ h \in 0 .. n
       /\ off[g - 1] \in Nat /\ off[h - 1] \in Nat /\ off[g] \in Nat /\ off[h] \in Nat
       /\ Len(pieces[g]) \in Nat /\ Len(pieces[h]) \in Nat
  BY <1>1, <1>4
<1>13. CASE g = h
  <2>1. k < m
    BY <1>6, <1>8, <1>10, <1>12, <1>13
  <2>2. QED
    BY <1>11, <1>13, <2>1 DEF Climbs
<1>14. CASE g < h
  BY <1>11, <1>14
<1>15. CASE h < g
  <2>1. off[h] <= off[g - 1]
    BY <1>3, <1>12, <1>15
  <2>2. off[h] = off[h - 1] + Len(pieces[h])
    BY <1>4
  <2>3. b <= off[h] /\ b \in Int
    BY <1>10, <1>12, <2>2
  <2>4. off[g - 1] < a /\ a \in Int
    BY <1>8, <1>12
  <2>5. QED
    BY <1>6, <1>12, <2>1, <2>3, <2>4
<1>16. QED
  BY <1>12, <1>13, <1>14, <1>15

\* Pieces that list sets apart from each other together list them all.
LEMMA StacksList ==
  ASSUME NEW pieces, NEW n \in Nat, NEW off, NEW s, Stacks(s, pieces, n, off), NEW T,
         \A g \in 1 .. n : Lists(pieces[g], T[g]),
         \A g, h \in 1 .. n : g # h => T[g] \cap T[h] = {},
         NEW U, \A x : x \in U <=> \E g \in 1 .. n : x \in T[g]
  PROVE  Lists(s, U)
<1> DEFINE R == {xy \in U \X U : xy[1] # xy[2]}
<1>1. \A g \in 1 .. n : /\ IsSequence(pieces[g])
                        /\ \A k \in 1 .. Len(pieces[g]) : pieces[g][k] \in T[g] /\ pieces[g][k] \in U
                        /\ \A x \in T[g] : \E k \in 1 .. Len(pieces[g]) : pieces[g][k] = x
                        /\ \A k, m \in 1 .. Len(pieces[g]) : pieces[g][k] = pieces[g][m] => k = m
  BY DEF Lists
<1>2. /\ IsSequence(s)
      /\ \A g \in 1 .. n : \A k \in 1 .. Len(pieces[g]) :
           off[g - 1] + k \in 1 .. Len(s) /\ s[off[g - 1] + k] = pieces[g][k]
      /\ \A m \in 1 .. Len(s) : \E g \in 1 .. n : \E k \in 1 .. Len(pieces[g]) : m = off[g - 1] + k
  BY DEF Stacks
<1>3. Climbs(s, R)
  <2>1. ASSUME NEW g \in 1 .. n, NEW k \in 1 .. Len(pieces[g]), NEW m \in 1 .. Len(pieces[g]), k < m
        PROVE  <<pieces[g][k], pieces[g][m]>> \in R
    <3>1. pieces[g][k] \in U /\ pieces[g][m] \in U
      BY <1>1
    <3>2. Len(pieces[g]) \in Nat
      BY <1>1 DEF IsSequence
    <3>3. pieces[g][k] # pieces[g][m]
      BY <1>1, <2>1, <3>2
    <3>4. QED
      BY <3>1, <3>3
  <2>2. ASSUME NEW g \in 1 .. n, NEW h \in 1 .. n, g < h,
               NEW k \in 1 .. Len(pieces[g]), NEW m \in 1 .. Len(pieces[h])
        PROVE  <<pieces[g][k], pieces[h][m]>> \in R
    <3>1. /\ pieces[g][k] \in U /\ pieces[h][m] \in U
          /\ pieces[g][k] \in T[g] /\ pieces[h][m] \in T[h]
      BY <1>1
    <3>2. T[g] \cap T[h] = {}
      BY <2>2
    <3>3. QED
      BY <3>1, <3>2
  <2> HIDE DEF R
  <2>3. \A g \in 1 .. n : IsSequence(pieces[g]) /\ Climbs(pieces[g], R)
    BY <1>1, <2>1 DEF Climbs
  <2>4. QED
    BY <2>2, <2>3, StacksClimb
<1>4. \A a \in 1 .. Len(s) : s[a] \in U
  <2>1. TAKE a \in 1 .. Len(s)
  <2>2. PICK g \in 1 .. n : \E k \in 1 .. Len(pieces[g]) : a = off[g - 1] + k
    BY <1>2
  <2>3. PICK k \in 1 .. Len(pieces[g]) : a = off[g - 1] + k
    BY <2>2
  <2>4. s[a] = pieces[g][k] /\ pieces[g][k] \in U
    BY <1>1, <1>2, <2>3
  <2>5. QED
    BY <2>4
<1>5. \A x \in U : \E a \in 1 .. Len(s) : s[a] = x
  <2>1. TAKE x \in U
  <2>2. PICK g \in 1 .. n : x \in T[g]
    BY <2>1
  <2>3. PICK k \in 1 .. Len(pieces[g]) : pieces[g][k] = x
    BY <1>1, <2>2
  <2>4. QED
    BY <1>2, <2>3
<1>6. \A a, b \in 1 .. Len(s) : s[a] = s[b] => a = b
  <2>1. TAKE a, b \in 1 .. Len(s)
  <2>2. a < b => s[a] # s[b]
    BY <1>3 DEF Climbs
  <2>3. b < a => s[b] # s[a]
    BY <1>3 DEF Climbs
  <2>4. Len(s) \in Nat
    BY <1>2 DEF IsSequence
  <2>5. QED
    BY <2>2, <2>3, <2>4
<1>7. QED
  BY <1>2, <1>4, <1>5, <1>6 DEF Lists

-----------------------------------------------------------------------------
(***************************************************************************)
(* Joins.  A row of a join is a pair of places, of which one may be        *)
(* nowhere; and rows come in the order of their places, or of their labels *)
(* first.                                                                  *)
(***************************************************************************)
LabelOf(left, right, pair) ==
  IF pair[1] # Nowhere THEN left[pair[1] + 1] ELSE right[pair[2] + 1]

ByPlaces ==
  {pq \in (Int \X Int) \X (Int \X Int) :
     \/ pq[1][1] < pq[2][1]
     \/ pq[1][1] = pq[2][1] /\ pq[1][2] < pq[2][2]}

ByLabels(left, right) ==
  {pq \in (Int \X Int) \X (Int \X Int) :
     \/ Before(LabelOf(left, right, pq[1]), LabelOf(left, right, pq[2]))
     \/ /\ LabelOf(left, right, pq[1]) = LabelOf(left, right, pq[2])
        /\ pq \in ByPlaces}

Upwards == {xy \in Int \X Int : xy[1] < xy[2]}
PlacesWith(labels, label) == {i - 1 : i \in {i \in DOMAIN labels : labels[i] = label}}

PairedPlaces(A, B, how) ==
  IF A # {} /\ B # {} THEN A \X B
  ELSE IF A # {} /\ how \in {"left", "outer"} THEN A \X {Nowhere}
  ELSE IF B # {} /\ how = "outer" THEN {Nowhere} \X B
  ELSE {}

\* Places in order.
LEMMA SortedPlaces ==
  ASSUME NEW n \in Nat, NEW S \in SUBSET (1 .. n)
  PROVE  /\ Sorted(S, <) = ByOrder(S, Upwards) /\ OrderOn(Upwards, S)
         /\ Lists(Sorted(S, <), S) /\ Climbs(Sorted(S, <), Upwards)
         /\ Len(Sorted(S, <)) = Cardinality(S) /\ Cardinality(S) \in Nat
<1>1. \A x \in S : x \in Int
  OBVIOUS
<1>2. IsFiniteSet(S)
  <2>1. IsFiniteSet(1 .. n)
    BY FS_Interval
  <2>2. QED
    BY <2>1, FS_Subset
<1>3. OrderOn(Upwards, S)
  BY <1>1 DEF OrderOn, Upwards
<1>4. \A x \in S : {y \in S : y < x} = Preceding(S, Upwards, x)
  BY <1>1 DEF Preceding, Upwards
<1>5. Sorted(S, <) = ByOrder(S, Upwards)
  <2> DEFINE c(k) == CHOOSE x \in S : Cardinality({y \in S : y < x}) = k - 1
             d(k) == CHOOSE x \in S : Cardinality(Preceding(S, Upwards, x)) = k - 1
  <2>1. \A k : c(k) = d(k)
    BY <1>4
  <2>2. Sorted(S, <) = [k \in 1 .. Cardinality(S) |-> c(k)]
    BY DEF Sorted
  <2>3. ByOrder(S, Upwards) = [k \in 1 .. Cardinality(S) |-> d(k)]
    BY DEF ByOrder
  <2> HIDE DEF c, d
  <2>4. QED
    BY <2>1, <2>2, <2>3
<1>6. QED
  BY <1>2, <1>3, <1>5, ByOrderIs

LEMMA RowsWithAre ==
  ASSUME NEW labels \in Seq(Int), NEW label
  PROVE  /\ Lists(RowsWith(labels, label), PlacesWith(labels, label))
         /\ Climbs(RowsWith(labels, label), Upwards)
         /\ PlacesWith(labels, label) \subseteq 0 .. Len(labels) - 1
<1> DEFINE S == {i \in DOMAIN labels : labels[i] = label}
           f == Sorted(S, <)
           r == RowsWith(labels, label)
<1>1. S \in SUBSET (1 .. Len(labels)) /\ Len(labels) \in Nat
  OBVIOUS
<1>2. Lists(f, S) /\ Climbs(f, Upwards)
  <2> HIDE DEF S
  <2>1. QED
    BY <1>1, SortedPlaces
<1>3. /\ Len(f) \in Nat /\ f = [k \in 1 .. Len(f) |-> f[k]]
      /\ \A k \in 1 .. Len(f) : f[k] \in S
      /\ \A x \in S : \E k \in 1 .. Len(f) : f[k] = x
      /\ \A k, m \in 1 .. Len(f) : f[k] = f[m] => k = m
      /\ \A k, m \in 1 .. Len(f) : k < m => <<f[k], f[m]>> \in Upwards
  BY <1>2 DEF Lists, IsSequence, Climbs
<1>4. r = [k \in DOMAIN f |-> f[k] - 1]
  BY DEF RowsWith
<1>5. \A x \in S : x \in Int /\ x - 1 \in 0 .. Len(labels) - 1
  BY <1>1
<1> HIDE DEF f, r
<1>6. DOMAIN f = 1 .. Len(f)
  BY <1>3
<1>7. r = [k \in 1 .. Len(f) |-> r[k]] /\ \A k \in 1 .. Len(f) : r[k] = f[k] - 1
  BY <1>4, <1>6
<1>8. IsSequence(r) /\ Len(r) = Len(f)
  BY <1>3, <1>7, MadeSequence
<1>9. PlacesWith(labels, label) = {i - 1 : i \in S}
  BY DEF PlacesWith
<1> HIDE DEF S
<1>10. \A k \in 1 .. Len(f) : f[k] \in Int /\ r[k] \in Int /\ r[k] \in PlacesWith(labels, label)
  BY <1>3, <1>5, <1>7, <1>9
<1>11. \A x \in PlacesWith(labels, label) : \E k \in 1 .. Len(f) : r[k] = x
  BY <1>3, <1>7, <1>9
<1>12. \A k, m \in 1 .. Len(f) : /\ r[k] = r[m] => k = m
                                 /\ k < m => <<r[k], r[m]>> \in Upwards
  <2>1. TAKE k, m \in 1 .. Len(f)
  <2>2. /\ f[k] \in Int /\ f[m] \in Int /\ r[k] = f[k] - 1 /\ r[m] = f[m] - 1
        /\ r[k] \in Int /\ r[m] \in Int
    BY <1>7, <1>10
  <2>3. /\ f[k] = f[m] => k = m
        /\ k < m => f[k] < f[m]
    BY <1>3 DEF Upwards
  <2>4. /\ r[k] = r[m] => f[k] = f[m]
        /\ f[k] < f[m] => r[k] < r[m]
    BY <2>2
  <2>5. QED
    BY <2>2, <2>3, <2>4 DEF Upwards
<1>13. Lists(r, PlacesWith(labels, label)) /\ Climbs(r, Upwards)
  BY <1>8, <1>10, <1>11, <1>12 DEF Lists, Climbs
<1>14. PlacesWith(labels, label) \subseteq 0 .. Len(labels) - 1
  BY <1>5, <1>9
<1>15. QED
  BY <1>13, <1>14 DEF r
-----------------------------------------------------------------------------
\* Numbers in rows of n: the row and the place in it, from 0.
LEMMA Times ==
  ASSUME NEW n \in Nat, n > 0, NEW x \in Int, NEW y \in Int
  PROVE  /\ x < y <=> x * n < y * n
         /\ x <= y <=> x * n <= y * n
         /\ x * n \in Int /\ (x + 1) * n = x * n + n /\ (x - 1) * n = x * n - n
         /\ x \in Nat => x * n \in Nat
<1>1. x < y => x * n < y * n
  <2>1. SUFFICES ASSUME x < y PROVE x * n < y * n
    OBVIOUS
  <2>2. y - x > 0 /\ (y - x) * n > 0 /\ (y - x) * n = y * n - x * n
    BY <2>1
  <2>3. QED
    BY <2>2
<1>2. y < x => y * n < x * n
  <2>1. SUFFICES ASSUME y < x PROVE y * n < x * n
    OBVIOUS
  <2>2. x - y > 0 /\ (x - y) * n > 0 /\ (x - y) * n = x * n - y * n
    BY <2>1
  <2>3. QED
    BY <2>2
<1>3. x = y => x * n = y * n
  OBVIOUS
<1>4. x * n \in Int /\ y * n \in Int
  OBVIOUS
<1>5. (x + 1) * n = x * n + n /\ (x - 1) * n = x * n - n /\ (x \in Nat => x * n \in Nat)
  OBVIOUS
<1>6. QED
  BY <1>1, <1>2, <1>3, <1>4, <1>5

LEMMA RowAndPlace ==
  ASSUME NEW a \in Nat, NEW n \in Nat, n > 0, NEW k \in 1 .. a * n
  PROVE  /\ ((k - 1) \div n) + 1 \in 1 .. a /\ ((k - 1) % n) + 1 \in 1 .. n
         /\ k - 1 = ((k - 1) \div n) * n + ((k - 1) % n)
<1> DEFINE q == (k - 1) \div n
           r == (k - 1) % n
<1>1. q \in Int /\ r \in 0 .. n - 1 /\ k - 1 = q * n + r /\ a * n \in Nat /\ k \in Int /\ k >= 1 /\ k <= a * n
  <2>1. k - 1 \in Int
    OBVIOUS
  <2>2. q \in Int /\ r \in 0 .. n - 1
    BY <2>1
  <2>3. k - 1 = q * n + r
    BY <2>1
  <2>4. a * n \in Nat
    BY Times
  <2>5. QED
    BY <2>2, <2>3, <2>4
<1> HIDE DEF q, r
<1>2. q < a
  <2>1. q * n < a * n
    <3>1. q * n \in Int /\ a * n \in Int
      BY <1>1, Times
    <3>2. QED
      BY <1>1, <3>1
  <2>2. QED
    BY <1>1, <2>1, Times
<1>3. -1 < q
  <2>1. -1 * n < q * n
    <3>1. q * n \in Int /\ -1 * n = -n
      BY <1>1, Times
    <3>2. QED
      BY <1>1, <3>1
  <2>2. QED
    BY <1>1, <2>1, Times
<1>4. QED
  BY <1>1, <1>2, <1>3 DEF q, r

LEMMA AtRowAndPlace ==
  ASSUME NEW a \in Nat, NEW n \in Nat, n > 0, NEW i \in 1 .. a, NEW j \in 1 .. n
  PROVE  LET k == (i - 1) * n + j IN
         k \in 1 .. a * n /\ ((k - 1) \div n) + 1 = i /\ ((k - 1) % n) + 1 = j
<1> DEFINE k == (i - 1) * n + j
<1>1. (i - 1) * n \in Nat /\ i * n <= a * n /\ (i - 1) * n = i * n - n /\ a * n \in Nat /\ i * n \in Int
  BY Times
<1>2. k \in 1 .. a * n
  BY <1>1
<1> DEFINE q == (k - 1) \div n
           r == (k - 1) % n
<1>3. q \in Int /\ r \in 0 .. n - 1 /\ k - 1 = q * n + r
  <2>1. k - 1 \in Int
    BY <1>2
  <2> HIDE DEF k
  <2>2. q \in Int /\ r \in 0 .. n - 1
    BY <2>1
  <2>3. k - 1 = q * n + r
    BY <2>1
  <2>4. QED
    BY <2>2, <2>3
<1>4. k - 1 = (i - 1) * n + (j - 1)
  BY <1>1
<1> HIDE DEF q, r, k
<1>5. q * n \in Int /\ (q + 1) * n = q * n + n /\ ((i - 1) + 1) * n = (i - 1) * n + n
  BY <1>3, Times
<1>6. q < (i - 1) + 1 /\ i - 1 < q + 1
  <2>1. q * n < ((i - 1) + 1) * n /\ (i - 1) * n < (q + 1) * n
    BY <1>1, <1>3, <1>4, <1>5
  <2>2. i - 1 \in Int /\ (i - 1) + 1 \in Int /\ q + 1 \in Int
    BY <1>3
  <2>3. QED
    BY <1>3, <2>1, <2>2, Times
<1>7. q = i - 1
  BY <1>3, <1>6
<1>8. r = j - 1
  BY <1>1, <1>3, <1>4, <1>7
<1>9. QED
  BY <1>2, <1>7, <1>8 DEF q, r, k

LEMMA RowsRise ==
  ASSUME NEW n \in Nat, n > 0, NEW k \in Int, NEW m \in Int, k < m
  PROVE  \/ (k - 1) \div n < (m - 1) \div n
         \/ (k - 1) \div n = (m - 1) \div n /\ (k - 1) % n < (m - 1) % n
<1> DEFINE q(x) == (x - 1) \div n
           r(x) == (x - 1) % n
<1>1. \A x \in Int : q(x) \in Int /\ r(x) \in 0 .. n - 1 /\ x - 1 = q(x) * n + r(x)
  <2>1. TAKE x \in Int
  <2>2. x - 1 \in Int
    OBVIOUS
  <2>3. QED
    BY <2>2
<1> HIDE DEF q, r
<1>2. /\ q(k) \in Int /\ q(m) \in Int /\ r(k) \in 0 .. n - 1 /\ r(m) \in 0 .. n - 1
      /\ k - 1 = q(k) * n + r(k) /\ m - 1 = q(m) * n + r(m)
  BY <1>1
<1>3. q(k) * n \in Int /\ q(m) * n \in Int /\ (q(m) + 1) * n = q(m) * n + n
  BY <1>2, Times
<1>4. q(k) < q(m) + 1
  <2>1. q(k) * n < (q(m) + 1) * n
    BY <1>2, <1>3
  <2>2. q(m) + 1 \in Int
    BY <1>2
  <2>3. QED
    BY <1>2, <2>1, <2>2, Times
<1>5. q(k) = q(m) => r(k) < r(m)
  BY <1>2, <1>3
<1>6. QED
  BY <1>2, <1>4, <1>5 DEF q, r

\* The pairs of the places a label has on either side.
LEMMA PairsOfAre ==
  ASSUME NEW A \in SUBSET Nat, NEW ls, Lists(ls, A), Climbs(ls, Upwards),
         NEW B \in SUBSET Nat, NEW rs, Lists(rs, B), Climbs(rs, Upwards), NEW how
  PROVE  /\ Lists(PairsOf(ls, rs, how), PairedPlaces(A, B, how))
         /\ Climbs(PairsOf(ls, rs, how), ByPlaces)
         /\ how = "left" =>
              /\ Len(ls) <= Len(PairsOf(ls, rs, how))
              /\ Len(PairsOf(ls, rs, how)) = Len(ls) =>
                   \A k \in 1 .. Len(ls) : PairsOf(ls, rs, how)[k][1] = ls[k]
<1> DEFINE a == Len(ls)
           n == Len(rs)
           p == PairsOf(ls, rs, how)
<1>1. /\ a \in Nat /\ ls = [k \in 1 .. a |-> ls[k]] /\ \A k \in 1 .. a : ls[k] \in A
      /\ \A x \in A : \E k \in 1 .. a : ls[k] = x
      /\ \A k, m \in 1 .. a : ls[k] = ls[m] => k = m
      /\ \A k, m \in 1 .. a : k < m => <<ls[k], ls[m]>> \in Upwards
  BY DEF Lists, IsSequence, Climbs
<1>2. /\ n \in Nat /\ rs = [k \in 1 .. n |-> rs[k]] /\ \A k \in 1 .. n : rs[k] \in B
      /\ \A x \in B : \E k \in 1 .. n : rs[k] = x
      /\ \A k, m \in 1 .. n : rs[k] = rs[m] => k = m
      /\ \A k, m \in 1 .. n : k < m => <<rs[k], rs[m]>> \in Upwards
  BY DEF Lists, IsSequence, Climbs
<1>3. DOMAIN ls = 1 .. a /\ DOMAIN rs = 1 .. n
  BY <1>1, <1>2
<1>4. /\ ls = <<>> <=> a = 0
      /\ rs = <<>> <=> n = 0
  <2>1. ls = <<>> => a = 0
    OBVIOUS
  <2>2. rs = <<>> => n = 0
    OBVIOUS
  <2>3. a = 0 => ls = <<>>
    BY <1>1
  <2>4. n = 0 => rs = <<>>
    BY <1>2
  <2>5. QED
    BY <2>1, <2>2, <2>3, <2>4
<1>5. (A = {} <=> a = 0) /\ (B = {} <=> n = 0)
  <2>1. a # 0 => 1 \in 1 .. a
    BY <1>1
  <2>2. n # 0 => 1 \in 1 .. n
    BY <1>2
  <2>3. QED
    BY <1>1, <1>2, <2>1, <2>2
<1>6. (\A x \in A : x \in Int) /\ (\A x \in B : x \in Int) /\ Nowhere \in Int
  BY DEF Nowhere
<1> HIDE DEF a, n, p
<1>7. CASE a # 0 /\ n # 0
  <2> DEFINE i(k) == ((k - 1) \div n) + 1
             j(k) == ((k - 1) % n) + 1
  <2>1. p = [k \in 1 .. a * n |-> <<ls[i(k)], rs[j(k)]>>]
    BY <1>4, <1>7 DEF PairsOf, p, a, n
  <2>2. n > 0 /\ a * n \in Nat
    BY <1>1, <1>2, <1>7, Times
  <2>3. \A k \in 1 .. a * n : i(k) \in 1 .. a /\ j(k) \in 1 .. n
    BY <1>1, <1>2, <2>2, RowAndPlace
  <2>4. \A x \in 1 .. a, y \in 1 .. n : \E k \in 1 .. a * n : i(k) = x /\ j(k) = y
    BY <1>1, <1>2, <2>2, AtRowAndPlace
  <2>5. \A k, m \in 1 .. a * n : k < m => i(k) < i(m) \/ (i(k) = i(m) /\ j(k) < j(m))
    <3>1. TAKE k, m \in 1 .. a * n
    <3>2. SUFFICES ASSUME k < m PROVE i(k) < i(m) \/ (i(k) = i(m) /\ j(k) < j(m))
      OBVIOUS
    <3>3. k \in Int /\ m \in Int
      BY <2>2
    <3>4. \/ (k - 1) \div n < (m - 1) \div n
          \/ (k - 1) \div n = (m - 1) \div n /\ (k - 1) % n < (m - 1) % n
      BY <1>2, <2>2, <3>2, <3>3, RowsRise
    <3>5. /\ (k - 1) \div n \in Int /\ (m - 1) \div n \in Int
          /\ (k - 1) % n \in Int /\ (m - 1) % n \in Int
      BY <1>2, <2>2, <3>3
    <3>6. QED
      BY <3>4, <3>5
  <2> HIDE DEF i, j
  <2>6. /\ p = [k \in 1 .. a * n |-> p[k]] /\ \A k \in 1 .. a * n : p[k] = <<ls[i(k)], rs[j(k)]>>
    BY <2>1
  <2>7. IsSequence(p) /\ Len(p) = a * n
    BY <2>2, <2>6, MadeSequence
  <2>8. PairedPlaces(A, B, how) = A \X B
    BY <1>5, <1>7 DEF PairedPlaces
  <2>9. \A k \in 1 .. a * n : p[k] \in A \X B
    <3>1. TAKE k \in 1 .. a * n
    <3>2. ls[i(k)] \in A /\ rs[j(k)] \in B
      BY <1>1, <1>2, <2>3
    <3>3. <<ls[i(k)], rs[j(k)]>> \in A \X B
      BY <3>2
    <3>4. p[k] = <<ls[i(k)], rs[j(k)]>>
      BY <2>6
    <3>5. QED
      BY <3>3, <3>4
  <2>10. \A xy \in A \X B : \E k \in 1 .. a * n : p[k] = xy
    <3>1. TAKE xy \in A \X B
    <3>2. PICK x \in 1 .. a : ls[x] = xy[1]
      BY <1>1
    <3>3. PICK y \in 1 .. n : rs[y] = xy[2]
      BY <1>2
    <3>4. PICK k \in 1 .. a * n : i(k) = x /\ j(k) = y
      BY <2>4
    <3>5. p[k] = <<xy[1], xy[2]>>
      BY <2>6, <3>2, <3>3, <3>4
    <3>6. QED
      BY <3>5
  <2>11. \A k, m \in 1 .. a * n : k < m => <<p[k], p[m]>> \in ByPlaces
    <3>1. TAKE k, m \in 1 .. a * n
    <3>2. SUFFICES ASSUME k < m PROVE <<p[k], p[m]>> \in ByPlaces
      OBVIOUS
    <3>3. i(k) < i(m) \/ (i(k) = i(m) /\ j(k) < j(m))
      BY <2>5, <3>2
    <3>4. /\ i(k) \in 1 .. a /\ i(m) \in 1 .. a /\ j(k) \in 1 .. n /\ j(m) \in 1 .. n
      BY <2>3
    <3>5. /\ p[k] = <<ls[i(k)], rs[j(k)]>> /\ p[m] = <<ls[i(m)], rs[j(m)]>>
      BY <2>6
    <3>6. ls[i(k)] \in Int /\ ls[i(m)] \in Int /\ rs[j(k)] \in Int /\ rs[j(m)] \in Int
      BY <1>1, <1>2, <1>6, <3>4
    <3>7. i(k) < i(m) => ls[i(k)] < ls[i(m)]
      <4>1. i(k) < i(m) => <<ls[i(k)], ls[i(m)]>> \in Upwards
        BY <1>1, <3>4
      <4>2. QED
        BY <4>1 DEF Upwards
    <3>8. j(k) < j(m) => rs[j(k)] < rs[j(m)]
      <4>1. j(k) < j(m) => <<rs[j(k)], rs[j(m)]>> \in Upwards
        BY <1>2, <3>4
      <4>2. QED
        BY <4>1 DEF Upwards
    <3>9. QED
      BY <3>3, <3>5, <3>6, <3>7, <3>8 DEF ByPlaces
  <2>12. \A k, m \in 1 .. a * n : p[k] = p[m] => k = m
    <3>1. TAKE k, m \in 1 .. a * n
    <3>2. k < m \/ m < k \/ k = m
      BY <2>2
    <3>3. \A x \in Int \X Int : <<x, x>> \notin ByPlaces
      BY DEF ByPlaces
    <3>4. p[k] \in Int \X Int /\ p[m] \in Int \X Int
      BY <1>6, <2>9
    <3>5. QED
      BY <2>11, <3>2, <3>3, <3>4
  <2>13. a <= a * n
    <3>1. 1 * a <= n * a /\ n * a = a * n /\ 1 * a = a
      <4>1. a > 0 /\ 1 \in Int /\ n \in Int /\ 1 <= n
        BY <1>1, <1>2, <1>7
      <4>2. 1 * a <= n * a
        BY <1>1, <4>1, Times
      <4>3. QED
        BY <1>1, <1>2, <4>2
    <3>2. QED
      BY <3>1
  <2>14. a * n = a => \A k \in 1 .. a : p[k][1] = ls[k]
    <3>1. SUFFICES ASSUME a * n = a, NEW k \in 1 .. a PROVE p[k][1] = ls[k]
      OBVIOUS
    <3>2. n = 1
      <4>1. 1 * a <= n * a /\ (1 < n => 1 * a < n * a)
        <5>1. a > 0 /\ 1 \in Int /\ n \in Int /\ 1 <= n
          BY <1>1, <1>2, <1>7
        <5>2. QED
          BY <1>1, <5>1, Times
      <4>2. n * a = a * n /\ 1 * a = a
        BY <1>1, <1>2
      <4>3. QED
        BY <1>1, <1>2, <1>7, <3>1, <4>1, <4>2
    <3>3. i(k) = k
      BY <1>1, <3>2 DEF i
    <3>4. QED
      BY <2>6, <3>1, <3>3
  <2>15. QED
    BY <2>7, <2>8, <2>9, <2>10, <2>11, <2>12, <2>13, <2>14 DEF Lists, Climbs, p, a
<1>8. CASE a # 0 /\ n = 0 /\ how \in {"left", "outer"}
  <2>1. p = [k \in 1 .. a |-> <<ls[k], Nowhere>>]
    BY <1>3, <1>4, <1>8 DEF PairsOf, p
  <2>2. p = [k \in 1 .. a |-> p[k]] /\ \A k \in 1 .. a : p[k] = <<ls[k], Nowhere>>
    BY <2>1
  <2>3. IsSequence(p) /\ Len(p) = a
    BY <1>1, <2>2, MadeSequence
  <2>4. PairedPlaces(A, B, how) = A \X {Nowhere}
    BY <1>5, <1>8 DEF PairedPlaces
  <2>5. \A k \in 1 .. a : p[k] \in A \X {Nowhere}
    <3>1. TAKE k \in 1 .. a
    <3>2. p[k] = <<ls[k], Nowhere>> /\ ls[k] \in A
      BY <1>1, <2>2
    <3>3. <<ls[k], Nowhere>> \in A \X {Nowhere}
      BY <3>2
    <3>4. QED
      BY <3>2, <3>3
  <2>6. \A xy \in A \X {Nowhere} : \E k \in 1 .. a : p[k] = xy
    BY <1>1, <2>2
  <2>7. \A k, m \in 1 .. a : p[k] = p[m] => k = m
    BY <1>1, <2>2
  <2>8. \A k, m \in 1 .. a : k < m => <<p[k], p[m]>> \in ByPlaces
    <3>1. TAKE k, m \in 1 .. a
    <3>2. /\ p[k] = <<ls[k], Nowhere>> /\ p[m] = <<ls[m], Nowhere>>
          /\ ls[k] \in Int /\ ls[m] \in Int
      BY <1>1, <1>6, <2>2
    <3>3. k < m => ls[k] < ls[m]
      BY <1>1 DEF Upwards
    <3>4. QED
      BY <1>6, <3>2, <3>3 DEF ByPlaces
  <2>9. QED
    BY <1>1, <2>2, <2>3, <2>4, <2>5, <2>6, <2>7, <2>8 DEF Lists, Climbs, p, a
<1>9. CASE a = 0 /\ n # 0 /\ how = "outer"
  <2>1. p = [k \in 1 .. n |-> <<Nowhere, rs[k]>>]
    BY <1>3, <1>4, <1>9 DEF PairsOf, p
  <2>2. p = [k \in 1 .. n |-> p[k]] /\ \A k \in 1 .. n : p[k] = <<Nowhere, rs[k]>>
    BY <2>1
  <2>3. IsSequence(p) /\ Len(p) = n
    BY <1>2, <2>2, MadeSequence
  <2>4. PairedPlaces(A, B, how) = {Nowhere} \X B
    BY <1>5, <1>9 DEF PairedPlaces
  <2>5. \A k \in 1 .. n : p[k] \in {Nowhere} \X B
    <3>1. TAKE k \in 1 .. n
    <3>2. p[k] = <<Nowhere, rs[k]>> /\ rs[k] \in B
      BY <1>2, <2>2
    <3>3. <<Nowhere, rs[k]>> \in {Nowhere} \X B
      BY <3>2
    <3>4. QED
      BY <3>2, <3>3
  <2>6. \A xy \in {Nowhere} \X B : \E k \in 1 .. n : p[k] = xy
    BY <1>2, <2>2
  <2>7. \A k, m \in 1 .. n : p[k] = p[m] => k = m
    BY <1>2, <2>2
  <2>8. \A k, m \in 1 .. n : k < m => <<p[k], p[m]>> \in ByPlaces
    <3>1. TAKE k, m \in 1 .. n
    <3>2. /\ p[k] = <<Nowhere, rs[k]>> /\ p[m] = <<Nowhere, rs[m]>>
          /\ rs[k] \in Int /\ rs[m] \in Int
      BY <1>2, <1>6, <2>2
    <3>3. k < m => rs[k] < rs[m]
      BY <1>2 DEF Upwards
    <3>4. QED
      BY <1>6, <3>2, <3>3 DEF ByPlaces
  <2>9. QED
    BY <1>9, <2>3, <2>4, <2>5, <2>6, <2>7, <2>8 DEF Lists, Climbs, p
<1>10. CASE ~ (\/ a # 0 /\ n # 0
               \/ a # 0 /\ n = 0 /\ how \in {"left", "outer"}
               \/ a = 0 /\ n # 0 /\ how = "outer")
  <2>1. p = <<>>
    BY <1>4, <1>10 DEF PairsOf, p
  <2>2. PairedPlaces(A, B, how) = {}
    BY <1>5, <1>10 DEF PairedPlaces
  <2>3. IsSequence(p) /\ Len(p) = 0
    BY <2>1 DEF IsSequence
  <2>4. how = "left" => a = 0
    BY <1>10
  <2>5. Lists(p, {}) /\ Climbs(p, ByPlaces)
    BY <2>3 DEF Lists, Climbs
  <2>6. how = "left" => a <= Len(p) /\ (Len(p) = a => \A k \in 1 .. a : p[k][1] = ls[k])
    BY <1>1, <2>3, <2>4
  <2>7. QED
    BY <2>2, <2>5, <2>6 DEF p, a
<1>11. QED
  BY <1>7, <1>8, <1>9, <1>10
-----------------------------------------------------------------------------
Alphabetical == {ab \in Int \X Int : Before(ab[1], ab[2])}

LEMMA FirstAtIs ==
  ASSUME NEW labels \in Seq(Int), NEW label \in ToSet(labels)
  PROVE  FirstAt(labels, label) \in DOMAIN labels /\ labels[FirstAt(labels, label)] = label
<1> DEFINE S == {i \in DOMAIN labels : labels[i] = label}
<1>1. S \in SUBSET (1 .. Len(labels)) /\ S # {} /\ Len(labels) \in Nat
  BY DEF ToSet
<1>2. PICK first \in S : \A i \in S : first <= i
  <2> HIDE DEF S
  <2>1. QED
    BY <1>1, Ends
<1>3. \A j \in 1 .. first - 1 : labels[j] # label
  BY <1>2
<1>4. first \in DOMAIN labels /\ labels[first] = label
  OBVIOUS
<1>5. QED
  BY <1>3, <1>4 DEF FirstAt

LEMMA ToSetIsFinite ==
  ASSUME NEW s \in Seq(Int)
  PROVE  IsFiniteSet(ToSet(s)) /\ ToSet(s) \subseteq Int
<1>1. Len(s) \in Nat /\ s \in [1 .. Len(s) -> ToSet(s)] /\ \A x \in ToSet(s) : \E i \in 1 .. Len(s) : s[i] = x
  BY DEF ToSet
<1>2. s \in Surjection(1 .. Len(s), ToSet(s))
  BY <1>1 DEF Surjection
<1>3. IsFiniteSet(1 .. Len(s))
  <2>1. 1 \in Int /\ Len(s) \in Int
    BY <1>1
  <2>2. QED
    BY <2>1, FS_Interval
<1>4. IsFiniteSet(ToSet(s))
  BY <1>2, <1>3, FS_Surjection
<1>5. ToSet(s) \subseteq Int
  BY DEF ToSet
<1>6. QED
  BY <1>4, <1>5

LEMMA JoinedToSet ==
  ASSUME NEW s \in Seq(Int), NEW t \in Seq(Int)
  PROVE  s \o t \in Seq(Int) /\ ToSet(s \o t) = ToSet(s) \cup ToSet(t)
<1> DEFINE u == s \o t
<1>1. /\ u \in Seq(Int) /\ Len(u) = Len(s) + Len(t) /\ Len(s) \in Nat /\ Len(t) \in Nat
      /\ \A i \in 1 .. Len(s) : u[i] = s[i]
      /\ \A i \in 1 .. Len(t) : u[Len(s) + i] = t[i]
      /\ DOMAIN u = 1 .. Len(u) /\ DOMAIN s = 1 .. Len(s) /\ DOMAIN t = 1 .. Len(t)
  BY ConcatIs
<1> HIDE DEF u
<1>2. ASSUME NEW x \in ToSet(u) PROVE x \in ToSet(s) \cup ToSet(t)
  <2>1. PICK i \in 1 .. Len(u) : u[i] = x
    BY <1>1 DEF ToSet
  <2>2. CASE i <= Len(s)
    <3>1. i \in 1 .. Len(s)
      BY <1>1, <2>2
    <3>2. QED
      BY <1>1, <2>1, <3>1 DEF ToSet
  <2>3. CASE ~ (i <= Len(s))
    <3>1. i - Len(s) \in 1 .. Len(t) /\ Len(s) + (i - Len(s)) = i
      BY <1>1, <2>3
    <3>2. t[i - Len(s)] = x
      BY <1>1, <2>1, <3>1
    <3>3. QED
      BY <1>1, <3>1, <3>2 DEF ToSet
  <2>4. QED
    BY <2>2, <2>3
<1>3. ASSUME NEW x \in ToSet(s) PROVE x \in ToSet(u)
  <2>1. PICK i \in 1 .. Len(s) : s[i] = x
    BY <1>1 DEF ToSet
  <2>2. i \in 1 .. Len(u) /\ u[i] = x
    BY <1>1, <2>1
  <2>3. QED
    BY <1>1, <2>2 DEF ToSet
<1>4. ASSUME NEW x \in ToSet(t) PROVE x \in ToSet(u)
  <2>1. PICK i \in 1 .. Len(t) : t[i] = x
    BY <1>1 DEF ToSet
  <2>2. Len(s) + i \in 1 .. Len(u) /\ u[Len(s) + i] = x
    BY <1>1, <2>1
  <2>3. QED
    BY <1>1, <2>2 DEF ToSet
<1>5. QED
  BY <1>1, <1>2, <1>3, <1>4 DEF u

\* The labels of either side, each once, and in their order when they are sorted.
LEMMA GroupsAre ==
  ASSUME NEW left \in Seq(Int), NEW right \in Seq(Int), NEW sort \in BOOLEAN,
         NEW rightFirst \in BOOLEAN
  PROVE  LET groups == Groups(left, right, sort, rightFirst) IN
         /\ Lists(groups, ToSet(left) \cup ToSet(right))
         /\ sort => Climbs(groups, Alphabetical)
<1> DEFINE seen == IF rightFirst THEN right \o left ELSE left \o right
           S == ToSet(seen)
           first(a) == FirstAt(seen, a)
           ahead(x) == {y \in S : IF sort \/ y = Gap \/ x = Gap THEN Before(y, x)
                                  ELSE FirstAt(seen, y) < FirstAt(seen, x)}
           R == {ab \in S \X S : ab[1] \in ahead(ab[2])}
<1>1. seen \in Seq(Int) /\ S = ToSet(left) \cup ToSet(right)
  <2>1. /\ left \o right \in Seq(Int) /\ ToSet(left \o right) = ToSet(left) \cup ToSet(right)
        /\ right \o left \in Seq(Int) /\ ToSet(right \o left) = ToSet(left) \cup ToSet(right)
    BY JoinedToSet
  <2>2. QED
    BY <2>1
<1>2. IsFiniteSet(S) /\ S \subseteq Int
  BY <1>1, ToSetIsFinite
<1> HIDE DEF S
<1>3. \A a \in S : first(a) \in Int /\ seen[first(a)] = a
  <2>1. TAKE a \in S
  <2>2. FirstAt(seen, a) \in DOMAIN seen /\ seen[FirstAt(seen, a)] = a
    <3> HIDE DEF seen
    <3>1. QED
      BY <1>1, FirstAtIs DEF S
  <2>3. DOMAIN seen \subseteq Int
    <3> HIDE DEF seen
    <3>1. QED
      BY <1>1
  <2>4. QED
    BY <2>2, <2>3
<1>4. Groups(left, right, sort, rightFirst) = ByOrder(S, R)
  <2> DEFINE c(k) == CHOOSE x \in S : Cardinality(ahead(x)) = k - 1
             d(k) == CHOOSE x \in S : Cardinality(Preceding(S, R, x)) = k - 1
  <2>1. \A x \in S : ahead(x) = Preceding(S, R, x)
    <3>1. TAKE x \in S
    <3>2. ahead(x) \subseteq S
      OBVIOUS
    <3> HIDE DEF ahead
    <3>3. QED
      BY <3>2 DEF Preceding
  <2>2. \A k : c(k) = d(k)
    <3> HIDE DEF R, ahead
    <3>1. QED
      BY <2>1
  <2>3. Groups(left, right, sort, rightFirst) = [k \in 1 .. Cardinality(S) |-> c(k)]
    BY DEF Groups, Sorted, S
  <2>4. ByOrder(S, R) = [k \in 1 .. Cardinality(S) |-> d(k)]
    <3> HIDE DEF R
    <3>1. QED
      BY DEF ByOrder
  <2> HIDE DEF c, d, R
  <2>5. QED
    BY <2>2, <2>3, <2>4
<1> HIDE DEF seen
<1>5. \A a, b \in S : first(a) = first(b) => a = b
  BY <1>3
<1> HIDE DEF first
<1>6. \A a, b \in S : <<a, b>> \in R <=> IF sort \/ a = Gap \/ b = Gap THEN Before(a, b)
                                        ELSE first(a) < first(b)
  BY DEF first
<1> HIDE DEF R
<1>7. OrderOn(R, S)
  <2>1. ASSUME NEW a \in S PROVE <<a, a>> \notin R
    <3>1. a \in Int /\ first(a) \in Int
      BY <1>2, <1>3
    <3>2. QED
      BY <1>6, <3>1 DEF Before
  <2>2. ASSUME NEW a \in S, NEW b \in S, a # b PROVE <<a, b>> \in R \/ <<b, a>> \in R
    <3>1. a \in Int /\ b \in Int /\ first(a) \in Int /\ first(b) \in Int /\ first(a) # first(b)
      BY <1>2, <1>3, <1>5, <2>2
    <3>2. QED
      BY <1>6, <2>2, <3>1 DEF Before
  <2>3. ASSUME NEW a \in S, NEW b \in S, NEW c \in S, <<a, b>> \in R, <<b, c>> \in R
        PROVE  <<a, c>> \in R
    <3>1. a \in Int /\ b \in Int /\ c \in Int /\ first(a) \in Int /\ first(b) \in Int /\ first(c) \in Int
      BY <1>2, <1>3
    <3>2. QED
      BY <1>6, <2>3, <3>1 DEF Before
  <2>4. QED
    BY <2>1, <2>2, <2>3 DEF OrderOn
<1>8. Lists(ByOrder(S, R), S) /\ Climbs(ByOrder(S, R), R)
  BY <1>2, <1>7, ByOrderIs
<1>9. sort => Climbs(ByOrder(S, R), Alphabetical)
  <2> DEFINE f == ByOrder(S, R)
  <2>1. SUFFICES ASSUME sort, NEW k \in 1 .. Len(f), NEW m \in 1 .. Len(f), k < m
                 PROVE  <<f[k], f[m]>> \in Alphabetical
    BY DEF Climbs
  <2>2. f[k] \in S /\ f[m] \in S /\ <<f[k], f[m]>> \in R
    BY <1>8, <2>1 DEF Lists, Climbs
  <2> HIDE DEF f
  <2>3. QED
    BY <1>2, <1>6, <2>1, <2>2 DEF Alphabetical
<1>10. QED
  BY <1>1, <1>4, <1>8, <1>9
-----------------------------------------------------------------------------
\* The rows of a join, one kind after another.
Meets(left, right, p) ==
  \E i \in DOMAIN left, j \in DOMAIN right : left[i] = right[j] /\ p = <<i - 1, j - 1>>
AloneLeft(left, right, p) ==
  \E i \in DOMAIN left : left[i] \notin ToSet(right) /\ p = <<i - 1, Nowhere>>
AloneRight(left, right, p) ==
  \E j \in DOMAIN right : right[j] \notin ToSet(left) /\ p = <<Nowhere, j - 1>>

LEMMA PartnersAre ==
  ASSUME NEW left, NEW right, NEW how, NEW p
  PROVE  p \in Partners(left, right, how) <=>
           \/ Meets(left, right, p)
           \/ how \in {"left", "outer"} /\ AloneLeft(left, right, p)
           \/ how \in {"right", "outer"} /\ AloneRight(left, right, p)
<1>1. p \in Matches(left, right) <=> Meets(left, right, p)
  <2>1. ASSUME p \in Matches(left, right) PROVE Meets(left, right, p)
    <3>1. p \in UNION {{<<i - 1, j - 1>> : j \in {j \in DOMAIN right : right[j] = left[i]}} : i \in DOMAIN left}
      BY <2>1 DEF Matches
    <3>2. PICK i \in DOMAIN left : p \in {<<i - 1, j - 1>> : j \in {j \in DOMAIN right : right[j] = left[i]}}
      BY <3>1
    <3>3. PICK j \in DOMAIN right : right[j] = left[i] /\ p = <<i - 1, j - 1>>
      BY <3>2
    <3>4. QED
      BY <3>3 DEF Meets
  <2>2. ASSUME Meets(left, right, p) PROVE p \in Matches(left, right)
    <3>1. PICK i \in DOMAIN left, j \in DOMAIN right : left[i] = right[j] /\ p = <<i - 1, j - 1>>
      BY <2>2 DEF Meets
    <3> DEFINE All == {<<a - 1, b - 1>> : a \in DOMAIN left, b \in DOMAIN right}
               Beside_(a) == {<<a - 1, b - 1>> : b \in {b \in DOMAIN right : right[b] = left[a]}}
    <3>2. p \in All
      BY <3>1
    <3>3. p \in Beside_(i)
      BY <3>1
    <3>4. p \in UNION {Beside_(a) : a \in DOMAIN left}
      <4> HIDE DEF Beside_
      <4>1. QED
        BY <3>3
    <3>5. Matches(left, right) = All \cap UNION {Beside_(a) : a \in DOMAIN left}
      BY DEF Matches
    <3> HIDE DEF All, Beside_
    <3>6. QED
      BY <3>2, <3>4, <3>5
  <2>3. QED
    BY <2>1, <2>2
<1>2. p \in Lonely(left, right) \X {Nowhere} <=> AloneLeft(left, right, p)
  BY DEF Lonely, AloneLeft
<1>3. p \in {Nowhere} \X Lonely(right, left) <=> AloneRight(left, right, p)
  BY DEF Lonely, AloneRight
<1>4. QED
  BY <1>1, <1>2, <1>3 DEF Partners

\* The rows of a join of one label are the pairs of its places.
LEMMA RowsOfLabel ==
  ASSUME NEW left \in Seq(Int), NEW right \in Seq(Int), NEW how \in {"left", "inner", "outer"},
         NEW label \in ToSet(left) \cup ToSet(right), NEW p
  PROVE  p \in PairedPlaces(PlacesWith(left, label), PlacesWith(right, label), how) <=>
           p \in Partners(left, right, how) /\ LabelOf(left, right, p) = label
<1> DEFINE A == PlacesWith(left, label)
           B == PlacesWith(right, label)
           PP == PairedPlaces(A, B, how)
<1>1. /\ DOMAIN left = 1 .. Len(left) /\ Len(left) \in Nat
      /\ DOMAIN right = 1 .. Len(right) /\ Len(right) \in Nat
  OBVIOUS
<1>2. /\ A # {} <=> label \in ToSet(left)
      /\ B # {} <=> label \in ToSet(right)
  BY DEF PlacesWith, ToSet
<1>3. /\ \A a : a \in A <=> \E i \in DOMAIN left : left[i] = label /\ a = i - 1
      /\ \A b : b \in B <=> \E j \in DOMAIN right : right[j] = label /\ b = j - 1
  BY DEF PlacesWith
<1>4. /\ \A i \in DOMAIN left : i - 1 # Nowhere /\ (i - 1) + 1 = i
      /\ \A j \in DOMAIN right : j - 1 # Nowhere /\ (j - 1) + 1 = j
  BY <1>1 DEF Nowhere
<1>5. \A b : \A i \in DOMAIN left : LabelOf(left, right, <<i - 1, b>>) = left[i]
  BY <1>4 DEF LabelOf
<1>6. \A j \in DOMAIN right : LabelOf(left, right, <<Nowhere, j - 1>>) = right[j]
  BY <1>4 DEF LabelOf
<1> HIDE DEF A, B
<1>7. ASSUME p \in PP PROVE p \in Partners(left, right, how) /\ LabelOf(left, right, p) = label
  <2>1. CASE A # {} /\ B # {}
    <3>1. p \in A \X B
      BY <1>7, <2>1 DEF PairedPlaces
    <3>2. PICK i \in DOMAIN left : left[i] = label /\ p[1] = i - 1
      BY <1>3, <3>1
    <3>3. PICK j \in DOMAIN right : right[j] = label /\ p[2] = j - 1
      BY <1>3, <3>1
    <3>4. p = <<i - 1, j - 1>>
      BY <3>1, <3>2, <3>3
    <3>5. Meets(left, right, p)
      BY <3>2, <3>3, <3>4 DEF Meets
    <3>6. QED
      BY <1>5, <3>2, <3>4, <3>5, PartnersAre
  <2>2. CASE A # {} /\ B = {}
    <3>1. p \in A \X {Nowhere} /\ how \in {"left", "outer"}
      BY <1>7, <2>2 DEF PairedPlaces
    <3>2. PICK i \in DOMAIN left : left[i] = label /\ p[1] = i - 1
      BY <1>3, <3>1
    <3>3. p = <<i - 1, Nowhere>>
      BY <3>1, <3>2
    <3>4. AloneLeft(left, right, p)
      BY <1>2, <2>2, <3>2, <3>3 DEF AloneLeft
    <3>5. QED
      BY <1>5, <3>1, <3>2, <3>3, <3>4, PartnersAre
  <2>3. CASE A = {}
    <3>1. p \in {Nowhere} \X B /\ how = "outer"
      BY <1>7, <2>3 DEF PairedPlaces
    <3>2. PICK j \in DOMAIN right : right[j] = label /\ p[2] = j - 1
      BY <1>3, <3>1
    <3>3. p = <<Nowhere, j - 1>>
      BY <3>1, <3>2
    <3>4. AloneRight(left, right, p)
      BY <1>2, <2>3, <3>2, <3>3 DEF AloneRight
    <3>5. QED
      BY <1>6, <3>1, <3>2, <3>3, <3>4, PartnersAre
  <2>4. QED
    BY <2>1, <2>2, <2>3
<1>8. ASSUME p \in Partners(left, right, how), LabelOf(left, right, p) = label PROVE p \in PP
  <2>1. CASE Meets(left, right, p)
    <3>1. PICK i \in DOMAIN left, j \in DOMAIN right : left[i] = right[j] /\ p = <<i - 1, j - 1>>
      BY <2>1 DEF Meets
    <3>2. left[i] = label
      BY <1>5, <1>8, <3>1
    <3>3. i - 1 \in A /\ j - 1 \in B
      BY <1>3, <3>1, <3>2
    <3>4. p \in A \X B
      BY <3>1, <3>3
    <3>5. QED
      BY <3>3, <3>4 DEF PairedPlaces
  <2>2. CASE how \in {"left", "outer"} /\ AloneLeft(left, right, p)
    <3>1. PICK i \in DOMAIN left : left[i] \notin ToSet(right) /\ p = <<i - 1, Nowhere>>
      BY <2>2 DEF AloneLeft
    <3>2. left[i] = label
      BY <1>5, <1>8, <3>1
    <3>3. i - 1 \in A /\ B = {}
      BY <1>2, <1>3, <3>1, <3>2
    <3>4. p \in A \X {Nowhere}
      BY <3>1, <3>3
    <3>5. QED
      BY <2>2, <3>3, <3>4 DEF PairedPlaces
  <2>3. CASE how \in {"right", "outer"} /\ AloneRight(left, right, p)
    <3>1. PICK j \in DOMAIN right : right[j] \notin ToSet(left) /\ p = <<Nowhere, j - 1>>
      BY <2>3 DEF AloneRight
    <3>2. right[j] = label
      BY <1>6, <1>8, <3>1
    <3>3. j - 1 \in B /\ A = {}
      BY <1>2, <1>3, <3>1, <3>2
    <3>4. p \in {Nowhere} \X B /\ how = "outer"
      BY <2>3, <3>1, <3>3
    <3>5. QED
      BY <3>3, <3>4 DEF PairedPlaces
  <2>4. QED
    BY <1>8, <2>1, <2>2, <2>3, PartnersAre
<1>9. QED
  BY <1>7, <1>8 DEF A, B

\* Every row of a join has the label of one of its sides, at each place it has.
LEMMA RowsHaveLabels ==
  ASSUME NEW left \in Seq(Int), NEW right \in Seq(Int), NEW how \in Hows,
         NEW p \in Partners(left, right, how)
  PROVE  /\ p \in Int \X Int /\ LabelOf(left, right, p) \in ToSet(left) \cup ToSet(right)
         /\ p[1] # Nowhere => p[1] + 1 \in DOMAIN left /\ LabelOf(left, right, p) = left[p[1] + 1]
         /\ p[2] # Nowhere => p[2] + 1 \in DOMAIN right /\ LabelOf(left, right, p) = right[p[2] + 1]
<1>1. /\ DOMAIN left = 1 .. Len(left) /\ Len(left) \in Nat
      /\ DOMAIN right = 1 .. Len(right) /\ Len(right) \in Nat
  OBVIOUS
<1>2. /\ \A i \in DOMAIN left : i \in Int /\ i - 1 # Nowhere /\ (i - 1) + 1 = i /\ i - 1 \in Int
      /\ \A j \in DOMAIN right : j \in Int /\ j - 1 # Nowhere /\ (j - 1) + 1 = j /\ j - 1 \in Int
      /\ Nowhere \in Int
  BY <1>1 DEF Nowhere
<1>3. CASE Meets(left, right, p)
  <2>1. PICK i \in DOMAIN left, j \in DOMAIN right : left[i] = right[j] /\ p = <<i - 1, j - 1>>
    BY <1>3 DEF Meets
  <2>2. p[1] = i - 1 /\ p[2] = j - 1 /\ p[1] # Nowhere
    BY <1>2, <2>1
  <2>3. LabelOf(left, right, p) = left[i] /\ left[i] \in ToSet(left) /\ p \in Int \X Int
    BY <1>2, <2>1, <2>2 DEF LabelOf, ToSet
  <2>4. QED
    BY <1>2, <2>1, <2>2, <2>3
<1>4. CASE AloneLeft(left, right, p)
  <2>1. PICK i \in DOMAIN left : left[i] \notin ToSet(right) /\ p = <<i - 1, Nowhere>>
    BY <1>4 DEF AloneLeft
  <2>2. p[1] = i - 1 /\ p[2] = Nowhere /\ p[1] # Nowhere
    BY <1>2, <2>1
  <2>3. LabelOf(left, right, p) = left[i] /\ left[i] \in ToSet(left) /\ p \in Int \X Int
    BY <1>2, <2>1, <2>2 DEF LabelOf, ToSet
  <2>4. QED
    BY <1>2, <2>1, <2>2, <2>3
<1>5. CASE AloneRight(left, right, p)
  <2>1. PICK j \in DOMAIN right : right[j] \notin ToSet(left) /\ p = <<Nowhere, j - 1>>
    BY <1>5 DEF AloneRight
  <2>2. p[1] = Nowhere /\ p[2] = j - 1 /\ p[2] # Nowhere
    BY <1>2, <2>1
  <2>3. LabelOf(left, right, p) = right[j] /\ right[j] \in ToSet(right) /\ p \in Int \X Int
    BY <1>2, <2>1, <2>2 DEF LabelOf, ToSet
  <2>4. QED
    BY <1>2, <2>1, <2>2, <2>3
<1>6. QED
  BY <1>3, <1>4, <1>5, PartnersAre
-----------------------------------------------------------------------------
\* Pieces no shorter than others, and together as long, begin where they do.
LEMMA OffsetsAgree ==
  ASSUME NEW n \in Nat, NEW pieces, NEW off, Offsets(pieces, n, off),
         NEW others, NEW o, Offsets(others, n, o),
         \A g \in 1 .. n : Len(pieces[g]) \in Nat /\ Len(others[g]) \in Nat
                           /\ Len(others[g]) <= Len(pieces[g]),
         off[n] = o[n]
  PROVE  \A g \in 0 .. n : off[g] = o[g]
<1>1. /\ \A g \in 0 .. n : off[g] \in Nat /\ o[g] \in Nat
      /\ \A g \in 1 .. n : /\ off[g] = off[g - 1] + Len(pieces[g])
                           /\ o[g] = o[g - 1] + Len(others[g])
      /\ off[0] = 0 /\ o[0] = 0
  BY DEF Offsets
<1> DEFINE U == {k \in Nat : k \in 0 .. n => o[k] <= off[k]}
           D == {k \in Nat : k \in 0 .. n => off[n - k] <= o[n - k]}
<1>2. 0 \in U /\ 0 \in D
  <2>1. n \in 0 .. n /\ n - 0 = n
    OBVIOUS
  <2>2. QED
    BY <1>1, <2>1
<1>3. ASSUME NEW k \in Nat, k \in U PROVE k + 1 \in U
  <2>1. SUFFICES ASSUME k + 1 \in 0 .. n PROVE o[k + 1] <= off[k + 1]
    OBVIOUS
  <2>2. k \in 0 .. n /\ k + 1 \in 1 .. n /\ (k + 1) - 1 = k
    BY <2>1
  <2>3. o[k] <= off[k]
    BY <1>3, <2>2
  <2>4. o[k + 1] = o[k] + Len(others[k + 1]) /\ off[k + 1] = off[k] + Len(pieces[k + 1])
    BY <1>1, <2>2
  <2>5. Len(pieces[k + 1]) \in Nat /\ Len(others[k + 1]) \in Nat /\ Len(others[k + 1]) <= Len(pieces[k + 1])
    BY <2>2
  <2>6. o[k] \in Nat /\ off[k] \in Nat
    BY <1>1, <2>2
  <2>7. QED
    BY <2>3, <2>4, <2>5, <2>6
<1>4. ASSUME NEW k \in Nat, k \in D PROVE k + 1 \in D
  <2>1. SUFFICES ASSUME k + 1 \in 0 .. n PROVE off[n - (k + 1)] <= o[n - (k + 1)]
    OBVIOUS
  <2>2. k \in 0 .. n /\ n - k \in 1 .. n /\ (n - k) - 1 = n - (k + 1) /\ n - k \in 0 .. n
        /\ n - (k + 1) \in 0 .. n
    BY <2>1
  <2>3. off[n - k] <= o[n - k]
    BY <1>4, <2>2
  <2>4. o[n - k] = o[n - (k + 1)] + Len(others[n - k])
        /\ off[n - k] = off[n - (k + 1)] + Len(pieces[n - k])
    BY <1>1, <2>2
  <2>5. Len(pieces[n - k]) \in Nat /\ Len(others[n - k]) \in Nat /\ Len(others[n - k]) <= Len(pieces[n - k])
    BY <2>2
  <2>6. o[n - (k + 1)] \in Nat /\ off[n - (k + 1)] \in Nat
    BY <1>1, <2>2
  <2>7. QED
    BY <2>3, <2>4, <2>5, <2>6
<1> HIDE DEF U, D
<1>5. (\A k \in Nat : k \in U) /\ (\A k \in Nat : k \in D)
  BY <1>2, <1>3, <1>4, AllNaturals
<1>6. \A g \in 0 .. n : o[g] <= off[g] /\ off[g] <= o[g]
  <2>1. TAKE g \in 0 .. n
  <2>2. o[g] <= off[g]
    BY <1>5 DEF U
  <2>3. n - g \in Nat /\ n - g \in 0 .. n /\ n - (n - g) = g
    OBVIOUS
  <2>4. off[n - (n - g)] <= o[n - (n - g)]
    BY <1>5, <2>3 DEF D
  <2>5. QED
    BY <2>2, <2>3, <2>4
<1>7. QED
  BY <1>1, <1>6

\* What the pieces of a join by group are, before and after the left rows'
\* order is put back.
Grouped(left, right, how, groups) ==
  FlattenSeq([g \in DOMAIN groups |->
    PairsOf(RowsWith(left, groups[g]), RowsWith(right, groups[g]), how)])

GroupedLeft(left, groups) == FlattenSeq([g \in DOMAIN groups |-> RowsWith(left, groups[g])])

\* The pieces have the rows of the join, by label as the groups are, and the
\* left rows of the same places.
GroupsPair(left, right, how, groups) ==
  LET pairs == Grouped(left, right, how, groups)
      leftSorted == GroupedLeft(left, groups)
  IN  /\ Lists(pairs, Partners(left, right, how))
      /\ Climbs(groups, Alphabetical) => Climbs(pairs, ByLabels(left, right))
      /\ Lists(leftSorted, 0 .. Len(left) - 1)
      /\ \A k, m \in 1 .. Len(pairs) :
           k < m /\ LabelOf(left, right, pairs[k]) = LabelOf(left, right, pairs[m]) =>
             <<pairs[k], pairs[m]>> \in ByPlaces
      /\ how = "left" /\ Len(pairs) = Len(leftSorted) =>
           \A k \in 1 .. Len(pairs) : pairs[k][1] = leftSorted[k]

LEMMA GroupedAre ==
  ASSUME NEW left \in Seq(Int), NEW right \in Seq(Int), NEW how \in {"left", "inner", "outer"},
         NEW groups, Lists(groups, ToSet(left) \cup ToSet(right))
  PROVE  GroupsPair(left, right, how, groups)
<1> DEFINE n == Len(groups)
           S == ToSet(left) \cup ToSet(right)
           ls(g) == RowsWith(left, groups[g])
           rs(g) == RowsWith(right, groups[g])
           A(g) == PlacesWith(left, groups[g])
           B(g) == PlacesWith(right, groups[g])
           pieces == [g \in 1 .. n |-> PairsOf(ls(g), rs(g), how)]
           leftPieces == [g \in 1 .. n |-> ls(g)]
           pairs == FlattenSeq(pieces)
           leftSorted == FlattenSeq(leftPieces)
           label(p) == LabelOf(left, right, p)
<1>1. /\ n \in Nat /\ groups = [g \in 1 .. n |-> groups[g]] /\ \A g \in 1 .. n : groups[g] \in S
      /\ \A x \in S : \E g \in 1 .. n : groups[g] = x
      /\ \A g, h \in 1 .. n : groups[g] = groups[h] => g = h
  BY DEF Lists, IsSequence
<1>2. DOMAIN groups = 1 .. n
  BY <1>1
<1>3. Grouped(left, right, how, groups) = pairs /\ GroupedLeft(left, groups) = leftSorted
  <2>1. Grouped(left, right, how, groups) = FlattenSeq([g \in DOMAIN groups |-> PairsOf(ls(g), rs(g), how)])
    BY DEF Grouped
  <2>2. GroupedLeft(left, groups) = FlattenSeq([g \in DOMAIN groups |-> ls(g)])
    BY DEF GroupedLeft
  <2> HIDE DEF ls, rs, n
  <2>3. QED
    BY <1>2, <2>1, <2>2
<1>4. \A g \in 1 .. n :
        /\ Lists(ls(g), A(g)) /\ Climbs(ls(g), Upwards) /\ A(g) \in SUBSET Nat
        /\ Lists(rs(g), B(g)) /\ Climbs(rs(g), Upwards) /\ B(g) \in SUBSET Nat
  <2>1. TAKE g \in 1 .. n
  <2>2. 0 .. Len(left) - 1 \subseteq Nat /\ 0 .. Len(right) - 1 \subseteq Nat
    OBVIOUS
  <2>3. QED
    BY <2>2, RowsWithAre
<1>5. \A g \in 1 .. n :
        \A p : p \in PairedPlaces(A(g), B(g), how) <=>
                 p \in Partners(left, right, how) /\ label(p) = groups[g]
  <2>1. TAKE g \in 1 .. n
  <2>2. groups[g] \in ToSet(left) \cup ToSet(right)
    BY <1>1
  <2>3. QED
    BY <2>2, RowsOfLabel
<1>6. \A p \in Partners(left, right, how) : label(p) \in S /\ p \in Int \X Int
  <2>1. how \in Hows
    BY DEF Hows
  <2>2. QED
    BY <2>1, RowsHaveLabels
<1> HIDE DEF ls, rs, A, B, label
<1>7. /\ \A g \in 1 .. n : pieces[g] = PairsOf(ls(g), rs(g), how)
      /\ \A g \in 1 .. n : leftPieces[g] = ls(g)
      /\ pieces = [g \in 1 .. n |-> pieces[g]]
      /\ leftPieces = [g \in 1 .. n |-> leftPieces[g]]
  OBVIOUS
<1>8. \A g \in 1 .. n :
        /\ Lists(pieces[g], PairedPlaces(A(g), B(g), how)) /\ Climbs(pieces[g], ByPlaces)
        /\ how = "left" =>
             /\ Len(leftPieces[g]) <= Len(pieces[g])
             /\ Len(pieces[g]) = Len(leftPieces[g]) =>
                  \A k \in 1 .. Len(leftPieces[g]) : pieces[g][k][1] = leftPieces[g][k]
  <2>1. TAKE g \in 1 .. n
  <2>2. pieces[g] = PairsOf(ls(g), rs(g), how) /\ leftPieces[g] = ls(g)
    BY <1>7
  <2>3. /\ Lists(ls(g), A(g)) /\ Climbs(ls(g), Upwards) /\ A(g) \in SUBSET Nat
        /\ Lists(rs(g), B(g)) /\ Climbs(rs(g), Upwards) /\ B(g) \in SUBSET Nat
    BY <1>4
  <2> HIDE DEF pieces, leftPieces
  <2>4. /\ Lists(PairsOf(ls(g), rs(g), how), PairedPlaces(A(g), B(g), how))
        /\ Climbs(PairsOf(ls(g), rs(g), how), ByPlaces)
        /\ how = "left" =>
             /\ Len(ls(g)) <= Len(PairsOf(ls(g), rs(g), how))
             /\ Len(PairsOf(ls(g), rs(g), how)) = Len(ls(g)) =>
                  \A k \in 1 .. Len(ls(g)) : PairsOf(ls(g), rs(g), how)[k][1] = ls(g)[k]
    BY <2>3, PairsOfAre
  <2>5. QED
    BY <2>2, <2>4
<1> HIDE DEF pieces, leftPieces, n
<1>9. /\ IsSequence(pieces) /\ Len(pieces) = n /\ \A g \in 1 .. n : IsSequence(pieces[g])
      /\ IsSequence(leftPieces) /\ Len(leftPieces) = n /\ \A g \in 1 .. n : IsSequence(leftPieces[g])
  <2>1. \A g \in 1 .. n : IsSequence(pieces[g]) /\ IsSequence(leftPieces[g])
    BY <1>4, <1>7, <1>8 DEF Lists
  <2>2. IsSequence(pieces) /\ Len(pieces) = n /\ IsSequence(leftPieces) /\ Len(leftPieces) = n
    BY <1>1, <1>7, MadeSequence
  <2>3. QED
    BY <2>1, <2>2
<1>10. PICK off : Stacks(pairs, pieces, n, off)
  BY <1>9, Flattened
<1>11. PICK leftOff : Stacks(leftSorted, leftPieces, n, leftOff)
  BY <1>9, Flattened
<1> HIDE DEF pairs, leftSorted
<1>12. Lists(pairs, Partners(left, right, how))
  <2> DEFINE T == [g \in 1 .. n |-> PairedPlaces(A(g), B(g), how)]
  <2>1. \A g \in 1 .. n : T[g] = PairedPlaces(A(g), B(g), how)
    OBVIOUS
  <2> HIDE DEF T
  <2>2. \A g \in 1 .. n : Lists(pieces[g], T[g])
    BY <1>8, <2>1
  <2>3. \A g, h \in 1 .. n : g # h => T[g] \cap T[h] = {}
    BY <1>1, <1>5, <2>1
  <2>a. n \in Nat
    BY <1>1
  <2>4. ASSUME NEW p
        PROVE  p \in Partners(left, right, how) <=> \E g \in 1 .. n : p \in T[g]
    <3>1. ASSUME NEW g \in 1 .. n, p \in T[g] PROVE p \in Partners(left, right, how)
      BY <1>5, <2>1, <3>1
    <3>2. ASSUME p \in Partners(left, right, how) PROVE \E g \in 1 .. n : p \in T[g]
      <4>1. PICK g \in 1 .. n : groups[g] = label(p)
        BY <1>1, <1>6, <3>2
      <4>2. p \in T[g]
        BY <1>5, <2>1, <3>2, <4>1
      <4>3. QED
        BY <4>2
    <3>3. QED
      BY <3>1, <3>2
  <2>5. QED
    BY <1>10, <2>a, <2>2, <2>3, <2>4, StacksList
<1>13. ASSUME NEW g \in 1 .. n, NEW k \in 1 .. Len(pieces[g])
       PROVE  /\ label(pieces[g][k]) = groups[g] /\ pieces[g][k] \in Int \X Int
              /\ pieces[g][k] \in Partners(left, right, how)
  <2>1. pieces[g][k] \in PairedPlaces(A(g), B(g), how)
    BY <1>8 DEF Lists
  <2>2. QED
    BY <1>5, <1>6, <2>1
<1>14. ASSUME Climbs(groups, Alphabetical) PROVE Climbs(pairs, ByLabels(left, right))
  <2> DEFINE R == ByLabels(left, right)
  <2>1. \A p, q \in Int \X Int : <<p, q>> \in R <=>
          \/ Before(label(p), label(q))
          \/ label(p) = label(q) /\ <<p, q>> \in ByPlaces
    BY DEF ByLabels, label
  <2>2. ASSUME NEW g \in 1 .. n PROVE Climbs(pieces[g], R)
    <3>1. SUFFICES ASSUME NEW k \in 1 .. Len(pieces[g]), NEW m \in 1 .. Len(pieces[g]), k < m
                   PROVE  <<pieces[g][k], pieces[g][m]>> \in R
      BY DEF Climbs
    <3>2. <<pieces[g][k], pieces[g][m]>> \in ByPlaces
      BY <1>8, <3>1 DEF Climbs
    <3>3. QED
      BY <1>13, <2>1, <3>2
  <2>3. ASSUME NEW g \in 1 .. n, NEW h \in 1 .. n, g < h,
               NEW k \in 1 .. Len(pieces[g]), NEW m \in 1 .. Len(pieces[h])
        PROVE  <<pieces[g][k], pieces[h][m]>> \in R
    <3>1. <<groups[g], groups[h]>> \in Alphabetical
      BY <1>14, <2>3 DEF Climbs, n
    <3>2. Before(groups[g], groups[h])
      BY <3>1 DEF Alphabetical
    <3>3. QED
      BY <1>13, <2>1, <3>2
  <2> HIDE DEF R
  <2>4. Climbs(pairs, R)
    BY <1>1, <1>9, <1>10, <2>2, <2>3, StacksClimb
  <2>5. QED
    BY <2>4 DEF R
<1>15. ASSUME NEW a \in 1 .. Len(pairs), NEW b \in 1 .. Len(pairs), a < b,
              label(pairs[a]) = label(pairs[b])
       PROVE  <<pairs[a], pairs[b]>> \in ByPlaces
  <2>1. /\ \A g \in 1 .. n : \A k \in 1 .. Len(pieces[g]) : pairs[off[g - 1] + k] = pieces[g][k]
        /\ \A m \in 1 .. Len(pairs) : \E g \in 1 .. n : \E k \in 1 .. Len(pieces[g]) : m = off[g - 1] + k
    BY <1>10 DEF Stacks
  <2>2. PICK g \in 1 .. n : \E k \in 1 .. Len(pieces[g]) : a = off[g - 1] + k
    BY <2>1
  <2>3. PICK k \in 1 .. Len(pieces[g]) : a = off[g - 1] + k
    BY <2>2
  <2>4. PICK h \in 1 .. n : \E m \in 1 .. Len(pieces[h]) : b = off[h - 1] + m
    BY <2>1
  <2>5. PICK m \in 1 .. Len(pieces[h]) : b = off[h - 1] + m
    BY <2>4
  <2>6. pairs[a] = pieces[g][k] /\ pairs[b] = pieces[h][m]
    BY <2>1, <2>3, <2>5
  <2>7. g = h
    <3>1. groups[g] = groups[h]
      BY <1>13, <1>15, <2>6
    <3>2. QED
      BY <1>1, <3>1
  <2>8. Offsets(pieces, n, off)
    BY <1>10 DEF Stacks
  <2>9. off[g - 1] \in Nat
    <3>1. g - 1 \in 0 .. n
      BY <1>1
    <3>2. QED
      BY <2>8, <3>1 DEF Offsets
  <2>10. k < m
    BY <1>15, <2>3, <2>5, <2>7, <2>9
  <2>11. QED
    BY <1>8, <2>6, <2>7, <2>10 DEF Climbs
<1>16. Lists(leftSorted, 0 .. Len(left) - 1)
  <2> DEFINE T == [g \in 1 .. n |-> A(g)]
  <2>1. \A g \in 1 .. n : T[g] = A(g)
    OBVIOUS
  <2> HIDE DEF T
  <2>2. \A g \in 1 .. n : Lists(leftPieces[g], T[g])
    BY <1>4, <1>7, <2>1
  <2>3. \A g \in 1 .. n : \A x : x \in A(g) <=> x + 1 \in DOMAIN left /\ x \in Int /\ left[x + 1] = groups[g]
    <3>1. TAKE g \in 1 .. n
    <3>2. DOMAIN left = 1 .. Len(left) /\ Len(left) \in Nat
      OBVIOUS
    <3>3. ASSUME NEW x, x \in A(g)
          PROVE  x + 1 \in DOMAIN left /\ x \in Int /\ left[x + 1] = groups[g]
      <4>1. PICK i \in DOMAIN left : left[i] = groups[g] /\ x = i - 1
        BY <3>3 DEF A, PlacesWith
      <4>2. QED
        BY <3>2, <4>1
    <3>4. ASSUME NEW x, x + 1 \in DOMAIN left, x \in Int, left[x + 1] = groups[g]
          PROVE  x \in A(g)
      <4>1. x = (x + 1) - 1
        BY <3>4
      <4>2. QED
        BY <3>4, <4>1 DEF A, PlacesWith
    <3>5. QED
      BY <3>3, <3>4
  <2>4. \A g, h \in 1 .. n : g # h => T[g] \cap T[h] = {}
    BY <1>1, <2>1, <2>3
  <2>a. n \in Nat
    BY <1>1
  <2>5. ASSUME NEW x
        PROVE  x \in 0 .. Len(left) - 1 <=> \E g \in 1 .. n : x \in T[g]
    <3>1. ASSUME NEW g \in 1 .. n, x \in T[g] PROVE x \in 0 .. Len(left) - 1
      <4>1. x \in Int /\ x + 1 \in 1 .. Len(left) /\ Len(left) \in Nat
        BY <2>1, <2>3, <3>1
      <4>2. QED
        BY <4>1
    <3>2. ASSUME x \in 0 .. Len(left) - 1 PROVE \E g \in 1 .. n : x \in T[g]
      <4>1. x + 1 \in DOMAIN left /\ x \in Int
        BY <3>2
      <4>2. left[x + 1] \in S
        BY <4>1 DEF ToSet
      <4>3. PICK g \in 1 .. n : groups[g] = left[x + 1]
        BY <1>1, <4>2
      <4>4. x \in T[g]
        BY <2>1, <2>3, <4>1, <4>3
      <4>5. QED
        BY <4>4
    <3>3. QED
      BY <3>1, <3>2
  <2>6. QED
    BY <1>11, <2>a, <2>2, <2>4, <2>5, StacksList
<1>17. ASSUME how = "left", Len(pairs) = Len(leftSorted), NEW a \in 1 .. Len(pairs)
       PROVE  pairs[a][1] = leftSorted[a]
  <2>1. /\ Offsets(pieces, n, off) /\ Len(pairs) = off[n]
        /\ \A g \in 1 .. n : \A k \in 1 .. Len(pieces[g]) : pairs[off[g - 1] + k] = pieces[g][k]
        /\ \A m \in 1 .. Len(pairs) : \E g \in 1 .. n : \E k \in 1 .. Len(pieces[g]) : m = off[g - 1] + k
    BY <1>10 DEF Stacks
  <2>2. /\ Offsets(leftPieces, n, leftOff) /\ Len(leftSorted) = leftOff[n]
        /\ \A g \in 1 .. n : \A k \in 1 .. Len(leftPieces[g]) :
             leftSorted[leftOff[g - 1] + k] = leftPieces[g][k]
    BY <1>11 DEF Stacks
  <2>3. \A g \in 1 .. n : /\ Len(pieces[g]) \in Nat /\ Len(leftPieces[g]) \in Nat
                          /\ Len(leftPieces[g]) <= Len(pieces[g])
    <3>1. TAKE g \in 1 .. n
    <3>2. IsSequence(pieces[g]) /\ IsSequence(leftPieces[g])
      BY <1>9
    <3>3. QED
      BY <1>8, <1>17, <3>2 DEF IsSequence
  <2>a. n \in Nat /\ off[n] = leftOff[n]
    BY <1>1, <1>17, <2>1, <2>2
  <2>b. Offsets(pieces, n, off) /\ Offsets(leftPieces, n, leftOff)
    BY <2>1, <2>2
  <2>4. \A g \in 0 .. n : off[g] = leftOff[g]
    BY <2>3, <2>a, <2>b, OffsetsAgree
  <2>5. PICK g \in 1 .. n : \E k \in 1 .. Len(pieces[g]) : a = off[g - 1] + k
    BY <2>1
  <2>6. PICK k \in 1 .. Len(pieces[g]) : a = off[g - 1] + k
    BY <2>5
  <2>7. off[g - 1] = leftOff[g - 1] /\ off[g] = leftOff[g] /\ off[g] \in Nat /\ off[g - 1] \in Nat
    <3>1. g - 1 \in 0 .. n /\ g \in 0 .. n
      BY <1>1
    <3>2. QED
      BY <2>1, <2>4, <3>1 DEF Offsets
  <2>8. Len(pieces[g]) = Len(leftPieces[g])
    <3>1. off[g] = off[g - 1] + Len(pieces[g]) /\ leftOff[g] = leftOff[g - 1] + Len(leftPieces[g])
      BY <2>1, <2>2 DEF Offsets
    <3>2. Len(pieces[g]) \in Nat /\ Len(leftPieces[g]) \in Nat
      BY <2>3
    <3>3. \A u, v, x, y \in Nat : u = v + x /\ u = v + y => x = y
      OBVIOUS
    <3>4. off[g] = off[g - 1] + Len(leftPieces[g])
      BY <2>7, <3>1
    <3>5. QED
      BY <2>7, <3>1, <3>2, <3>3, <3>4
  <2>9. pieces[g][k][1] = leftPieces[g][k]
    BY <1>8, <1>17, <2>8
  <2>10. pairs[a] = pieces[g][k] /\ leftSorted[a] = leftPieces[g][k]
    BY <2>1, <2>2, <2>6, <2>7, <2>8
  <2>11. QED
    BY <2>9, <2>10
<1>18. QED
  BY <1>3, <1>12, <1>14, <1>15, <1>16, <1>17 DEF label, GroupsPair
-----------------------------------------------------------------------------
\* A set that a sequence lists has as many members as the sequence.
LEMMA ListedAre ==
  ASSUME NEW S, NEW f, Lists(f, S)
  PROVE  IsFiniteSet(S) /\ Cardinality(S) = Len(f) /\ Len(f) \in Nat
<1>1. /\ Len(f) \in Nat /\ \A k \in 1 .. Len(f) : f[k] \in S
      /\ f = [k \in 1 .. Len(f) |-> f[k]]
      /\ \A x \in S : \E k \in 1 .. Len(f) : f[k] = x
      /\ \A k, m \in 1 .. Len(f) : f[k] = f[m] => k = m
  BY DEF Lists, IsSequence
<1>2. f \in Bijection(1 .. Len(f), S)
  <2>1. f \in [1 .. Len(f) -> S]
    BY <1>1
  <2>2. f \in Injection(1 .. Len(f), S)
    BY <1>1, <2>1 DEF Injection, IsInjective
  <2>3. f \in Surjection(1 .. Len(f), S)
    BY <1>1, <2>1 DEF Surjection
  <2>4. QED
    BY <2>2, <2>3 DEF Bijection
<1>3. IsFiniteSet(1 .. Len(f)) /\ Cardinality(1 .. Len(f)) = Len(f)
  BY <1>1, FS_Interval
<1>4. QED
  BY <1>1, <1>2, <1>3, FS_Bijection DEF ExistsBijection

\* A list read at each of its places once, in whatever order.
LEMMA Rearranged ==
  ASSUME NEW S, NEW f, Lists(f, S), NEW places, Lists(places, 1 .. Len(f)),
         NEW s, s = [k \in 1 .. Len(places) |-> f[places[k]]]
  PROVE  Lists(s, S) /\ Len(s) = Len(places) /\ \A k \in 1 .. Len(s) : s[k] = f[places[k]]
<1>1. /\ \A k \in 1 .. Len(f) : f[k] \in S
      /\ \A x \in S : \E k \in 1 .. Len(f) : f[k] = x
      /\ \A k, m \in 1 .. Len(f) : f[k] = f[m] => k = m
  BY DEF Lists
<1>2. /\ Len(places) \in Nat /\ \A k \in 1 .. Len(places) : places[k] \in 1 .. Len(f)
      /\ \A x \in 1 .. Len(f) : \E k \in 1 .. Len(places) : places[k] = x
      /\ \A k, m \in 1 .. Len(places) : places[k] = places[m] => k = m
  BY DEF Lists, IsSequence
<1>3. \A k \in 1 .. Len(places) : s[k] = f[places[k]]
  OBVIOUS
<1>4. s = [k \in 1 .. Len(places) |-> s[k]]
  OBVIOUS
<1>5. IsSequence(s) /\ Len(s) = Len(places)
  BY <1>2, <1>4, MadeSequence
<1>6. \A k \in 1 .. Len(s) : s[k] \in S
  BY <1>1, <1>2, <1>3, <1>5
<1>7. \A x \in S : \E k \in 1 .. Len(s) : s[k] = x
  <2>1. TAKE x \in S
  <2>2. PICK i \in 1 .. Len(f) : f[i] = x
    BY <1>1
  <2>3. PICK k \in 1 .. Len(places) : places[k] = i
    BY <1>2
  <2>4. QED
    BY <1>3, <1>5, <2>2, <2>3
<1>8. \A k, m \in 1 .. Len(s) : s[k] = s[m] => k = m
  BY <1>1, <1>2, <1>3, <1>5
<1>9. QED
  BY <1>3, <1>5, <1>6, <1>7, <1>8 DEF Lists

\* The rows put back in the order of the left places.
LEMMA RevertedIs ==
  ASSUME NEW P \in SUBSET (Int \X Int), NEW pairs, Lists(pairs, P),
         NEW n \in Nat, NEW leftSorted, Lists(leftSorted, 0 .. n - 1)
  PROVE  /\ Lists(Reverted(pairs, leftSorted), P)
         /\ /\ Len(pairs) = Len(leftSorted) =>
                 \A k \in 1 .. Len(pairs) : pairs[k][1] = leftSorted[k]
            /\ \A k, m \in 1 .. Len(pairs) :
                 k < m /\ pairs[k][1] = pairs[m][1] => <<pairs[k], pairs[m]>> \in ByPlaces
            => Climbs(Reverted(pairs, leftSorted), ByPlaces)
<1> DEFINE N == Len(pairs)
           back == Reverted(pairs, leftSorted)
<1>1. /\ N \in Nat /\ pairs = [k \in 1 .. N |-> pairs[k]] /\ DOMAIN pairs = 1 .. N
      /\ \A k \in 1 .. N : pairs[k] \in P
  BY DEF Lists, IsSequence
<1>2. \A k \in 1 .. N : pairs[k] \in Int \X Int /\ pairs[k][1] \in Int
  BY <1>1
<1>3. CASE N = Len(leftSorted)
  <2> DEFINE at(row) == CHOOSE at \in 1 .. N : leftSorted[at] = row - 1
             places == [row \in 1 .. N |-> at(row)]
  <2>1. N = n
    <3>1. Cardinality(0 .. n - 1) = N
      BY <1>3, ListedAre
    <3>2. Cardinality(0 .. n - 1) = n
      <4>1. 0 \in Int /\ n - 1 \in Int
        OBVIOUS
      <4>2. Cardinality(0 .. n - 1) = IF 0 > n - 1 THEN 0 ELSE n - 1 - 0 + 1
        BY <4>1, FS_Interval
      <4>3. QED
        BY <4>2
    <3>3. QED
      BY <3>1, <3>2
  <2>2. /\ \A k \in 1 .. N : leftSorted[k] \in 0 .. N - 1
        /\ \A x \in 0 .. N - 1 : \E k \in 1 .. N : leftSorted[k] = x
        /\ \A k, m \in 1 .. N : leftSorted[k] = leftSorted[m] => k = m
        /\ DOMAIN leftSorted = 1 .. N
    BY <1>3, <2>1 DEF Lists, IsSequence
  <2>3. \A row \in 1 .. N : at(row) \in 1 .. N /\ leftSorted[at(row)] = row - 1
    <3>1. TAKE row \in 1 .. N
    <3>2. row - 1 \in 0 .. N - 1
      BY <1>1
    <3>3. \E k \in 1 .. N : leftSorted[k] = row - 1
      BY <2>2, <3>2
    <3> HIDE DEF N
    <3>4. QED
      BY <3>3
  <2>4. back = [row \in 1 .. N |-> pairs[at(row)]]
    BY <1>1, <1>3, <2>2 DEF Reverted
  <2> HIDE DEF at, N
  <2>5. Lists(places, 1 .. N) /\ Len(places) = N
    <3>1. \A row \in 1 .. N : places[row] = at(row)
      OBVIOUS
    <3>2. places = [row \in 1 .. N |-> places[row]]
      OBVIOUS
    <3> HIDE DEF places
    <3>3. IsSequence(places) /\ Len(places) = N
      BY <1>1, <3>2, MadeSequence
    <3>4. \A x \in 1 .. N : \E row \in 1 .. N : places[row] = x
      <4>1. TAKE x \in 1 .. N
      <4>2. leftSorted[x] \in 0 .. N - 1 /\ leftSorted[x] + 1 \in 1 .. N
            /\ (leftSorted[x] + 1) - 1 = leftSorted[x]
        BY <1>1, <2>2
      <4>3. at(leftSorted[x] + 1) = x
        BY <2>2, <2>3, <4>2
      <4>4. QED
        BY <3>1, <4>2, <4>3
    <3>5. \A k, m \in 1 .. N : places[k] = places[m] => k = m
      <4>1. TAKE k, m \in 1 .. N
      <4>2. leftSorted[at(k)] = k - 1 /\ leftSorted[at(m)] = m - 1
        BY <2>3
      <4>3. QED
        BY <1>1, <3>1, <4>2
    <3>6. QED
      BY <2>3, <3>1, <3>3, <3>4, <3>5 DEF Lists
  <2>6. back = [row \in 1 .. Len(places) |-> pairs[places[row]]]
    BY <2>4, <2>5
  <2>7. \A row \in 1 .. N : places[row] = at(row)
    OBVIOUS
  <2> HIDE DEF places, back
  <2>8. Lists(back, P) /\ Len(back) = N /\ \A k \in 1 .. N : back[k] = pairs[at(k)]
    <3>1. Lists(places, 1 .. Len(pairs))
      BY <2>5 DEF N
    <3>2. QED
      BY <2>5, <2>6, <2>7, <3>1, Rearranged
  <2>9. ASSUME \A k \in 1 .. N : pairs[k][1] = leftSorted[k] PROVE Climbs(back, ByPlaces)
    <3>1. \A k \in 1 .. N : back[k] \in Int \X Int /\ back[k][1] = k - 1
      <4>1. TAKE k \in 1 .. N
      <4>2. at(k) \in 1 .. N /\ leftSorted[at(k)] = k - 1 /\ back[k] = pairs[at(k)]
        BY <2>3, <2>8
      <4>3. QED
        BY <1>2, <2>9, <4>2
    <3>2. ASSUME NEW k \in 1 .. N, NEW m \in 1 .. N, k < m
          PROVE  <<back[k], back[m]>> \in ByPlaces
      <4>1. back[k][1] < back[m][1]
        BY <1>1, <3>1, <3>2
      <4>2. QED
        BY <3>1, <4>1 DEF ByPlaces
    <3>3. QED
      BY <2>8, <3>2 DEF Climbs
  <2>10. QED
    BY <1>3, <2>8, <2>9 DEF back, N
<1>4. CASE N # Len(leftSorted)
  <2> DEFINE D == 1 .. N
             ahead(j) == {i \in D : \/ pairs[i][1] < pairs[j][1]
                                    \/ pairs[i][1] = pairs[j][1] /\ i < j}
             R == {ij \in D \X D : ij[1] \in ahead(ij[2])}
             order == ByOrder(D, R)
  <2>1. IsFiniteSet(D)
    <3>1. 1 \in Int /\ N \in Int
      BY <1>1
    <3> HIDE DEF N
    <3>2. QED
      BY <3>1, FS_Interval
  <2>2. \A i, j \in D : <<i, j>> \in R <=> \/ pairs[i][1] < pairs[j][1]
                                           \/ pairs[i][1] = pairs[j][1] /\ i < j
    OBVIOUS
  <2>3. OrderOn(R, D)
    <3> DEFINE first(i) == pairs[i][1]
    <3>1. \A i \in D : i \in Int /\ first(i) \in Int
      BY <1>1, <1>2
    <3>2. \A i, j \in D : <<i, j>> \in R <=> first(i) < first(j) \/ (first(i) = first(j) /\ i < j)
      BY <2>2
    <3> HIDE DEF D, R, first
    <3>3. QED
      BY <3>1, <3>2 DEF OrderOn
  <2>4. Sorted(D, LAMBDA i, j : pairs[i][1] < pairs[j][1] \/ (pairs[i][1] = pairs[j][1] /\ i < j))
        = order
    <3> DEFINE c(k) == CHOOSE x \in D : Cardinality(ahead(x)) = k - 1
               d(k) == CHOOSE x \in D : Cardinality(Preceding(D, R, x)) = k - 1
    <3>1. \A x \in D : ahead(x) = Preceding(D, R, x)
      <4>1. TAKE x \in D
      <4>2. ahead(x) \subseteq D
        OBVIOUS
      <4> HIDE DEF ahead
      <4>3. QED
        BY <4>2 DEF Preceding
    <3>2. \A k : c(k) = d(k)
      <4> HIDE DEF R, ahead, D
      <4>1. QED
        BY <3>1
    <3> HIDE DEF D
    <3>3. Sorted(D, LAMBDA i, j : pairs[i][1] < pairs[j][1] \/ (pairs[i][1] = pairs[j][1] /\ i < j))
          = [k \in 1 .. Cardinality(D) |-> c(k)]
      BY DEF Sorted
    <3>4. ByOrder(D, R) = [k \in 1 .. Cardinality(D) |-> d(k)]
      <4> HIDE DEF R
      <4>1. QED
        BY DEF ByOrder
    <3> HIDE DEF c, d, R
    <3>5. QED
      BY <3>2, <3>3, <3>4
  <2>5. /\ Lists(order, D) /\ Climbs(order, R)
    <3> HIDE DEF D, R
    <3>1. QED
      BY <2>1, <2>3, ByOrderIs
  <2> HIDE DEF order
  <2>6. DOMAIN order = 1 .. Len(order)
    BY <2>5 DEF Lists, IsSequence
  <2>7. back = [k \in 1 .. Len(order) |-> pairs[order[k]]]
    <3> DEFINE sorted == Sorted(DOMAIN pairs, LAMBDA i, j : pairs[i][1] < pairs[j][1] \/ (pairs[i][1] = pairs[j][1] /\ i < j))
    <3>1. back = [k \in DOMAIN sorted |-> pairs[sorted[k]]]
      BY <1>4 DEF Reverted
    <3>2. sorted = order
      BY <1>1, <2>4
    <3> HIDE DEF sorted, back
    <3>3. QED
      BY <2>6, <3>1, <3>2
  <2> HIDE DEF back, R
  <2>8. Lists(back, P) /\ Len(back) = Len(order) /\ \A k \in 1 .. Len(back) : back[k] = pairs[order[k]]
    BY <2>5, <2>7, Rearranged
  <2>9. ASSUME \A k, m \in 1 .. N :
                 k < m /\ pairs[k][1] = pairs[m][1] => <<pairs[k], pairs[m]>> \in ByPlaces
        PROVE  Climbs(back, ByPlaces)
    <3>1. ASSUME NEW k \in 1 .. Len(back), NEW m \in 1 .. Len(back), k < m
          PROVE  <<back[k], back[m]>> \in ByPlaces
      <4>1. <<order[k], order[m]>> \in R /\ order[k] \in D /\ order[m] \in D
        BY <2>5, <2>8, <3>1 DEF Climbs, Lists
      <4>2. back[k] = pairs[order[k]] /\ back[m] = pairs[order[m]]
        BY <2>8
      <4>3. CASE pairs[order[k]][1] < pairs[order[m]][1]
        <5>1. pairs[order[k]] \in Int \X Int /\ pairs[order[m]] \in Int \X Int
          BY <1>2, <4>1
        <5>2. QED
          BY <4>2, <4>3, <5>1 DEF ByPlaces
      <4>4. CASE pairs[order[k]][1] = pairs[order[m]][1] /\ order[k] < order[m]
        BY <2>9, <4>1, <4>2, <4>4
      <4>5. QED
        BY <2>2, <4>1, <4>3, <4>4
    <3>2. QED
      BY <3>1 DEF Climbs
  <2>10. QED
    BY <2>8, <2>9 DEF back
<1>5. QED
  BY <1>3, <1>4

LEMMA PairsByGroupAre ==
  ASSUME NEW left \in Seq(Int), NEW right \in Seq(Int), NEW how \in {"left", "inner", "outer"},
         NEW sort \in BOOLEAN, NEW numeric \in BOOLEAN, how = "outer" => sort
  PROVE  LET pairs == PairsByGroup(left, right, how, sort, numeric)
         IN  /\ Lists(pairs, Partners(left, right, how))
             /\ sort => Climbs(pairs, ByLabels(left, right))
             /\ how = "left" /\ ~sort => Climbs(pairs, ByPlaces)
<1> DEFINE rightFirst == how = "inner" /\ ~sort /\ numeric
           groups == Groups(left, right, sort, rightFirst)
           pairs == Grouped(left, right, how, groups)
           leftSorted == GroupedLeft(left, groups)
           P == Partners(left, right, how)
<1>1. /\ Lists(groups, ToSet(left) \cup ToSet(right))
      /\ sort => Climbs(groups, Alphabetical)
  <2>1. rightFirst \in BOOLEAN
    OBVIOUS
  <2> HIDE DEF rightFirst
  <2>2. QED
    BY <2>1, GroupsAre
<1>2. PairsByGroup(left, right, how, sort, numeric) =
        IF how # "outer" /\ ~sort THEN Reverted(pairs, leftSorted) ELSE pairs
  BY DEF PairsByGroup, Grouped, GroupedLeft
<1> HIDE DEF groups
<1>3. /\ Lists(pairs, P)
      /\ Climbs(groups, Alphabetical) => Climbs(pairs, ByLabels(left, right))
      /\ Lists(leftSorted, 0 .. Len(left) - 1)
      /\ \A k, m \in 1 .. Len(pairs) :
           k < m /\ LabelOf(left, right, pairs[k]) = LabelOf(left, right, pairs[m]) =>
             <<pairs[k], pairs[m]>> \in ByPlaces
      /\ how = "left" /\ Len(pairs) = Len(leftSorted) =>
           \A k \in 1 .. Len(pairs) : pairs[k][1] = leftSorted[k]
  <2>1. Lists(groups, ToSet(left) \cup ToSet(right))
    BY <1>1
  <2>2. GroupsPair(left, right, how, groups)
    BY <2>1, GroupedAre
  <2>3. QED
    BY <2>2 DEF GroupsPair
<1>4. P \in SUBSET (Int \X Int) /\ Len(left) \in Nat
  <2>1. how \in Hows
    BY DEF Hows
  <2>2. \A p \in P : p \in Int \X Int
    BY <2>1, RowsHaveLabels
  <2> HIDE DEF P
  <2>3. QED
    BY <2>2
<1> HIDE DEF pairs, leftSorted
<1>5. CASE sort
  BY <1>1, <1>2, <1>3, <1>5 DEF P
<1>6. CASE ~ sort
  <2>1. PairsByGroup(left, right, how, sort, numeric) = Reverted(pairs, leftSorted)
    BY <1>2, <1>6
  <2>2. Lists(Reverted(pairs, leftSorted), P)
    BY <1>3, <1>4, RevertedIs
  <2>3. ASSUME how = "left" PROVE Climbs(Reverted(pairs, leftSorted), ByPlaces)
    <3>1. ASSUME NEW k \in 1 .. Len(pairs), NEW m \in 1 .. Len(pairs), k < m,
                 pairs[k][1] = pairs[m][1]
          PROVE  <<pairs[k], pairs[m]>> \in ByPlaces
      <4>1. pairs[k] \in P /\ pairs[m] \in P
        BY <1>3 DEF Lists
      <4>2. \A p \in P : p[1] # Nowhere
        <5>1. TAKE p \in P
        <5>2. Meets(left, right, p) \/ AloneLeft(left, right, p)
          BY <2>3, PartnersAre DEF P
        <5>3. PICK i \in DOMAIN left : p[1] = i - 1
          BY <5>2 DEF Meets, AloneLeft
        <5>4. i \in Nat /\ i > 0
          OBVIOUS
        <5>5. QED
          BY <5>3, <5>4 DEF Nowhere
      <4>3. LabelOf(left, right, pairs[k]) = LabelOf(left, right, pairs[m])
        BY <3>1, <4>1, <4>2 DEF LabelOf
      <4>4. QED
        BY <1>3, <3>1, <4>3
    <3>2. QED
      BY <1>3, <1>4, <2>3, <3>1, RevertedIs
  <2>4. QED
    BY <1>6, <2>1, <2>2, <2>3 DEF P
<1>7. QED
  BY <1>5, <1>6

-----------------------------------------------------------------------------
\* The rows of a join seen from its other side.
Flipped(pairs) == [k \in DOMAIN pairs |-> <<pairs[k][2], pairs[k][1]>>]

LEMMA PartnersFlip ==
  ASSUME NEW left \in Seq(Int), NEW right \in Seq(Int), NEW x, NEW y
  PROVE  <<x, y>> \in Partners(left, right, "right") <=> <<y, x>> \in Partners(right, left, "left")
<1>1. Meets(left, right, <<x, y>>) <=> Meets(right, left, <<y, x>>)
  <2>1. Meets(left, right, <<x, y>>) <=>
          \E i \in DOMAIN left, j \in DOMAIN right : left[i] = right[j] /\ x = i - 1 /\ y = j - 1
    BY DEF Meets
  <2>2. Meets(right, left, <<y, x>>) <=>
          \E i \in DOMAIN right, j \in DOMAIN left : right[i] = left[j] /\ y = i - 1 /\ x = j - 1
    BY DEF Meets
  <2>3. QED
    BY <2>1, <2>2
<1>2. AloneRight(left, right, <<x, y>>) <=> AloneLeft(right, left, <<y, x>>)
  BY DEF AloneRight, AloneLeft
<1>3. QED
  BY <1>1, <1>2, PartnersAre

LEMMA FlippedLists ==
  ASSUME NEW left \in Seq(Int), NEW right \in Seq(Int),
         NEW pairs, Lists(pairs, Partners(right, left, "left"))
  PROVE  /\ Lists(Flipped(pairs), Partners(left, right, "right"))
         /\ Len(Flipped(pairs)) = Len(pairs)
         /\ Flipped(pairs) = [k \in 1 .. Len(pairs) |-> <<pairs[k][2], pairs[k][1]>>]
         /\ Flipped(Flipped(pairs)) = pairs
<1> DEFINE n == Len(pairs)
           P == Partners(right, left, "left")
           f == Flipped(pairs)
<1>1. /\ n \in Nat /\ pairs = [k \in 1 .. n |-> pairs[k]] /\ DOMAIN pairs = 1 .. n
      /\ \A k \in 1 .. n : pairs[k] \in P
      /\ \A x \in P : \E k \in 1 .. n : pairs[k] = x
      /\ \A k, m \in 1 .. n : pairs[k] = pairs[m] => k = m
  BY DEF Lists, IsSequence
<1>2. \A p \in P : p \in Int \X Int /\ p = <<p[1], p[2]>>
  <2>1. "left" \in Hows
    BY DEF Hows
  <2>2. \A p \in P : p \in Int \X Int
    BY <2>1, RowsHaveLabels
  <2> HIDE DEF P
  <2>3. QED
    BY <2>2
<1> HIDE DEF n
<1>3. f = [k \in 1 .. n |-> <<pairs[k][2], pairs[k][1]>>]
  BY <1>1 DEF Flipped
<1> HIDE DEF f, P
<1>4. /\ \A k \in 1 .. n : f[k] = <<pairs[k][2], pairs[k][1]>>
      /\ f = [k \in 1 .. n |-> f[k]]
  BY <1>3
<1>5. IsSequence(f) /\ Len(f) = n /\ DOMAIN f = 1 .. n
  BY <1>1, <1>4, MadeSequence
<1>6. \A k \in 1 .. n : f[k] \in Partners(left, right, "right")
  <2>1. TAKE k \in 1 .. n
  <2>2. <<pairs[k][1], pairs[k][2]>> \in P
    BY <1>1, <1>2
  <2>3. <<pairs[k][2], pairs[k][1]>> \in Partners(left, right, "right")
    BY <2>2, PartnersFlip DEF P
  <2>4. QED
    BY <1>4, <2>3
<1>7. \A x \in Partners(left, right, "right") : \E k \in 1 .. n : f[k] = x
  <2>1. TAKE x \in Partners(left, right, "right")
  <2>2. x \in Int \X Int
    <3>1. "right" \in Hows
      BY DEF Hows
    <3>2. QED
      BY <3>1, RowsHaveLabels
  <2>3. x = <<x[1], x[2]>>
    BY <2>2
  <2>4. <<x[2], x[1]>> \in P
    BY <2>3, PartnersFlip DEF P
  <2>5. PICK k \in 1 .. n : pairs[k] = <<x[2], x[1]>>
    BY <1>1, <2>4
  <2>6. QED
    BY <1>4, <2>3, <2>5
<1>8. \A k, m \in 1 .. n : f[k] = f[m] => k = m
  <2>1. TAKE k, m \in 1 .. n
  <2>2. SUFFICES ASSUME f[k] = f[m] PROVE k = m
    OBVIOUS
  <2>3. pairs[k][1] = pairs[m][1] /\ pairs[k][2] = pairs[m][2]
    BY <1>4, <2>2
  <2>4. pairs[k] = <<pairs[k][1], pairs[k][2]>> /\ pairs[m] = <<pairs[m][1], pairs[m][2]>>
    BY <1>1, <1>2
  <2>5. pairs[k] = pairs[m]
    BY <2>3, <2>4
  <2>6. QED
    BY <1>1, <2>5
<1>9. Flipped(f) = pairs
  <2>1. Flipped(f) = [k \in 1 .. n |-> <<f[k][2], f[k][1]>>]
    BY <1>5 DEF Flipped
  <2>2. \A k \in 1 .. n : <<f[k][2], f[k][1]>> = pairs[k]
    <3>1. TAKE k \in 1 .. n
    <3>2. pairs[k] = <<pairs[k][1], pairs[k][2]>> /\ f[k] = <<pairs[k][2], pairs[k][1]>>
      BY <1>1, <1>2, <1>4
    <3>3. QED
      BY <3>2
  <2>3. QED
    BY <1>1, <2>1, <2>2
<1>10. QED
  BY <1>3, <1>5, <1>6, <1>7, <1>8, <1>9 DEF Lists, f, n
-----------------------------------------------------------------------------
\* The rows of a join in an order the join may answer them in.
LinesUp(left, right, how, sorts, pairs) ==
  /\ Lists(pairs, Partners(left, right, how))
  /\ sorts => \A k, m \in 1 .. Len(pairs) : k < m =>
       ~ Before(LabelOf(left, right, pairs[m]), LabelOf(left, right, pairs[k]))
  /\ how = "left" /\ ~sorts => Climbs(pairs, ByPlaces)
  /\ how = "right" /\ ~sorts => Climbs(Flipped(pairs), ByPlaces)

\* Rows by their labels have their labels in order.
LEMMA LabelsInOrder ==
  ASSUME NEW left \in Seq(Int), NEW right \in Seq(Int), NEW how \in Hows,
         NEW pairs, Lists(pairs, Partners(left, right, how)),
         Climbs(pairs, ByLabels(left, right))
  PROVE  \A k, m \in 1 .. Len(pairs) : k < m =>
           ~ Before(LabelOf(left, right, pairs[m]), LabelOf(left, right, pairs[k]))
<1> DEFINE label(p) == LabelOf(left, right, p)
<1>1. \A k \in 1 .. Len(pairs) : pairs[k] \in Partners(left, right, how)
  BY DEF Lists
<1>2. \A p \in Partners(left, right, how) : label(p) \in Int
  <2>1. ToSet(left) \subseteq Int /\ ToSet(right) \subseteq Int
    BY ToSetIsFinite
  <2>2. QED
    BY <2>1, RowsHaveLabels
<1>3. TAKE k, m \in 1 .. Len(pairs)
<1>4. SUFFICES ASSUME k < m PROVE ~ Before(label(pairs[m]), label(pairs[k]))
  OBVIOUS
<1>5. <<pairs[k], pairs[m]>> \in ByLabels(left, right)
  BY <1>4 DEF Climbs
<1>6. Before(label(pairs[k]), label(pairs[m])) \/ label(pairs[k]) = label(pairs[m])
  BY <1>5 DEF ByLabels
<1>7. label(pairs[k]) \in Int /\ label(pairs[m]) \in Int
  BY <1>1, <1>2
<1> HIDE DEF label
<1>8. QED
  BY <1>6, <1>7 DEF Before

\* On a left side in order they have their left places in order as well.
LEMMA RisingPlaces ==
  ASSUME NEW left \in Seq(Int), NEW right \in Seq(Int), Rises(left),
         NEW pairs, Lists(pairs, Partners(left, right, "left")),
         Climbs(pairs, ByLabels(left, right))
  PROVE  Climbs(pairs, ByPlaces)
<1> DEFINE label(p) == LabelOf(left, right, p)
           P == Partners(left, right, "left")
<1>1. \A k \in 1 .. Len(pairs) : pairs[k] \in P
  BY DEF Lists
<1>2. \A p \in P : p \in Int \X Int /\ p[1] + 1 \in DOMAIN left /\ label(p) = left[p[1] + 1]
  <2>1. TAKE p \in P
  <2>2. "left" \in Hows
    BY DEF Hows
  <2>3. p[1] # Nowhere
    <3>1. Meets(left, right, p) \/ AloneLeft(left, right, p)
      BY PartnersAre
    <3>2. PICK i \in DOMAIN left : p[1] = i - 1
      BY <3>1 DEF Meets, AloneLeft
    <3>3. i \in Nat /\ i > 0
      OBVIOUS
    <3>4. QED
      BY <3>2, <3>3 DEF Nowhere
  <2>4. QED
    BY <2>2, <2>3, RowsHaveLabels
<1>3. \A i, j \in DOMAIN left : i <= j => left[i] <= left[j]
  BY InOrderAcross
<1>4. \A i \in DOMAIN left : left[i] \in Int /\ i \in Int /\ left[i] # Gap
  BY DEF Rises
<1>5. SUFFICES ASSUME NEW k \in 1 .. Len(pairs), NEW m \in 1 .. Len(pairs), k < m
               PROVE  <<pairs[k], pairs[m]>> \in ByPlaces
  BY DEF Climbs
<1>6. <<pairs[k], pairs[m]>> \in ByLabels(left, right)
  BY <1>5 DEF Climbs
<1>7. \/ Before(label(pairs[k]), label(pairs[m]))
      \/ label(pairs[k]) = label(pairs[m]) /\ <<pairs[k], pairs[m]>> \in ByPlaces
  BY <1>6 DEF ByLabels
<1> DEFINE p == pairs[k]
           q == pairs[m]
<1>8. /\ p \in Int \X Int /\ p[1] + 1 \in DOMAIN left /\ label(p) = left[p[1] + 1]
      /\ q \in Int \X Int /\ q[1] + 1 \in DOMAIN left /\ label(q) = left[q[1] + 1]
  BY <1>1, <1>2
<1> HIDE DEF label
<1>9. CASE Before(label(p), label(q))
  <2>1. left[p[1] + 1] < left[q[1] + 1]
    BY <1>4, <1>8, <1>9 DEF Before
  <2>2. p[1] \in Int /\ q[1] \in Int /\ left[p[1] + 1] \in Int /\ left[q[1] + 1] \in Int
    BY <1>4, <1>8
  <2>3. ~ (q[1] + 1 <= p[1] + 1)
    BY <1>3, <1>8, <2>1, <2>2
  <2>4. p[1] < q[1]
    BY <2>2, <2>3
  <2> HIDE DEF p, q
  <2>5. <<p, q>> \in ByPlaces
    BY <1>8, <2>4 DEF ByPlaces
  <2>6. QED
    BY <2>5 DEF p, q
<1>10. QED
  BY <1>7, <1>9

\* A right join is the left join the other way round.
LEMMA FlippedLinesUp ==
  ASSUME NEW left \in Seq(Int), NEW right \in Seq(Int), NEW sorts \in BOOLEAN,
         NEW pairs, LinesUp(right, left, "left", sorts, pairs)
  PROVE  /\ LinesUp(left, right, "right", sorts, Flipped(pairs))
         /\ Len(Flipped(pairs)) = Len(pairs)
         /\ Flipped(pairs) = [k \in 1 .. Len(pairs) |-> <<pairs[k][2], pairs[k][1]>>]
         /\ \A k \in 1 .. Len(pairs) :
              LabelOf(left, right, Flipped(pairs)[k]) = LabelOf(right, left, pairs[k])
<1> DEFINE f == Flipped(pairs)
           P == Partners(right, left, "left")
<1>1. Lists(pairs, P)
  BY DEF LinesUp
<1>2. /\ Lists(f, Partners(left, right, "right")) /\ Len(f) = Len(pairs)
      /\ f = [k \in 1 .. Len(pairs) |-> <<pairs[k][2], pairs[k][1]>>]
      /\ Flipped(f) = pairs
  BY <1>1, FlippedLists
<1>3. \A k \in 1 .. Len(pairs) : f[k] = <<pairs[k][2], pairs[k][1]>>
  <2> HIDE DEF f
  <2>1. QED
    BY <1>2
<1> HIDE DEF f
<1>4. \A k \in 1 .. Len(pairs) : LabelOf(left, right, f[k]) = LabelOf(right, left, pairs[k])
  <2>1. TAKE k \in 1 .. Len(pairs)
  <2> DEFINE p == pairs[k]
  <2>2. p \in P
    BY <1>1 DEF Lists
  <2>3. "left" \in Hows
    BY DEF Hows
  <2>4. /\ p[1] # Nowhere => LabelOf(right, left, p) = right[p[1] + 1]
        /\ p[2] # Nowhere => LabelOf(right, left, p) = left[p[2] + 1]
    BY <2>2, <2>3, RowsHaveLabels
  <2>5. f[k][1] = p[2] /\ f[k][2] = p[1]
    BY <1>3
  <2>6. CASE p[2] # Nowhere
    BY <2>4, <2>5, <2>6 DEF LabelOf
  <2>7. CASE p[2] = Nowhere
    <3>1. p[1] # Nowhere
      <4>1. Meets(right, left, p) \/ AloneLeft(right, left, p)
        BY <2>2, PartnersAre
      <4>2. PICK i \in DOMAIN right : p[1] = i - 1
        BY <4>1 DEF Meets, AloneLeft
      <4>3. i \in Nat /\ i > 0
        OBVIOUS
      <4>4. QED
        BY <4>2, <4>3 DEF Nowhere
    <3>2. QED
      BY <2>4, <2>5, <2>7, <3>1 DEF LabelOf
  <2>8. QED
    BY <2>6, <2>7
<1>5. sorts => \A k, m \in 1 .. Len(f) : k < m =>
        ~ Before(LabelOf(left, right, f[m]), LabelOf(left, right, f[k]))
  BY <1>2, <1>4 DEF LinesUp
<1>6. ~sorts => Climbs(Flipped(f), ByPlaces)
  BY <1>2 DEF LinesUp
<1>7. LinesUp(left, right, "right", sorts, f)
  BY <1>2, <1>5, <1>6 DEF LinesUp
<1>8. QED
  BY <1>2, <1>4, <1>7 DEF f

\* Whether the groups are sorted as the join asks, or are although it does not
\* on sides in order.
LEMMA GroupsLineUp ==
  ASSUME NEW left \in Seq(Int), NEW right \in Seq(Int), NEW how \in {"left", "inner", "outer"},
         NEW sorts \in BOOLEAN, NEW sort \in BOOLEAN, NEW numeric \in BOOLEAN,
         how = "outer" => sort, sort = sorts \/ (sort /\ Rises(left))
  PROVE  LinesUp(left, right, how, sorts, PairsByGroup(left, right, how, sort, numeric))
<1> DEFINE pairs == PairsByGroup(left, right, how, sort, numeric)
<1>1. /\ Lists(pairs, Partners(left, right, how))
      /\ sort => Climbs(pairs, ByLabels(left, right))
      /\ how = "left" /\ ~sort => Climbs(pairs, ByPlaces)
  BY PairsByGroupAre
<1>2. how \in Hows
  BY DEF Hows
<1> HIDE DEF pairs
<1>3. CASE sort
  <2>1. Climbs(pairs, ByLabels(left, right))
    BY <1>1, <1>3
  <2>2. \A k, m \in 1 .. Len(pairs) : k < m =>
          ~ Before(LabelOf(left, right, pairs[m]), LabelOf(left, right, pairs[k]))
    BY <1>1, <1>2, <2>1, LabelsInOrder
  <2>3. ASSUME how = "left", ~ sorts PROVE Climbs(pairs, ByPlaces)
    <3>1. Rises(left) /\ Lists(pairs, Partners(left, right, "left"))
      BY <1>1, <1>3, <2>3
    <3>2. QED
      BY <2>1, <3>1, RisingPlaces
  <2>4. QED
    BY <1>1, <2>2, <2>3 DEF LinesUp, pairs
<1>4. CASE ~ sort
  <2>1. sorts = FALSE
    BY <1>4
  <2>2. QED
    BY <1>1, <1>4, <2>1 DEF LinesUp, pairs
<1>5. QED
  BY <1>3, <1>4

LEMMA MergedLinesUp ==
  ASSUME NEW left \in Seq(Int), NEW right \in Seq(Int), NEW how \in Hows,
         NEW sorts \in BOOLEAN, NEW sort \in BOOLEAN, NEW numeric \in BOOLEAN,
         how = "outer" => sort, sort = sorts \/ (sort /\ Rises(left) /\ Rises(right))
  PROVE  LinesUp(left, right, how, sorts, MergedPairs(left, right, how, sort, numeric))
<1>1. CASE how = "right"
  <2> DEFINE pairs == PairsByGroup(right, left, "left", sort, numeric)
  <2>1. LinesUp(right, left, "left", sorts, pairs)
    BY GroupsLineUp
  <2>2. MergedPairs(left, right, how, sort, numeric) = Flipped(pairs)
    BY <1>1 DEF MergedPairs, Flipped
  <2> HIDE DEF pairs
  <2>3. QED
    BY <1>1, <2>1, <2>2, FlippedLinesUp
<1>2. CASE how # "right"
  <2>1. how \in {"left", "inner", "outer"}
    BY <1>2 DEF Hows
  <2>2. MergedPairs(left, right, how, sort, numeric) = PairsByGroup(left, right, how, sort, numeric)
    BY <1>2 DEF MergedPairs
  <2>3. QED
    BY <2>1, <2>2, GroupsLineUp
<1>3. QED
  BY <1>1, <1>2
-----------------------------------------------------------------------------
\* What the rows of an answer are, one by one.
LeftPlaces(pairs) == [k \in 1 .. Len(pairs) |-> pairs[k][1]]
RightPlaces(pairs) == [k \in 1 .. Len(pairs) |-> pairs[k][2]]
RowLabels(left, right, pairs) == [k \in 1 .. Len(pairs) |-> LabelOf(left, right, pairs[k])]

Answers(left, right, pairs, answer) ==
  /\ PlacesOf(answer.mine, left) = LeftPlaces(pairs)
  /\ PlacesOf(answer.theirs, right) = RightPlaces(pairs)
  /\ answer.labels = RowLabels(left, right, pairs)

\* Labels without repeats are found at one place.
LEMMA DistinctIs ==
  ASSUME NEW own \in Seq(Int), Distinct(own)
  PROVE  /\ Lists(own, ToSet(own)) /\ \A i, j \in DOMAIN own : own[i] = own[j] => i = j
         /\ \A i \in DOMAIN own : Exact(own, own[i]) = i - 1
<1> DEFINE n == Len(own)
<1>1. /\ n \in Nat /\ own \in [1 .. n -> ToSet(own)] /\ DOMAIN own = 1 .. n
      /\ \A x \in ToSet(own) : \E i \in 1 .. n : own[i] = x
      /\ own = [i \in 1 .. n |-> own[i]]
  BY DEF ToSet
<1>2. own \in Surjection(1 .. n, ToSet(own))
  BY <1>1 DEF Surjection
<1>3. IsFiniteSet(1 .. n) /\ Cardinality(1 .. n) = n
  <2> HIDE DEF n
  <2>1. 1 \in Int /\ n \in Int
    BY <1>1
  <2>2. IsFiniteSet(1 .. n) /\ Cardinality(1 .. n) = IF 1 > n THEN 0 ELSE n - 1 + 1
    BY <2>1, FS_Interval
  <2>3. QED
    BY <1>1, <2>2
<1>4. Cardinality(ToSet(own)) = Cardinality(1 .. n)
  BY <1>3 DEF Distinct
<1>5. own \in Injection(1 .. n, ToSet(own))
  <2> HIDE DEF n
  <2>1. QED
    BY <1>2, <1>3, <1>4, FS_Surjection
<1>6. \A i, j \in DOMAIN own : own[i] = own[j] => i = j
  BY <1>1, <1>5 DEF Injection, IsInjective
<1>7. Lists(own, ToSet(own))
  <2>1. IsSequence(own)
    BY <1>1 DEF IsSequence
  <2>2. \A i \in 1 .. n : own[i] \in ToSet(own)
    BY <1>1
  <2>3. QED
    BY <1>1, <1>6, <2>1, <2>2 DEF Lists
<1>8. \A i \in DOMAIN own : Exact(own, own[i]) = i - 1
  <2>1. TAKE i \in DOMAIN own
  <2> DEFINE place == Exact(own, own[i])
  <2>2. /\ place = Nowhere => \A j \in DOMAIN own : own[j] # own[i]
        /\ place # Nowhere => place + 1 \in DOMAIN own /\ own[place + 1] = own[i]
    BY ExactIs
  <2>3. place # Nowhere
    BY <2>2
  <2>4. place + 1 = i
    BY <1>6, <2>2, <2>3
  <2>5. place \in Int
    <3> DEFINE at == {j \in DOMAIN own : own[j] = own[i]}
    <3>1. at \in SUBSET (1 .. n) /\ at # {}
      BY <1>1
    <3>2. place = Min(at) - 1
      BY <3>1 DEF Exact
    <3> HIDE DEF at, n
    <3>3. Min(at) \in at
      BY <1>1, <3>1, Ends
    <3>4. QED
      BY <1>1, <3>1, <3>2, <3>3
  <2>6. i \in Int
    BY <1>1
  <2> HIDE DEF place
  <2>7. place = i - 1
    BY <2>4, <2>5, <2>6
  <2>8. QED
    BY <2>7 DEF place
<1>9. QED
  BY <1>6, <1>7, <1>8

\* Nowhere, or the place of the label, which is there.
LEMMA FoundOrNot ==
  ASSUME NEW own \in Seq(Int), Distinct(own), NEW label
  PROVE  /\ label \notin ToSet(own) => Exact(own, label) = Nowhere
         /\ label \in ToSet(own) => \E j \in DOMAIN own :
              own[j] = label /\ Exact(own, label) = j - 1 /\ j - 1 # Nowhere
<1>1. ASSUME label \notin ToSet(own) PROVE Exact(own, label) = Nowhere
  <2>1. {i \in DOMAIN own : own[i] = label} = {}
    BY <1>1 DEF ToSet
  <2>2. QED
    BY <2>1 DEF Exact
<1>2. ASSUME label \in ToSet(own)
      PROVE  \E j \in DOMAIN own : own[j] = label /\ Exact(own, label) = j - 1 /\ j - 1 # Nowhere
  <2>1. PICK j \in DOMAIN own : own[j] = label
    BY <1>2 DEF ToSet
  <2>2. Exact(own, own[j]) = j - 1
    BY DistinctIs
  <2>3. j \in Nat /\ j > 0
    OBVIOUS
  <2>4. j - 1 # Nowhere
    BY <2>3 DEF Nowhere
  <2>5. QED
    BY <2>1, <2>2, <2>4
<1>3. QED
  BY <1>1, <1>2

LEMMA IndexerIs ==
  ASSUME NEW own, NEW target, Distinct(own)
  PROVE  IndexerFor(own, target) = [t \in DOMAIN target |-> Exact(own, target[t])]
BY DEF IndexerFor, Positions, Distinct, ToSet

\* Each left label, in the order of the left side, looked up in a right side
\* without repeats.
FoundPairs(left, right) == [i \in 1 .. Len(left) |-> <<i - 1, Exact(right, left[i])>>]

LEMMA FoundLineUp ==
  ASSUME NEW left \in Seq(Int), NEW right \in Seq(Int), Distinct(right)
  PROVE  /\ LinesUp(left, right, "left", FALSE, FoundPairs(left, right))
         /\ Len(FoundPairs(left, right)) = Len(left)
         /\ \A i \in 1 .. Len(left) :
              /\ FoundPairs(left, right)[i] = <<i - 1, Exact(right, left[i])>>
              /\ LabelOf(left, right, FoundPairs(left, right)[i]) = left[i]
<1> DEFINE f == FoundPairs(left, right)
           n == Len(left)
           P == Partners(left, right, "left")
<1>1. /\ n \in Nat /\ DOMAIN left = 1 .. n
      /\ f = [i \in 1 .. n |-> f[i]]
      /\ \A i \in 1 .. n : f[i] = <<i - 1, Exact(right, left[i])>>
  BY DEF FoundPairs
<1>2. DOMAIN right = 1 .. Len(right) /\ Len(right) \in Nat
  OBVIOUS
<1> HIDE DEF f, n
<1>3. IsSequence(f) /\ Len(f) = n
  BY <1>1, MadeSequence
<1>4. \A i \in 1 .. n : /\ left[i] \notin ToSet(right) => Exact(right, left[i]) = Nowhere
                        /\ left[i] \in ToSet(right) => \E j \in DOMAIN right :
                             right[j] = left[i] /\ Exact(right, left[i]) = j - 1 /\ j - 1 # Nowhere
  BY FoundOrNot
<1>5. \A i \in 1 .. n : f[i] \in P
  <2>1. TAKE i \in 1 .. n
  <2>2. CASE left[i] \in ToSet(right)
    <3>1. PICK j \in DOMAIN right : right[j] = left[i] /\ Exact(right, left[i]) = j - 1
      BY <1>4, <2>2
    <3>2. Meets(left, right, f[i])
      BY <1>1, <3>1 DEF Meets
    <3>3. QED
      BY <3>2, PartnersAre
  <2>3. CASE left[i] \notin ToSet(right)
    <3>1. AloneLeft(left, right, f[i])
      BY <1>1, <1>4, <2>3 DEF AloneLeft
    <3>2. QED
      BY <3>1, PartnersAre
  <2>4. QED
    BY <2>2, <2>3
<1>6. \A p \in P : \E i \in 1 .. n : f[i] = p
  <2>1. TAKE p \in P
  <2>2. Meets(left, right, p) \/ AloneLeft(left, right, p)
    BY PartnersAre
  <2>3. CASE Meets(left, right, p)
    <3>1. PICK i \in DOMAIN left, j \in DOMAIN right : left[i] = right[j] /\ p = <<i - 1, j - 1>>
      BY <2>3 DEF Meets
    <3>2. Exact(right, right[j]) = j - 1
      BY DistinctIs
    <3>3. QED
      BY <1>1, <3>1, <3>2
  <2>4. CASE AloneLeft(left, right, p)
    <3>1. PICK i \in DOMAIN left : left[i] \notin ToSet(right) /\ p = <<i - 1, Nowhere>>
      BY <2>4 DEF AloneLeft
    <3>2. QED
      BY <1>1, <1>4, <3>1
  <2>5. QED
    BY <2>2, <2>3, <2>4
<1>7. \A i, j \in 1 .. n : f[i] = f[j] => i = j
  <2>1. TAKE i, j \in 1 .. n
  <2>2. SUFFICES ASSUME f[i] = f[j] PROVE i = j
    OBVIOUS
  <2>3. i - 1 = j - 1
    BY <1>1, <2>2
  <2>4. QED
    BY <2>3
<1>8. Lists(f, P)
  BY <1>3, <1>5, <1>6, <1>7 DEF Lists
<1>9. \A i \in 1 .. n : f[i] \in Int \X Int
  <2>1. "left" \in Hows
    BY DEF Hows
  <2>2. \A p \in P : p \in Int \X Int
    BY <2>1, RowsHaveLabels
  <2>3. QED
    BY <1>5, <2>2
<1>10. Climbs(f, ByPlaces)
  <2>1. SUFFICES ASSUME NEW i \in 1 .. n, NEW j \in 1 .. n, i < j PROVE <<f[i], f[j]>> \in ByPlaces
    BY <1>3 DEF Climbs
  <2>2. f[i][1] = i - 1 /\ f[j][1] = j - 1
    BY <1>1
  <2>3. f[i][1] < f[j][1]
    BY <2>1, <2>2
  <2>4. QED
    BY <1>9, <2>3 DEF ByPlaces
<1>11. LinesUp(left, right, "left", FALSE, f)
  BY <1>8, <1>10 DEF LinesUp
<1>12. \A i \in 1 .. n : LabelOf(left, right, f[i]) = left[i]
  <2>1. TAKE i \in 1 .. n
  <2>2. f[i][1] = i - 1 /\ i - 1 # Nowhere /\ (i - 1) + 1 = i
    BY <1>1 DEF Nowhere
  <2>3. QED
    BY <2>2 DEF LabelOf
<1>13. QED
  BY <1>1, <1>3, <1>11, <1>12 DEF f, n

\* The places that sort some labels, and the labels they sort.
LEMMA OrderedIs ==
  ASSUME NEW labels \in Seq(Int)
  PROVE  LET order == Ordered(labels)
         IN  /\ Lists(order, 0 .. Len(labels) - 1) /\ Len(order) = Len(labels)
             /\ order = [k \in 1 .. Len(labels) |-> order[k]]
             /\ \A k, m \in 1 .. Len(order) : k < m =>
                  ~ Before(labels[order[m] + 1], labels[order[k] + 1])
<1> DEFINE D == DOMAIN labels
           n == Len(labels)
           ahead(j) == {i \in D : \/ Before(labels[i], labels[j])
                                  \/ ~ Before(labels[j], labels[i]) /\ i < j}
           R == {ij \in D \X D : ij[1] \in ahead(ij[2])}
           f == ByOrder(D, R)
           order == Ordered(labels)
<1>1. n \in Nat /\ D = 1 .. n /\ \A i \in D : labels[i] \in Int /\ i \in Int
  OBVIOUS
<1>2. IsFiniteSet(D) /\ Cardinality(D) = n
  <2> HIDE DEF D, n
  <2>1. QED
    BY <1>1, FS_Interval
<1> HIDE DEF D, n
<1>3. \A i, j \in D : <<i, j>> \in R <=> \/ Before(labels[i], labels[j])
                                         \/ ~ Before(labels[j], labels[i]) /\ i < j
  OBVIOUS
<1>4. Sorted(D, LAMBDA i, j : Before(labels[i], labels[j]) \/ (~Before(labels[j], labels[i]) /\ i < j))
      = f
  <2> DEFINE c(k) == CHOOSE x \in D : Cardinality(ahead(x)) = k - 1
             d(k) == CHOOSE x \in D : Cardinality(Preceding(D, R, x)) = k - 1
  <2>1. \A x \in D : ahead(x) = Preceding(D, R, x)
    <3>1. TAKE x \in D
    <3>2. ahead(x) \subseteq D
      OBVIOUS
    <3> HIDE DEF ahead
    <3>3. QED
      BY <3>2 DEF Preceding
  <2>2. \A k : c(k) = d(k)
    <3> HIDE DEF R, ahead
    <3>1. QED
      BY <2>1
  <2>3. Sorted(D, LAMBDA i, j : Before(labels[i], labels[j]) \/ (~Before(labels[j], labels[i]) /\ i < j))
        = [k \in 1 .. Cardinality(D) |-> c(k)]
    BY DEF Sorted
  <2>4. ByOrder(D, R) = [k \in 1 .. Cardinality(D) |-> d(k)]
    <3> HIDE DEF R
    <3>1. QED
      BY DEF ByOrder
  <2> HIDE DEF c, d, R
  <2>5. QED
    BY <2>2, <2>3, <2>4
<1>5. OrderOn(R, D)
  <2> HIDE DEF R
  <2>1. ASSUME NEW i \in D PROVE <<i, i>> \notin R
    BY <1>1, <1>3 DEF Before
  <2>2. ASSUME NEW i \in D, NEW j \in D, i # j PROVE <<i, j>> \in R \/ <<j, i>> \in R
    BY <1>1, <1>3, <2>2 DEF Before
  <2>3. ASSUME NEW i \in D, NEW j \in D, NEW k \in D, <<i, j>> \in R, <<j, k>> \in R
        PROVE  <<i, k>> \in R
    BY <1>1, <1>3, <2>3 DEF Before
  <2>4. QED
    BY <2>1, <2>2, <2>3 DEF OrderOn
<1>6. Lists(f, D) /\ Climbs(f, R) /\ Len(f) = n
  <2> HIDE DEF R
  <2>1. QED
    BY <1>2, <1>5, ByOrderIs
<1>7. order = [k \in 1 .. n |-> f[k] - 1]
  <2> DEFINE g == Sorted(D, LAMBDA i, j : Before(labels[i], labels[j]) \/ (~Before(labels[j], labels[i]) /\ i < j))
  <2>1. order = [k \in DOMAIN g |-> g[k] - 1]
    BY DEF Ordered, D
  <2>2. g = f
    BY <1>4
  <2> HIDE DEF g, order, f
  <2>3. DOMAIN f = 1 .. n
    BY <1>6 DEF Lists, IsSequence
  <2>4. QED
    BY <2>1, <2>2, <2>3
<1> HIDE DEF order, f, R
<1>8. \A k \in 1 .. n : order[k] = f[k] - 1
  BY <1>7
<1>9. order = [k \in 1 .. n |-> order[k]]
  BY <1>7
<1>10. IsSequence(order) /\ Len(order) = n
  BY <1>1, <1>9, MadeSequence
<1>11. /\ \A k \in 1 .. n : f[k] \in D
       /\ \A x \in D : \E k \in 1 .. n : f[k] = x
       /\ \A k, m \in 1 .. n : f[k] = f[m] => k = m
  BY <1>6 DEF Lists
<1>12. Lists(order, 0 .. n - 1)
  <2>1. ASSUME NEW k \in 1 .. n PROVE order[k] \in 0 .. n - 1 /\ order[k] + 1 = f[k]
    <3>1. f[k] \in 1 .. n /\ order[k] = f[k] - 1
      BY <1>1, <1>8, <1>11
    <3>2. n \in Nat
      BY <1>1
    <3>3. \A x \in 1 .. n : x - 1 \in 0 .. n - 1 /\ (x - 1) + 1 = x
      BY <3>2
    <3>4. QED
      BY <3>1, <3>3
  <2>2. \A x \in 0 .. n - 1 : \E k \in 1 .. n : order[k] = x
    <3>1. TAKE x \in 0 .. n - 1
    <3>2. x + 1 \in D /\ (x + 1) - 1 = x
      BY <1>1
    <3>3. QED
      BY <1>8, <1>11, <3>2
  <2>3. \A k, m \in 1 .. n : order[k] = order[m] => k = m
    <3>1. TAKE k, m \in 1 .. n
    <3>2. order[k] + 1 = f[k] /\ order[m] + 1 = f[m]
      BY <2>1
    <3>3. QED
      BY <1>11, <3>2
  <2>4. QED
    BY <1>10, <2>1, <2>2, <2>3 DEF Lists
<1>13. ASSUME NEW k \in 1 .. n, NEW m \in 1 .. n, k < m
       PROVE  ~ Before(labels[order[m] + 1], labels[order[k] + 1])
  <2>1. <<f[k], f[m]>> \in R /\ f[k] \in D /\ f[m] \in D
    BY <1>6, <1>11, <1>13 DEF Climbs
  <2>2. order[k] + 1 = f[k] /\ order[m] + 1 = f[m]
    BY <1>1, <1>8, <2>1
  <2>3. labels[f[k]] \in Int /\ labels[f[m]] \in Int
    BY <1>1, <2>1
  <2>4. QED
    BY <1>3, <2>1, <2>2, <2>3 DEF Before
<1>14. QED
  BY <1>9, <1>10, <1>12, <1>13 DEF order, n
-----------------------------------------------------------------------------
JoinIs(left, right, how, sorts, answer) ==
  \E pairs : LinesUp(left, right, how, sorts, pairs) /\ Answers(left, right, pairs, answer)

\* What JoinsPairTheirRows says of one answer.
JoinedRows(left, right, how, sorts, answer) ==
  LET here == PlacesOf(answer.mine, left)
      there == PlacesOf(answer.theirs, right)
      pairs == {<<here[k], there[k]>> : k \in DOMAIN here}
  IN  /\ Len(here) = Len(there) /\ Len(answer.labels) = Len(here)
      /\ pairs = Partners(left, right, how)
      /\ Cardinality(pairs) = Len(here)
      /\ \A k \in DOMAIN here :
           /\ here[k] # Nowhere => answer.labels[k] = left[here[k] + 1]
           /\ there[k] # Nowhere => answer.labels[k] = right[there[k] + 1]
      /\ \A k \in 1 .. Len(here) - 1 :
           /\ sorts => ~Before(answer.labels[k + 1], answer.labels[k])
           /\ ~sorts /\ how = "left" => here[k] <= here[k + 1]
           /\ ~sorts /\ how = "right" => there[k] <= there[k + 1]

LEMMA JoinIsItsRows ==
  ASSUME NEW left \in Seq(Int), NEW right \in Seq(Int), NEW how \in Hows, NEW sorts \in BOOLEAN,
         NEW answer, JoinIs(left, right, how, sorts, answer)
  PROVE  JoinedRows(left, right, how, sorts, answer)
<1>1. PICK pairs : LinesUp(left, right, how, sorts, pairs) /\ Answers(left, right, pairs, answer)
  BY DEF JoinIs
<1> DEFINE n == Len(pairs)
           here == PlacesOf(answer.mine, left)
           there == PlacesOf(answer.theirs, right)
           P == Partners(left, right, how)
           rows == {<<here[k], there[k]>> : k \in DOMAIN here}
           labels == answer.labels
<1>2. /\ Lists(pairs, P) /\ n \in Nat /\ Cardinality(P) = n
      /\ \A k \in 1 .. n : pairs[k] \in P
      /\ \A x \in P : \E k \in 1 .. n : pairs[k] = x
  <2>1. Lists(pairs, P)
    BY <1>1 DEF LinesUp
  <2>2. Cardinality(P) = n /\ n \in Nat
    BY <2>1, ListedAre
  <2>3. QED
    BY <2>1, <2>2 DEF Lists
<1>3. \A p \in P : p \in Int \X Int /\ p = <<p[1], p[2]>>
  <2>1. \A p \in P : p \in Int \X Int
    BY RowsHaveLabels
  <2> HIDE DEF P
  <2>2. QED
    BY <2>1
<1>4. /\ here = [k \in 1 .. n |-> pairs[k][1]]
      /\ there = [k \in 1 .. n |-> pairs[k][2]]
      /\ labels = [k \in 1 .. n |-> LabelOf(left, right, pairs[k])]
  BY <1>1 DEF Answers, LeftPlaces, RightPlaces, RowLabels
<1> HIDE DEF here, there, labels, n, P
<1>5. \A k \in 1 .. n : /\ here[k] = pairs[k][1] /\ there[k] = pairs[k][2]
                        /\ labels[k] = LabelOf(left, right, pairs[k])
  BY <1>4
<1>6. /\ Len(here) = n /\ Len(there) = n /\ Len(labels) = n /\ DOMAIN here = 1 .. n
  <2>1. here = [k \in 1 .. n |-> here[k]]
    BY <1>4
  <2>2. there = [k \in 1 .. n |-> there[k]]
    BY <1>4
  <2>3. labels = [k \in 1 .. n |-> labels[k]]
    BY <1>4
  <2>4. QED
    BY <1>2, <2>1, <2>2, <2>3, MadeSequence
<1>7. rows = P
  <2>1. \A k \in 1 .. n : <<here[k], there[k]>> = pairs[k]
    <3>1. TAKE k \in 1 .. n
    <3>2. pairs[k] = <<pairs[k][1], pairs[k][2]>>
      BY <1>2, <1>3
    <3>3. QED
      BY <1>5, <3>2
  <2>2. ASSUME NEW x \in rows PROVE x \in P
    <3>1. PICK k \in 1 .. n : x = <<here[k], there[k]>>
      BY <1>6
    <3>2. QED
      BY <1>2, <2>1, <3>1
  <2>3. ASSUME NEW x \in P PROVE x \in rows
    <3>1. PICK k \in 1 .. n : x = pairs[k]
      BY <1>2
    <3>2. x = <<here[k], there[k]>> /\ k \in DOMAIN here
      BY <1>6, <2>1, <3>1
    <3>3. QED
      BY <3>2
  <2> HIDE DEF rows
  <2>4. QED
    BY <2>2, <2>3
<1>8. \A k \in 1 .. n : /\ here[k] # Nowhere => labels[k] = left[here[k] + 1]
                        /\ there[k] # Nowhere => labels[k] = right[there[k] + 1]
  <2>1. TAKE k \in 1 .. n
  <2>2. pairs[k] \in Partners(left, right, how)
    BY <1>2 DEF P
  <2>3. /\ pairs[k][1] # Nowhere => LabelOf(left, right, pairs[k]) = left[pairs[k][1] + 1]
        /\ pairs[k][2] # Nowhere => LabelOf(left, right, pairs[k]) = right[pairs[k][2] + 1]
    BY <2>2, RowsHaveLabels
  <2>4. QED
    BY <1>5, <2>3
<1>9. ASSUME NEW k \in 1 .. n - 1
      PROVE  /\ sorts => ~Before(labels[k + 1], labels[k])
             /\ ~sorts /\ how = "left" => here[k] <= here[k + 1]
             /\ ~sorts /\ how = "right" => there[k] <= there[k + 1]
  <2>1. k \in 1 .. n /\ k + 1 \in 1 .. n /\ k < k + 1
    BY <1>2
  <2>2. ASSUME sorts PROVE ~Before(labels[k + 1], labels[k])
    <3>1. ~ Before(LabelOf(left, right, pairs[k + 1]), LabelOf(left, right, pairs[k]))
      BY <1>1, <2>1, <2>2 DEF LinesUp, n
    <3>2. QED
      BY <1>5, <2>1, <3>1
  <2>3. pairs[k] \in Int \X Int /\ pairs[k + 1] \in Int \X Int
    BY <1>2, <1>3, <2>1
  <2>4. ASSUME ~sorts, how = "left" PROVE here[k] <= here[k + 1]
    <3>1. <<pairs[k], pairs[k + 1]>> \in ByPlaces
      BY <1>1, <2>1, <2>4 DEF LinesUp, Climbs, n
    <3>2. pairs[k][1] <= pairs[k + 1][1]
      BY <2>3, <3>1 DEF ByPlaces
    <3>3. QED
      BY <1>5, <2>1, <3>2
  <2>5. ASSUME ~sorts, how = "right" PROVE there[k] <= there[k + 1]
    <3> DEFINE f == Flipped(pairs)
    <3>1. /\ f = [i \in 1 .. n |-> <<pairs[i][2], pairs[i][1]>>]
      <4>1. DOMAIN pairs = 1 .. n
        BY <1>2 DEF Lists, IsSequence, n
      <4>2. QED
        BY <4>1 DEF Flipped
    <3>2. Climbs(f, ByPlaces)
      BY <1>1, <2>5 DEF LinesUp
    <3> HIDE DEF f
    <3>3. f = [i \in 1 .. n |-> f[i]] /\ \A i \in 1 .. n : f[i] = <<pairs[i][2], pairs[i][1]>>
      BY <3>1
    <3>4. Len(f) = n
      BY <1>2, <3>3, MadeSequence
    <3>5. <<f[k], f[k + 1]>> \in ByPlaces
      BY <2>1, <3>2, <3>4 DEF Climbs
    <3>6. f[k][1] = pairs[k][2] /\ f[k + 1][1] = pairs[k + 1][2]
      BY <2>1, <3>3
    <3>7. f[k][1] <= f[k + 1][1]
      <4>1. f[k] \in Int \X Int /\ f[k + 1] \in Int \X Int
        BY <2>1, <2>3, <3>3
      <4>2. QED
        BY <3>5, <4>1 DEF ByPlaces
    <3>8. QED
      BY <1>5, <2>1, <3>6, <3>7
  <2>6. QED
    BY <2>2, <2>4, <2>5
<1>10. QED
  BY <1>2, <1>6, <1>7, <1>8, <1>9 DEF JoinedRows, here, there, labels, P, rows, n

\* A right join answers as the left join the other way round does.
LEMMA MirroredIs ==
  ASSUME NEW left \in Seq(Int), NEW right \in Seq(Int), NEW sorts \in BOOLEAN,
         NEW labels, NEW here, NEW there,
         JoinIs(right, left, "left", sorts, JoinAnswer(labels, there, here))
  PROVE  JoinIs(left, right, "right", sorts, JoinAnswer(labels, here, there))
<1>1. PICK pairs : /\ LinesUp(right, left, "left", sorts, pairs)
                   /\ Answers(right, left, pairs, JoinAnswer(labels, there, here))
  BY DEF JoinIs
<1> DEFINE f == Flipped(pairs)
           n == Len(pairs)
<1>2. /\ LinesUp(left, right, "right", sorts, f) /\ Len(f) = n
      /\ f = [k \in 1 .. n |-> <<pairs[k][2], pairs[k][1]>>]
      /\ \A k \in 1 .. n : LabelOf(left, right, f[k]) = LabelOf(right, left, pairs[k])
  BY <1>1, FlippedLinesUp
<1> HIDE DEF f
<1>3. \A k \in 1 .. n : f[k][1] = pairs[k][2] /\ f[k][2] = pairs[k][1]
  BY <1>2
<1>4. /\ PlacesOf(there, right) = [k \in 1 .. n |-> pairs[k][1]]
      /\ PlacesOf(here, left) = [k \in 1 .. n |-> pairs[k][2]]
      /\ labels = [k \in 1 .. n |-> LabelOf(right, left, pairs[k])]
  BY <1>1 DEF Answers, LeftPlaces, RightPlaces, RowLabels, JoinAnswer
<1> HIDE DEF n
<1>5. /\ PlacesOf(there, right) = [k \in 1 .. n |-> f[k][2]]
      /\ PlacesOf(here, left) = [k \in 1 .. n |-> f[k][1]]
      /\ labels = [k \in 1 .. n |-> LabelOf(left, right, f[k])]
  BY <1>2, <1>3, <1>4
<1>6. Answers(left, right, f, JoinAnswer(labels, here, there))
  BY <1>2, <1>5 DEF Answers, LeftPlaces, RightPlaces, RowLabels, JoinAnswer
<1>7. QED
  BY <1>2, <1>6 DEF JoinIs

\* Places are read as they are: none of them is what stands for a whole side.
LEMMA PlacesAreRead ==
  ASSUME NEW n \in Nat, NEW f, f = [k \in 1 .. n |-> f[k]],
         \A k \in 1 .. n : f[k] \in Int /\ f[k] >= Nowhere, NEW own
  PROVE  f # Whole /\ PlacesOf(f, own) = f
<1>1. f # Whole
  <2>1. SUFFICES ASSUME f = Whole PROVE FALSE
    OBVIOUS
  <2>a. DOMAIN <<-3>> = 1 .. 1 /\ <<-3>>[1] = -3
    OBVIOUS
  <2>2. DOMAIN f = 1 .. 1 /\ f[1] = -3
    BY <2>1, <2>a DEF Whole
  <2>b. DOMAIN f = 1 .. n
    OBVIOUS
  <2>3. 1 \in 1 .. n
    BY <2>2, <2>b
  <2>4. QED
    BY <2>2, <2>3 DEF Nowhere
<1>2. QED
  BY <1>1 DEF PlacesOf

LEMMA PlacesOfRows ==
  ASSUME NEW left \in Seq(Int), NEW right \in Seq(Int), NEW how \in Hows,
         NEW p \in Partners(left, right, how)
  PROVE  p[1] \in Int /\ p[1] >= Nowhere /\ p[2] \in Int /\ p[2] >= Nowhere
<1>1. /\ p \in Int \X Int
      /\ p[1] # Nowhere => p[1] + 1 \in DOMAIN left
      /\ p[2] # Nowhere => p[2] + 1 \in DOMAIN right
  BY RowsHaveLabels
<1>2. DOMAIN left = 1 .. Len(left) /\ DOMAIN right = 1 .. Len(right) /\ Len(left) \in Nat /\ Len(right) \in Nat
  OBVIOUS
<1>3. p[1] \in Int /\ p[2] \in Int
  BY <1>1
<1>4. QED
  BY <1>1, <1>2, <1>3 DEF Nowhere
-----------------------------------------------------------------------------
\* On a left side in order the rows looked up are in the order of their labels.
LEMMA FoundInOrder ==
  ASSUME NEW left \in Seq(Int), NEW right \in Seq(Int), Distinct(right),
         NEW sorts \in BOOLEAN, sorts => Rises(left)
  PROVE  LinesUp(left, right, "left", sorts, FoundPairs(left, right))
<1> DEFINE f == FoundPairs(left, right)
<1>1. /\ LinesUp(left, right, "left", FALSE, f) /\ Len(f) = Len(left)
      /\ \A i \in 1 .. Len(left) : LabelOf(left, right, f[i]) = left[i]
  BY FoundLineUp
<1>2. DOMAIN left = 1 .. Len(left) /\ \A i \in DOMAIN left : i \in Int /\ left[i] \in Int
  OBVIOUS
<1> HIDE DEF f
<1>3. ASSUME sorts, NEW k \in 1 .. Len(f), NEW m \in 1 .. Len(f), k < m
      PROVE  ~ Before(LabelOf(left, right, f[m]), LabelOf(left, right, f[k]))
  <2>1. \A i, j \in DOMAIN left : i <= j => left[i] <= left[j]
    BY <1>3, InOrderAcross
  <2>2. k \in DOMAIN left /\ m \in DOMAIN left /\ k <= m
    BY <1>1, <1>2, <1>3
  <2>3. left[k] <= left[m] /\ left[k] \in Int /\ left[m] \in Int
    BY <1>2, <2>1, <2>2
  <2>4. left[k] # Gap /\ left[m] # Gap
    BY <1>3, <2>2 DEF Rises
  <2>5. LabelOf(left, right, f[m]) = left[m] /\ LabelOf(left, right, f[k]) = left[k]
    BY <1>1, <1>3
  <2>6. QED
    BY <2>3, <2>4, <2>5 DEF Before
<1>4. QED
  BY <1>1, <1>3 DEF LinesUp, f

LEMMA LookedUpLeft ==
  ASSUME NEW left \in Seq(Int), NEW right \in Seq(Int), Distinct(right),
         NEW sorts \in BOOLEAN, sorts => Rises(left)
  PROVE  JoinIs(left, right, "left", sorts, JoinAnswer(left, Whole, IndexerFor(right, left)))
<1> DEFINE f == FoundPairs(left, right)
           n == Len(left)
           hits == IndexerFor(right, left)
<1>1. /\ LinesUp(left, right, "left", sorts, f) /\ Len(f) = n
      /\ \A i \in 1 .. n : /\ f[i] = <<i - 1, Exact(right, left[i])>>
                           /\ LabelOf(left, right, f[i]) = left[i]
  BY FoundInOrder, FoundLineUp
<1>2. /\ n \in Nat /\ DOMAIN left = 1 .. n /\ left = [i \in 1 .. n |-> left[i]]
      /\ hits = [i \in 1 .. n |-> Exact(right, left[i])]
  <2>1. hits = [i \in DOMAIN left |-> Exact(right, left[i])]
    BY IndexerIs
  <2> HIDE DEF hits
  <2>2. QED
    BY <2>1
<1> HIDE DEF f, n, hits
<1>a. \A i \in 1 .. n : f[i][1] = i - 1 /\ f[i][2] = Exact(right, left[i])
  BY <1>1
<1>3. hits = [i \in 1 .. n |-> f[i][2]] /\ hits = [i \in 1 .. n |-> hits[i]]
  BY <1>2, <1>a
<1>4. \A i \in 1 .. n : hits[i] = f[i][2] /\ hits[i] \in Int /\ hits[i] >= Nowhere
  <2>1. TAKE i \in 1 .. n
  <2>2. f[i] \in Partners(left, right, "left") /\ "left" \in Hows
    BY <1>1 DEF LinesUp, Lists, Hows
  <2>3. hits[i] = f[i][2]
    BY <1>3
  <2>4. QED
    BY <2>2, <2>3, PlacesOfRows
<1>5. PlacesOf(hits, right) = hits
  BY <1>2, <1>3, <1>4, PlacesAreRead
<1>6. PlacesOf(Whole, left) = [i \in 1 .. n |-> f[i][1]]
  BY <1>2, <1>a DEF PlacesOf
<1>7. left = [i \in 1 .. n |-> LabelOf(left, right, f[i])]
  BY <1>1, <1>2
<1>8. Answers(left, right, f, JoinAnswer(left, Whole, hits))
  BY <1>1, <1>3, <1>5, <1>6, <1>7 DEF Answers, LeftPlaces, RightPlaces, RowLabels, JoinAnswer
<1>9. QED
  BY <1>1, <1>8 DEF JoinIs, hits

\* The places from 0 counted from 1.
LEMMA CountedFromOne ==
  ASSUME NEW n \in Nat, NEW order, Lists(order, 0 .. n - 1), Len(order) = n,
         NEW places, places = [k \in 1 .. Len(order) |-> order[k] + 1]
  PROVE  Lists(places, 1 .. n) /\ Len(places) = n /\ \A k \in 1 .. n : places[k] = order[k] + 1
<1>1. /\ \A k \in 1 .. n : order[k] \in 0 .. n - 1
      /\ \A x \in 0 .. n - 1 : \E k \in 1 .. n : order[k] = x
      /\ \A k, m \in 1 .. n : order[k] = order[m] => k = m
  BY DEF Lists
<1>2. \A k \in 1 .. n : order[k] + 1 \in 1 .. n /\ order[k] \in Int
  <2>1. TAKE k \in 1 .. n
  <2>2. order[k] \in 0 .. n - 1
    BY <1>1
  <2>3. QED
    BY <2>2
<1>3. \A k \in 1 .. n : places[k] = order[k] + 1
  OBVIOUS
<1>4. places = [k \in 1 .. n |-> places[k]]
  OBVIOUS
<1>5. IsSequence(places) /\ Len(places) = n
  BY <1>4, MadeSequence
<1>6. \A x \in 1 .. n : \E k \in 1 .. n : places[k] = x
  <2>1. TAKE x \in 1 .. n
  <2>2. x - 1 \in 0 .. n - 1 /\ (x - 1) + 1 = x
    OBVIOUS
  <2>3. PICK k \in 1 .. n : order[k] = x - 1
    BY <1>1, <2>2
  <2>4. QED
    BY <1>3, <2>2, <2>3
<1>7. \A k, m \in 1 .. n : places[k] = places[m] => k = m
  <2>1. TAKE k, m \in 1 .. n
  <2>2. SUFFICES ASSUME places[k] = places[m] PROVE k = m
    OBVIOUS
  <2>3. order[k] = order[m]
    BY <1>2, <1>3, <2>2
  <2>4. QED
    BY <1>1, <2>3
<1>8. QED
  BY <1>2, <1>3, <1>5, <1>6, <1>7 DEF Lists

\* The left side put in order before its labels are looked up.
LEMMA LookedUpInOrder ==
  ASSUME NEW left \in Seq(Int), NEW right \in Seq(Int), Distinct(right)
  PROVE  JoinIs(left, right, "left", TRUE,
                JoinAnswer(Taken(left, Ordered(left)), Ordered(left),
                           IndexerFor(right, Taken(left, Ordered(left)))))
<1> DEFINE f == FoundPairs(left, right)
           n == Len(left)
           order == Ordered(left)
           places == [k \in 1 .. n |-> order[k] + 1]
           s == [k \in 1 .. n |-> f[places[k]]]
           labels == Taken(left, order)
           hits == IndexerFor(right, labels)
<1>1. /\ LinesUp(left, right, "left", FALSE, f) /\ Len(f) = n
      /\ \A i \in 1 .. n : /\ f[i] = <<i - 1, Exact(right, left[i])>>
                           /\ LabelOf(left, right, f[i]) = left[i]
  BY FoundLineUp
<1>2. /\ n \in Nat /\ DOMAIN left = 1 .. n
  OBVIOUS
<1>3. /\ Lists(order, 0 .. n - 1) /\ Len(order) = n /\ order = [k \in 1 .. n |-> order[k]]
      /\ \A k, m \in 1 .. Len(order) : k < m => ~ Before(left[order[m] + 1], left[order[k] + 1])
  BY OrderedIs
<1> HIDE DEF f, order, n
<1>4. /\ \A k \in 1 .. n : order[k] \in 0 .. n - 1
      /\ \A x \in 0 .. n - 1 : \E k \in 1 .. n : order[k] = x
      /\ \A k, m \in 1 .. n : order[k] = order[m] => k = m
      /\ DOMAIN order = 1 .. n
  BY <1>2, <1>3 DEF Lists
<1>5. \A k \in 1 .. n : order[k] + 1 \in 1 .. n /\ (order[k] + 1) - 1 = order[k] /\ order[k] \in Int
  <2>1. TAKE k \in 1 .. n
  <2>2. order[k] \in 0 .. n - 1
    BY <1>4
  <2>3. QED
    BY <1>2, <2>2
<1>6. Lists(places, 1 .. n) /\ Len(places) = n /\ \A k \in 1 .. n : places[k] = order[k] + 1
  <2> HIDE DEF places
  <2>1. places = [k \in 1 .. Len(order) |-> order[k] + 1]
    BY <1>3 DEF places
  <2>2. QED
    BY <1>2, <1>3, <2>1, CountedFromOne
<1> HIDE DEF places
<1>7. Lists(s, Partners(left, right, "left")) /\ Len(s) = n
      /\ \A k \in 1 .. n : s[k] = f[places[k]]
  <2>1. Lists(f, Partners(left, right, "left")) /\ Lists(places, 1 .. Len(f))
    BY <1>1, <1>6 DEF LinesUp
  <2>2. s = [k \in 1 .. Len(places) |-> f[places[k]]]
    BY <1>6
  <2> HIDE DEF s
  <2>3. QED
    BY <1>6, <2>1, <2>2, Rearranged
<1> HIDE DEF s
<1>8. \A k \in 1 .. n : /\ s[k] = <<order[k], Exact(right, left[order[k] + 1])>>
                        /\ LabelOf(left, right, s[k]) = left[order[k] + 1]
  <2>1. TAKE k \in 1 .. n
  <2>2. s[k] = f[order[k] + 1] /\ order[k] + 1 \in 1 .. n /\ (order[k] + 1) - 1 = order[k]
    BY <1>5, <1>6, <1>7
  <2>3. f[order[k] + 1] = <<(order[k] + 1) - 1, Exact(right, left[order[k] + 1])>>
        /\ LabelOf(left, right, f[order[k] + 1]) = left[order[k] + 1]
    BY <1>1, <2>2
  <2>4. QED
    BY <2>2, <2>3
<1>9. LinesUp(left, right, "left", TRUE, s)
  <2>1. \A k, m \in 1 .. Len(s) : k < m =>
          ~ Before(LabelOf(left, right, s[m]), LabelOf(left, right, s[k]))
    BY <1>3, <1>7, <1>8
  <2>2. QED
    BY <1>7, <2>1 DEF LinesUp
<1>10. labels = [k \in 1 .. n |-> left[order[k] + 1]] /\ DOMAIN labels = 1 .. n
       /\ \A k \in 1 .. n : labels[k] = left[order[k] + 1]
  BY <1>4 DEF Taken
<1> HIDE DEF labels
<1>11. hits = [k \in 1 .. n |-> Exact(right, labels[k])]
  <2>1. hits = [k \in DOMAIN labels |-> Exact(right, labels[k])]
    BY IndexerIs
  <2> HIDE DEF hits
  <2>2. QED
    BY <1>10, <2>1
<1> HIDE DEF hits
<1>12. \A k \in 1 .. n : s[k][1] = order[k] /\ s[k][2] = hits[k]
                         /\ hits[k] \in Int /\ hits[k] >= Nowhere /\ order[k] \in Int /\ order[k] >= Nowhere
  <2>1. TAKE k \in 1 .. n
  <2>2. s[k] \in Partners(left, right, "left") /\ "left" \in Hows
    BY <1>7 DEF Lists, Hows
  <2>3. s[k][1] = order[k] /\ s[k][2] = hits[k]
    BY <1>8, <1>10, <1>11
  <2>4. QED
    BY <2>2, <2>3, PlacesOfRows
<1>13. PlacesOf(hits, right) = [k \in 1 .. n |-> s[k][2]]
  <2>1. hits = [k \in 1 .. n |-> hits[k]] /\ hits = [k \in 1 .. n |-> s[k][2]]
    BY <1>11, <1>12
  <2>2. QED
    BY <1>2, <1>12, <2>1, PlacesAreRead
<1>14. PlacesOf(order, left) = [k \in 1 .. n |-> s[k][1]]
  <2>1. order = [k \in 1 .. n |-> order[k]] /\ order = [k \in 1 .. n |-> s[k][1]]
    BY <1>3, <1>12
  <2>2. QED
    BY <1>2, <1>12, <2>1, PlacesAreRead
<1>15. labels = [k \in 1 .. n |-> LabelOf(left, right, s[k])]
  BY <1>8, <1>10
<1>16. Answers(left, right, s, JoinAnswer(labels, order, hits))
  BY <1>7, <1>13, <1>14, <1>15 DEF Answers, LeftPlaces, RightPlaces, RowLabels, JoinAnswer
<1>17. QED
  BY <1>9, <1>16 DEF JoinIs, labels, hits, order
-----------------------------------------------------------------------------
\* What the sides of the rows of a join are.
LEMMA SidesOfRows ==
  ASSUME NEW left \in Seq(Int), NEW right \in Seq(Int), NEW how \in Hows,
         NEW pairs, Lists(pairs, Partners(left, right, how))
  PROVE  /\ Len(pairs) \in Nat /\ DOMAIN pairs = 1 .. Len(pairs)
         /\ LeftPlaces(pairs) # Whole /\ PlacesOf(LeftPlaces(pairs), left) = LeftPlaces(pairs)
         /\ RightPlaces(pairs) # Whole /\ PlacesOf(RightPlaces(pairs), right) = RightPlaces(pairs)
         /\ Picked(left, right, pairs) = RowLabels(left, right, pairs)
<1> DEFINE n == Len(pairs)
           here == [k \in 1 .. n |-> pairs[k][1]]
           there == [k \in 1 .. n |-> pairs[k][2]]
<1>1. n \in Nat /\ DOMAIN pairs = 1 .. n /\ \A k \in 1 .. n : pairs[k] \in Partners(left, right, how)
  BY DEF Lists, IsSequence
<1> HIDE DEF n
<1>2. \A k \in 1 .. n : /\ here[k] \in Int /\ here[k] >= Nowhere
                        /\ there[k] \in Int /\ there[k] >= Nowhere
  <2>1. TAKE k \in 1 .. n
  <2>2. here[k] = pairs[k][1] /\ there[k] = pairs[k][2]
    OBVIOUS
  <2>3. pairs[k] \in Partners(left, right, how)
    BY <1>1
  <2> HIDE DEF here, there
  <2>4. QED
    BY <2>2, <2>3, PlacesOfRows
<1>3. here = [k \in 1 .. n |-> here[k]] /\ there = [k \in 1 .. n |-> there[k]]
  OBVIOUS
<1> HIDE DEF here, there
<1>4. here # Whole /\ PlacesOf(here, left) = here
  BY <1>1, <1>2, <1>3, PlacesAreRead
<1>5. there # Whole /\ PlacesOf(there, right) = there
  BY <1>1, <1>2, <1>3, PlacesAreRead
<1>6. Picked(left, right, pairs) = [k \in 1 .. n |-> LabelOf(left, right, pairs[k])]
  BY <1>1 DEF Picked, LabelOf
<1>7. QED
  BY <1>1, <1>4, <1>5, <1>6 DEF here, there, n, LeftPlaces, RightPlaces, RowLabels

LEMMA MergeIs ==
  ASSUME NEW left \in Seq(Int), NEW right \in Seq(Int), NEW how \in Hows,
         NEW sorts \in BOOLEAN, how = "outer" => sorts
  PROVE  JoinIs(left, right, how, sorts, JoinedMerge(left, right, how, sorts))
<1> DEFINE pairs == MergedPairs(left, right, how, sorts, TRUE)
<1>1. LinesUp(left, right, how, sorts, pairs)
  BY MergedLinesUp
<1>2. JoinedMerge(left, right, how, sorts) =
        JoinAnswer(Picked(left, right, pairs), [k \in DOMAIN pairs |-> pairs[k][1]],
                   [k \in DOMAIN pairs |-> pairs[k][2]])
  BY DEF JoinedMerge
<1> HIDE DEF pairs
<1>3. /\ DOMAIN pairs = 1 .. Len(pairs)
      /\ PlacesOf(LeftPlaces(pairs), left) = LeftPlaces(pairs)
      /\ PlacesOf(RightPlaces(pairs), right) = RightPlaces(pairs)
      /\ Picked(left, right, pairs) = RowLabels(left, right, pairs)
  <2>1. Lists(pairs, Partners(left, right, how))
    BY <1>1 DEF LinesUp
  <2>2. QED
    BY <2>1, SidesOfRows
<1>4. Answers(left, right, pairs, JoinedMerge(left, right, how, sorts))
  <2>1. /\ [k \in DOMAIN pairs |-> pairs[k][1]] = LeftPlaces(pairs)
        /\ [k \in DOMAIN pairs |-> pairs[k][2]] = RightPlaces(pairs)
    BY <1>3 DEF LeftPlaces, RightPlaces
  <2>2. JoinedMerge(left, right, how, sorts) =
          JoinAnswer(RowLabels(left, right, pairs), LeftPlaces(pairs), RightPlaces(pairs))
    BY <1>2, <1>3, <2>1
  <2>3. QED
    BY <1>3, <2>2 DEF Answers, JoinAnswer
<1>5. QED
  BY <1>1, <1>4 DEF JoinIs

\* A side that comes back whole and in order is answered as it is.
LEMMA ShortenedIs ==
  ASSUME NEW left \in Seq(Int), NEW right \in Seq(Int), NEW how \in Hows,
         NEW pairs, Lists(pairs, Partners(left, right, how))
  PROVE  Answers(left, right, pairs, Shortened(left, right, pairs))
<1> DEFINE n == Len(pairs)
           here == LeftPlaces(pairs)
           there == RightPlaces(pairs)
           allLeft == [i \in DOMAIN left |-> i - 1]
           allRight == [i \in DOMAIN right |-> i - 1]
           labels == RowLabels(left, right, pairs)
           short(hits, all) == IF hits = all THEN Whole ELSE hits
           chosen == IF short(here, allLeft) = Whole THEN left
                     ELSE IF short(there, allRight) = Whole THEN right
                     ELSE Picked(left, right, pairs)
<1>1. /\ n \in Nat /\ DOMAIN pairs = 1 .. n
      /\ here # Whole /\ PlacesOf(here, left) = here
      /\ there # Whole /\ PlacesOf(there, right) = there
      /\ Picked(left, right, pairs) = labels
  BY SidesOfRows
<1>2. /\ \A k \in 1 .. n : here[k] = pairs[k][1] /\ there[k] = pairs[k][2]
      /\ DOMAIN here = 1 .. n /\ DOMAIN there = 1 .. n
  BY DEF LeftPlaces, RightPlaces
<1>3. Shortened(left, right, pairs) = JoinAnswer(chosen, short(here, allLeft), short(there, allRight))
  <2>1. here = [k \in DOMAIN pairs |-> pairs[k][1]] /\ there = [k \in DOMAIN pairs |-> pairs[k][2]]
    BY <1>1 DEF LeftPlaces, RightPlaces
  <2>2. Shortened(left, right, pairs) =
          JoinAnswer(IF short([k \in DOMAIN pairs |-> pairs[k][1]], allLeft) = Whole THEN left
                     ELSE IF short([k \in DOMAIN pairs |-> pairs[k][2]], allRight) = Whole THEN right
                     ELSE Picked(left, right, pairs),
                     short([k \in DOMAIN pairs |-> pairs[k][1]], allLeft),
                     short([k \in DOMAIN pairs |-> pairs[k][2]], allRight))
    BY DEF Shortened
  <2> HIDE DEF here, there, allLeft, allRight, short
  <2>3. QED
    BY <2>1, <2>2
<1>4. /\ \A k \in 1 .. n : pairs[k] \in Partners(left, right, how)
      /\ DOMAIN left = 1 .. Len(left) /\ DOMAIN right = 1 .. Len(right)
      /\ left = [i \in DOMAIN left |-> left[i]] /\ right = [i \in DOMAIN right |-> right[i]]
  BY DEF Lists
<1>5. /\ DOMAIN allLeft = DOMAIN left /\ \A i \in DOMAIN left : allLeft[i] = i - 1 /\ i \in Nat /\ i > 0
      /\ DOMAIN allRight = DOMAIN right /\ \A i \in DOMAIN right : allRight[i] = i - 1 /\ i \in Nat /\ i > 0
  OBVIOUS
<1> HIDE DEF n, here, there, allLeft, allRight
<1>6. /\ PlacesOf(short(here, allLeft), left) = here
      /\ PlacesOf(short(there, allRight), right) = there
  BY <1>1 DEF PlacesOf, allLeft, allRight
<1>7. /\ \A k \in 1 .. n : labels[k] = LabelOf(left, right, pairs[k])
      /\ DOMAIN labels = 1 .. n /\ labels = [k \in 1 .. n |-> labels[k]]
  BY DEF RowLabels, n
<1> HIDE DEF labels
<1>8. ASSUME here = allLeft PROVE left = labels
  <2>1. DOMAIN left = 1 .. n
    BY <1>2, <1>5, <1>8
  <2>2. \A k \in 1 .. n : left[k] = labels[k]
    <3>1. TAKE k \in 1 .. n
    <3>a. k \in DOMAIN left /\ k \in Nat /\ k > 0
      BY <1>5, <2>1
    <3>b. pairs[k][1] = k - 1
      BY <1>2, <1>5, <1>8, <3>a
    <3>2. pairs[k][1] = k - 1 /\ k - 1 # Nowhere /\ (k - 1) + 1 = k
      BY <3>a, <3>b DEF Nowhere
    <3>3. QED
      BY <1>7, <3>2 DEF LabelOf
  <2>3. QED
    BY <1>4, <1>7, <2>1, <2>2
<1>9. ASSUME there = allRight PROVE right = labels
  <2>1. DOMAIN right = 1 .. n
    BY <1>2, <1>5, <1>9
  <2>2. \A k \in 1 .. n : right[k] = labels[k]
    <3>1. TAKE k \in 1 .. n
    <3>2. pairs[k][2] = k - 1 /\ k - 1 # Nowhere /\ (k - 1) + 1 = k
      BY <1>2, <1>5, <1>9, <2>1 DEF Nowhere
    <3>3. pairs[k] \in Partners(left, right, how)
      BY <1>4
    <3>4. LabelOf(left, right, pairs[k]) = right[pairs[k][2] + 1]
      BY <3>2, <3>3, RowsHaveLabels
    <3>5. QED
      BY <1>7, <3>2, <3>4
  <2>3. QED
    BY <1>4, <1>7, <2>1, <2>2
<1>10. chosen = labels
  <2>1. CASE here = allLeft
    BY <1>8, <2>1
  <2>2. CASE here # allLeft /\ there = allRight
    BY <1>1, <1>9, <2>2
  <2>3. CASE here # allLeft /\ there # allRight
    BY <1>1, <2>3
  <2>4. QED
    BY <2>1, <2>2, <2>3
<1> HIDE DEF chosen, short
<1>11. QED
  BY <1>3, <1>6, <1>10 DEF Answers, JoinAnswer, here, there, labels, n

\* Two sides that are the same, in order and without repeats.
LEMMA SameSidesAre ==
  ASSUME NEW left \in Seq(Int), Rises(left), Distinct(left), NEW how \in Hows,
         NEW sorts \in BOOLEAN
  PROVE  JoinIs(left, left, how, sorts, JoinAnswer(left, Whole, Whole))
<1> DEFINE f == FoundPairs(left, left)
           n == Len(left)
<1>1. /\ LinesUp(left, left, "left", sorts, f) /\ LinesUp(left, left, "left", FALSE, f)
      /\ LinesUp(left, left, "left", TRUE, f) /\ Len(f) = n
      /\ \A i \in 1 .. n : /\ f[i] = <<i - 1, Exact(left, left[i])>>
                           /\ LabelOf(left, left, f[i]) = left[i]
  BY FoundInOrder, FoundLineUp
<1>2. DOMAIN left = 1 .. n /\ left = [i \in 1 .. n |-> left[i]]
  OBVIOUS
<1> HIDE DEF f, n
<1>3. \A i \in 1 .. n : f[i] = <<i - 1, i - 1>> /\ f[i][1] = i - 1 /\ f[i][2] = i - 1
  BY <1>1, <1>2, DistinctIs
<1>4. \A other \in Hows : Partners(left, left, other) = Partners(left, left, "left")
  <2>1. \A p : ~ AloneLeft(left, left, p) /\ ~ AloneRight(left, left, p)
    BY DEF AloneLeft, AloneRight, ToSet
  <2>2. \A other : \A p : p \in Partners(left, left, other) <=> Meets(left, left, p)
    BY <2>1, PartnersAre
  <2>3. TAKE other \in Hows
  <2>4. \A p : p \in Partners(left, left, other) <=> p \in Partners(left, left, "left")
    BY <2>2
  <2>5. QED
    BY <2>4
<1>5. Lists(f, Partners(left, left, how))
  BY <1>1, <1>4 DEF LinesUp
<1>6. Flipped(f) = f
  <2>1. f = [i \in 1 .. n |-> f[i]] /\ DOMAIN f = 1 .. n
    BY <1>1, <1>5 DEF Lists, IsSequence
  <2>2. \A i \in 1 .. n : <<f[i][2], f[i][1]>> = f[i]
    BY <1>3
  <2>3. QED
    BY <2>1, <2>2 DEF Flipped
<1>7. LinesUp(left, left, how, sorts, f)
  <2>1. Climbs(f, ByPlaces)
    BY <1>1 DEF LinesUp
  <2>2. \A k, m \in 1 .. Len(f) : k < m =>
          ~ Before(LabelOf(left, left, f[m]), LabelOf(left, left, f[k]))
    <3>1. sorts \/ ~sorts
      OBVIOUS
    <3>2. LinesUp(left, left, "left", TRUE, f)
      BY <1>1
    <3>3. QED
      BY <3>2 DEF LinesUp
  <2>3. QED
    BY <1>5, <1>6, <2>1, <2>2 DEF LinesUp
<1>8. Answers(left, left, f, JoinAnswer(left, Whole, Whole))
  <2>1. PlacesOf(Whole, left) = [i \in 1 .. n |-> i - 1]
    BY <1>2 DEF PlacesOf
  <2>2. [i \in 1 .. n |-> f[i][1]] = [i \in 1 .. n |-> i - 1]
    BY <1>3
  <2>3. [i \in 1 .. n |-> f[i][2]] = [i \in 1 .. n |-> i - 1]
    BY <1>3
  <2>4. left = [i \in 1 .. n |-> LabelOf(left, left, f[i])]
    BY <1>1, <1>2
  <2>5. QED
    BY <1>1, <2>1, <2>2, <2>3, <2>4 DEF Answers, JoinAnswer, LeftPlaces, RightPlaces, RowLabels
<1>9. QED
  BY <1>7, <1>8 DEF JoinIs

LEMMA SortedIs ==
  ASSUME NEW left \in Seq(Int), NEW right \in Seq(Int), Rises(left), Rises(right),
         Distinct(left) \/ Distinct(right), NEW how \in Hows, NEW sorts \in BOOLEAN
  PROVE  JoinIs(left, right, how, sorts, JoinedSorted(left, right, how))
<1> DEFINE pairs == MergedPairs(left, right, how, TRUE, FALSE)
<1>1. CASE left = right
  BY <1>1, SameSidesAre DEF JoinedSorted
<1>2. CASE left # right /\ how = "left" /\ Distinct(right)
  BY <1>2, LookedUpLeft DEF JoinedSorted
<1>3. CASE left # right /\ how = "right" /\ Distinct(left)
  <2>1. JoinIs(right, left, "left", sorts, JoinAnswer(right, Whole, IndexerFor(left, right)))
    BY <1>3, LookedUpLeft
  <2>2. JoinIs(left, right, "right", sorts, JoinAnswer(right, IndexerFor(left, right), Whole))
    BY <2>1, MirroredIs
  <2>3. QED
    BY <1>3, <2>2 DEF JoinedSorted
<1>4. CASE left # right /\ ~ (how = "left" /\ Distinct(right)) /\ ~ (how = "right" /\ Distinct(left))
  <2>1. LinesUp(left, right, how, sorts, pairs)
    BY MergedLinesUp
  <2>2. JoinedSorted(left, right, how) = Shortened(left, right, pairs)
    BY <1>4 DEF JoinedSorted
  <2> HIDE DEF pairs
  <2>3. Answers(left, right, pairs, Shortened(left, right, pairs))
    BY <2>1, ShortenedIs DEF LinesUp
  <2>4. QED
    BY <2>1, <2>2, <2>3 DEF JoinIs
<1>5. QED
  BY <1>1, <1>2, <1>3, <1>4
-----------------------------------------------------------------------------
\* Labels put in order are the same labels.
LEMMA InOrderIs ==
  ASSUME NEW labels \in Seq(Int), NEW K, Lists(labels, K)
  PROVE  LET sorted == Taken(labels, Ordered(labels))
         IN  /\ Lists(sorted, K)
             /\ \A k, m \in 1 .. Len(sorted) : k < m => ~ Before(sorted[m], sorted[k])
<1> DEFINE n == Len(labels)
           order == Ordered(labels)
           places == [k \in 1 .. Len(order) |-> order[k] + 1]
           sorted == Taken(labels, order)
<1>1. /\ Lists(order, 0 .. n - 1) /\ Len(order) = n
      /\ \A k, m \in 1 .. Len(order) : k < m => ~ Before(labels[order[m] + 1], labels[order[k] + 1])
  BY OrderedIs
<1>2. n \in Nat
  OBVIOUS
<1> HIDE DEF order, n
<1>3. Lists(places, 1 .. n) /\ Len(places) = n /\ \A k \in 1 .. n : places[k] = order[k] + 1
  BY <1>1, <1>2, CountedFromOne
<1>4. DOMAIN order = 1 .. n
  BY <1>1 DEF Lists, IsSequence
<1> HIDE DEF places
<1>5. sorted = [k \in 1 .. Len(places) |-> labels[places[k]]]
  BY <1>3, <1>4 DEF Taken
<1> HIDE DEF sorted
<1>6. Lists(sorted, K) /\ Len(sorted) = n /\ \A k \in 1 .. n : sorted[k] = labels[places[k]]
  <2>1. Lists(places, 1 .. Len(labels))
    BY <1>3 DEF n
  <2>2. QED
    BY <1>3, <1>5, <2>1, Rearranged
<1>7. \A k, m \in 1 .. n : k < m => ~ Before(sorted[m], sorted[k])
  BY <1>1, <1>3, <1>6
<1>8. QED
  BY <1>6, <1>7 DEF sorted, order

\* Some of the labels of a side without repeats.
LEMMA SomeLabels ==
  ASSUME NEW own \in Seq(Int), Distinct(own), NEW places \in SUBSET (DOMAIN own),
         NEW K, \A x : x \in K <=> \E i \in places : own[i] = x
  PROVE  Lists(AtPlaces(own, places), K) /\ AtPlaces(own, places) \in Seq(Int)
<1> DEFINE order == Sorted(places, <)
           some == AtPlaces(own, places)
<1>1. /\ DOMAIN own = 1 .. Len(own) /\ Len(own) \in Nat
      /\ \A i, j \in DOMAIN own : own[i] = own[j] => i = j
      /\ \A i \in DOMAIN own : own[i] \in Int
  BY DistinctIs
<1>2. Lists(order, places)
  BY <1>1, SortedPlaces
<1>3. some = [k \in DOMAIN order |-> own[order[k]]]
  BY DEF AtPlaces
<1> HIDE DEF order, some
<1>4. /\ Len(order) \in Nat /\ DOMAIN order = 1 .. Len(order)
      /\ \A k \in 1 .. Len(order) : order[k] \in places
      /\ \A x \in places : \E k \in 1 .. Len(order) : order[k] = x
      /\ \A k, m \in 1 .. Len(order) : order[k] = order[m] => k = m
  BY <1>2 DEF Lists, IsSequence
<1>5. /\ \A k \in 1 .. Len(order) : some[k] = own[order[k]]
      /\ some = [k \in 1 .. Len(order) |-> some[k]]
  BY <1>3, <1>4
<1>6. IsSequence(some) /\ Len(some) = Len(order)
  BY <1>4, <1>5, MadeSequence
<1>7. \A x \in K : \E k \in 1 .. Len(some) : some[k] = x
  <2>1. TAKE x \in K
  <2>2. PICK i \in places : own[i] = x
    BY <2>1
  <2>3. PICK k \in 1 .. Len(order) : order[k] = i
    BY <1>4
  <2>4. QED
    BY <1>5, <1>6, <2>2, <2>3
<1>8. \A k, m \in 1 .. Len(some) : some[k] = some[m] => k = m
  <2>1. TAKE k, m \in 1 .. Len(some)
  <2>2. SUFFICES ASSUME some[k] = some[m] PROVE k = m
    OBVIOUS
  <2>3. order[k] \in DOMAIN own /\ order[m] \in DOMAIN own
    BY <1>4, <1>6
  <2>4. order[k] = order[m]
    BY <1>1, <1>5, <1>6, <2>2, <2>3
  <2>5. QED
    BY <1>4, <1>6, <2>4
<1>9. \A k \in 1 .. Len(some) : some[k] \in K /\ some[k] \in Int
  BY <1>1, <1>4, <1>5, <1>6
<1>10. some \in Seq(Int)
  <2>1. some \in [1 .. Len(some) -> Int] /\ Len(some) \in Nat
    BY <1>4, <1>5, <1>6, <1>9
  <2>2. QED
    BY <2>1
<1>11. QED
  BY <1>6, <1>7, <1>8, <1>9, <1>10 DEF Lists, some

LEMMA OneAfterAnother ==
  ASSUME NEW A, NEW f, Lists(f, A), NEW B, NEW g, Lists(g, B), A \cap B = {}
  PROVE  Lists(f \o g, A \cup B)
<1> DEFINE s == f \o g
           n == Len(f)
           m == Len(g)
<1>1. /\ n \in Nat /\ m \in Nat /\ IsSequence(f) /\ IsSequence(g)
  BY DEF Lists, IsSequence
<1>2. /\ IsSequence(s) /\ Len(s) = n + m
      /\ \A i \in 1 .. n : s[i] = f[i]
      /\ \A i \in 1 .. m : s[n + i] = g[i]
  BY <1>1, SequencesJoin
<1>3. /\ \A k \in 1 .. n : f[k] \in A
      /\ \A x \in A : \E k \in 1 .. n : f[k] = x
      /\ \A k, j \in 1 .. n : f[k] = f[j] => k = j
      /\ \A k \in 1 .. m : g[k] \in B
      /\ \A x \in B : \E k \in 1 .. m : g[k] = x
      /\ \A k, j \in 1 .. m : g[k] = g[j] => k = j
  BY DEF Lists
<1> HIDE DEF s, n, m
<1>4. \A k \in 1 .. n + m : k \in 1 .. n \/ (k - n \in 1 .. m /\ k = n + (k - n) /\ k \in Int)
  BY <1>1
<1>5. /\ \A k \in 1 .. n : k \in 1 .. n + m
      /\ \A k \in 1 .. m : n + k \in 1 .. n + m
  BY <1>1
<1>6. ASSUME NEW k \in 1 .. n + m
      PROVE  \/ k \in 1 .. n /\ s[k] = f[k] /\ s[k] \in A
             \/ k - n \in 1 .. m /\ s[k] = g[k - n] /\ s[k] \in B /\ k \in Int
  <2>1. CASE k \in 1 .. n
    BY <1>2, <1>3, <2>1
  <2>2. CASE k - n \in 1 .. m /\ k = n + (k - n) /\ k \in Int
    <3>1. s[n + (k - n)] = g[k - n] /\ g[k - n] \in B
      BY <1>2, <1>3, <2>2
    <3>2. QED
      BY <2>2, <3>1
  <2>3. QED
    BY <1>4, <2>1, <2>2
<1>7. \A x \in A \cup B : \E k \in 1 .. n + m : s[k] = x
  <2>1. ASSUME NEW x \in A PROVE \E k \in 1 .. n + m : s[k] = x
    BY <1>2, <1>3, <1>5
  <2>2. ASSUME NEW x \in B PROVE \E k \in 1 .. n + m : s[k] = x
    <3>1. PICK k \in 1 .. m : g[k] = x
      BY <1>3
    <3>2. s[n + k] = x /\ n + k \in 1 .. n + m
      BY <1>2, <1>5, <3>1
    <3>3. QED
      BY <3>2
  <2>3. QED
    BY <2>1, <2>2
<1>8. \A k, j \in 1 .. n + m : s[k] = s[j] => k = j
  <2>1. TAKE k, j \in 1 .. n + m
  <2>2. SUFFICES ASSUME s[k] = s[j] PROVE k = j
    OBVIOUS
  <2>3. CASE s[k] \in A
    <3>1. s[k] \notin B /\ s[j] \notin B
      BY <2>2, <2>3
    <3>2. k \in 1 .. n /\ j \in 1 .. n /\ f[k] = f[j]
      BY <1>6, <2>2, <3>1
    <3>3. QED
      BY <1>3, <3>2
  <2>4. CASE s[k] \notin A
    <3>1. k - n \in 1 .. m /\ j - n \in 1 .. m /\ g[k - n] = g[j - n] /\ k \in Int /\ j \in Int
      BY <1>6, <2>2, <2>4
    <3>2. k - n = j - n
      BY <1>3, <3>1
    <3>3. QED
      BY <1>1, <3>1, <3>2
  <2>5. QED
    BY <2>3, <2>4
<1>9. \A k \in 1 .. n + m : s[k] \in A \cup B
  BY <1>6
<1>10. QED
  BY <1>2, <1>7, <1>8, <1>9 DEF Lists, s
-----------------------------------------------------------------------------
\* The labels of an inner or outer join of two sides without repeats.
LabelKept(left, right, how, x) ==
  \/ how = "inner" /\ x \in ToSet(left) /\ x \in ToSet(right)
  \/ how = "outer" /\ (x \in ToSet(left) \/ x \in ToSet(right))

\* Each label looked up on both sides.
LEMMA LookedBoth ==
  ASSUME NEW left \in Seq(Int), NEW right \in Seq(Int), Distinct(left), Distinct(right),
         NEW how \in {"inner", "outer"}, NEW sorts \in BOOLEAN,
         NEW K, \A x : x \in K <=> LabelKept(left, right, how, x),
         NEW L, Lists(L, K),
         sorts => \A k, m \in 1 .. Len(L) : k < m => ~ Before(L[m], L[k])
  PROVE  JoinIs(left, right, how, sorts,
                JoinAnswer(L, IndexerFor(left, L), IndexerFor(right, L)))
<1> DEFINE n == Len(L)
           P == Partners(left, right, how)
           f == [k \in 1 .. n |-> <<Exact(left, L[k]), Exact(right, L[k])>>]
           here == IndexerFor(left, L)
           there == IndexerFor(right, L)
<1>1. /\ n \in Nat /\ DOMAIN L = 1 .. n
      /\ \A k \in 1 .. n : L[k] \in K
      /\ \A x \in K : \E k \in 1 .. n : L[k] = x
      /\ \A k, m \in 1 .. n : L[k] = L[m] => k = m
      /\ L = [k \in 1 .. n |-> L[k]]
  BY DEF Lists, IsSequence
<1>2. how \in Hows /\ how # "left" /\ how # "right"
  BY DEF Hows
<1>3. /\ here = [k \in 1 .. n |-> Exact(left, L[k])]
      /\ there = [k \in 1 .. n |-> Exact(right, L[k])]
  <2>1. here = [k \in DOMAIN L |-> Exact(left, L[k])] /\ there = [k \in DOMAIN L |-> Exact(right, L[k])]
    BY IndexerIs
  <2> HIDE DEF here, there
  <2>2. QED
    BY <1>1, <2>1
<1>4. /\ f = [k \in 1 .. n |-> f[k]]
      /\ \A k \in 1 .. n : f[k] = <<Exact(left, L[k]), Exact(right, L[k])>>
  OBVIOUS
<1> HIDE DEF n, f, here, there
<1>5. IsSequence(f) /\ Len(f) = n
  BY <1>1, <1>4, MadeSequence
<1>6. ASSUME NEW k \in 1 .. n PROVE f[k] \in P /\ LabelOf(left, right, f[k]) = L[k]
  <2>1. /\ L[k] \notin ToSet(left) => Exact(left, L[k]) = Nowhere
        /\ L[k] \in ToSet(left) => \E i \in DOMAIN left :
             left[i] = L[k] /\ Exact(left, L[k]) = i - 1 /\ i - 1 # Nowhere
    BY FoundOrNot
  <2>2. /\ L[k] \notin ToSet(right) => Exact(right, L[k]) = Nowhere
        /\ L[k] \in ToSet(right) => \E j \in DOMAIN right :
             right[j] = L[k] /\ Exact(right, L[k]) = j - 1 /\ j - 1 # Nowhere
    BY FoundOrNot
  <2>3. LabelKept(left, right, how, L[k])
    BY <1>1
  <2>a. f[k] = <<Exact(left, L[k]), Exact(right, L[k])>>
    BY <1>4
  <2>4. CASE L[k] \in ToSet(left) /\ L[k] \in ToSet(right)
    <3>1. PICK i \in DOMAIN left : left[i] = L[k] /\ Exact(left, L[k]) = i - 1 /\ i - 1 # Nowhere
      BY <2>1, <2>4
    <3>2. PICK j \in DOMAIN right : right[j] = L[k] /\ Exact(right, L[k]) = j - 1
      BY <2>2, <2>4
    <3>3. f[k] = <<i - 1, j - 1>> /\ f[k][1] = i - 1 /\ (i - 1) + 1 = i
      BY <2>a, <3>1, <3>2
    <3>4. Meets(left, right, f[k])
      BY <3>1, <3>2, <3>3 DEF Meets
    <3>5. LabelOf(left, right, f[k]) = L[k]
      BY <3>1, <3>3 DEF LabelOf
    <3>6. QED
      BY <3>4, <3>5, PartnersAre
  <2>5. CASE L[k] \in ToSet(left) /\ L[k] \notin ToSet(right)
    <3>1. PICK i \in DOMAIN left : left[i] = L[k] /\ Exact(left, L[k]) = i - 1 /\ i - 1 # Nowhere
      BY <2>1, <2>5
    <3>2. how = "outer"
      BY <2>3, <2>5 DEF LabelKept
    <3>3. f[k] = <<i - 1, Nowhere>> /\ f[k][1] = i - 1 /\ (i - 1) + 1 = i
      BY <2>2, <2>5, <2>a, <3>1
    <3>4. AloneLeft(left, right, f[k])
      BY <2>5, <3>1, <3>3 DEF AloneLeft
    <3>5. LabelOf(left, right, f[k]) = L[k]
      BY <3>1, <3>3 DEF LabelOf
    <3>6. QED
      BY <3>2, <3>4, <3>5, PartnersAre
  <2>6. CASE L[k] \notin ToSet(left) /\ L[k] \in ToSet(right)
    <3>1. PICK j \in DOMAIN right : right[j] = L[k] /\ Exact(right, L[k]) = j - 1
      BY <2>2, <2>6
    <3>2. how = "outer"
      BY <2>3, <2>6 DEF LabelKept
    <3>3. f[k] = <<Nowhere, j - 1>> /\ f[k][1] = Nowhere /\ f[k][2] = j - 1 /\ (j - 1) + 1 = j
      BY <2>1, <2>6, <2>a, <3>1
    <3>4. AloneRight(left, right, f[k])
      BY <2>6, <3>1, <3>3 DEF AloneRight
    <3>5. LabelOf(left, right, f[k]) = L[k]
      BY <3>1, <3>3 DEF LabelOf
    <3>6. QED
      BY <3>2, <3>4, <3>5, PartnersAre
  <2>7. QED
    BY <2>3, <2>4, <2>5, <2>6 DEF LabelKept
<1>7. ASSUME NEW p \in P PROVE \E k \in 1 .. n : f[k] = p
  <2>1. \/ Meets(left, right, p)
        \/ how = "outer" /\ AloneLeft(left, right, p)
        \/ how = "outer" /\ AloneRight(left, right, p)
    BY <1>2, PartnersAre
  <2>2. CASE Meets(left, right, p)
    <3>1. PICK i \in DOMAIN left, j \in DOMAIN right : left[i] = right[j] /\ p = <<i - 1, j - 1>>
      BY <2>2 DEF Meets
    <3>2. Exact(left, left[i]) = i - 1 /\ Exact(right, right[j]) = j - 1
      BY DistinctIs
    <3>3. left[i] \in K
      <4>1. left[i] \in ToSet(left) /\ left[i] \in ToSet(right)
        BY <3>1 DEF ToSet
      <4>2. QED
        BY <4>1 DEF LabelKept
    <3>4. PICK k \in 1 .. n : L[k] = left[i]
      BY <1>1, <3>3
    <3>5. QED
      BY <1>4, <3>1, <3>2, <3>4
  <2>3. CASE how = "outer" /\ AloneLeft(left, right, p)
    <3>1. PICK i \in DOMAIN left : left[i] \notin ToSet(right) /\ p = <<i - 1, Nowhere>>
      BY <2>3 DEF AloneLeft
    <3>2. Exact(left, left[i]) = i - 1 /\ Exact(right, left[i]) = Nowhere
      BY <3>1, DistinctIs, FoundOrNot
    <3>3. left[i] \in K
      <4>1. left[i] \in ToSet(left)
        BY DEF ToSet
      <4>2. QED
        BY <2>3, <4>1 DEF LabelKept
    <3>4. PICK k \in 1 .. n : L[k] = left[i]
      BY <1>1, <3>3
    <3>5. QED
      BY <1>4, <3>1, <3>2, <3>4
  <2>4. CASE how = "outer" /\ AloneRight(left, right, p)
    <3>1. PICK j \in DOMAIN right : right[j] \notin ToSet(left) /\ p = <<Nowhere, j - 1>>
      BY <2>4 DEF AloneRight
    <3>2. Exact(right, right[j]) = j - 1 /\ Exact(left, right[j]) = Nowhere
      BY <3>1, DistinctIs, FoundOrNot
    <3>3. right[j] \in K
      <4>1. right[j] \in ToSet(right)
        BY DEF ToSet
      <4>2. QED
        BY <2>4, <4>1 DEF LabelKept
    <3>4. PICK k \in 1 .. n : L[k] = right[j]
      BY <1>1, <3>3
    <3>5. QED
      BY <1>4, <3>1, <3>2, <3>4
  <2>5. QED
    BY <2>1, <2>2, <2>3, <2>4
<1>8. \A k, m \in 1 .. n : f[k] = f[m] => k = m
  <2>1. TAKE k, m \in 1 .. n
  <2>2. SUFFICES ASSUME f[k] = f[m] PROVE k = m
    OBVIOUS
  <2>3. L[k] = L[m]
    BY <1>6, <2>2
  <2>4. QED
    BY <1>1, <2>3
<1>9. Lists(f, P)
  BY <1>5, <1>6, <1>7, <1>8 DEF Lists
<1>10. LinesUp(left, right, how, sorts, f)
  <2>1. sorts => \A k, m \in 1 .. Len(f) : k < m =>
          ~ Before(LabelOf(left, right, f[m]), LabelOf(left, right, f[k]))
    BY <1>5, <1>6 DEF n
  <2>2. QED
    BY <1>2, <1>9, <2>1 DEF LinesUp
<1>11. \A k \in 1 .. n : /\ here[k] = f[k][1] /\ there[k] = f[k][2]
                         /\ here[k] \in Int /\ here[k] >= Nowhere
                         /\ there[k] \in Int /\ there[k] >= Nowhere
  <2>1. TAKE k \in 1 .. n
  <2>2. here[k] = f[k][1] /\ there[k] = f[k][2]
    BY <1>3, <1>4
  <2>3. f[k] \in Partners(left, right, how)
    BY <1>6
  <2>4. QED
    BY <1>2, <2>2, <2>3, PlacesOfRows
<1>12. PlacesOf(here, left) = [k \in 1 .. n |-> f[k][1]]
  <2>1. here = [k \in 1 .. n |-> here[k]] /\ here = [k \in 1 .. n |-> f[k][1]]
    BY <1>3, <1>11
  <2>2. \A k \in 1 .. n : here[k] \in Int /\ here[k] >= Nowhere
    BY <1>11
  <2>3. QED
    BY <1>1, <2>1, <2>2, PlacesAreRead
<1>a. PlacesOf(there, right) = [k \in 1 .. n |-> f[k][2]]
  <2>1. there = [k \in 1 .. n |-> there[k]] /\ there = [k \in 1 .. n |-> f[k][2]]
    BY <1>3, <1>11
  <2>2. \A k \in 1 .. n : there[k] \in Int /\ there[k] >= Nowhere
    BY <1>11
  <2>3. QED
    BY <1>1, <2>1, <2>2, PlacesAreRead
<1>13. L = [k \in 1 .. n |-> LabelOf(left, right, f[k])]
  BY <1>1, <1>6
<1>14. Answers(left, right, f, JoinAnswer(L, here, there))
  BY <1>5, <1>12, <1>a, <1>13 DEF Answers, LeftPlaces, RightPlaces, RowLabels, JoinAnswer
<1>15. QED
  BY <1>10, <1>14 DEF JoinIs, here, there
-----------------------------------------------------------------------------
\* The labels both sides have, and the labels either has.
SharedOf(left, right) == AtPlaces(left, {i \in DOMAIN left : left[i] \in ToSet(right)})
EveryOf(left, right) == left \o AtPlaces(right, {j \in DOMAIN right : right[j] \notin ToSet(left)})
InOrder1(own) == Taken(own, Ordered(own))

LEMMA SharedAre ==
  ASSUME NEW left \in Seq(Int), NEW right \in Seq(Int), Distinct(left)
  PROVE  /\ Lists(SharedOf(left, right), ToSet(left) \cap ToSet(right))
         /\ SharedOf(left, right) \in Seq(Int)
<1> DEFINE places == {i \in DOMAIN left : left[i] \in ToSet(right)}
           K == ToSet(left) \cap ToSet(right)
<1>1. \A x \in K : \E i \in places : left[i] = x
  BY DEF ToSet
<1>2. \A i \in places : left[i] \in K
  BY DEF ToSet
<1>3. places \in SUBSET (DOMAIN left)
  OBVIOUS
<1> HIDE DEF places, K
<1>4. \A x : x \in K <=> \E i \in places : left[i] = x
  BY <1>1, <1>2
<1>5. Lists(AtPlaces(left, places), K) /\ AtPlaces(left, places) \in Seq(Int)
  BY <1>3, <1>4, SomeLabels
<1>6. QED
  BY <1>5 DEF SharedOf, places, K

LEMMA EveryAre ==
  ASSUME NEW left \in Seq(Int), NEW right \in Seq(Int), Distinct(left), Distinct(right)
  PROVE  /\ Lists(EveryOf(left, right), ToSet(left) \cup ToSet(right))
         /\ EveryOf(left, right) \in Seq(Int)
<1> DEFINE places == {j \in DOMAIN right : right[j] \notin ToSet(left)}
           A == ToSet(left)
           B == {x \in ToSet(right) : x \notin A}
           rest == AtPlaces(right, places)
<1>1. \A x \in B : \E j \in places : right[j] = x
  BY DEF ToSet
<1>2. \A j \in places : right[j] \in B
  BY DEF ToSet
<1>3. places \in SUBSET (DOMAIN right)
  OBVIOUS
<1>4. A \cap B = {} /\ A \cup B = ToSet(left) \cup ToSet(right)
  OBVIOUS
<1>5. Lists(left, A)
  BY DistinctIs
<1> HIDE DEF places, A, B
<1>6. \A x : x \in B <=> \E j \in places : right[j] = x
  BY <1>1, <1>2
<1>7. Lists(rest, B) /\ rest \in Seq(Int)
  BY <1>3, <1>6, SomeLabels
<1>8. EveryOf(left, right) = left \o rest
  BY DEF EveryOf, places
<1> HIDE DEF rest
<1>9. Lists(left \o rest, A \cup B)
  BY <1>4, <1>5, <1>7, OneAfterAnother
<1>10. left \o rest \in Seq(Int)
  BY <1>7
<1>11. QED
  BY <1>4, <1>8, <1>9, <1>10

LEMMA LookedUpIs ==
  ASSUME NEW left \in Seq(Int), NEW right \in Seq(Int), Distinct(left), Distinct(right),
         NEW how \in Hows, NEW sorts \in BOOLEAN, how = "outer" => sorts
  PROVE  JoinIs(left, right, how, sorts, JoinedLookedUp(left, right, how, sorts))
<1> DEFINE shared == SharedOf(left, right)
           every == EveryOf(left, right)
<1>1. CASE how = "left" /\ ~sorts
  <2>1. JoinedLookedUp(left, right, how, sorts) = JoinAnswer(left, Whole, IndexerFor(right, left))
    BY <1>1 DEF JoinedLookedUp
  <2>2. JoinIs(left, right, "left", FALSE, JoinAnswer(left, Whole, IndexerFor(right, left)))
    BY LookedUpLeft
  <2>3. sorts = FALSE
    BY <1>1
  <2>4. QED
    BY <1>1, <2>1, <2>2, <2>3
<1>2. CASE how = "left" /\ sorts
  <2>1. JoinedLookedUp(left, right, how, sorts) =
          JoinAnswer(Taken(left, Ordered(left)), Ordered(left), IndexerFor(right, Taken(left, Ordered(left))))
    BY <1>2 DEF JoinedLookedUp
  <2>2. sorts = TRUE
    BY <1>2
  <2>3. QED
    BY <1>2, <2>1, <2>2, LookedUpInOrder
<1>3. CASE how = "right" /\ ~sorts
  <2>1. JoinedLookedUp(left, right, how, sorts) = JoinAnswer(right, IndexerFor(left, right), Whole)
    BY <1>3 DEF JoinedLookedUp
  <2>2. JoinIs(right, left, "left", FALSE, JoinAnswer(right, Whole, IndexerFor(left, right)))
    BY LookedUpLeft
  <2>3. JoinIs(left, right, "right", FALSE, JoinAnswer(right, IndexerFor(left, right), Whole))
    BY <2>2, MirroredIs
  <2>4. sorts = FALSE
    BY <1>3
  <2>5. QED
    BY <1>3, <2>1, <2>3, <2>4
<1>4. CASE how = "right" /\ sorts
  <2> DEFINE order == Ordered(right)
             labels == Taken(right, order)
             hits == IndexerFor(left, labels)
  <2>1. JoinedLookedUp(left, right, how, sorts) = JoinAnswer(labels, hits, order)
    BY <1>4 DEF JoinedLookedUp
  <2>2. JoinIs(right, left, "left", TRUE, JoinAnswer(labels, order, hits))
    BY LookedUpInOrder
  <2> HIDE DEF order, labels, hits
  <2>3. JoinIs(left, right, "right", TRUE, JoinAnswer(labels, hits, order))
    BY <2>2, MirroredIs
  <2>4. sorts = TRUE
    BY <1>4
  <2>5. QED
    BY <1>4, <2>1, <2>3, <2>4
<1>5. CASE how = "inner"
  <2> DEFINE K == ToSet(left) \cap ToSet(right)
             L == IF sorts THEN InOrder1(shared) ELSE shared
  <2>1. JoinedLookedUp(left, right, how, sorts) =
          JoinAnswer(L, IndexerFor(left, L), IndexerFor(right, L))
    BY <1>5 DEF JoinedLookedUp, SharedOf, InOrder1
  <2>2. Lists(shared, K) /\ shared \in Seq(Int)
    BY SharedAre
  <2>3. \A x : x \in K <=> LabelKept(left, right, how, x)
    BY <1>5 DEF LabelKept
  <2> HIDE DEF shared, K
  <2>4. /\ Lists(InOrder1(shared), K)
        /\ \A k, m \in 1 .. Len(InOrder1(shared)) : k < m => ~ Before(InOrder1(shared)[m], InOrder1(shared)[k])
    BY <2>2, InOrderIs DEF InOrder1
  <2>5. Lists(L, K) /\ (sorts => \A k, m \in 1 .. Len(L) : k < m => ~ Before(L[m], L[k]))
    BY <2>2, <2>4
  <2> HIDE DEF L
  <2>6. JoinIs(left, right, how, sorts, JoinAnswer(L, IndexerFor(left, L), IndexerFor(right, L)))
    <3>1. how \in {"inner", "outer"}
      BY <1>5
    <3>2. QED
      BY <2>3, <2>5, <3>1, LookedBoth
  <2>7. QED
    BY <2>1, <2>6
<1>6. CASE how = "outer"
  <2> DEFINE K == ToSet(left) \cup ToSet(right)
             L == InOrder1(every)
  <2>1. JoinedLookedUp(left, right, how, sorts) =
          JoinAnswer(L, IndexerFor(left, L), IndexerFor(right, L))
    BY <1>6 DEF JoinedLookedUp, EveryOf, InOrder1
  <2>2. Lists(every, K) /\ every \in Seq(Int)
    BY EveryAre
  <2>3. \A x : x \in K <=> LabelKept(left, right, how, x)
    BY <1>6 DEF LabelKept
  <2> HIDE DEF every, K
  <2>4. Lists(L, K) /\ \A k, m \in 1 .. Len(L) : k < m => ~ Before(L[m], L[k])
    BY <2>2, InOrderIs DEF InOrder1
  <2> HIDE DEF L
  <2>5. JoinIs(left, right, how, sorts, JoinAnswer(L, IndexerFor(left, L), IndexerFor(right, L)))
    <3>1. how \in {"inner", "outer"}
      BY <1>6
    <3>2. QED
      BY <2>3, <2>4, <3>1, LookedBoth
  <2>6. QED
    BY <2>1, <2>5
<1>7. QED
  BY <1>1, <1>2, <1>3, <1>4, <1>5, <1>6 DEF Hows
-----------------------------------------------------------------------------
LEMMA NoneAtAll ==
  ASSUME NEW left \in Seq(Int), NEW right \in Seq(Int), NEW how, NEW sorts \in BOOLEAN,
         Partners(left, right, how) = {},
         NEW here, NEW there, PlacesOf(here, left) = <<>>, PlacesOf(there, right) = <<>>
  PROVE  JoinIs(left, right, how, sorts, JoinAnswer(<<>>, here, there))
<1> DEFINE f == <<>>
<1>1. /\ Len(f) = 0 /\ DOMAIN f = 1 .. 0 /\ IsSequence(f) /\ \A k : k \notin 1 .. 0
  BY DEF IsSequence
<1>2. Lists(f, {}) /\ Climbs(f, ByPlaces)
  BY <1>1 DEF Lists, Climbs
<1>3. Flipped(f) = <<>>
  BY <1>1 DEF Flipped
<1>4. LinesUp(left, right, how, sorts, f)
  BY <1>1, <1>2, <1>3 DEF LinesUp
<1>5. LeftPlaces(f) = <<>> /\ RightPlaces(f) = <<>> /\ RowLabels(left, right, f) = <<>>
  BY <1>1 DEF LeftPlaces, RightPlaces, RowLabels
<1>6. Answers(left, right, f, JoinAnswer(<<>>, here, there))
  BY <1>5 DEF Answers, JoinAnswer
<1>7. QED
  BY <1>4, <1>6 DEF JoinIs

\* When no row is only an outer join's, its rows are those of another join.
LEMMA AsOuter ==
  ASSUME NEW left, NEW right, NEW how, NEW sorts \in BOOLEAN,
         Partners(left, right, how) = Partners(left, right, "outer"),
         NEW answer, JoinIs(left, right, how, sorts, answer)
  PROVE  JoinIs(left, right, "outer", sorts, answer)
<1>1. PICK pairs : LinesUp(left, right, how, sorts, pairs) /\ Answers(left, right, pairs, answer)
  BY DEF JoinIs
<1>2. LinesUp(left, right, "outer", sorts, pairs)
  BY <1>1 DEF LinesUp
<1>3. QED
  BY <1>1, <1>2 DEF JoinIs

\* A left join with a side that has no labels.
WithNone(own, sorts) ==
  IF sorts /\ ~ Rises(own)
  THEN <<Taken(own, Ordered(own)), Ordered(own), [i \in DOMAIN own |-> Nowhere]>>
  ELSE <<own, Whole, [i \in DOMAIN own |-> Nowhere]>>

LEMMA WithNoneIs ==
  ASSUME NEW own \in Seq(Int), NEW sorts \in BOOLEAN
  PROVE  JoinIs(own, <<>>, "left", sorts,
                JoinAnswer(WithNone(own, sorts)[1], WithNone(own, sorts)[2], WithNone(own, sorts)[3]))
<1> DEFINE n == Len(own)
           missing == [i \in DOMAIN own |-> Nowhere]
           order == Ordered(own)
           labels == Taken(own, order)
<1>1. <<>> \in Seq(Int) /\ Distinct(<<>>)
  <2>1. ToSet(<<>>) = {} /\ Len(<<>>) = 0
    BY DEF ToSet
  <2>2. Cardinality({}) = 0
    BY FS_EmptySet
  <2>3. Cardinality(ToSet(<<>>)) = Len(<<>>)
    BY <2>1, <2>2
  <2>4. Distinct(<<>>)
    BY <2>3 DEF Distinct
  <2>5. <<>> \in Seq(Int)
    OBVIOUS
  <2>6. QED
    BY <2>4, <2>5
<1>2. \A x : Exact(<<>>, x) = Nowhere
  BY DEF Exact
<1>3. IndexerFor(<<>>, own) = missing
  <2>1. IndexerFor(<<>>, own) = [i \in DOMAIN own |-> Exact(<<>>, own[i])]
    BY <1>1, IndexerIs
  <2>2. QED
    BY <1>2, <2>1
<1>4. DOMAIN labels = DOMAIN own
  <2>1. order = [k \in 1 .. n |-> order[k]]
    BY OrderedIs
  <2>2. DOMAIN own = 1 .. n
    OBVIOUS
  <2> HIDE DEF order, n
  <2>3. DOMAIN order = DOMAIN own
    BY <2>1, <2>2
  <2>4. QED
    BY <2>3 DEF Taken
<1>5. IndexerFor(<<>>, labels) = missing
  <2> HIDE DEF labels
  <2>1. IndexerFor(<<>>, labels) = [i \in DOMAIN labels |-> Exact(<<>>, labels[i])]
    BY <1>1, IndexerIs
  <2>2. QED
    BY <1>2, <1>4, <2>1
<1>6. CASE sorts /\ ~ Rises(own)
  <2>1. JoinIs(own, <<>>, "left", TRUE, JoinAnswer(labels, order, IndexerFor(<<>>, labels)))
    BY <1>1, LookedUpInOrder
  <2>2. JoinIs(own, <<>>, "left", TRUE, JoinAnswer(labels, order, missing))
    BY <1>5, <2>1
  <2>3. sorts = TRUE
    BY <1>6
  <2>4. WithNone(own, sorts) = <<labels, order, missing>>
    BY <1>6 DEF WithNone
  <2> HIDE DEF labels, order, missing
  <2>5. /\ WithNone(own, sorts)[1] = labels /\ WithNone(own, sorts)[2] = order
        /\ WithNone(own, sorts)[3] = missing
    BY <2>4
  <2>6. QED
    BY <2>2, <2>3, <2>5
<1>7. CASE ~ (sorts /\ ~ Rises(own))
  <2>1. JoinIs(own, <<>>, "left", sorts, JoinAnswer(own, Whole, IndexerFor(<<>>, own)))
    BY <1>1, <1>7, LookedUpLeft
  <2>2. WithNone(own, sorts) = <<own, Whole, missing>>
    BY <1>7 DEF WithNone
  <2> HIDE DEF missing
  <2>3. QED
    BY <1>3, <2>1, <2>2
<1>8. QED
  BY <1>6, <1>7

LEMMA EmptyIs ==
  ASSUME NEW left \in Seq(Int), NEW right \in Seq(Int), left = <<>> \/ right = <<>>,
         NEW how \in Hows, NEW sorts \in BOOLEAN
  PROVE  JoinIs(left, right, how, sorts, JoinedEmpty(left, right, how, sorts))
<1>1. \A p : ~ Meets(left, right, p)
  BY DEF Meets
<1>2. /\ right = <<>> => \A p : ~ AloneRight(left, right, p)
      /\ left = <<>> => \A p : ~ AloneLeft(left, right, p)
  BY DEF AloneRight, AloneLeft
<1>3. PlacesOf(<<>>, left) = <<>> /\ PlacesOf(<<>>, right) = <<>>
  <2>1. <<>> # Whole
    <3>1. <<-3>> # <<>>
      <4>1. Len(<<-3>>) = 1 /\ Len(<<>>) = 0
        OBVIOUS
      <4>2. QED
        BY <4>1
    <3>2. QED
      BY <3>1 DEF Whole
  <2>2. QED
    BY <2>1 DEF PlacesOf
<1>4. PlacesOf(Whole, <<>>) = <<>>
  BY DEF PlacesOf
<1>5. CASE right = <<>> /\ how \in {"left", "outer"}
  <2> DEFINE a == JoinAnswer(WithNone(left, sorts)[1], WithNone(left, sorts)[2], WithNone(left, sorts)[3])
  <2>1. JoinedEmpty(left, right, how, sorts) = a
    BY <1>5 DEF JoinedEmpty, WithNone
  <2>2. JoinIs(left, right, "left", sorts, a)
    BY <1>5, WithNoneIs
  <2> HIDE DEF a
  <2>3. Partners(left, right, "left") = Partners(left, right, "outer")
    <3>1. \A p : p \in Partners(left, right, "left") <=> p \in Partners(left, right, "outer")
      BY <1>2, <1>5, PartnersAre
    <3>2. QED
      BY <3>1
  <2>4. JoinIs(left, right, "outer", sorts, a)
    BY <2>2, <2>3, AsOuter
  <2>5. QED
    BY <1>5, <2>1, <2>2, <2>4
<1>6. CASE right = <<>> /\ how \notin {"left", "outer"}
  <2>1. JoinedEmpty(left, right, how, sorts) = JoinAnswer(<<>>, <<>>, Whole)
    BY <1>6 DEF JoinedEmpty
  <2>2. Partners(left, right, how) = {}
    <3>1. \A p : p \notin Partners(left, right, how)
      BY <1>1, <1>2, <1>6, PartnersAre
    <3>2. QED
      BY <3>1
  <2>3. PlacesOf(Whole, right) = <<>>
    BY <1>4, <1>6
  <2>4. QED
    BY <1>3, <2>1, <2>2, <2>3, NoneAtAll
<1>7. CASE right # <<>> /\ how \in {"right", "outer"}
  <2> DEFINE w == WithNone(right, sorts)
             a == JoinAnswer(w[1], w[3], w[2])
  <2>1. JoinedEmpty(left, right, how, sorts) = a
    BY <1>7 DEF JoinedEmpty, WithNone
  <2>2. JoinIs(right, left, "left", sorts, JoinAnswer(w[1], w[2], w[3]))
    BY <1>7, WithNoneIs
  <2> HIDE DEF w
  <2>3. JoinIs(left, right, "right", sorts, a)
    BY <2>2, MirroredIs
  <2> HIDE DEF a
  <2>4. Partners(left, right, "right") = Partners(left, right, "outer")
    <3>1. \A p : p \in Partners(left, right, "right") <=> p \in Partners(left, right, "outer")
      BY <1>2, <1>7, PartnersAre
    <3>2. QED
      BY <3>1
  <2>5. JoinIs(left, right, "outer", sorts, a)
    BY <2>3, <2>4, AsOuter
  <2>6. QED
    BY <1>7, <2>1, <2>3, <2>5
<1>8. CASE right # <<>> /\ how \notin {"right", "outer"}
  <2>1. JoinedEmpty(left, right, how, sorts) = JoinAnswer(<<>>, Whole, <<>>)
    BY <1>8 DEF JoinedEmpty
  <2>2. Partners(left, right, how) = {}
    <3>1. \A p : p \notin Partners(left, right, how)
      BY <1>1, <1>2, <1>8, PartnersAre
    <3>2. QED
      BY <3>1
  <2>3. PlacesOf(Whole, left) = <<>>
    BY <1>4, <1>8
  <2>4. QED
    BY <1>3, <2>1, <2>2, <2>3, NoneAtAll
<1>9. QED
  BY <1>5, <1>6, <1>7, <1>8

\* Whichever path a join takes.
LEMMA JoinedIs ==
  ASSUME NEW left \in Seq(Int), NEW right \in Seq(Int), NEW how \in Hows,
         NEW sort \in BOOLEAN, NEW alike \in BOOLEAN
  PROVE  JoinIs(left, right, how, Sorts(left, right, how, sort, alike),
                Joined(left, right, how, sort, alike))
<1> DEFINE sorts == Sorts(left, right, how, sort, alike)
<1>1. sorts \in BOOLEAN /\ (how = "outer" => sorts)
  BY DEF Sorts
<1>2. Joined(left, right, how, sort, alike) =
        IF left = <<>> \/ right = <<>> THEN JoinedEmpty(left, right, how, sorts)
        ELSE IF Rises(left) /\ Rises(right) /\ (Distinct(left) \/ Distinct(right))
        THEN JoinedSorted(left, right, how)
        ELSE IF ~Distinct(left) \/ ~Distinct(right) THEN JoinedMerge(left, right, how, sorts)
        ELSE JoinedLookedUp(left, right, how, sorts)
  BY DEF Joined
<1> HIDE DEF sorts
<1>3. CASE left = <<>> \/ right = <<>>
  BY <1>1, <1>2, <1>3, EmptyIs DEF sorts
<1>4. CASE ~ (left = <<>> \/ right = <<>>) /\ Rises(left) /\ Rises(right) /\ (Distinct(left) \/ Distinct(right))
  BY <1>1, <1>2, <1>4, SortedIs DEF sorts
<1>5. CASE /\ ~ (left = <<>> \/ right = <<>>)
           /\ ~ (Rises(left) /\ Rises(right) /\ (Distinct(left) \/ Distinct(right)))
           /\ ~Distinct(left) \/ ~Distinct(right)
  BY <1>1, <1>2, <1>5, MergeIs DEF sorts
<1>6. CASE /\ ~ (left = <<>> \/ right = <<>>)
           /\ ~ (Rises(left) /\ Rises(right) /\ (Distinct(left) \/ Distinct(right)))
           /\ ~ (~Distinct(left) \/ ~Distinct(right))
  BY <1>1, <1>2, <1>6, LookedUpIs DEF sorts
<1>7. QED
  BY <1>3, <1>4, <1>5, <1>6
-----------------------------------------------------------------------------
\* Every place of a label, or that it has none.
HitsOf(own, label) == IF RowsWith(own, label) = <<>> THEN <<Nowhere>> ELSE RowsWith(own, label)

LEMMA HitsAre ==
  ASSUME NEW own \in Seq(Int), NEW label
  PROVE  /\ IsSequence(HitsOf(own, label)) /\ Climbs(HitsOf(own, label), Upwards)
         /\ \A y : (\E k \in 1 .. Len(HitsOf(own, label)) : HitsOf(own, label)[k] = y)
                   <=> \/ y \in PlacesWith(own, label)
                       \/ y = Nowhere /\ label \notin ToSet(own)
<1> DEFINE rows == RowsWith(own, label)
           W == PlacesWith(own, label)
           h == HitsOf(own, label)
<1>1. Lists(rows, W) /\ Climbs(rows, Upwards)
  BY RowsWithAre
<1>2. /\ IsSequence(rows) /\ \A k \in 1 .. Len(rows) : rows[k] \in W
      /\ \A x \in W : \E k \in 1 .. Len(rows) : rows[k] = x
  BY <1>1 DEF Lists
<1>3. W = {} <=> label \notin ToSet(own)
  BY DEF PlacesWith, ToSet
<1>4. h = IF rows = <<>> THEN <<Nowhere>> ELSE rows
  BY DEF HitsOf
<1> HIDE DEF rows, W, h
<1>5. CASE rows = <<>>
  <2>1. h = <<Nowhere>>
    BY <1>4, <1>5
  <2>2. Len(rows) = 0
    BY <1>5
  <2>3. W = {}
    BY <1>2, <2>2
  <2>4. Len(h) = 1 /\ h[1] = Nowhere /\ IsSequence(h)
    BY <2>1 DEF IsSequence
  <2>5. Climbs(h, Upwards)
    BY <2>4 DEF Climbs
  <2>6. \A y : (\E k \in 1 .. Len(h) : h[k] = y) <=> y = Nowhere
    BY <2>4
  <2>7. QED
    BY <1>3, <2>3, <2>4, <2>5, <2>6 DEF h, W
<1>6. CASE rows # <<>>
  <2>1. h = rows
    BY <1>4, <1>6
  <2>2. Len(rows) # 0 /\ Len(rows) \in Nat
    <3>1. Len(rows) \in Nat /\ rows = [k \in 1 .. Len(rows) |-> rows[k]]
      BY <1>2 DEF IsSequence
    <3>2. Len(rows) = 0 => rows = <<>>
      BY <3>1
    <3>3. QED
      BY <1>6, <3>1, <3>2
  <2>3. W # {}
    BY <1>2, <2>2
  <2>4. \A y : (\E k \in 1 .. Len(h) : h[k] = y) <=> y \in W
    BY <1>2, <2>1
  <2>5. QED
    BY <1>1, <1>2, <1>3, <2>1, <2>3, <2>4 DEF h, W
<1>7. QED
  BY <1>5, <1>6

\* The rows of one left label in a left join are its hits.
HitPairs(own, target, t) ==
  [k \in 1 .. Len(HitsOf(own, target[t])) |-> <<t - 1, HitsOf(own, target[t])[k]>>]
RowsAt(own, target, t) == {p \in Partners(target, own, "left") : p[1] = t - 1}

LEMMA HitPairsAre ==
  ASSUME NEW own \in Seq(Int), NEW target \in Seq(Int), NEW t \in 1 .. Len(target)
  PROVE  /\ Lists(HitPairs(own, target, t), RowsAt(own, target, t))
         /\ Climbs(HitPairs(own, target, t), ByPlaces)
         /\ Len(HitPairs(own, target, t)) = Len(HitsOf(own, target[t]))
<1> DEFINE label == target[t]
           h == HitsOf(own, label)
           W == PlacesWith(own, label)
           z == HitPairs(own, target, t)
           R == RowsAt(own, target, t)
           P == Partners(target, own, "left")
<1>1. /\ IsSequence(h) /\ Climbs(h, Upwards)
      /\ \A y : (\E k \in 1 .. Len(h) : h[k] = y) <=> (y \in W \/ (y = Nowhere /\ label \notin ToSet(own)))
  BY HitsAre
<1>2. Len(h) \in Nat /\ z = [k \in 1 .. Len(h) |-> z[k]] /\ \A k \in 1 .. Len(h) : z[k] = <<t - 1, h[k]>>
  BY <1>1 DEF HitPairs, IsSequence
<1>3. t \in DOMAIN target /\ t \in Int /\ \A i \in DOMAIN target : i \in Int
  OBVIOUS
<1>4. \A p : p \in P <=> Meets(target, own, p) \/ AloneLeft(target, own, p)
  BY PartnersAre
<1>5. \A p : p \in R <=> p \in P /\ p[1] = t - 1
  BY DEF RowsAt
<1>6. \A y : y \in W <=> \E j \in DOMAIN own : own[j] = label /\ y = j - 1
  BY DEF PlacesWith
<1> HIDE DEF h, W, z, R, P
<1>7. ASSUME NEW y PROVE y \in W => <<t - 1, y>> \in R
  <2>1. SUFFICES ASSUME y \in W PROVE <<t - 1, y>> \in R
    OBVIOUS
  <2>2. PICK j \in DOMAIN own : own[j] = label /\ y = j - 1
    BY <1>6, <2>1
  <2>3. Meets(target, own, <<t - 1, y>>)
    BY <1>3, <2>2 DEF Meets
  <2>4. QED
    BY <1>4, <1>5, <2>3
<1>8. label \notin ToSet(own) => <<t - 1, Nowhere>> \in R
  <2>1. SUFFICES ASSUME label \notin ToSet(own) PROVE <<t - 1, Nowhere>> \in R
    OBVIOUS
  <2>2. AloneLeft(target, own, <<t - 1, Nowhere>>)
    BY <1>3, <2>1 DEF AloneLeft
  <2>3. QED
    BY <1>4, <1>5, <2>2
<1>9. ASSUME NEW p \in R
      PROVE  /\ p = <<t - 1, p[2]>>
             /\ p[2] \in W \/ (p[2] = Nowhere /\ label \notin ToSet(own))
  <2>1. p[1] = t - 1 /\ (Meets(target, own, p) \/ AloneLeft(target, own, p))
    BY <1>4, <1>5
  <2>2. CASE Meets(target, own, p)
    <3>1. PICK i \in DOMAIN target, j \in DOMAIN own : target[i] = own[j] /\ p = <<i - 1, j - 1>>
      BY <2>2 DEF Meets
    <3>2. p[1] = i - 1 /\ p[2] = j - 1
      BY <3>1
    <3>3. i = t
      BY <1>3, <2>1, <3>2
    <3>4. p[2] \in W
      BY <1>6, <3>1, <3>2, <3>3
    <3>5. QED
      BY <3>1, <3>2, <3>3, <3>4
  <2>3. CASE AloneLeft(target, own, p)
    <3>1. PICK i \in DOMAIN target : target[i] \notin ToSet(own) /\ p = <<i - 1, Nowhere>>
      BY <2>3 DEF AloneLeft
    <3>2. p[1] = i - 1 /\ p[2] = Nowhere
      BY <3>1
    <3>3. i = t
      BY <1>3, <2>1, <3>2
    <3>4. QED
      BY <3>1, <3>2, <3>3
  <2>4. QED
    BY <2>1, <2>2, <2>3
<1>10. IsSequence(z) /\ Len(z) = Len(h)
  BY <1>2, MadeSequence
<1>11. \A k \in 1 .. Len(z) : z[k] \in R
  <2>1. TAKE k \in 1 .. Len(z)
  <2>2. h[k] \in W \/ (h[k] = Nowhere /\ label \notin ToSet(own))
    BY <1>1, <1>10
  <2>3. z[k] = <<t - 1, h[k]>>
    BY <1>2, <1>10
  <2>4. QED
    BY <1>7, <1>8, <2>2, <2>3
<1>12. \A p \in R : \E k \in 1 .. Len(z) : z[k] = p
  <2>1. TAKE p \in R
  <2>2. PICK k \in 1 .. Len(h) : h[k] = p[2]
    BY <1>1, <1>9
  <2>3. z[k] = p
    BY <1>2, <1>9, <2>2
  <2>4. QED
    BY <1>10, <2>3
<1>13. \A k, m \in 1 .. Len(h) : k < m => h[k] \in Int /\ h[m] \in Int /\ h[k] < h[m]
  BY <1>1 DEF Climbs, Upwards
<1>14. \A k, m \in 1 .. Len(z) : z[k] = z[m] => k = m
  <2>1. TAKE k, m \in 1 .. Len(z)
  <2>2. SUFFICES ASSUME z[k] = z[m] PROVE k = m
    OBVIOUS
  <2>3. h[k] = h[m]
    BY <1>2, <1>10, <2>2
  <2>4. k \in Int /\ m \in Int
    BY <1>2, <1>10
  <2>5. QED
    BY <1>10, <1>13, <2>3, <2>4
<1>15. Climbs(z, ByPlaces)
  <2>1. SUFFICES ASSUME NEW k \in 1 .. Len(z), NEW m \in 1 .. Len(z), k < m
                 PROVE  <<z[k], z[m]>> \in ByPlaces
    BY DEF Climbs
  <2>2. z[k] = <<t - 1, h[k]>> /\ z[m] = <<t - 1, h[m]>> /\ t - 1 \in Int
    BY <1>2, <1>3, <1>10
  <2>3. h[k] \in Int /\ h[m] \in Int /\ h[k] < h[m]
    BY <1>10, <1>13, <2>1
  <2>4. QED
    BY <2>2, <2>3 DEF ByPlaces
<1>16. QED
  BY <1>10, <1>11, <1>12, <1>14, <1>15 DEF Lists, h, z, R
-----------------------------------------------------------------------------
\* Pieces as long as others begin where they do.
LEMMA SameOffsets ==
  ASSUME NEW n \in Nat, NEW pieces, NEW off, Offsets(pieces, n, off),
         NEW others, NEW o, Offsets(others, n, o),
         \A g \in 1 .. n : Len(pieces[g]) = Len(others[g])
  PROVE  \A g \in 0 .. n : off[g] = o[g]
<1>1. /\ \A g \in 1 .. n : /\ off[g] = off[g - 1] + Len(pieces[g])
                           /\ o[g] = o[g - 1] + Len(others[g])
      /\ off[0] = 0 /\ o[0] = 0
  BY DEF Offsets
<1> DEFINE K == {k \in Nat : k \in 0 .. n => o[k] = off[k]}
<1>2. 0 \in K
  BY <1>1
<1>3. ASSUME NEW k \in Nat, k \in K PROVE k + 1 \in K
  <2>1. SUFFICES ASSUME k + 1 \in 0 .. n PROVE o[k + 1] = off[k + 1]
    OBVIOUS
  <2>2. k \in 0 .. n /\ k + 1 \in 1 .. n /\ (k + 1) - 1 = k
    BY <2>1
  <2>3. o[k] = off[k]
    BY <1>3, <2>2
  <2>4. o[k + 1] = o[k] + Len(others[k + 1]) /\ off[k + 1] = off[k] + Len(pieces[k + 1])
    BY <1>1, <2>2
  <2>5. QED
    BY <2>2, <2>3, <2>4
<1> HIDE DEF K
<1>4. \A k \in Nat : k \in K
  BY <1>2, <1>3, AllNaturals
<1>5. \A g \in 0 .. n : g \in Nat
  OBVIOUS
<1>6. QED
  BY <1>4, <1>5 DEF K

\* The hits of some labels are the other places of the rows of a left join.
LEMMA HitsAreAJoin ==
  ASSUME NEW own \in Seq(Int), NEW target \in Seq(Int),
         NEW answer, JoinIs(target, own, "left", FALSE, answer)
  PROVE  FlattenSeq([t \in DOMAIN target |-> HitsOf(own, target[t])]) = PlacesOf(answer.theirs, own)
<1> DEFINE n == Len(target)
           P == Partners(target, own, "left")
           T == [t \in DOMAIN target |-> HitsOf(own, target[t])]
           Z == [t \in 1 .. n |-> HitPairs(own, target, t)]
           S == [t \in 1 .. n |-> RowsAt(own, target, t)]
           s == FlattenSeq(T)
           z == FlattenSeq(Z)
<1>1. n \in Nat /\ DOMAIN target = 1 .. n /\ \A t \in 1 .. n : t \in Int
  OBVIOUS
<1>2. \A t \in 1 .. n : /\ Lists(HitPairs(own, target, t), RowsAt(own, target, t))
                        /\ Climbs(HitPairs(own, target, t), ByPlaces)
                        /\ Len(HitPairs(own, target, t)) = Len(HitsOf(own, target[t]))
                        /\ IsSequence(HitsOf(own, target[t]))
  BY HitPairsAre, HitsAre
<1>3. /\ T = [t \in 1 .. n |-> T[t]] /\ Z = [t \in 1 .. n |-> Z[t]]
      /\ \A t \in 1 .. n : /\ T[t] = HitsOf(own, target[t]) /\ Z[t] = HitPairs(own, target, t)
                           /\ S[t] = RowsAt(own, target, t)
  BY <1>1
<1> HIDE DEF n, T, Z, S, P
<1>4. /\ IsSequence(T) /\ Len(T) = n /\ IsSequence(Z) /\ Len(Z) = n
  BY <1>1, <1>3, MadeSequence
<1>5. \A t \in 1 .. n : /\ Lists(Z[t], S[t]) /\ Climbs(Z[t], ByPlaces) /\ Len(Z[t]) = Len(T[t])
                        /\ IsSequence(T[t]) /\ IsSequence(Z[t])
                        /\ \A k \in 1 .. Len(Z[t]) : Z[t][k] \in S[t]
  BY <1>2, <1>3 DEF Lists
<1> HIDE DEF s, z
<1>6. PICK o : Stacks(s, T, n, o)
  BY <1>4, <1>5, Flattened DEF s
<1>7. PICK off : Stacks(z, Z, n, off)
  BY <1>4, <1>5, Flattened DEF z
<1>8. \A g \in 0 .. n : off[g] = o[g]
  BY <1>1, <1>5, <1>6, <1>7, SameOffsets DEF Stacks
<1>9. \A p : p \in P <=> Meets(target, own, p) \/ AloneLeft(target, own, p)
  BY PartnersAre DEF P
<1>10. \A t \in 1 .. n : \A p : p \in S[t] <=> p \in P /\ p[1] = t - 1
  BY <1>3 DEF RowsAt, P
<1>11. \A g, h \in 1 .. n : g # h => S[g] \cap S[h] = {}
  <2>1. TAKE g, h \in 1 .. n
  <2>2. g # h => g - 1 # h - 1
    BY <1>1
  <2>3. QED
    BY <1>10, <2>2
<1>12. \A p : p \in P <=> \E g \in 1 .. n : p \in S[g]
  <2>1. TAKE p
  <2>2. ASSUME p \in P PROVE \E g \in 1 .. n : p \in S[g]
    <3>1. PICK i \in DOMAIN target : p[1] = i - 1
      BY <1>9, <2>2 DEF Meets, AloneLeft
    <3>2. QED
      BY <1>1, <1>10, <2>2, <3>1
  <2>3. QED
    BY <1>10, <2>2
<1>13. Lists(z, P)
  <2>1. \A g \in 1 .. n : Lists(Z[g], S[g])
    BY <1>5
  <2>2. QED
    BY <1>1, <1>7, <1>11, <1>12, <2>1, StacksList
<1>14. \A p \in P : p \in Int \X Int
  <2>1. "left" \in Hows
    BY DEF Hows
  <2>2. QED
    BY <2>1, RowsHaveLabels DEF P
<1>15. Climbs(z, ByPlaces)
  <2>1. ASSUME NEW g \in 1 .. n, NEW h \in 1 .. n, g < h,
               NEW k \in 1 .. Len(Z[g]), NEW m \in 1 .. Len(Z[h])
        PROVE  <<Z[g][k], Z[h][m]>> \in ByPlaces
    <3>1. Z[g][k] \in S[g] /\ Z[h][m] \in S[h]
      BY <1>5
    <3>2. /\ Z[g][k] \in Int \X Int /\ Z[h][m] \in Int \X Int
          /\ Z[g][k][1] = g - 1 /\ Z[h][m][1] = h - 1
      BY <1>10, <1>14, <3>1
    <3>3. g - 1 < h - 1
      BY <1>1, <2>1
    <3>4. QED
      BY <3>2, <3>3 DEF ByPlaces
  <2>2. QED
    BY <1>1, <1>5, <1>7, <2>1, StacksClimb
<1>16. PICK pairs : /\ LinesUp(target, own, "left", FALSE, pairs)
                    /\ Answers(target, own, pairs, answer)
  BY DEF JoinIs
<1>17. Lists(pairs, P) /\ Climbs(pairs, ByPlaces)
  BY <1>16 DEF LinesUp, P
<1>18. OrderOn(ByPlaces, P)
  <2>1. ASSUME NEW x \in P PROVE <<x, x>> \notin ByPlaces
    BY <1>14 DEF ByPlaces
  <2>2. ASSUME NEW x \in P, NEW y \in P, x # y
        PROVE  <<x, y>> \in ByPlaces \/ <<y, x>> \in ByPlaces
    <3>1. /\ x \in Int \X Int /\ y \in Int \X Int
      BY <1>14
    <3>a. x = <<x[1], x[2]>> /\ y = <<y[1], y[2]>>
      BY <3>1
    <3>2. x[1] # y[1] \/ x[2] # y[2]
      BY <2>2, <3>a
    <3>3. x[1] \in Int /\ x[2] \in Int /\ y[1] \in Int /\ y[2] \in Int
      BY <3>1
    <3>4. QED
      BY <3>1, <3>2, <3>3 DEF ByPlaces
  <2>3. ASSUME NEW x \in P, NEW y \in P, NEW w \in P, <<x, y>> \in ByPlaces, <<y, w>> \in ByPlaces
        PROVE  <<x, w>> \in ByPlaces
    <3>1. /\ x \in Int \X Int /\ y \in Int \X Int /\ w \in Int \X Int
      BY <1>14
    <3>2. /\ x[1] \in Int /\ x[2] \in Int /\ y[1] \in Int /\ y[2] \in Int
          /\ w[1] \in Int /\ w[2] \in Int
      BY <3>1
    <3>3. /\ x[1] < y[1] \/ (x[1] = y[1] /\ x[2] < y[2])
          /\ y[1] < w[1] \/ (y[1] = w[1] /\ y[2] < w[2])
      BY <2>3 DEF ByPlaces
    <3>4. x[1] < w[1] \/ (x[1] = w[1] /\ x[2] < w[2])
      BY <3>2, <3>3
    <3>5. QED
      BY <3>1, <3>4 DEF ByPlaces
  <2>4. QED
    BY <2>1, <2>2, <2>3 DEF OrderOn
<1>19. pairs = z
  <2>1. pairs = ByOrder(P, ByPlaces)
    BY <1>17, <1>18, ClimbingIsByOrder
  <2>2. z = ByOrder(P, ByPlaces)
    BY <1>13, <1>15, <1>18, ClimbingIsByOrder
  <2>3. QED
    BY <2>1, <2>2
<1>20. IsSequence(s) /\ Len(s) = Len(z) /\ \A m \in 1 .. Len(s) : s[m] = z[m][2]
  <2>1. /\ IsSequence(s) /\ Len(s) = o[n] /\ Len(z) = off[n]
        /\ \A g \in 1 .. n : \A k \in 1 .. Len(T[g]) : s[o[g - 1] + k] = T[g][k]
        /\ \A g \in 1 .. n : \A k \in 1 .. Len(Z[g]) : z[off[g - 1] + k] = Z[g][k]
        /\ \A m \in 1 .. Len(s) : \E g \in 1 .. n : \E k \in 1 .. Len(T[g]) : m = o[g - 1] + k
    BY <1>6, <1>7 DEF Stacks
  <2>2. n \in 0 .. n /\ \A g \in 1 .. n : g - 1 \in 0 .. n
    BY <1>1
  <2>3. \A m \in 1 .. Len(s) : s[m] = z[m][2]
    <3>1. TAKE m \in 1 .. Len(s)
    <3>2. PICK g \in 1 .. n : \E k \in 1 .. Len(T[g]) : m = o[g - 1] + k
      BY <2>1
    <3>3. PICK k \in 1 .. Len(T[g]) : m = o[g - 1] + k
      BY <3>2
    <3>4. m = off[g - 1] + k /\ k \in 1 .. Len(Z[g])
      BY <1>5, <1>8, <2>2, <3>3
    <3>5. s[m] = T[g][k] /\ z[m] = Z[g][k]
      BY <2>1, <3>3, <3>4
    <3>6. Z[g][k] = <<g - 1, T[g][k]>>
      <4>1. T[g] = HitsOf(own, target[g]) /\ Z[g] = HitPairs(own, target, g)
        BY <1>3
      <4>2. QED
        BY <3>3, <4>1 DEF HitPairs
    <3>7. QED
      BY <3>5, <3>6
  <2>4. QED
    BY <1>8, <2>1, <2>2, <2>3
<1>21. s = [k \in 1 .. Len(z) |-> z[k][2]]
  BY <1>20 DEF IsSequence
<1>22. PlacesOf(answer.theirs, own) = [k \in 1 .. Len(pairs) |-> pairs[k][2]]
  BY <1>16 DEF Answers, RightPlaces
<1>23. QED
  BY <1>19, <1>21, <1>22 DEF s, T
-----------------------------------------------------------------------------
\* Two sides, and the answer that was made of them.
JoinInv ==
  /\ sides.left \in Seq(Int) /\ sides.right \in Seq(Int)
  /\ joined # NotJoined =>
       /\ joined.how \in Hows /\ joined.sorts \in BOOLEAN
       /\ JoinIs(sides.left, sides.right, joined.how, joined.sorts, joined.answer)

\* An index, and every position found of the labels asked for.
HitsInv ==
  /\ owner \in Seq(Int)
  /\ asked.of = "indexer" =>
       /\ asked.target \in Seq(Int)
       /\ asked.found = FlattenSeq([t \in DOMAIN asked.target |-> HitsOf(owner, asked.target[t])])

LEMMA JoinInvHoldsAtFirst == JoinInit \/ JoinRests => JoinInv
<1>1. JoinInit => JoinInv
  BY SidesAssumption DEF JoinInit, JoinInv
<1>2. JoinRests => JoinInv
  <2>1. <<>> \in Seq(Int)
    OBVIOUS
  <2>2. QED
    BY <2>1 DEF JoinRests, JoinInv
<1>3. QED
  BY <1>1, <1>2

LEMMA JoinInvIsKept == JoinInv /\ [JoinNext]_joinVars => JoinInv'
<1> SUFFICES ASSUME JoinInv, [JoinNext]_joinVars PROVE JoinInv'
  OBVIOUS
<1>1. CASE Join
  <2>1. PICK how \in Hows, sort \in BOOLEAN, alike \in BOOLEAN :
          /\ joined' = [how |-> how, sorts |-> Sorts(sides.left, sides.right, how, sort, alike),
                        answer |-> Joined(sides.left, sides.right, how, sort, alike)]
          /\ sides' = sides
    BY <1>1 DEF Join
  <2>2. Sorts(sides.left, sides.right, how, sort, alike) \in BOOLEAN
    BY DEF Sorts
  <2>3. JoinIs(sides.left, sides.right, how, Sorts(sides.left, sides.right, how, sort, alike),
               Joined(sides.left, sides.right, how, sort, alike))
    BY JoinedIs DEF JoinInv
  <2>4. /\ joined'.how = how
        /\ joined'.sorts = Sorts(sides.left, sides.right, how, sort, alike)
        /\ joined'.answer = Joined(sides.left, sides.right, how, sort, alike)
    BY <2>1
  <2>5. JoinIs(sides'.left, sides'.right, joined'.how, joined'.sorts, joined'.answer)
    BY <2>1, <2>3, <2>4
  <2>6. QED
    BY <2>1, <2>2, <2>4, <2>5 DEF JoinInv
<1>2. CASE UNCHANGED joinVars
  BY <1>2 DEF joinVars, JoinInv
<1>3. QED
  BY <1>1, <1>2 DEF JoinNext

LEMMA HitsInvHoldsAtFirst == LookupInit \/ LookupRests => HitsInv
<1>1. LookupInit => HitsInv
  BY LabelsAssumption DEF LookupInit, NotAsked, HitsInv
<1>2. LookupRests => HitsInv
  <2>1. <<>> \in Seq(Int)
    OBVIOUS
  <2>2. QED
    BY <2>1 DEF LookupRests, NotAsked, HitsInv
<1>3. QED
  BY <1>1, <1>2

LEMMA HitsInvIsKept == HitsInv /\ [LookupNext]_lookupVars => HitsInv'
<1> SUFFICES ASSUME HitsInv, [LookupNext]_lookupVars PROVE HitsInv'
  OBVIOUS
<1>1. CASE Sliced
  BY <1>1 DEF Sliced, HitsInv
<1>2. CASE GetIndexerNonUnique
  <2> DEFINE hits(target) == [t \in DOMAIN target |->
               LET places == RowsWith(owner, target[t])
               IN  IF places = <<>> THEN <<Nowhere>> ELSE places]
             absent(target) == AtPlaces([t \in DOMAIN target |-> t - 1],
                                        {t \in DOMAIN target : target[t] \notin ToSet(owner)})
  <2>a. PICK target \in UNION {[1 .. k -> Targets \cup {Gap}] : k \in 0 .. 2} :
          /\ asked' = [of |-> "indexer", target |-> target,
                       found |-> FlattenSeq(hits(target)), absent |-> absent(target)]
          /\ owner' = owner
    BY <1>2 DEF GetIndexerNonUnique
  <2>b. hits(target) = [t \in DOMAIN target |-> HitsOf(owner, target[t])]
    BY DEF HitsOf
  <2> HIDE DEF hits, absent
  <2>1. /\ asked'.of = "indexer" /\ asked'.target = target
        /\ asked'.found = FlattenSeq([t \in DOMAIN target |-> HitsOf(owner, target[t])])
        /\ owner' = owner
    BY <2>a, <2>b
  <2>2. target \in Seq(Int)
    <3>1. Targets \cup {Gap} \subseteq Int
      BY LabelsAssumption DEF Gap
    <3>2. PICK k \in 0 .. 2 : target \in [1 .. k -> Targets \cup {Gap}]
      OBVIOUS
    <3>3. target \in [1 .. k -> Int] /\ k \in Nat
      BY <3>1, <3>2
    <3>4. QED
      BY <3>3
  <2>3. QED
    BY <2>1, <2>2 DEF HitsInv
<1>3. CASE Asof
  BY <1>3 DEF Asof, HitsInv
<1>4. CASE AsofMasked
  BY <1>4 DEF AsofMasked, HitsInv
<1>5. CASE Reindexed
  BY <1>5 DEF Reindexed, HitsInv
<1>6. CASE UNCHANGED lookupVars
  BY <1>6 DEF lookupVars, HitsInv
<1>7. QED
  BY <1>1, <1>2, <1>3, <1>4, <1>5, <1>6 DEF LookupNext

LEMMA AnswersLineUp == JoinInv /\ HitsInv => JoinsLineUp
<1> SUFFICES ASSUME JoinInv, HitsInv PROVE JoinsLineUp
  OBVIOUS
<1>1. JoinsPairTheirRows
  <2>1. SUFFICES ASSUME joined # NotJoined PROVE JoinsPairTheirRows
    BY DEF JoinsPairTheirRows
  <2>2. JoinedRows(sides.left, sides.right, joined.how, joined.sorts, joined.answer)
    BY <2>1, JoinIsItsRows DEF JoinInv
  <2>3. QED
    BY <2>2 DEF JoinedRows, JoinsPairTheirRows
<1>2. PositionsAreAJoin
  <2>1. SUFFICES ASSUME asked.of = "indexer" PROVE PositionsAreAJoin
    BY DEF PositionsAreAJoin
  <2>2. /\ owner \in Seq(Int) /\ asked.target \in Seq(Int)
        /\ asked.found = FlattenSeq([t \in DOMAIN asked.target |-> HitsOf(owner, asked.target[t])])
    BY <2>1 DEF HitsInv
  <2>3. "left" \in Hows /\ FALSE \in BOOLEAN /\ TRUE \in BOOLEAN
    BY DEF Hows
  <2>4. JoinIs(asked.target, owner, "left", Sorts(asked.target, owner, "left", FALSE, TRUE),
               Joined(asked.target, owner, "left", FALSE, TRUE))
    BY <2>2, <2>3, JoinedIs
  <2>5. Sorts(asked.target, owner, "left", FALSE, TRUE) = FALSE
    BY DEF Sorts
  <2>6. asked.found = PlacesOf(Joined(asked.target, owner, "left", FALSE, TRUE).theirs, owner)
    BY <2>2, <2>4, <2>5, HitsAreAJoin
  <2>7. QED
    BY <2>6 DEF PositionsAreAJoin
<1>3. QED
  BY <1>1, <1>2 DEF JoinsLineUp

(***************************************************************************)
(* What a join of two indexes answers, for labels of any number in any     *)
(* order, with repeats and with gaps: whichever of its paths is taken (the *)
(* merge of two sorted sides, the groups of equal labels put back in the   *)
(* order of the left side, or the lookup of each label), its rows are the  *)
(* pairs of equal labels and the lonely rows of the sides it keeps, each   *)
(* once, with their label, in the order promised; and every position that  *)
(* get_indexer_non_unique finds is the other side of a left join.          *)
(***************************************************************************)
THEOREM JoinsAlwaysLineUp == FacadeSpec => []JoinsLineUp
<1>1. FacadeInit => JoinInv /\ HitsInv
  BY JoinInvHoldsAtFirst, HitsInvHoldsAtFirst DEF FacadeInit
<1>2. [FacadeNext]_<<part, vars, option_vars, mean_vars, store_vars, label_vars>> =>
      [JoinNext]_joinVars /\ [LookupNext]_lookupVars
  BY DEF FacadeNext, StateNext, LabelNext, label_vars
<1>3. QED
  BY <1>1, <1>2, JoinInvIsKept, HitsInvIsKept, AnswersLineUp, PTL DEF FacadeSpec
-----------------------------------------------------------------------------
(***************************************************************************)
(* Ranges.  A range is told by what it runs through: from its start by its *)
(* step, as long as it is short of its stop.  How many labels that makes   *)
(* is a division rounded up.                                               *)
(***************************************************************************)
Within(r, x) == IF r.step > 0 THEN x < r.stop ELSE r.stop < x

LEMMA RoundedUp ==
  ASSUME NEW d \in Int, d > 0, NEW s \in Int, s > 0
  PROVE  /\ (d + s - 1) \div s \in Nat
         /\ \A i \in Nat : i < (d + s - 1) \div s <=> i * s < d
<1> DEFINE a == d + s - 1
           n == a \div s
           rest == a % s
<1>1. s \in Nat /\ a \in Int /\ n \in Int /\ rest \in 0 .. s - 1 /\ a = n * s + rest
  <2>1. a \in Int /\ s \in Nat
    OBVIOUS
  <2> HIDE DEF a
  <2>2. n \in Int /\ rest \in 0 .. s - 1
    BY <2>1
  <2>3. a = n * s + rest
    BY <2>1
  <2>4. QED
    BY <2>1, <2>2, <2>3
<1>2. a = d + s - 1
  OBVIOUS
<1> HIDE DEF a, n, rest
<1>3. \A i \in Int : i * s \in Int
  BY <1>1
<1>4. n * s < d + s /\ d - 1 < n * s + 0 + 1
  BY <1>1, <1>2, <1>3
<1>5. ASSUME NEW i \in Int, i < n PROVE i * s < d
  <2>1. i + 1 \in Int /\ i + 1 <= n
    BY <1>1, <1>5
  <2>2. (i + 1) * s <= n * s /\ (i + 1) * s = i * s + s
    BY <1>1, <2>1, Times
  <2>3. QED
    BY <1>1, <1>3, <1>4, <2>2
<1>6. ASSUME NEW i \in Int, n <= i PROVE d <= i * s
  <2>1. n * s <= i * s
    BY <1>1, <1>6, Times
  <2>2. QED
    BY <1>1, <1>2, <1>3, <2>1
<1>7. n \in Nat
  <2>1. SUFFICES ASSUME n < 0 PROVE FALSE
    BY <1>1
  <2>2. d <= 0 * s /\ 0 * s = 0
    BY <1>1, <1>6, <2>1
  <2>3. QED
    BY <2>2
<1>8. \A i \in Nat : i < n <=> i * s < d
  <2>1. TAKE i \in Nat
  <2>2. i < n \/ n <= i
    BY <1>1
  <2>3. i * s \in Int /\ (i < n => i * s < d) /\ (n <= i => d <= i * s)
    BY <1>3, <1>5, <1>6
  <2>4. QED
    BY <1>1, <2>2, <2>3
<1>9. QED
  BY <1>7, <1>8 DEF n, a

\* Numbers times a step, which may be below nothing.
LEMMA StepTimes ==
  ASSUME NEW s \in Int, s # 0, NEW x \in Int, NEW y \in Int
  PROVE  /\ x * s \in Int /\ y * s \in Int
         /\ (x + 1) * s = x * s + s /\ (x - 1) * s = x * s - s
         /\ s > 0 => (x < y <=> x * s < y * s)
         /\ s < 0 => (x < y <=> y * s < x * s)
<1>1. x * s \in Int /\ y * s \in Int
  OBVIOUS
<1>2. (x + 1) * s = x * s + s /\ (x - 1) * s = x * s - s
  OBVIOUS
<1>3. ASSUME s > 0 PROVE x < y <=> x * s < y * s
  <2>1. s \in Nat
    BY <1>3
  <2>2. QED
    BY <1>3, <2>1, Times
<1>4. ASSUME s < 0 PROVE x < y <=> y * s < x * s
  <2> DEFINE e == -s
  <2>1. e \in Nat /\ e > 0
    BY <1>4
  <2>2. x * e = -(x * s) /\ y * e = -(y * s)
    OBVIOUS
  <2> HIDE DEF e
  <2>3. x < y <=> x * e < y * e
    BY <2>1, Times
  <2>4. QED
    BY <1>1, <2>2, <2>3
<1>5. QED
  BY <1>1, <1>2, <1>3, <1>4

LEMMA TripleIs ==
  ASSUME NEW start \in Int, NEW stop \in Int, NEW step \in Int, step # 0
  PROVE  /\ Triple(start, stop, step) \in Triples
         /\ Triple(start, stop, step).start = start
         /\ Triple(start, stop, step).stop = stop
         /\ Triple(start, stop, step).step = step
BY DEF Triple, Triples

LEMMA IsATriple ==
  ASSUME NEW r \in Triples
  PROVE  /\ r.start \in Int /\ r.stop \in Int /\ r.step \in Int /\ r.step # 0
         /\ r = Triple(r.start, r.stop, r.step)
BY DEF Triple, Triples

\* The range goes on as long as it is short of its stop.
LEMMA SizeIs ==
  ASSUME NEW r \in Triples
  PROVE  /\ Size(r) \in Nat
         /\ \A i \in Nat : i < Size(r) <=> Within(r, r.start + i * r.step)
<1> DEFINE first == r.start
           s == r.step
           ends == r.stop
<1>1. first \in Int /\ s \in Int /\ ends \in Int /\ s # 0
  BY IsATriple
<1>2. Size(r) = IF s > 0 THEN (IF ends > first THEN (ends - first + s - 1) \div s ELSE 0)
                ELSE IF first > ends THEN (first - ends - s - 1) \div (-s) ELSE 0
  BY DEF Size
<1>3. \A x : Within(r, x) <=> IF s > 0 THEN x < ends ELSE ends < x
  BY DEF Within
<1> HIDE DEF first, s, ends
<1>4. \A i \in Nat : i * s \in Int /\ i * (-s) \in Int /\ i * (-s) = -(i * s)
  BY <1>1
<1>5. CASE s > 0 /\ ends > first
  <2>1. ends - first \in Int /\ ends - first > 0
    BY <1>1, <1>5
  <2>2. /\ (ends - first + s - 1) \div s \in Nat
        /\ \A i \in Nat : i < (ends - first + s - 1) \div s <=> i * s < ends - first
    BY <1>1, <1>5, <2>1, RoundedUp
  <2>3. Size(r) = (ends - first + s - 1) \div s
    BY <1>2, <1>5
  <2>4. \A i \in Nat : i * s < ends - first <=> first + i * s < ends
    BY <1>1, <1>4
  <2> HIDE DEF Size
  <2>5. QED
    BY <1>3, <1>5, <2>2, <2>3, <2>4 DEF first, s
<1>6. CASE s > 0 /\ ~ (ends > first)
  <2>1. Size(r) = 0
    BY <1>2, <1>6
  <2>2. \A i \in Nat : 0 <= i * s
    <3>1. TAKE i \in Nat
    <3>2. s \in Nat /\ i \in Int
      BY <1>1, <1>6
    <3>3. i * s \in Nat
      BY <1>6, <3>2, Times
    <3>4. QED
      BY <3>3
  <2>3. \A i \in Nat : ~ (first + i * s < ends)
    BY <1>1, <1>4, <1>6, <2>2
  <2>4. QED
    BY <1>3, <1>6, <2>1, <2>3 DEF first, s
<1>7. CASE ~ (s > 0) /\ first > ends
  <2>1. first - ends \in Int /\ first - ends > 0 /\ -s \in Int /\ -s > 0
    BY <1>1, <1>7
  <2>2. /\ (first - ends + (-s) - 1) \div (-s) \in Nat
        /\ \A i \in Nat : i < (first - ends + (-s) - 1) \div (-s) <=> i * (-s) < first - ends
    BY <2>1, RoundedUp
  <2>3. Size(r) = (first - ends + (-s) - 1) \div (-s)
    <3>1. first - ends + (-s) - 1 = first - ends - s - 1
      BY <1>1
    <3>2. QED
      BY <1>2, <1>7, <3>1
  <2>4. \A i \in Nat : i * (-s) < first - ends <=> ends < first + i * s
    BY <1>1, <1>4
  <2>5. QED
    BY <1>3, <1>7, <2>2, <2>3, <2>4 DEF first, s
<1>8. CASE ~ (s > 0) /\ ~ (first > ends)
  <2>1. Size(r) = 0
    BY <1>2, <1>8
  <2>2. \A i \in Nat : i * s <= 0
    <3>1. TAKE i \in Nat
    <3>2. -s \in Nat /\ -s > 0 /\ i \in Int
      BY <1>1, <1>8
    <3>3. i * (-s) \in Nat
      BY <3>2, Times
    <3>4. QED
      BY <1>4, <3>3
  <2>3. \A i \in Nat : ~ (ends < first + i * s)
    BY <1>1, <1>4, <1>8, <2>2
  <2>4. QED
    BY <1>3, <1>8, <2>1, <2>3 DEF first, s
<1>9. QED
  BY <1>5, <1>6, <1>7, <1>8

\* Only one number goes on as long.
LEMMA SameSize ==
  ASSUME NEW r \in Triples, NEW n \in Nat,
         \A i \in Nat : i < n <=> Within(r, r.start + i * r.step)
  PROVE  Size(r) = n
<1> DEFINE m == Size(r)
<1>1. m \in Nat /\ \A i \in Nat : i < m <=> i < n
  BY SizeIs
<1> HIDE DEF m
<1>2. ~ (m < n) /\ ~ (n < m)
  BY <1>1
<1>3. QED
  BY <1>1, <1>2 DEF m

LEMMA PointsAre ==
  ASSUME NEW r \in Triples
  PROVE  /\ Points(r) \in Seq(Int) /\ Len(Points(r)) = Size(r) /\ Size(r) \in Nat
         /\ Points(r) = [i \in 1 .. Size(r) |-> Points(r)[i]]
         /\ \A i \in 1 .. Size(r) : Points(r)[i] = r.start + (i - 1) * r.step
<1> DEFINE n == Size(r)
           p == Points(r)
<1>1. n \in Nat
  BY SizeIs
<1>2. p = [i \in 1 .. n |-> r.start + (i - 1) * r.step]
  BY DEF Points
<1> HIDE DEF n, p
<1>3. \A i \in 1 .. n : r.start + (i - 1) * r.step \in Int
  BY <1>1, IsATriple
<1>4. p \in [1 .. n -> Int] /\ p = [i \in 1 .. n |-> p[i]]
  BY <1>2, <1>3
<1>5. p \in Seq(Int) /\ Len(p) = n
  BY <1>1, <1>4
<1>6. QED
  BY <1>1, <1>2, <1>4, <1>5 DEF n, p
-----------------------------------------------------------------------------
(***************************************************************************)
(* Back to a range: labels that differ by the same step all along are the  *)
(* points of the range that steps by it.                                   *)
(***************************************************************************)
LEMMA StepsAreEven ==
  ASSUME NEW labels \in Seq(Int), Len(labels) >= 2, EvenlyStepped(labels)
  PROVE  \A i \in 1 .. Len(labels) : labels[i] = labels[1] + (i - 1) * (labels[2] - labels[1])
<1> DEFINE n == Len(labels)
           d == labels[2] - labels[1]
           K == {k \in Nat : k < n => labels[k + 1] = labels[1] + k * d}
<1>1. n \in Nat /\ n >= 2 /\ \A i \in 1 .. n : labels[i] \in Int
  OBVIOUS
<1>2. \A i \in 1 .. n - 1 : labels[i + 1] - labels[i] = d
  BY DEF EvenlyStepped
<1>3. d \in Int /\ labels[1] \in Int
  BY <1>1
<1> HIDE DEF n, d
<1>4. 0 \in K
  BY <1>1, <1>3
<1>5. ASSUME NEW k \in Nat, k \in K PROVE k + 1 \in K
  <2>1. SUFFICES ASSUME k + 1 < n PROVE labels[(k + 1) + 1] = labels[1] + (k + 1) * d
    OBVIOUS
  <2>2. /\ k + 1 \in 1 .. n - 1 /\ k + 1 \in 1 .. n /\ (k + 1) + 1 \in 1 .. n /\ k < n
    BY <1>1, <2>1
  <2>3. labels[(k + 1) + 1] - labels[k + 1] = d
    BY <1>2, <2>2
  <2>4. labels[k + 1] = labels[1] + k * d
    BY <1>5, <2>2
  <2>5. (k + 1) * d = k * d + d /\ k * d \in Int
    BY <1>3
  <2>6. labels[(k + 1) + 1] \in Int /\ labels[k + 1] \in Int
    BY <1>1, <2>2
  <2>7. QED
    BY <1>3, <2>3, <2>4, <2>5, <2>6
<1> HIDE DEF K
<1>6. \A k \in Nat : k \in K
  BY <1>4, <1>5, AllNaturals
<1>7. ASSUME NEW i \in 1 .. n PROVE labels[i] = labels[1] + (i - 1) * d
  <2>1. i - 1 \in Nat /\ i - 1 < n /\ (i - 1) + 1 = i
    BY <1>1
  <2>2. i - 1 \in K
    BY <1>6, <2>1
  <2>3. QED
    BY <2>1, <2>2 DEF K
<1>8. QED
  BY <1>7 DEF n, d

\* A list of labels is the points of a range that has as many at each place.
LEMMA AreItsPoints ==
  ASSUME NEW r \in Triples, NEW labels \in Seq(Int),
         \A i \in 1 .. Len(labels) : labels[i] = r.start + (i - 1) * r.step,
         \A i \in Nat : i < Len(labels) <=> Within(r, r.start + i * r.step)
  PROVE  labels = Points(r)
<1>1. Len(labels) \in Nat /\ labels = [i \in 1 .. Len(labels) |-> labels[i]]
  OBVIOUS
<1>2. Size(r) = Len(labels)
  BY <1>1, SameSize
<1>3. QED
  BY <1>1, <1>2, PointsAre

LEMMA ReadBack ==
  ASSUME NEW labels \in Seq(Int), NEW step \in Int \ {0}, AsRange(labels, step) # NoTriple
  PROVE  AsRange(labels, step) \in Triples /\ labels = Points(AsRange(labels, step))
<1> DEFINE n == Len(labels)
           r == AsRange(labels, step)
<1>1. n \in Nat /\ \A i \in 1 .. n : labels[i] \in Int
  OBVIOUS
<1>2. CASE labels = <<>>
  <2>1. r = Triple(0, 0, 1)
    BY <1>2 DEF AsRange
  <2>2. r \in Triples /\ r.start = 0 /\ r.stop = 0 /\ r.step = 1
    BY <2>1, TripleIs
  <2>3. n = 0
    BY <1>2
  <2> HIDE DEF r
  <2>4. \A i \in Nat : ~ Within(r, r.start + i * r.step)
    BY <2>2 DEF Within
  <2>5. \A i \in Nat : i < n <=> Within(r, r.start + i * r.step)
    BY <2>3, <2>4
  <2>6. \A i \in 1 .. n : labels[i] = r.start + (i - 1) * r.step
    BY <2>3
  <2>7. labels = Points(r)
    BY <2>2, <2>5, <2>6, AreItsPoints
  <2>8. QED
    BY <2>2, <2>7 DEF r
<1>3. CASE labels # <<>> /\ n = 1
  <2>1. r = Triple(labels[1], labels[1] + step, step)
    BY <1>3 DEF AsRange
  <2>2. labels[1] \in Int /\ labels[1] + step \in Int
    BY <1>1, <1>3
  <2>3. r \in Triples /\ r.start = labels[1] /\ r.stop = labels[1] + step /\ r.step = step
    BY <2>1, <2>2, TripleIs
  <2> HIDE DEF r
  <2>4. ASSUME NEW i \in Nat PROVE i < n <=> Within(r, r.start + i * r.step)
    <3>1. CASE i = 0
      BY <1>3, <2>2, <2>3, <3>1 DEF Within
    <3>2. CASE i > 0
      <4>1. i * step \in Int /\ i - 1 \in Nat /\ (i - 1) * step = i * step - step
        BY <3>2
      <4>2. step > 0 => (i - 1) * step >= 0
        BY <4>1
      <4>3. step < 0 => (i - 1) * step <= 0
        BY <4>1
      <4>4. ~ Within(r, r.start + i * r.step)
        BY <2>2, <2>3, <4>1, <4>2, <4>3 DEF Within
      <4>5. QED
        BY <1>3, <3>2, <4>4
    <3>3. QED
      BY <3>1, <3>2
  <2>5. \A i \in 1 .. n : labels[i] = r.start + (i - 1) * r.step
    BY <1>3, <2>2, <2>3
  <2>6. labels = Points(r)
    BY <2>3, <2>4, <2>5, AreItsPoints
  <2>7. QED
    BY <2>3, <2>6 DEF r
<1>4. CASE labels # <<>> /\ n # 1
  <2> DEFINE d == labels[2] - labels[1]
  <2>1. n >= 2
    <3>1. n # 0
      BY <1>4
    <3> HIDE DEF n, r, d
    <3>2. QED
      BY <1>1, <1>4, <3>1
  <2>2. EvenlyStepped(labels) /\ r = Triple(labels[1], labels[n] + labels[2] - labels[1], d)
    BY <1>4 DEF AsRange, Last
  <2>3. labels[1] \in Int /\ labels[2] \in Int /\ labels[n] \in Int /\ d \in Int /\ d # 0
    <3>1. labels[1] \in Int /\ labels[2] \in Int /\ labels[n] \in Int
      BY <1>1, <2>1
    <3>2. labels[2] # labels[1]
      BY <2>2 DEF EvenlyStepped
    <3>3. QED
      BY <3>1, <3>2
  <2>4. \A i \in 1 .. n : labels[i] = labels[1] + (i - 1) * d
    BY <2>1, <2>2, StepsAreEven
  <2>5. labels[n] + labels[2] - labels[1] = labels[1] + n * d
    <3>1. labels[n] = labels[1] + (n - 1) * d
      BY <1>1, <2>1, <2>4
    <3>2. labels[n] + labels[2] - labels[1] = labels[n] + d
      BY <2>3
    <3> HIDE DEF d, n
    <3>3. (n - 1) * d = n * d - d /\ n * d \in Int /\ (n - 1) * d \in Int
      BY <1>1, <2>3
    <3>4. labels[n] + d = labels[1] + n * d
      BY <1>1, <2>3, <3>1, <3>3
    <3>5. QED
      BY <3>2, <3>4
  <2> HIDE DEF r, d, n
  <2>6. labels[1] + n * d \in Int
    BY <1>1, <2>3
  <2>7. r \in Triples /\ r.start = labels[1] /\ r.stop = labels[1] + n * d /\ r.step = d
    <3> DEFINE from == labels[1]
               stop == labels[1] + n * d
    <3>1. from \in Int /\ stop \in Int /\ r = Triple(from, stop, d)
      BY <2>2, <2>3, <2>5, <2>6
    <3> HIDE DEF from, stop
    <3>2. d \in Int /\ d # 0
      BY <2>3
    <3>3. LET t == Triple(from, stop, d)
          IN  t \in Triples /\ t.start = from /\ t.stop = stop /\ t.step = d
      BY <3>1, <3>2, TripleIs
    <3>4. QED
      BY <3>1, <3>3 DEF from, stop
  <2>8. ASSUME NEW i \in Nat PROVE i < n <=> Within(r, r.start + i * r.step)
    <3>1. i \in Int /\ n \in Int /\ i * d \in Int /\ n * d \in Int
      BY <1>1, <2>3
    <3>2. d > 0 => (i < n <=> i * d < n * d)
      BY <2>3, <3>1, StepTimes
    <3>3. d < 0 => (i < n <=> n * d < i * d)
      BY <2>3, <3>1, StepTimes
    <3>4. QED
      BY <2>3, <2>7, <3>1, <3>2, <3>3 DEF Within
  <2>9. \A i \in 1 .. n : labels[i] = r.start + (i - 1) * r.step
    BY <2>4, <2>7
  <2>10. labels = Points(r)
    BY <2>7, <2>8, <2>9, AreItsPoints DEF n
  <2>11. QED
    BY <2>7, <2>10 DEF r
<1>5. QED
  BY <1>2, <1>3, <1>4

\* An index and the labels it stands for.
Stands(index, labels) ==
  /\ labels \in Seq(Int) /\ index.labels = labels
  /\ \/ index = Plain(labels)
     \/ index.range \in Triples /\ index = Ranged(index.range)

LEMMA PlainStands ==
  ASSUME NEW labels \in Seq(Int)
  PROVE  Stands(Plain(labels), labels) /\ ~ IsRanged(Plain(labels))
BY DEF Stands, Plain, IsRanged

LEMMA RangedStands ==
  ASSUME NEW r \in Triples
  PROVE  /\ Stands(Ranged(r), Points(r)) /\ IsRanged(Ranged(r))
         /\ Ranged(r).range = r /\ Ranged(r).labels = Points(r)
<1>1. Ranged(r).range = r /\ Ranged(r).labels = Points(r) /\ Points(r) \in Seq(Int)
  BY PointsAre DEF Ranged
<1>2. r # NoTriple
  BY IsATriple DEF NoTriple, Triple
<1>3. QED
  BY <1>1, <1>2 DEF Stands, IsRanged

\* A range has its own three numbers, and a plain index none.
LEMMA StandsFor ==
  ASSUME NEW index, NEW labels, Stands(index, labels)
  PROVE  /\ labels \in Seq(Int) /\ index.labels = labels
         /\ IsRanged(index) => index.range \in Triples /\ labels = Points(index.range)
BY PlainStands DEF Stands, Ranged

LEMMA KeptStands ==
  ASSUME NEW index, NEW own, Stands(index, own), NEW labels \in Seq(Int)
  PROVE  Stands(Kept(labels, index), labels)
<1> DEFINE triple == AsRange(labels, index.range.step)
<1>1. CASE ~ IsRanged(index)
  BY <1>1, PlainStands DEF Kept
<1>2. CASE IsRanged(index) /\ triple = NoTriple
  BY <1>2, PlainStands DEF Kept
<1>3. CASE IsRanged(index) /\ triple # NoTriple
  <2>1. index.range.step \in Int \ {0}
    BY <1>3, StandsFor, IsATriple
  <2>2. triple \in Triples /\ labels = Points(triple)
    BY <1>3, <2>1, ReadBack
  <2>3. Kept(labels, index) = Ranged(triple)
    BY <1>3 DEF Kept
  <2> HIDE DEF triple
  <2>4. QED
    BY <2>2, <2>3, RangedStands
<1>4. QED
  BY <1>1, <1>2, <1>3
-----------------------------------------------------------------------------
(***************************************************************************)
(* Slices: the places a slice takes are within the labels, and a range of  *)
(* places along a range is a range.                                        *)
(***************************************************************************)

TakenBy(labels, t) == [i \in 1 .. Size(t) |-> labels[t.start + (i - 1) * t.step + 1]]

\* The places a slice runs through, from 0.
SlicedPlaces(n, from, to, by) ==
  Triple(IF by > 0 THEN from ELSE Min({n, to}) - 1, IF by > 0 THEN Min({n, to}) ELSE from - 1, by)

LEMMA PlacesAreWithin ==
  ASSUME NEW n \in Nat, NEW from \in Nat, NEW to \in Nat, from <= n, NEW by \in Int, by # 0
  PROVE  LET t == SlicedPlaces(n, from, to, by)
         IN  /\ t \in Triples
             /\ \A i \in 1 .. Size(t) : t.start + (i - 1) * t.step \in 0 .. n - 1
<1> DEFINE end == Min({n, to})
           t == SlicedPlaces(n, from, to, by)
           low == IF by > 0 THEN from ELSE end - 1
           high == IF by > 0 THEN end ELSE from - 1
<1>1. end \in Int /\ 0 <= end /\ end <= n
  BY TheLarger
<1>2. t = Triple(low, high, by)
  BY DEF SlicedPlaces
<1>3. /\ low \in Int /\ high \in Int /\ -1 <= high /\ high <= n
      /\ by > 0 => 0 <= low
      /\ by < 0 => low <= n - 1
  <2> HIDE DEF end
  <2>1. QED
    BY <1>1
<1>4. by > 0 => high <= n
  BY <1>3
<1> HIDE DEF end, t, low, high
<1>5. t \in Triples /\ t.start = low /\ t.stop = high /\ t.step = by
  BY <1>2, <1>3, TripleIs
<1>6. ASSUME NEW i \in 1 .. Size(t) PROVE t.start + (i - 1) * t.step \in 0 .. n - 1
  <2>1. Size(t) \in Nat /\ \A k \in Nat : k < Size(t) <=> Within(t, low + k * by)
    BY <1>5, SizeIs
  <2>2. i - 1 \in Nat /\ i - 1 < Size(t)
    BY <2>1
  <2>3. Within(t, low + (i - 1) * by)
    BY <2>1, <2>2
  <2> DEFINE k == i - 1
  <2>4. k \in Int /\ 0 \in Int /\ k >= 0
    BY <2>2
  <2> HIDE DEF k
  <2>5. /\ k * by \in Int /\ 0 * by = 0
        /\ by > 0 => k * by >= 0
        /\ by < 0 => k * by <= 0
    <3>1. k * by \in Int /\ 0 * by = 0
      BY <2>4
    <3>2. by > 0 => (k < 0 <=> k * by < 0 * by)
      BY <2>4, StepTimes
    <3>3. by < 0 => (k < 0 <=> 0 * by < k * by)
      BY <2>4, StepTimes
    <3>4. QED
      BY <2>4, <3>1, <3>2, <3>3
  <2>6. Within(t, low + k * by)
    BY <2>3 DEF k
  <2>7. low + k * by \in 0 .. n - 1
    <3>1. CASE by > 0
      <4>1. low + k * by < high
        BY <1>5, <2>6, <3>1 DEF Within
      <4>2. QED
        BY <1>3, <2>5, <3>1, <4>1
    <3>2. CASE by < 0
      <4>1. high < low + k * by
        BY <1>5, <2>6, <3>2 DEF Within
      <4>2. QED
        BY <1>3, <2>5, <3>2, <4>1
    <3>3. QED
      BY <3>1, <3>2
  <2>8. QED
    BY <1>5, <2>7 DEF k
<1>7. QED
  BY <1>5, <1>6 DEF t

LEMMA TakenAre ==
  ASSUME NEW labels \in Seq(Int), NEW t \in Triples,
         \A i \in 1 .. Size(t) : t.start + (i - 1) * t.step \in 0 .. Len(labels) - 1
  PROVE  /\ TakenBy(labels, t) \in Seq(Int) /\ Len(TakenBy(labels, t)) = Size(t)
         /\ \A i \in 1 .. Size(t) : TakenBy(labels, t)[i] = labels[t.start + (i - 1) * t.step + 1]
<1> DEFINE s == TakenBy(labels, t)
           n == Size(t)
           place(i) == t.start + (i - 1) * t.step
<1>1. n \in Nat
  BY SizeIs
<1>2. \A i \in 1 .. n : place(i) \in 0 .. Len(labels) - 1
  OBVIOUS
<1>3. s = [i \in 1 .. n |-> labels[place(i) + 1]]
  BY DEF TakenBy
<1> HIDE DEF place, n, s
<1>4. \A i \in 1 .. n : place(i) + 1 \in 1 .. Len(labels)
  BY <1>2
<1>5. \A i \in 1 .. n : labels[place(i) + 1] \in Int
  BY <1>4
<1>6. s \in [1 .. n -> Int] /\ \A i \in 1 .. n : s[i] = labels[place(i) + 1]
  BY <1>3, <1>5
<1>7. s \in Seq(Int) /\ Len(s) = n
  BY <1>1, <1>6
<1>8. QED
  BY <1>6, <1>7 DEF place, n, s

LEMMA SliceIsARange ==
  ASSUME NEW r \in Triples, NEW t \in Triples,
         \A i \in 1 .. Size(t) : t.start + (i - 1) * t.step \in 0 .. Size(r) - 1
  PROVE  LET cut == Triple(r.start + t.start * r.step, r.start + t.stop * r.step, t.step * r.step)
         IN  cut \in Triples /\ TakenBy(Points(r), t) = Points(cut)
<1> DEFINE first == r.start
           step == r.step
           low == t.start
           high == t.stop
           by == t.step
           from == first + low * step
           stop == first + high * step
           d == by * step
           cut == Triple(from, stop, d)
           taken == TakenBy(Points(r), t)
<1>1. /\ first \in Int /\ step \in Int /\ step # 0
      /\ low \in Int /\ high \in Int /\ by \in Int /\ by # 0
  BY IsATriple
<1>2. /\ Points(r) \in Seq(Int) /\ Len(Points(r)) = Size(r) /\ Size(r) \in Nat
      /\ \A i \in 1 .. Size(r) : Points(r)[i] = first + (i - 1) * step
  BY PointsAre
<1>3. /\ taken \in Seq(Int) /\ Len(taken) = Size(t)
      /\ \A i \in 1 .. Size(t) : taken[i] = Points(r)[low + (i - 1) * by + 1]
  BY <1>2, TakenAre
<1>4. /\ Size(t) \in Nat
      /\ \A i \in Nat : i < Size(t) <=> Within(t, low + i * by)
  BY SizeIs
<1>5. \A x : Within(t, x) <=> IF by > 0 THEN x < high ELSE high < x
  BY DEF Within
<1>6. \A i \in 1 .. Size(t) : low + (i - 1) * by \in 0 .. Size(r) - 1
  OBVIOUS
<1> HIDE DEF first, step, low, high, by, taken
<1>7. /\ from \in Int /\ stop \in Int /\ d \in Int /\ d # 0
      /\ d > 0 <=> (by > 0 <=> step > 0)
  <2>1. from \in Int /\ stop \in Int /\ d \in Int
    BY <1>1
  <2>2. 0 * step = 0
    BY <1>1
  <2>3. /\ step > 0 => (0 < by <=> 0 * step < by * step) /\ (by < 0 <=> by * step < 0 * step)
        /\ step < 0 => (0 < by <=> by * step < 0 * step) /\ (by < 0 <=> 0 * step < by * step)
    BY <1>1, StepTimes
  <2>4. QED
    BY <1>1, <2>1, <2>2, <2>3
<1>8. \A i \in Int : (first + (low + i * by) * step) = from + i * d
  BY <1>1
<1>9. \A x \in Int : /\ step > 0 => (x < high <=> x * step < high * step)
                     /\ step < 0 => (x < high <=> high * step < x * step)
                     /\ step > 0 => (high < x <=> high * step < x * step)
                     /\ step < 0 => (high < x <=> x * step < high * step)
                     /\ x * step \in Int /\ high * step \in Int
  BY <1>1, StepTimes
<1>10. ASSUME NEW i \in Nat
       PROVE  Within(t, low + i * by) <=> (IF d > 0 THEN from + i * d < stop ELSE stop < from + i * d)
  <2> DEFINE x == low + i * by
  <2>1. x \in Int /\ from + i * d = first + x * step
    BY <1>1, <1>8
  <2> HIDE DEF x, from, d
  <2>2. Within(t, x) <=> IF by > 0 THEN x < high ELSE high < x
    BY <1>5
  <2>3. Within(t, x) <=> (IF d > 0 THEN from + i * d < stop ELSE stop < from + i * d)
    BY <1>1, <1>7, <1>9, <2>1, <2>2
  <2>4. QED
    BY <2>3 DEF x
<1>11. \A i \in 1 .. Size(t) : taken[i] = from + (i - 1) * d
  <2>1. TAKE i \in 1 .. Size(t)
  <2> DEFINE x == low + (i - 1) * by
  <2>2. x \in 0 .. Size(r) - 1
    BY <1>6
  <2>3. taken[i] = Points(r)[x + 1]
    BY <1>3
  <2>4. first + x * step = from + (i - 1) * d
    <3>1. i - 1 \in Int
      BY <1>4
    <3>2. QED
      BY <1>8, <3>1
  <2> HIDE DEF x
  <2>5. x + 1 \in 1 .. Size(r) /\ (x + 1) - 1 = x
    BY <1>2, <2>2
  <2>6. Points(r)[x + 1] = first + x * step
    BY <1>2, <2>5
  <2>7. QED
    BY <2>3, <2>4, <2>6
<1> HIDE DEF from, stop, d
<1>12. cut \in Triples /\ cut.start = from /\ cut.stop = stop /\ cut.step = d
  BY <1>7, TripleIs
<1> HIDE DEF cut
<1>13. \A i \in Nat : i < Len(taken) <=> Within(cut, cut.start + i * cut.step)
  BY <1>3, <1>4, <1>10, <1>12 DEF Within
<1>14. \A i \in 1 .. Len(taken) : taken[i] = cut.start + (i - 1) * cut.step
  BY <1>3, <1>11, <1>12
<1>15. taken = Points(cut)
  BY <1>3, <1>12, <1>13, <1>14, AreItsPoints
<1>16. QED
  BY <1>12, <1>15 DEF cut, from, stop, d, first, step, low, high, by, taken
-----------------------------------------------------------------------------
(***************************************************************************)
(* What a plain index answers is labels again.                             *)
(***************************************************************************)
LEMMA IntLabels ==
  ASSUME NEW s, IsSequence(s), \A k \in 1 .. Len(s) : s[k] \in Int
  PROVE  s \in Seq(Int)
<1>1. Len(s) \in Nat /\ s \in [1 .. Len(s) -> Int]
  BY DEF IsSequence
<1>2. QED
  BY <1>1

\* Labels at places where none of them repeats.
LEMMA PickedLabels ==
  ASSUME NEW labels \in Seq(Int), NEW places \in SUBSET (DOMAIN labels),
         \A i, j \in places : labels[i] = labels[j] => i = j,
         NEW K, \A x : x \in K <=> \E i \in places : labels[i] = x
  PROVE  Lists(AtPlaces(labels, places), K) /\ AtPlaces(labels, places) \in Seq(Int)
<1> DEFINE order == Sorted(places, <)
           some == AtPlaces(labels, places)
<1>1. /\ DOMAIN labels = 1 .. Len(labels) /\ Len(labels) \in Nat
      /\ \A i \in DOMAIN labels : labels[i] \in Int
  OBVIOUS
<1>2. Lists(order, places)
  BY <1>1, SortedPlaces
<1>3. some = [k \in DOMAIN order |-> labels[order[k]]]
  BY DEF AtPlaces
<1> HIDE DEF order, some
<1>4. /\ Len(order) \in Nat /\ DOMAIN order = 1 .. Len(order)
      /\ \A k \in 1 .. Len(order) : order[k] \in places
      /\ \A x \in places : \E k \in 1 .. Len(order) : order[k] = x
      /\ \A k, m \in 1 .. Len(order) : order[k] = order[m] => k = m
  BY <1>2 DEF Lists, IsSequence
<1>5. /\ \A k \in 1 .. Len(order) : some[k] = labels[order[k]]
      /\ some = [k \in 1 .. Len(order) |-> some[k]]
  BY <1>3, <1>4
<1>6. IsSequence(some) /\ Len(some) = Len(order)
  BY <1>4, <1>5, MadeSequence
<1>7. \A x \in K : \E k \in 1 .. Len(some) : some[k] = x
  <2>1. TAKE x \in K
  <2>2. PICK i \in places : labels[i] = x
    BY <2>1
  <2>3. PICK k \in 1 .. Len(order) : order[k] = i
    BY <1>4
  <2>4. QED
    BY <1>5, <1>6, <2>2, <2>3
<1>8. \A k, m \in 1 .. Len(some) : some[k] = some[m] => k = m
  BY <1>4, <1>5, <1>6
<1>9. \A k \in 1 .. Len(some) : some[k] \in K /\ some[k] \in Int
  BY <1>1, <1>4, <1>5, <1>6
<1>10. QED
  BY <1>6, <1>7, <1>8, <1>9, IntLabels DEF Lists, some

\* The first place of each label.
LEMMA FirstOnesAre ==
  ASSUME NEW labels \in Seq(Int)
  PROVE  /\ FirstOnes(labels) \in SUBSET (DOMAIN labels)
         /\ \A i, j \in FirstOnes(labels) : labels[i] = labels[j] => i = j
         /\ \A k \in DOMAIN labels : \E i \in FirstOnes(labels) : labels[i] = labels[k]
<1>1. DOMAIN labels = 1 .. Len(labels) /\ Len(labels) \in Nat
  OBVIOUS
<1>2. ASSUME NEW i \in FirstOnes(labels), NEW j \in FirstOnes(labels), labels[i] = labels[j]
      PROVE  i = j
  <2>1. i \in 1 .. Len(labels) /\ j \in 1 .. Len(labels)
    BY <1>1 DEF FirstOnes
  <2>2. i \notin 1 .. j - 1 /\ j \notin 1 .. i - 1
    BY <1>2 DEF FirstOnes
  <2>3. QED
    BY <1>1, <2>1, <2>2
<1>3. ASSUME NEW k \in DOMAIN labels PROVE \E i \in FirstOnes(labels) : labels[i] = labels[k]
  <2> DEFINE S == {i \in DOMAIN labels : labels[i] = labels[k]}
             i == Min(S)
  <2>1. S \in SUBSET (1 .. Len(labels)) /\ S # {}
    BY <1>1
  <2>2. i \in S /\ \A x \in S : i <= x
    <3> HIDE DEF S
    <3>1. QED
      BY <1>1, <2>1, Ends
  <2> HIDE DEF i
  <2>3. i \in DOMAIN labels /\ labels[i] = labels[k]
    BY <2>2
  <2>4. \A j \in 1 .. i - 1 : labels[j] # labels[i]
    <3>1. TAKE j \in 1 .. i - 1
    <3>2. j \in DOMAIN labels /\ ~ (i <= j)
      BY <1>1, <2>3
    <3>3. QED
      BY <2>2, <2>3, <3>2
  <2>5. QED
    BY <2>3, <2>4 DEF FirstOnes
<1>4. QED
  BY <1>2, <1>3 DEF FirstOnes

LEMMA SomeFirstOnes ==
  ASSUME NEW labels \in Seq(Int), NEW places \in SUBSET FirstOnes(labels)
  PROVE  AtPlaces(labels, places) \in Seq(Int)
<1>1. /\ places \in SUBSET (DOMAIN labels)
      /\ \A i, j \in places : labels[i] = labels[j] => i = j
  BY FirstOnesAre
<1>2. \A x : x \in {labels[i] : i \in places} <=> \E i \in places : labels[i] = x
  OBVIOUS
<1>3. QED
  BY <1>1, <1>2, PickedLabels

\* Labels put in order: with no label twice, a climb through them all.
LEMMA SortedLabels ==
  ASSUME NEW labels \in Seq(Int)
  PROVE  /\ InOrder(labels) \in Seq(Int)
         /\ \A K : Lists(labels, K) => Lists(InOrder(labels), K) /\ Climbs(InOrder(labels), Upwards)
<1> DEFINE D == DOMAIN labels
           n == Len(labels)
           ahead(j) == {i \in D : labels[i] < labels[j] \/ (labels[i] = labels[j] /\ i < j)}
           R == {ij \in D \X D : ij[1] \in ahead(ij[2])}
           f == ByOrder(D, R)
           g == Sorted(D, LAMBDA i, j : labels[i] < labels[j] \/ (labels[i] = labels[j] /\ i < j))
           sorted == InOrder(labels)
<1>1. n \in Nat /\ D = 1 .. n /\ \A i \in D : labels[i] \in Int /\ i \in Int
  OBVIOUS
<1>2. IsFiniteSet(D) /\ Cardinality(D) = n
  <2> HIDE DEF D, n
  <2>1. QED
    BY <1>1, FS_Interval
<1> HIDE DEF D, n
<1>3. \A i, j \in D : <<i, j>> \in R <=> labels[i] < labels[j] \/ (labels[i] = labels[j] /\ i < j)
  OBVIOUS
<1>4. g = f
  <2> DEFINE c(k) == CHOOSE x \in D : Cardinality(ahead(x)) = k - 1
             d(k) == CHOOSE x \in D : Cardinality(Preceding(D, R, x)) = k - 1
  <2>1. \A x \in D : ahead(x) = Preceding(D, R, x)
    <3>1. TAKE x \in D
    <3>2. ahead(x) \subseteq D
      OBVIOUS
    <3> HIDE DEF ahead
    <3>3. QED
      BY <3>2 DEF Preceding
  <2>2. \A k : c(k) = d(k)
    <3> HIDE DEF R, ahead
    <3>1. QED
      BY <2>1
  <2>3. g = [k \in 1 .. Cardinality(D) |-> c(k)]
    BY DEF Sorted
  <2>4. f = [k \in 1 .. Cardinality(D) |-> d(k)]
    <3> HIDE DEF R
    <3>1. QED
      BY DEF ByOrder
  <2> HIDE DEF c, d, R, g, f
  <2>5. QED
    BY <2>2, <2>3, <2>4
<1>5. OrderOn(R, D)
  <2> HIDE DEF R
  <2>1. ASSUME NEW i \in D PROVE <<i, i>> \notin R
    BY <1>1, <1>3
  <2>2. ASSUME NEW i \in D, NEW j \in D, i # j PROVE <<i, j>> \in R \/ <<j, i>> \in R
    BY <1>1, <1>3, <2>2
  <2>3. ASSUME NEW i \in D, NEW j \in D, NEW k \in D, <<i, j>> \in R, <<j, k>> \in R
        PROVE  <<i, k>> \in R
    BY <1>1, <1>3, <2>3
  <2>4. QED
    BY <2>1, <2>2, <2>3 DEF OrderOn
<1>6. Lists(f, D) /\ Climbs(f, R) /\ Len(f) = n
  <2> HIDE DEF R
  <2>1. QED
    BY <1>2, <1>5, ByOrderIs
<1>7. DOMAIN f = 1 .. n /\ \A k \in 1 .. n : f[k] \in D
  BY <1>6 DEF Lists, IsSequence
<1>8. sorted = [k \in DOMAIN g |-> labels[g[k]]]
  BY DEF InOrder, D
<1> HIDE DEF f, g, R, sorted
<1>9. sorted = [k \in 1 .. Len(f) |-> labels[f[k]]]
  BY <1>4, <1>6, <1>7, <1>8
<1>10. sorted \in Seq(Int) /\ Len(sorted) = n
  <2>1. \A k \in 1 .. n : labels[f[k]] \in Int
    BY <1>1, <1>7
  <2>2. sorted \in [1 .. n -> Int]
    BY <1>6, <1>9, <2>1
  <2>3. QED
    BY <1>1, <2>2
<1>11. ASSUME NEW K, Lists(labels, K) PROVE Lists(sorted, K) /\ Climbs(sorted, Upwards)
  <2>1. Lists(f, 1 .. Len(labels))
    BY <1>1, <1>6 DEF n
  <2>2. /\ Lists(sorted, K) /\ Len(sorted) = Len(f)
        /\ \A k \in 1 .. Len(sorted) : sorted[k] = labels[f[k]]
    BY <1>9, <1>11, <2>1, Rearranged
  <2>3. ASSUME NEW k \in 1 .. n, NEW m \in 1 .. n, k < m PROVE <<sorted[k], sorted[m]>> \in Upwards
    <3>1. <<f[k], f[m]>> \in R /\ f[k] \in D /\ f[m] \in D
      BY <1>6, <1>7, <2>3 DEF Climbs
    <3>2. sorted[k] = labels[f[k]] /\ sorted[m] = labels[f[m]]
      BY <1>10, <2>2
    <3>3. labels[f[k]] \in Int /\ labels[f[m]] \in Int
      BY <1>1, <3>1
    <3>4. sorted[k] # sorted[m]
      <4>1. k \in 1 .. Len(sorted) /\ m \in 1 .. Len(sorted) /\ k # m
        BY <1>1, <1>10, <2>3
      <4>2. QED
        BY <2>2, <4>1 DEF Lists
    <3>5. QED
      BY <1>3, <3>1, <3>2, <3>3, <3>4 DEF Upwards
  <2>4. QED
    BY <1>10, <2>2, <2>3 DEF Climbs
<1>12. QED
  BY <1>10, <1>11 DEF sorted

LEMMA FlatLabels ==
  ASSUME NEW pieces, IsSequence(pieces), \A g \in 1 .. Len(pieces) : pieces[g] \in Seq(Int)
  PROVE  FlattenSeq(pieces) \in Seq(Int)
<1> DEFINE s == FlattenSeq(pieces)
<1>1. \A g \in 1 .. Len(pieces) : IsSequence(pieces[g])
  BY DEF IsSequence
<1>2. PICK off : Stacks(s, pieces, Len(pieces), off)
  BY <1>1, Flattened
<1> HIDE DEF s
<1>3. IsSequence(s)
  BY <1>2 DEF Stacks
<1>4. ASSUME NEW m \in 1 .. Len(s) PROVE s[m] \in Int
  <2>1. PICK g \in 1 .. Len(pieces) : \E k \in 1 .. Len(pieces[g]) : m = off[g - 1] + k
    BY <1>2 DEF Stacks
  <2>2. PICK k \in 1 .. Len(pieces[g]) : m = off[g - 1] + k
    BY <2>1
  <2>3. s[m] = pieces[g][k]
    BY <1>2, <2>2 DEF Stacks
  <2>4. pieces[g][k] \in Int
    OBVIOUS
  <2>5. QED
    BY <2>3, <2>4
<1>5. QED
  BY <1>3, <1>4, IntLabels DEF s

\* A label so many times over.
LEMMA SameLabels ==
  ASSUME NEW n \in Nat, NEW label \in Int
  PROVE  [c \in 1 .. n |-> label] \in Seq(Int)
OBVIOUS

LEMMA CopiesAre ==
  ASSUME NEW labels \in Seq(Int), NEW label
  PROVE  Copies(labels, label) \in Nat
<1>1. IsFiniteSet(1 .. Len(labels))
  BY FS_Interval
<1>2. {i \in DOMAIN labels : labels[i] = label} \in SUBSET (1 .. Len(labels))
  OBVIOUS
<1>3. QED
  BY <1>1, <1>2, FS_Subset, FS_CardinalityType DEF Copies

LEMMA EitherIs ==
  ASSUME NEW labels \in Seq(Int), NEW other \in Seq(Int)
  PROVE  Either(labels, other) \in Seq(Int)
<1> DEFINE all == Once(labels \o other)
           times(label) == Max({Copies(labels, label), Copies(other, label)})
           pieces == [i \in DOMAIN all |-> [c \in 1 .. times(all[i]) |-> all[i]]]
<1>1. all \in Seq(Int)
  <2>1. labels \o other \in Seq(Int)
    OBVIOUS
  <2>2. QED
    BY <2>1, SomeFirstOnes DEF Once
<1>2. \A label : times(label) \in Nat
  <2>1. TAKE label
  <2>2. Copies(labels, label) \in Nat /\ Copies(other, label) \in Nat
    BY CopiesAre
  <2> DEFINE a == Copies(labels, label)
             b == Copies(other, label)
  <2>3. a \in Nat /\ b \in Nat
    BY <2>2
  <2> HIDE DEF a, b
  <2>4. Max({a, b}) \in Nat
    BY <2>3, TheLarger
  <2>5. QED
    BY <2>4 DEF a, b
<1>3. Either(labels, other) = FlattenSeq(pieces)
  BY DEF Either
<1> HIDE DEF all, times
<1>4. Len(all) \in Nat /\ DOMAIN all = 1 .. Len(all) /\ \A i \in 1 .. Len(all) : all[i] \in Int
  BY <1>1
<1>5. /\ pieces = [i \in 1 .. Len(all) |-> pieces[i]]
      /\ \A i \in 1 .. Len(all) : pieces[i] = [c \in 1 .. times(all[i]) |-> all[i]]
  BY <1>4
<1> HIDE DEF pieces
<1>6. IsSequence(pieces) /\ Len(pieces) = Len(all)
  BY <1>4, <1>5, MadeSequence
<1>7. \A i \in 1 .. Len(all) : pieces[i] \in Seq(Int)
  <2>1. TAKE i \in 1 .. Len(all)
  <2> DEFINE n == times(all[i])
             label == all[i]
  <2>2. n \in Nat /\ label \in Int /\ pieces[i] = [c \in 1 .. n |-> label]
    BY <1>2, <1>4, <1>5
  <2> HIDE DEF n, label
  <2>3. [c \in 1 .. n |-> label] \in Seq(Int)
    BY <2>2, SameLabels
  <2>4. QED
    BY <2>2, <2>3
<1>8. QED
  BY <1>3, <1>6, <1>7, FlatLabels

LEMMA PlainAnswers ==
  ASSUME NEW labels \in Seq(Int), NEW other \in Seq(Int)
  PROVE  /\ Once(labels) \in Seq(Int)
         /\ PlainUnion(labels, other) \in Seq(Int)
         /\ PlainIntersection(labels, other) \in Seq(Int)
         /\ PlainDifference(labels, other) \in Seq(Int)
         /\ PlainSymmetric(labels, other) \in Seq(Int)
<1>1. Once(labels) \in Seq(Int)
  BY SomeFirstOnes DEF Once
<1>2. PlainUnion(labels, other) \in Seq(Int)
  BY EitherIs, SortedLabels DEF PlainUnion
<1>3. PlainIntersection(labels, other) \in Seq(Int)
  BY SomeFirstOnes DEF PlainIntersection
<1>4. PlainDifference(labels, other) \in Seq(Int)
  BY SomeFirstOnes, SortedLabels DEF PlainDifference
<1>5. PlainSymmetric(labels, other) \in Seq(Int)
  <2> DEFINE all == labels \o other
             places == {i \in FirstOnes(all) : all[i] \notin ToSet(labels) \cap ToSet(other)}
  <2>1. all \in Seq(Int) /\ places \in SUBSET FirstOnes(all)
    OBVIOUS
  <2>2. PlainSymmetric(labels, other) = InOrder(AtPlaces(all, places))
    BY DEF PlainSymmetric
  <2> HIDE DEF all, places
  <2>3. QED
    BY <2>1, <2>2, SomeFirstOnes, SortedLabels
<1>6. QED
  BY <1>1, <1>2, <1>3, <1>4, <1>5
-----------------------------------------------------------------------------
(***************************************************************************)
(* Euclid's algorithm.  Each pass keeps two numbers that are combinations  *)
(* of the first two, and of which these are combinations; the second of    *)
(* them gets smaller until nothing is left of it.                          *)
(***************************************************************************)
FirstPass(a, b) == [old |-> a, r |-> b, oldFactor |-> 1, factor |-> 0]
NextPass(s) == [old |-> s.r, r |-> s.old - (s.old \div s.r) * s.r,
                oldFactor |-> s.factor, factor |-> s.oldFactor - (s.old \div s.r) * s.factor]

Passes(a, b, n, f) ==
  f = [m \in 0 .. n |-> IF m = 0 THEN FirstPass(a, b)
                        ELSE IF f[m - 1].r = 0 THEN f[m - 1] ELSE NextPass(f[m - 1])]

LEMMA PassesGo ==
  ASSUME NEW a, NEW b \in Nat
  PROVE  \E f : Passes(a, b, b, f) /\ ExtendedGcd(a, b) = <<f[b].old, f[b].oldFactor>>
<1> DEFINE K == {n \in Nat : \E f : Passes(a, b, n, f)}
<1>1. 0 \in K
  <2> DEFINE f == [m \in 0 .. 0 |-> FirstPass(a, b)]
  <2>1. Passes(a, b, 0, f)
    BY DEF Passes
  <2>2. QED
    BY <2>1
<1>2. ASSUME NEW n \in Nat, n \in K PROVE n + 1 \in K
  <2>1. PICK f : Passes(a, b, n, f)
    BY <1>2
  <2> DEFINE h == [m \in 0 .. n + 1 |-> IF m = 0 THEN FirstPass(a, b)
                                        ELSE IF f[m - 1].r = 0 THEN f[m - 1] ELSE NextPass(f[m - 1])]
  <2>2. \A m \in 0 .. n : h[m] = f[m]
    BY <2>1 DEF Passes
  <2>3. \A m \in 0 .. n + 1 : m # 0 => m - 1 \in 0 .. n
    OBVIOUS
  <2>4. h = [m \in 0 .. n + 1 |-> IF m = 0 THEN FirstPass(a, b)
                                  ELSE IF h[m - 1].r = 0 THEN h[m - 1] ELSE NextPass(h[m - 1])]
    BY <2>2, <2>3
  <2> HIDE DEF h
  <2>5. Passes(a, b, n + 1, h)
    BY <2>4 DEF Passes
  <2>6. QED
    BY <2>5
<1> HIDE DEF K
<1>3. b \in K
  BY <1>1, <1>2, AllNaturals
<1> DEFINE pass == CHOOSE f : Passes(a, b, b, f)
<1>4. Passes(a, b, b, pass)
  BY <1>3 DEF K
<1>5. ExtendedGcd(a, b) = <<pass[b].old, pass[b].oldFactor>>
  BY DEF ExtendedGcd, Passes, FirstPass, NextPass
<1> HIDE DEF pass
<1>6. QED
  BY <1>4, <1>5

Combines(a, b, factor, x) == \E v \in Int : a * factor + b * v = x
MadeOf(x, old, r) == \E p, q \in Int : x = old * p + r * q

PassInv(a, b, n, s) ==
  /\ s.old \in Int /\ s.old > 0 /\ s.r \in Int /\ s.r >= 0
  /\ s.oldFactor \in Int /\ s.factor \in Int
  /\ s.r = 0 \/ s.r <= b - n
  /\ Combines(a, b, s.oldFactor, s.old) /\ Combines(a, b, s.factor, s.r)
  /\ MadeOf(a, s.old, s.r) /\ MadeOf(b, s.old, s.r)

LEMMA CombinesOn ==
  ASSUME NEW a \in Int, NEW b \in Int, NEW old \in Int, NEW r \in Int, NEW f \in Int, NEW e \in Int,
         NEW q \in Int, Combines(a, b, f, old), Combines(a, b, e, r)
  PROVE  Combines(a, b, f - q * e, old - q * r)
<1>1. PICK v \in Int : a * f + b * v = old
  BY DEF Combines
<1>2. PICK w \in Int : a * e + b * w = r
  BY DEF Combines
<1>3. v - q * w \in Int
  OBVIOUS
<1>4. a * (f - q * e) + b * (v - q * w) = (a * f + b * v) - q * (a * e + b * w)
  OBVIOUS
<1>5. a * (f - q * e) + b * (v - q * w) = old - q * r
  BY <1>1, <1>2, <1>4
<1>6. QED
  BY <1>3, <1>5 DEF Combines

LEMMA MadeOfNext ==
  ASSUME NEW x \in Int, NEW old \in Int, NEW r \in Int, NEW q \in Int, MadeOf(x, old, r)
  PROVE  MadeOf(x, r, old - q * r)
<1>1. PICK p \in Int, z \in Int : x = old * p + r * z
  BY DEF MadeOf
<1>2. q * p + z \in Int
  OBVIOUS
<1>3. r * (q * p + z) + (old - q * r) * p = old * p + r * z
  OBVIOUS
<1>4. x = r * (q * p + z) + (old - q * r) * p
  BY <1>1, <1>3
<1>5. QED
  BY <1>2, <1>4 DEF MadeOf

LEMMA PassKeeps ==
  ASSUME NEW a \in Int, NEW b \in Int, NEW n \in Nat, NEW s, PassInv(a, b, n, s), s.r # 0
  PROVE  PassInv(a, b, n + 1, NextPass(s))
<1> DEFINE old == s.old
           r == s.r
           f == s.oldFactor
           e == s.factor
           q == old \div r
           rest == old - q * r
           t == NextPass(s)
<1>1. /\ old \in Int /\ old > 0 /\ r \in Int /\ r > 0 /\ f \in Int /\ e \in Int /\ r <= b - n
      /\ Combines(a, b, f, old) /\ Combines(a, b, e, r)
      /\ MadeOf(a, old, r) /\ MadeOf(b, old, r)
  BY DEF PassInv
<1>2. t.old = r /\ t.r = rest /\ t.oldFactor = e /\ t.factor = f - q * e
  BY DEF NextPass
<1> HIDE DEF old, r, f, e, t
<1>3. q \in Int /\ rest \in Int /\ 0 <= rest /\ rest < r
  <2>1. q \in Int /\ old % r \in 0 .. r - 1 /\ old = q * r + (old % r)
    <3>1. q \in Int /\ old % r \in 0 .. r - 1
      BY <1>1
    <3>2. old = q * r + (old % r)
      BY <1>1
    <3>3. QED
      BY <3>1, <3>2
  <2> DEFINE over == old % r
  <2>2. over \in 0 .. r - 1 /\ old = q * r + over /\ q \in Int
    BY <2>1
  <2> HIDE DEF q, over
  <2>3. q * r \in Int
    BY <1>1, <2>2
  <2>4. QED
    BY <1>1, <2>2, <2>3
<1>4. Combines(a, b, f - q * e, rest)
  <2> HIDE DEF q
  <2>1. QED
    BY <1>1, <1>3, CombinesOn
<1>5. MadeOf(a, r, rest) /\ MadeOf(b, r, rest)
  <2> HIDE DEF q
  <2>1. QED
    BY <1>1, <1>3, MadeOfNext
<1> HIDE DEF q
<1>6. f - q * e \in Int
  BY <1>1, <1>3
<1> HIDE DEF rest
<1>7. rest <= b - (n + 1)
  BY <1>1, <1>3
<1>8. PassInv(a, b, n + 1, t)
  BY <1>1, <1>2, <1>3, <1>4, <1>5, <1>6, <1>7 DEF PassInv
<1>9. QED
  BY <1>8 DEF t

\* The divisor of two steps, and the factors that make it.
LEMMA EuclidDivides ==
  ASSUME NEW a \in Int, NEW b \in Int, a > 0, b > 0
  PROVE  \E g, u, v, p, t \in Int :
           /\ ExtendedGcd(a, b) = <<g, u>> /\ g > 0
           /\ a * u + b * v = g /\ a = g * p /\ b = g * t
<1>1. b \in Nat
  OBVIOUS
<1>2. PICK f : Passes(a, b, b, f) /\ ExtendedGcd(a, b) = <<f[b].old, f[b].oldFactor>>
  BY <1>1, PassesGo
<1> DEFINE K == {n \in Nat : n <= b => PassInv(a, b, n, f[n])}
<1>3. 0 \in K
  <2>1. f[0] = FirstPass(a, b)
    BY <1>1, <1>2 DEF Passes
  <2>2. /\ f[0].old = a /\ f[0].r = b /\ f[0].oldFactor = 1 /\ f[0].factor = 0
    BY <2>1 DEF FirstPass
  <2>3. Combines(a, b, 1, a) /\ Combines(a, b, 0, b)
    <3>1. a * 1 + b * 0 = a /\ a * 0 + b * 1 = b
      OBVIOUS
    <3>2. 0 \in Int /\ 1 \in Int
      OBVIOUS
    <3>3. QED
      BY <3>1, <3>2 DEF Combines
  <2>4. MadeOf(a, a, b) /\ MadeOf(b, a, b)
    <3>1. a = a * 1 + b * 0 /\ b = a * 0 + b * 1
      OBVIOUS
    <3>2. 0 \in Int /\ 1 \in Int
      OBVIOUS
    <3>3. QED
      BY <3>1, <3>2 DEF MadeOf
  <2>5. PassInv(a, b, 0, f[0])
    BY <2>2, <2>3, <2>4 DEF PassInv
  <2>6. QED
    BY <2>5
<1>4. ASSUME NEW n \in Nat, n \in K PROVE n + 1 \in K
  <2>1. SUFFICES ASSUME n + 1 <= b PROVE PassInv(a, b, n + 1, f[n + 1])
    OBVIOUS
  <2>2. PassInv(a, b, n, f[n])
    BY <1>4, <2>1
  <2>3. n + 1 \in 0 .. b /\ n + 1 # 0 /\ (n + 1) - 1 = n
    BY <2>1
  <2>4. f[n + 1] = IF f[n].r = 0 THEN f[n] ELSE NextPass(f[n])
    BY <1>2, <2>3 DEF Passes
  <2>5. CASE f[n].r = 0
    BY <2>2, <2>4, <2>5 DEF PassInv
  <2>6. CASE f[n].r # 0
    BY <2>2, <2>4, <2>6, PassKeeps
  <2>7. QED
    BY <2>5, <2>6
<1> HIDE DEF K
<1>5. PassInv(a, b, b, f[b])
  <2>1. b \in K
    BY <1>1, <1>3, <1>4, AllNaturals
  <2>2. QED
    BY <1>1, <2>1 DEF K
<1> DEFINE g == f[b].old
           u == f[b].oldFactor
<1>6. g \in Int /\ u \in Int /\ g > 0 /\ ExtendedGcd(a, b) = <<g, u>> /\ f[b].r = 0
  BY <1>2, <1>5 DEF PassInv
<1>7. Combines(a, b, u, g) /\ MadeOf(a, g, 0) /\ MadeOf(b, g, 0)
  BY <1>5, <1>6 DEF PassInv
<1> HIDE DEF g, u
<1>8. PICK v \in Int : a * u + b * v = g
  BY <1>7 DEF Combines
<1>9. PICK p \in Int, q \in Int : a = g * p + 0 * q
  BY <1>7 DEF MadeOf
<1>10. PICK t \in Int, z \in Int : b = g * t + 0 * z
  BY <1>7 DEF MadeOf
<1>11. a = g * p /\ b = g * t
  <2>1. 0 * q = 0 /\ 0 * z = 0 /\ g * p \in Int /\ g * t \in Int
    BY <1>6
  <2>2. QED
    BY <1>9, <1>10, <2>1
<1>12. QED
  BY <1>6, <1>8, <1>11
-----------------------------------------------------------------------------
(***************************************************************************)
(* The set of a range's labels, and a range walked backwards.              *)
(***************************************************************************)
PointSet(r) == {x \in Int : Within(r, x) /\ \E k \in Nat : x = r.start + k * r.step}

LEMMA PointsList ==
  ASSUME NEW r \in Triples
  PROVE  /\ Lists(Points(r), PointSet(r)) /\ ToSet(Points(r)) = PointSet(r)
         /\ r.step > 0 => Climbs(Points(r), Upwards)
<1> DEFINE n == Size(r)
           p == Points(r)
           first == r.start
           step == r.step
<1>1. /\ p \in Seq(Int) /\ Len(p) = n /\ n \in Nat /\ p = [i \in 1 .. n |-> p[i]]
      /\ \A i \in 1 .. n : p[i] = first + (i - 1) * step
  BY PointsAre
<1>2. first \in Int /\ step \in Int /\ step # 0
  BY IsATriple
<1>3. \A i \in Nat : i < n <=> Within(r, first + i * step)
  BY SizeIs
<1>4. \A x : x \in PointSet(r) <=> x \in Int /\ Within(r, x) /\ \E k \in Nat : x = first + k * step
  BY DEF PointSet
<1> HIDE DEF n, p, first, step
<1>5. ASSUME NEW i \in 1 .. n PROVE p[i] \in PointSet(r)
  <2>1. i - 1 \in Nat /\ i - 1 < n
    BY <1>1
  <2>2. p[i] = first + (i - 1) * step /\ p[i] \in Int
    BY <1>1
  <2>3. QED
    BY <1>3, <1>4, <2>1, <2>2
<1>6. ASSUME NEW x \in PointSet(r) PROVE \E i \in 1 .. n : p[i] = x
  <2>1. PICK k \in Nat : x = first + k * step
    BY <1>4
  <2>2. k < n
    BY <1>3, <1>4, <2>1
  <2>3. k + 1 \in 1 .. n /\ (k + 1) - 1 = k
    BY <1>1, <2>2
  <2>4. QED
    BY <1>1, <2>1, <2>3
<1>7. ASSUME NEW i \in 1 .. n, NEW j \in 1 .. n, i < j
      PROVE  p[i] # p[j] /\ (step > 0 => p[i] < p[j])
  <2> DEFINE x == i - 1
             y == j - 1
  <2>1. x \in Int /\ y \in Int /\ x < y
    BY <1>1, <1>7
  <2>2. p[i] = first + x * step /\ p[j] = first + y * step
    BY <1>1
  <2> HIDE DEF x, y
  <2>3. /\ x * step \in Int /\ y * step \in Int
        /\ step > 0 => x * step < y * step
        /\ step < 0 => y * step < x * step
    BY <1>2, <2>1, StepTimes
  <2>4. QED
    BY <1>2, <2>2, <2>3
<1>8. \A i, j \in 1 .. n : p[i] = p[j] => i = j
  <2>1. TAKE i, j \in 1 .. n
  <2>2. i < j \/ j < i \/ i = j
    BY <1>1
  <2>3. QED
    BY <1>7, <2>2
<1>9. IsSequence(p)
  BY <1>1 DEF IsSequence
<1>10. Lists(p, PointSet(r))
  BY <1>1, <1>5, <1>6, <1>8, <1>9 DEF Lists
<1>11. ToSet(p) = PointSet(r)
  <2>1. DOMAIN p = 1 .. n
    BY <1>1
  <2>2. QED
    BY <1>5, <1>6, <2>1 DEF ToSet
<1>12. step > 0 => Climbs(p, Upwards)
  <2>1. \A i \in 1 .. n : p[i] \in Int
    BY <1>1
  <2>2. QED
    BY <1>1, <1>7, <2>1 DEF Climbs, Upwards
<1>13. QED
  BY <1>10, <1>11, <1>12 DEF p, step

LEMMA ReverseIs ==
  ASSUME NEW s \in Seq(Int)
  PROVE  /\ Reverse(s) \in Seq(Int) /\ Len(Reverse(s)) = Len(s)
         /\ \A i \in 1 .. Len(s) : Len(s) - i + 1 \in 1 .. Len(s) /\ Reverse(s)[i] = s[Len(s) - i + 1]
         /\ ToSet(Reverse(s)) = ToSet(s)
<1> DEFINE n == Len(s)
           b == Reverse(s)
<1>1. n \in Nat /\ DOMAIN s = 1 .. n /\ \A i \in 1 .. n : s[i] \in Int
  OBVIOUS
<1>2. b = [i \in 1 .. n |-> s[n - i + 1]]
  BY DEF Reverse
<1> HIDE DEF n, b
<1>3. \A i \in 1 .. n : n - i + 1 \in 1 .. n /\ n - (n - i + 1) + 1 = i
  BY <1>1
<1>4. b \in [1 .. n -> Int] /\ \A i \in 1 .. n : b[i] = s[n - i + 1]
  BY <1>1, <1>2, <1>3
<1>5. b \in Seq(Int) /\ Len(b) = n /\ DOMAIN b = 1 .. n
  BY <1>1, <1>4
<1>6. ToSet(b) = ToSet(s)
  <2>1. ASSUME NEW i \in 1 .. n PROVE \E j \in 1 .. n : b[j] = s[i]
    <3> DEFINE j == n - i + 1
    <3>1. j \in 1 .. n /\ n - j + 1 = i
      BY <1>3
    <3> HIDE DEF j
    <3>2. QED
      BY <1>4, <3>1
  <2>2. ASSUME NEW i \in 1 .. n PROVE \E j \in 1 .. n : b[i] = s[j]
    BY <1>3, <1>4
  <2>3. ToSet(b) = {b[i] : i \in 1 .. n} /\ ToSet(s) = {s[i] : i \in 1 .. n}
    BY <1>1, <1>5 DEF ToSet
  <2>4. QED
    BY <2>1, <2>2, <2>3
<1>7. QED
  BY <1>3, <1>4, <1>5, <1>6 DEF b, n

LEMMA BackwardsIs ==
  ASSUME NEW r \in Triples
  PROVE  /\ Backwards(r) \in Triples /\ Backwards(r).step = -r.step
         /\ Points(Backwards(r)) = Reverse(Points(r))
<1> DEFINE n == Size(r)
           p == Points(r)
           first == r.start
           step == r.step
           from == first + (n - 1) * step
           stop == first - step
           d == -step
           back == Backwards(r)
           s == Reverse(p)
<1>1. /\ p \in Seq(Int) /\ Len(p) = n /\ n \in Nat
      /\ \A i \in 1 .. n : p[i] = first + (i - 1) * step
  BY PointsAre
<1>2. first \in Int /\ step \in Int /\ step # 0
  BY IsATriple
<1>3. back = Triple(from, stop, d)
  BY DEF Backwards
<1>4. /\ s \in Seq(Int) /\ Len(s) = n
      /\ \A i \in 1 .. n : n - i + 1 \in 1 .. n /\ s[i] = p[n - i + 1]
  <2> HIDE DEF n, p
  <2>1. QED
    BY <1>1, ReverseIs
<1> HIDE DEF n, p, first, step, back, s
<1>5. from \in Int /\ stop \in Int /\ d \in Int /\ d # 0
  BY <1>1, <1>2
<1>6. \A i \in Int : first + (n - 1 - i) * step = from + i * d
  BY <1>1, <1>2
<1>7. \A i \in 1 .. n : s[i] = from + (i - 1) * d
  <2>1. TAKE i \in 1 .. n
  <2>2. s[i] = first + ((n - i + 1) - 1) * step
    BY <1>1, <1>4
  <2>3. (n - i + 1) - 1 = n - 1 - (i - 1) /\ i - 1 \in Int
    BY <1>1
  <2>4. QED
    BY <1>6, <2>2, <2>3
<1>8. ASSUME NEW i \in Nat
      PROVE  i < n <=> IF d > 0 THEN from + i * d < stop ELSE stop < from + i * d
  <2> DEFINE x == n - 1 - i
  <2>1. x \in Int /\ -1 \in Int /\ (i < n <=> -1 < x)
    BY <1>1
  <2>2. first + x * step = from + i * d
    BY <1>6
  <2>3. stop = first + (-1) * step /\ (d > 0 <=> step < 0)
    BY <1>2
  <2> HIDE DEF x
  <2>4. /\ x * step \in Int /\ (-1) * step \in Int
        /\ step > 0 => (-1 < x <=> (-1) * step < x * step)
        /\ step < 0 => (-1 < x <=> x * step < (-1) * step)
    BY <1>2, <2>1, StepTimes
  <2> HIDE DEF from, stop, d
  <2>5. QED
    BY <1>2, <2>1, <2>2, <2>3, <2>4
<1> HIDE DEF from, stop, d
<1>9. back \in Triples /\ back.start = from /\ back.stop = stop /\ back.step = d
  BY <1>3, <1>5, TripleIs
<1>10. \A i \in Nat : i < Len(s) <=> Within(back, back.start + i * back.step)
  BY <1>4, <1>8, <1>9 DEF Within
<1>11. \A i \in 1 .. Len(s) : s[i] = back.start + (i - 1) * back.step
  BY <1>4, <1>7, <1>9
<1>12. s = Points(back)
  BY <1>4, <1>9, <1>10, <1>11, AreItsPoints
<1>13. QED
  BY <1>9, <1>12 DEF d, back, s, p, step

\* A range in rising order has the same labels.
LEMMA RisingIs ==
  ASSUME NEW r \in Triples
  PROVE  Rising(r) \in Triples /\ Rising(r).step > 0 /\ PointSet(Rising(r)) = PointSet(r)
<1>1. r.step \in Int /\ r.step # 0
  BY IsATriple
<1>2. CASE r.step > 0
  BY <1>1, <1>2 DEF Rising
<1>3. CASE r.step < 0
  <2>1. Rising(r) = Backwards(r)
    BY <1>3 DEF Rising
  <2>2. Backwards(r) \in Triples /\ Backwards(r).step = -r.step
        /\ Points(Backwards(r)) = Reverse(Points(r))
    BY BackwardsIs
  <2>3. ToSet(Points(Backwards(r))) = ToSet(Points(r))
    BY <2>2, PointsAre, ReverseIs
  <2>4. PointSet(Backwards(r)) = PointSet(r)
    BY <2>2, <2>3, PointsList
  <2>5. QED
    BY <1>1, <1>3, <2>1, <2>2, <2>4
<1>4. QED
  BY <1>1, <1>2, <1>3
-----------------------------------------------------------------------------
(***************************************************************************)
(* Where two ranges meet.  A number is so many steps from both starts      *)
(* exactly when it is so many of the steps of the meeting from one such    *)
(* number, which the factors of the divisor make.                          *)
(***************************************************************************)
LEMMA DividesOut ==
  ASSUME NEW g \in Int, g > 0, NEW x \in Int
  PROVE  (g * x) \div g = x /\ (g * x) % g = 0
<1>1. g * x \in Int
  OBVIOUS
<1> DEFINE y == g * x
           q == y \div g
           rest == y % g
<1>2. y \in Int /\ y = g * x
  BY <1>1
<1> HIDE DEF y
<1>3. q \in Int /\ rest \in 0 .. g - 1
  BY <1>2
<1>4. y = g * q + rest
  BY <1>2
<1> HIDE DEF q, rest
<1>5. g * x = g * q + rest
  BY <1>2, <1>4
<1>6. g \in Nat /\ x * g = g * x /\ q * g = g * q /\ (q + 1) * g = q * g + g
  BY <1>3
<1>7. q * g \in Int /\ x * g \in Int
  BY <1>3
<1>8. ~ (x < q)
  <2>1. x < q => x * g < q * g
    BY <1>3, <1>6, Times
  <2>2. QED
    BY <1>3, <1>5, <1>6, <1>7, <2>1
<1>9. ~ (q + 1 <= x)
  <2>1. q + 1 <= x => (q + 1) * g <= x * g
    BY <1>3, <1>6, Times
  <2>2. QED
    BY <1>3, <1>5, <1>6, <1>7, <2>1
<1>10. x = q
  BY <1>3, <1>8, <1>9
<1>11. rest = 0
  BY <1>3, <1>5, <1>10
<1>12. QED
  BY <1>10, <1>11 DEF q, rest, y

LEMMA SameMultiple ==
  ASSUME NEW g \in Int, g > 0, NEW x \in Int, NEW y \in Int, g * x = g * y
  PROVE  x = y
<1>1. (g * x) \div g = x /\ (g * y) \div g = y
  BY DividesOut
<1>2. QED
  BY <1>1

NumbersMeet(one, a, two, b, g, u, v, p, t, k) ==
  /\ one \in Int /\ a \in Int /\ two \in Int /\ b \in Int /\ g \in Int /\ u \in Int
  /\ v \in Int /\ p \in Int /\ t \in Int /\ k \in Int /\ g > 0
  /\ a * u + b * v = g /\ a = g * p /\ b = g * t /\ two - one = g * k

LEMMA MeetingSteps ==
  ASSUME NEW one, NEW a, NEW two, NEW b, NEW g, NEW u, NEW v, NEW p, NEW t, NEW k,
         NumbersMeet(one, a, two, b, g, u, v, p, t, k), NEW x \in Int
  PROVE  (\E i, j \in Int : x = one + i * a /\ x = two + j * b)
           <=> \E h \in Int : x = (one + (k * a) * u) + h * (a * t)
<1> USE DEF NumbersMeet
<1> DEFINE x0 == one + (k * a) * u
           m == a * t
<1>1. x0 \in Int /\ m \in Int /\ m = p * b
  <2>1. a * t = (g * p) * t /\ p * b = p * (g * t)
    OBVIOUS
  <2>2. (g * p) * t = p * (g * t)
    OBVIOUS
  <2>3. QED
    BY <2>1, <2>2
<1>2. x0 = two - (k * v) * b
  <2>1. (k * a) * u = k * (a * u) /\ (k * v) * b = k * (b * v)
    OBVIOUS
  <2>2. k * (a * u) + k * (b * v) = k * (a * u + b * v)
    OBVIOUS
  <2>3. k * (a * u) + k * (b * v) = g * k
    BY <2>2
  <2> DEFINE c == k * (a * u)
             d == k * (b * v)
             e == g * k
  <2>4. c \in Int /\ d \in Int /\ e \in Int /\ c + d = e /\ two - one = e
    BY <2>3
  <2>5. x0 = one + c /\ (k * v) * b = d
    BY <2>1
  <2> HIDE DEF c, d, e, x0
  <2>6. QED
    BY <2>4, <2>5
<1>3. ASSUME NEW h \in Int, x = x0 + h * m
      PROVE  \E i, j \in Int : x = one + i * a /\ x = two + j * b
  <2>1. k * u + h * t \in Int /\ h * p - k * v \in Int
    OBVIOUS
  <2>2. x = one + (k * u + h * t) * a
    <3>1. (k * u + h * t) * a = (k * a) * u + h * (a * t)
      OBVIOUS
    <3>2. x = one + (k * a) * u + h * (a * t)
      BY <1>3
    <3>3. (k * a) * u \in Int /\ h * (a * t) \in Int
      OBVIOUS
    <3>4. QED
      BY <3>1, <3>2, <3>3
  <2>3. x = two + (h * p - k * v) * b
    <3>1. (h * p - k * v) * b = h * (p * b) - (k * v) * b
      OBVIOUS
    <3>2. h * m = h * (p * b)
      BY <1>1
    <3> DEFINE c == h * (p * b)
               d == (k * v) * b
    <3>3. c \in Int /\ d \in Int /\ h * m = c /\ (h * p - k * v) * b = c - d /\ x0 = two - d
      BY <1>2, <3>1, <3>2
    <3> HIDE DEF c, d, x0, m
    <3>4. QED
      BY <1>3, <3>3
  <2> HIDE DEF x0, m
  <2>4. QED
    BY <2>1, <2>2, <2>3
<1>4. ASSUME NEW i \in Int, NEW j \in Int, x = one + i * a, x = two + j * b
      PROVE  \E h \in Int : x = x0 + h * m
  <2> DEFINE y == x - x0
             r == i - k * u
             s == j + k * v
             h == s * u + r * v
  <2>1. y \in Int /\ r \in Int /\ s \in Int /\ h \in Int
    BY <1>1
  <2>2. y = a * r
    <3>1. a * r = i * a - (k * a) * u
      OBVIOUS
    <3>2. (k * a) * u \in Int /\ i * a \in Int
      OBVIOUS
    <3>3. QED
      BY <1>4, <3>1, <3>2
  <2>3. y = b * s
    <3>1. b * s = j * b + (k * v) * b
      OBVIOUS
    <3> DEFINE c == j * b
               d == (k * v) * b
    <3>2. c \in Int /\ d \in Int /\ b * s = c + d /\ x = two + c /\ x0 = two - d
      BY <1>2, <1>4, <3>1
    <3>3. y = x - x0
      OBVIOUS
    <3> HIDE DEF c, d, x0, s, y
    <3>4. QED
      BY <1>1, <3>2, <3>3
  <2> HIDE DEF y, r, s
  <2>4. g * y = g * (m * h)
    <3>1. y * (a * u + b * v) = (y * a) * u + (y * b) * v
      BY <2>1
    <3>2. (y * a) * u = ((b * s) * a) * u /\ (y * b) * v = ((a * r) * b) * v
      BY <2>2, <2>3
    <3>3. ((b * s) * a) * u + ((a * r) * b) * v = (b * a) * (s * u + r * v)
      BY <2>1
    <3>4. y * g = (b * a) * h
      BY <3>1, <3>2, <3>3
    <3>5. (b * a) * h = ((g * t) * a) * h
      OBVIOUS
    <3> HIDE DEF h
    <3>6. ((g * t) * a) * h = g * ((a * t) * h)
      BY <2>1
    <3>7. y * g = g * y
      BY <2>1
    <3>8. QED
      BY <3>4, <3>5, <3>6, <3>7
  <2>5. m * h \in Int /\ m * h = h * m
    BY <1>1, <2>1
  <2> HIDE DEF m, h
  <2>6. y = m * h
    BY <2>1, <2>4, <2>5, SameMultiple
  <2>7. x = x0 + h * m
    BY <1>1, <2>5, <2>6 DEF y
  <2>8. QED
    BY <2>1, <2>7
<1>5. QED
  BY <1>3, <1>4

LEMMA FirstSharedIs ==
  ASSUME NEW solution \in Int, NEW low \in Int, NEW step \in Int, step > 0
  PROVE  /\ FirstShared(solution, low, step) \in Int
         /\ low <= FirstShared(solution, low, step)
         /\ FirstShared(solution, low, step) < low + step
         /\ \E h \in Int : FirstShared(solution, low, step) = solution + h * step
<1> DEFINE y == solution - low
           q == y \div step
           rest == y % step
           f == FirstShared(solution, low, step)
<1>1. y \in Int /\ y = solution - low
  OBVIOUS
<1>2. f = solution + step * (-q)
  BY DEF FirstShared
<1> HIDE DEF y, f
<1>3. q \in Int /\ rest \in 0 .. step - 1
  BY <1>1
<1>4. y = step * q + rest
  BY <1>1
<1> HIDE DEF q, rest
<1>5. step * q \in Int /\ step * (-q) = -(step * q) /\ (-q) * step = step * (-q) /\ -q \in Int
  BY <1>3
<1>6. f = low + rest
  BY <1>1, <1>2, <1>3, <1>4, <1>5
<1>7. f = solution + (-q) * step
  BY <1>2, <1>5
<1>8. f \in Int /\ low <= f /\ f < low + step
  BY <1>3, <1>6
<1>9. \E h \in Int : f = solution + h * step
  BY <1>5, <1>7
<1>10. QED
  BY <1>8, <1>9 DEF f

\* What two rising ranges share goes by whole steps of both.
LEMMA SharedIs ==
  ASSUME NEW first \in Triples, NEW second \in Triples, first.step > 0, second.step > 0
  PROVE  LET low == Max({first.start, second.start})
             high == Min({first.stop, second.stop})
         IN  /\ low \in Int /\ high \in Int
             /\ \A x : x \in PointSet(first) \cap PointSet(second)
                   <=> /\ x \in Int /\ low <= x /\ x < high
                       /\ \E i, j \in Int : x = first.start + i * first.step
                                            /\ x = second.start + j * second.step
<1> DEFINE one == first.start
           a == first.step
           two == second.start
           b == second.step
           low == Max({one, two})
           high == Min({first.stop, second.stop})
<1>1. /\ one \in Int /\ a \in Int /\ two \in Int /\ b \in Int
      /\ first.stop \in Int /\ second.stop \in Int
  BY IsATriple
<1>2. /\ low = (IF one > two THEN one ELSE two)
      /\ high = (IF first.stop > second.stop THEN second.stop ELSE first.stop)
  BY <1>1, TheLarger
<1> HIDE DEF low, high
<1>3. low \in Int /\ high \in Int
  BY <1>1, <1>2
<1>4. \A x : x \in PointSet(first) <=> x \in Int /\ x < first.stop /\ \E k \in Nat : x = one + k * a
  BY DEF PointSet, Within
<1>5. \A x : x \in PointSet(second) <=> x \in Int /\ x < second.stop /\ \E k \in Nat : x = two + k * b
  BY DEF PointSet, Within
<1>6. a > 0 /\ b > 0
  OBVIOUS
<1> HIDE DEF one, a, two, b
<1>7. \A x \in Int : x < high <=> x < first.stop /\ x < second.stop
  BY <1>1, <1>2
<1>8. \A x \in Int : low <= x <=> one <= x /\ two <= x
  BY <1>1, <1>2
<1>9. ASSUME NEW d \in Int, d > 0, NEW k \in Int, NEW from \in Int
      PROVE  k \in Nat <=> from <= from + k * d
  <2>1. k * d \in Int /\ 0 * d = 0 /\ (k < 0 <=> k * d < 0 * d)
    BY <1>9, StepTimes
  <2>2. QED
    BY <1>9, <2>1
<1>10. ASSUME NEW x PROVE x \in PointSet(first) \cap PointSet(second)
                      <=> /\ x \in Int /\ low <= x /\ x < high
                          /\ \E i, j \in Int : x = one + i * a /\ x = two + j * b
  <2>1. ASSUME x \in PointSet(first) \cap PointSet(second)
        PROVE  /\ x \in Int /\ low <= x /\ x < high
               /\ \E i, j \in Int : x = one + i * a /\ x = two + j * b
    <3>1. PICK i \in Nat : x = one + i * a
      BY <1>4, <2>1
    <3>2. PICK j \in Nat : x = two + j * b
      BY <1>5, <2>1
    <3>3. x \in Int /\ x < high
      BY <1>4, <1>5, <1>7, <2>1
    <3>4. one <= x /\ two <= x
      BY <1>1, <1>6, <1>9, <3>1, <3>2
    <3>5. i \in Int /\ j \in Int
      OBVIOUS
    <3>6. QED
      BY <1>8, <3>1, <3>2, <3>3, <3>4, <3>5
  <2>2. ASSUME x \in Int, low <= x, x < high,
               NEW i \in Int, NEW j \in Int, x = one + i * a, x = two + j * b
        PROVE  x \in PointSet(first) \cap PointSet(second)
    <3>1. one <= x /\ two <= x
      BY <1>8, <2>2
    <3>2. i \in Nat /\ j \in Nat
      BY <1>1, <1>6, <1>9, <2>2, <3>1
    <3>3. x < first.stop /\ x < second.stop
      BY <1>7, <2>2
    <3>4. QED
      BY <1>4, <1>5, <2>2, <3>2, <3>3
  <2>3. QED
    BY <2>1, <2>2
<1>11. QED
  BY <1>3, <1>10 DEF low, high, one, two, a, b

LEMMA MeetingIs ==
  ASSUME NEW first \in Triples, NEW second \in Triples, first.step > 0, second.step > 0
  PROVE  LET low == Max({first.start, second.start})
             high == Min({first.stop, second.stop})
             divided == ExtendedGcd(first.step, second.step)
             gcd == divided[1]
             step == (first.step * second.step) \div gcd
             solution == first.start + (((second.start - first.start) * first.step) \div gcd) * divided[2]
             met == Triple(FirstShared(solution, low, step), high, step)
             shared == PointSet(first) \cap PointSet(second)
         IN  /\ high <= low \/ (first.start - second.start) % gcd # 0 => shared = {}
             /\ ~ (high <= low \/ (first.start - second.start) % gcd # 0)
                  => met \in Triples /\ met.step > 0 /\ PointSet(met) = shared
<1> DEFINE one == first.start
           a == first.step
           two == second.start
           b == second.step
           low == Max({one, two})
           high == Min({first.stop, second.stop})
           divided == ExtendedGcd(a, b)
           gcd == divided[1]
           step == (a * b) \div gcd
           solution == one + (((two - one) * a) \div gcd) * divided[2]
           met == Triple(FirstShared(solution, low, step), high, step)
           shared == PointSet(first) \cap PointSet(second)
<1>1. one \in Int /\ a \in Int /\ two \in Int /\ b \in Int /\ a > 0 /\ b > 0
  BY IsATriple
<1>2. /\ low \in Int /\ high \in Int
      /\ \A x : x \in shared <=> /\ x \in Int /\ low <= x /\ x < high
                                 /\ \E i, j \in Int : x = one + i * a /\ x = two + j * b
  BY SharedIs
<1> HIDE DEF one, a, two, b, low, high, shared
<1>3. PICK g, u, v, p, t \in Int :
        /\ ExtendedGcd(a, b) = <<g, u>> /\ g > 0
        /\ a * u + b * v = g /\ a = g * p /\ b = g * t
  BY <1>1, EuclidDivides
<1>4. gcd = g /\ divided[2] = u
  BY <1>3
<1> HIDE DEF divided
<1>5. high <= low => shared = {}
  BY <1>2
<1>6. ASSUME NEW x \in shared PROVE (one - two) % g = 0
  <2>1. PICK i, j \in Int : x = one + i * a /\ x = two + j * b
    BY <1>2
  <2>2. i * a = g * (i * p) /\ j * b = g * (j * t)
    <3>1. i * a = i * (g * p) /\ j * b = j * (g * t)
      BY <1>3
    <3>2. i * (g * p) = g * (i * p) /\ j * (g * t) = g * (j * t)
      OBVIOUS
    <3>3. QED
      BY <3>1, <3>2
  <2> DEFINE d == j * t - i * p
  <2>3. d \in Int /\ g * d = g * (j * t) - g * (i * p)
    OBVIOUS
  <2> DEFINE c == g * (i * p)
             e == g * (j * t)
  <2>4. c \in Int /\ e \in Int /\ g * d = e - c /\ x = one + c /\ x = two + e
    BY <2>1, <2>2, <2>3
  <2> HIDE DEF c, d, e
  <2>5. one - two = g * d
    BY <1>1, <2>4
  <2>6. QED
    BY <1>3, <2>3, <2>5, DividesOut
<1>7. ASSUME high > low, (one - two) % g = 0
      PROVE  met \in Triples /\ met.step > 0 /\ PointSet(met) = shared
  <2> DEFINE q == (one - two) \div g
             k == -q
             m == a * t
             x0 == one + (k * a) * u
             f == FirstShared(x0, low, m)
  <2>1. k \in Int /\ two - one = g * k
    <3> DEFINE y == one - two
    <3>1. y \in Int /\ y % g = 0
      BY <1>1, <1>7
    <3> HIDE DEF y
    <3>2. y \div g \in Int /\ y = g * (y \div g) + (y % g)
      BY <1>3, <3>1
    <3>3. q \in Int /\ y = g * q + 0
      BY <3>1, <3>2 DEF y
    <3> HIDE DEF q
    <3>4. g * q \in Int /\ g * k = -(g * q)
      BY <3>3
    <3>5. one - two = g * q
      BY <3>3, <3>4 DEF y
    <3>6. QED
      BY <1>1, <3>3, <3>4, <3>5
  <2> HIDE DEF k
  <2>2. step = m
    <3>1. a * b = g * (a * t)
      <4>1. a * b = a * (g * t)
        BY <1>3
      <4>2. a * (g * t) = g * (a * t)
        BY <1>1
      <4>3. QED
        BY <4>1, <4>2
    <3>2. (g * m) \div g = m /\ m \in Int
      BY <1>1, <1>3, DividesOut
    <3>3. QED
      BY <1>4, <3>1, <3>2
  <2>3. solution = x0
    <3>1. (two - one) * a = g * (k * a)
      <4>1. (two - one) * a = (g * k) * a
        BY <2>1
      <4>2. (g * k) * a = g * (k * a)
        BY <1>1, <2>1
      <4>3. QED
        BY <4>1, <4>2
    <3>2. k * a \in Int
      BY <1>1, <2>1
    <3>3. (g * (k * a)) \div g = k * a
      BY <1>3, <3>2, DividesOut
    <3>4. QED
      BY <1>4, <3>1, <3>3
  <2>4. m \in Int /\ m > 0
    <3>1. t \in Nat /\ t > 0
      <4>1. SUFFICES ASSUME t <= 0 PROVE FALSE
        OBVIOUS
      <4>2. g \in Nat /\ 0 * g = 0 /\ t * g = g * t /\ t * g <= 0 * g
        BY <1>3, <4>1, Times
      <4>3. QED
        BY <1>1, <1>3, <4>2
    <3>2. 0 * t < a * t /\ 0 * t = 0 /\ a * t \in Int
      BY <1>1, <3>1, Times
    <3>3. QED
      BY <3>2
  <2>5. x0 \in Int
    BY <1>1, <2>1
  <2>6. \A x : x \in shared <=> x \in Int /\ low <= x /\ x < high /\ \E h \in Int : x = x0 + h * m
    <3>1. TAKE x
    <3>2. /\ one \in Int /\ a \in Int /\ two \in Int /\ b \in Int /\ k \in Int
          /\ g \in Int /\ u \in Int /\ v \in Int /\ p \in Int /\ t \in Int
          /\ a * u + b * v = g /\ a = g * p /\ b = g * t /\ two - one = g * k /\ g > 0
      BY <1>1, <1>3, <2>1
    <3> HIDE DEF m, x0
    <3>3. NumbersMeet(one, a, two, b, g, u, v, p, t, k)
      BY <3>2 DEF NumbersMeet
    <3>4. ASSUME x \in Int
          PROVE  (\E i, j \in Int : x = one + i * a /\ x = two + j * b)
                   <=> \E h \in Int : x = (one + (k * a) * u) + h * (a * t)
      BY <3>3, <3>4, MeetingSteps
    <3>5. QED
      BY <1>2, <3>4 DEF m, x0
  <2> HIDE DEF m, x0, f
  <2>7. /\ f \in Int /\ low <= f /\ f < low + m /\ \E h \in Int : f = x0 + h * m
    BY <1>2, <2>4, <2>5, FirstSharedIs DEF f
  <2>8. PICK z \in Int : f = x0 + z * m
    BY <2>7
  <2>9. met = Triple(f, high, m)
    BY <2>2, <2>3 DEF f
  <2> HIDE DEF met
  <2>10. met \in Triples /\ met.start = f /\ met.stop = high /\ met.step = m
    BY <1>2, <2>4, <2>7, <2>9, TripleIs
  <2>11. \A x : x \in PointSet(met) <=> x \in Int /\ x < high /\ \E n \in Nat : x = f + n * m
    BY <2>4, <2>10 DEF PointSet, Within
  <2>12. ASSUME NEW x \in shared PROVE x \in PointSet(met)
    <3>1. PICK h \in Int : x = x0 + h * m
      BY <2>6
    <3>2. x \in Int /\ low <= x /\ x < high
      BY <2>6
    <3> DEFINE n == h - z
    <3>3. n \in Int /\ -1 \in Int /\ n * m = h * m - z * m /\ h * m \in Int /\ z * m \in Int
          /\ (-1) * m = -m
      BY <2>4
    <3>4. x = f + n * m
      BY <2>5, <2>8, <3>1, <3>3
    <3>5. /\ n * m \in Int /\ (-1 < n <=> (-1) * m < n * m)
      BY <2>4, <3>3, StepTimes
    <3> HIDE DEF n
    <3>6. -1 < n
      BY <1>2, <2>4, <2>7, <3>2, <3>3, <3>4, <3>5
    <3>7. n \in Nat
      BY <3>3, <3>6
    <3>8. QED
      BY <2>11, <3>2, <3>4, <3>7
  <2>13. ASSUME NEW x \in PointSet(met) PROVE x \in shared
    <3>1. PICK n \in Nat : x = f + n * m
      BY <2>11
    <3>2. x \in Int /\ x < high
      BY <2>11
    <3>3. n * m \in Nat
      BY <2>4, Times
    <3>4. low <= x
      BY <1>2, <2>7, <3>1, <3>3
    <3>5. (z + n) * m = z * m + n * m /\ z + n \in Int /\ z * m \in Int
      BY <2>4
    <3>6. x = x0 + (z + n) * m
      BY <2>5, <2>8, <3>1, <3>3, <3>5
    <3>7. QED
      BY <2>6, <3>2, <3>4, <3>5, <3>6
  <2>14. QED
    BY <2>4, <2>10, <2>12, <2>13
<1>8. high <= low \/ (one - two) % gcd # 0 => shared = {}
  BY <1>4, <1>5, <1>6
<1>9. ~ (high <= low \/ (one - two) % gcd # 0) => met \in Triples /\ met.step > 0 /\ PointSet(met) = shared
  BY <1>2, <1>4, <1>7
<1>10. QED
  BY <1>8, <1>9 DEF one, a, two, b, low, high, divided, shared

\* The labels of both sides, in order, are told by the set of them.
LEMMA SharedLabels ==
  ASSUME NEW labels \in Seq(Int), NEW other \in Seq(Int)
  PROVE  LET rising == InOrder(PlainIntersection(labels, other))
             S == ToSet(labels) \cap ToSet(other)
         IN  /\ rising \in Seq(Int) /\ S \subseteq Int
             /\ Lists(rising, S) /\ Climbs(rising, Upwards)
<1> DEFINE S == ToSet(labels) \cap ToSet(other)
           places == {i \in FirstOnes(labels) : labels[i] \in ToSet(other)}
           shared == PlainIntersection(labels, other)
<1>1. /\ FirstOnes(labels) \in SUBSET (DOMAIN labels)
      /\ \A i, j \in FirstOnes(labels) : labels[i] = labels[j] => i = j
      /\ \A k \in DOMAIN labels : \E i \in FirstOnes(labels) : labels[i] = labels[k]
  BY FirstOnesAre
<1>2. /\ \A x : x \in ToSet(labels) <=> \E k \in DOMAIN labels : labels[k] = x
      /\ \A k \in DOMAIN labels : labels[k] \in Int
  BY DEF ToSet
<1>3. shared = AtPlaces(labels, places)
  BY DEF PlainIntersection
<1>4. \A x : x \in S <=> \E i \in places : labels[i] = x
  <2>1. TAKE x
  <2>2. ASSUME x \in S PROVE \E i \in places : labels[i] = x
    <3>1. PICK k \in DOMAIN labels : labels[k] = x
      BY <1>2, <2>2
    <3>2. PICK i \in FirstOnes(labels) : labels[i] = x
      BY <1>1, <3>1
    <3>3. QED
      BY <2>2, <3>2
  <2>3. ASSUME NEW i \in places, labels[i] = x PROVE x \in S
    BY <1>1, <1>2, <2>3
  <2>4. QED
    BY <2>2, <2>3
<1>5. places \in SUBSET (DOMAIN labels) /\ \A i, j \in places : labels[i] = labels[j] => i = j
  BY <1>1
<1>6. S \subseteq Int
  BY <1>2
<1> HIDE DEF S, places, shared
<1>7. Lists(shared, S) /\ shared \in Seq(Int)
  BY <1>3, <1>4, <1>5, PickedLabels
<1>8. QED
  BY <1>6, <1>7, SortedLabels DEF S, shared

LEMMA UpwardsOrders ==
  ASSUME NEW S \in SUBSET Int
  PROVE  OrderOn(Upwards, S)
<1>1. \A x, y \in Int : <<x, y>> \in Upwards <=> x < y
  BY DEF Upwards
<1>2. \A x \in S : x \in Int
  OBVIOUS
<1>3. QED
  BY <1>1, <1>2 DEF OrderOn

LEMMA OneClimb ==
  ASSUME NEW S \in SUBSET Int, NEW f, NEW g, Lists(f, S), Climbs(f, Upwards),
         Lists(g, S), Climbs(g, Upwards)
  PROVE  f = g
<1>1. OrderOn(Upwards, S)
  BY UpwardsOrders
<1>2. f = ByOrder(S, Upwards)
  BY <1>1, ClimbingIsByOrder
<1>3. g = ByOrder(S, Upwards)
  BY <1>1, ClimbingIsByOrder
<1>4. QED
  BY <1>2, <1>3

\* Two ranges meet at the labels that both have.
LEMMA RangesMetIs ==
  ASSUME NEW one \in Triples, NEW two \in Triples
  PROVE  LET rising == InOrder(PlainIntersection(Points(one), Points(two)))
         IN  /\ RangesMet(one, two) \in Triples
             /\ Points(RangesMet(one, two))
                  = IF one.step < 0 /\ two.step < 0 THEN Reverse(rising) ELSE rising
<1> DEFINE rising == InOrder(PlainIntersection(Points(one), Points(two)))
           S == PointSet(one) \cap PointSet(two)
           first == Rising(one)
           second == Rising(two)
           low == Max({first.start, second.start})
           high == Min({first.stop, second.stop})
           divided == ExtendedGcd(first.step, second.step)
           gcd == divided[1]
           step == (first.step * second.step) \div gcd
           solution == first.start + (((second.start - first.start) * first.step) \div gcd) * divided[2]
           met == Triple(FirstShared(solution, low, step), high, step)
           apart == high <= low \/ (first.start - second.start) % gcd # 0
           falls == one.step < 0 /\ two.step < 0
           answer == RangesMet(one, two)
<1>1. answer = IF apart THEN Triple(0, 0, 1) ELSE IF falls THEN Backwards(met) ELSE met
  BY DEF RangesMet
<1>2. /\ first \in Triples /\ first.step > 0 /\ PointSet(first) = PointSet(one)
      /\ second \in Triples /\ second.step > 0 /\ PointSet(second) = PointSet(two)
  BY RisingIs
<1>3. /\ apart => PointSet(first) \cap PointSet(second) = {}
      /\ ~ apart => met \in Triples /\ met.step > 0
                    /\ PointSet(met) = PointSet(first) \cap PointSet(second)
  <2> HIDE DEF first, second
  <2>1. QED
    BY <1>2, MeetingIs
<1>4. /\ apart => S = {}
      /\ ~ apart => met \in Triples /\ met.step > 0 /\ PointSet(met) = S
  BY <1>2, <1>3
<1>5. /\ rising \in Seq(Int) /\ S \in SUBSET Int
      /\ Lists(rising, S) /\ Climbs(rising, Upwards)
  <2>1. /\ Points(one) \in Seq(Int) /\ ToSet(Points(one)) = PointSet(one)
        /\ Points(two) \in Seq(Int) /\ ToSet(Points(two)) = PointSet(two)
    BY PointsAre, PointsList
  <2>2. QED
    BY <2>1, SharedLabels
<1> HIDE DEF rising, S, met, apart, falls, answer
<1>6. CASE apart
  <2> DEFINE none == Triple(0, 0, 1)
  <2>1. none \in Triples /\ none.start = 0 /\ none.stop = 0 /\ none.step = 1
    BY TripleIs
  <2> HIDE DEF none
  <2>2. PointSet(none) = {}
    <3>1. ASSUME NEW k \in Nat PROVE ~ Within(none, 0 + k * 1)
      BY <2>1 DEF Within
    <3>2. QED
      BY <2>1, <3>1 DEF PointSet
  <2>3. Lists(Points(none), {}) /\ Climbs(Points(none), Upwards)
    BY <2>1, <2>2, PointsList
  <2>4. Points(none) = rising
    BY <1>4, <1>5, <1>6, <2>3, OneClimb
  <2>5. Len(rising) = 0
    <3>1. \A k \in 1 .. Len(rising) : rising[k] \in {}
      BY <1>4, <1>5, <1>6 DEF Lists
    <3>2. Len(rising) \in Nat
      BY <1>5
    <3>3. ~ (1 \in 1 .. Len(rising))
      BY <3>1
    <3>4. QED
      BY <3>2, <3>3
  <2>6. Reverse(rising) = rising
    <3>1. Reverse(rising) \in Seq(Int) /\ Len(Reverse(rising)) = 0
      BY <1>5, <2>5, ReverseIs
    <3>2. rising = <<>> /\ Reverse(rising) = <<>>
      <4> DEFINE s == Reverse(rising)
      <4>1. s \in Seq(Int) /\ Len(s) = 0
        BY <3>1
      <4> HIDE DEF s
      <4>2. rising = <<>> /\ s = <<>>
        BY <1>5, <2>5, <4>1
      <4>3. QED
        BY <4>2 DEF s
    <3>3. QED
      BY <3>2
  <2>7. answer = none
    BY <1>1, <1>6 DEF none
  <2>8. QED
    BY <2>1, <2>4, <2>6, <2>7 DEF rising, answer
<1>7. CASE ~ apart
  <2>1. met \in Triples /\ met.step > 0 /\ PointSet(met) = S
    BY <1>4, <1>7
  <2>2. Lists(Points(met), S) /\ Climbs(Points(met), Upwards)
    BY <2>1, PointsList
  <2>3. Points(met) = rising
    BY <1>5, <2>2, OneClimb
  <2>4. Backwards(met) \in Triples /\ Points(Backwards(met)) = Reverse(rising)
    BY <2>1, <2>3, BackwardsIs
  <2>5. answer = IF falls THEN Backwards(met) ELSE met
    BY <1>1, <1>7
  <2>6. answer \in Triples /\ Points(answer) = IF falls THEN Reverse(rising) ELSE rising
    BY <2>1, <2>3, <2>4, <2>5
  <2>7. QED
    BY <2>6 DEF rising, answer, falls
<1>8. QED
  BY <1>6, <1>7
-----------------------------------------------------------------------------
(***************************************************************************)
(* Every operation keeps an index that stands for its labels.              *)
(***************************************************************************)
RangeInv == Stands(rangeIndex, plain)

LEMMA AnswerStands ==
  ASSUME NEW index, NEW labels, Stands(index, labels), Answer(index, labels)
  PROVE  RangeInv'
BY DEF Answer, RangeInv

LEMMA AnsweredStands ==
  ASSUME RangeInv, NEW labels \in Seq(Int), Answered(labels)
  PROVE  RangeInv'
<1>1. Stands(Kept(labels, rangeIndex), labels)
  BY KeptStands DEF RangeInv
<1>2. QED
  BY <1>1, AnswerStands DEF Answered

LEMMA OthersStand ==
  ASSUME NEW other \in Others
  PROVE  Stands(other, other.labels) /\ other.labels \in Seq(Int)
<1>1. CASE other.labels \in Seq(Int) /\ other = Plain(other.labels)
  BY <1>1, PlainStands
<1>2. CASE other.range \in Triples /\ other = Ranged(other.range)
  <2> DEFINE r == other.range
  <2>1. r \in Triples /\ other = Ranged(r)
    BY <1>2
  <2> HIDE DEF r
  <2>2. Stands(Ranged(r), Points(r)) /\ Ranged(r).labels = Points(r)
    BY <2>1, RangedStands
  <2>3. QED
    BY <2>1, <2>2, StandsFor
<1>3. QED
  BY <1>1, <1>2, RangesAssumption

LEMMA SliceStands ==
  ASSUME RangeInv, Slice
  PROVE  RangeInv'
<1> DEFINE own == rangeIndex.labels
           n == Len(own)
           r == rangeIndex.range
<1>1. /\ own \in Seq(Int) /\ n \in Nat
      /\ IsRanged(rangeIndex) => r \in Triples /\ own = Points(r)
  BY StandsFor DEF RangeInv
<1> DEFINE low(by, from, to) == IF by > 0 THEN from ELSE Min({n, to}) - 1
           high(by, from, to) == IF by > 0 THEN Min({n, to}) ELSE from - 1
           taken(by, from, to) ==
             [i \in 1 .. Size(Triple(low(by, from, to), high(by, from, to), by)) |->
                own[low(by, from, to) + (i - 1) * by + 1]]
<1>2. PICK by \in {-2, -1, 1, 2}, from \in 0 .. MaxLength, to \in 0 .. MaxLength :
        /\ from <= n
        /\ IF IsRanged(rangeIndex)
           THEN Answer(Ranged(Triple(r.start + low(by, from, to) * r.step,
                                     r.start + high(by, from, to) * r.step, by * r.step)),
                       taken(by, from, to))
           ELSE Answer(Plain(taken(by, from, to)), taken(by, from, to))
  BY DEF Slice
<1> DEFINE t == SlicedPlaces(n, from, to, by)
           cut == Triple(r.start + t.start * r.step, r.start + t.stop * r.step, t.step * r.step)
<1>3. by \in Int /\ by # 0 /\ from \in Nat /\ to \in Nat
  BY RangesAssumption
<1>4. t \in Triples /\ \A i \in 1 .. Size(t) : t.start + (i - 1) * t.step \in 0 .. n - 1
  <2> HIDE DEF n
  <2>1. QED
    BY <1>1, <1>2, <1>3, PlacesAreWithin
<1>5. t = Triple(low(by, from, to), high(by, from, to), by)
      /\ t.start = low(by, from, to) /\ t.stop = high(by, from, to) /\ t.step = by
  BY DEF SlicedPlaces, Triple
<1>6. taken(by, from, to) = TakenBy(own, t)
  <2> HIDE DEF own, n, t, low, high
  <2>1. QED
    BY <1>5 DEF TakenBy
<1> HIDE DEF own, t, low, high, taken
<1>7. TakenBy(own, t) \in Seq(Int)
  BY <1>1, <1>4, TakenAre
<1>8. CASE IsRanged(rangeIndex)
  <2>1. n = Size(r)
    BY <1>1, <1>8, PointsAre
  <2>2. cut \in Triples /\ TakenBy(own, t) = Points(cut)
    <3> HIDE DEF r, n
    <3>1. r \in Triples /\ own = Points(r)
          /\ \A i \in 1 .. Size(t) : t.start + (i - 1) * t.step \in 0 .. Size(r) - 1
      BY <1>1, <1>4, <1>8, <2>1
    <3>2. QED
      BY <1>4, <3>1, SliceIsARange
  <2>3. Answer(Ranged(cut), TakenBy(own, t))
    BY <1>2, <1>5, <1>6, <1>8
  <2>4. Stands(Ranged(cut), Points(cut))
    BY <2>2, RangedStands
  <2> HIDE DEF cut
  <2>5. QED
    BY <2>2, <2>3, <2>4, AnswerStands
<1>9. CASE ~ IsRanged(rangeIndex)
  <2>1. Answer(Plain(TakenBy(own, t)), TakenBy(own, t))
    BY <1>2, <1>6, <1>9
  <2>2. QED
    BY <1>7, <2>1, PlainStands, AnswerStands
<1>10. QED
  BY <1>8, <1>9

LEMMA PartsStand ==
  ASSUME RangeInv, Take \/ Delete \/ Insert
  PROVE  RangeInv'
<1> DEFINE own == rangeIndex.labels
<1>1. own \in Seq(Int)
  BY StandsFor DEF RangeInv
<1>2. Len(own) \in Nat /\ Placed = 1 .. Len(own) /\ \A i \in Placed : own[i] \in Int
  BY <1>1 DEF Placed
<1>3. CASE Take
  <2>1. PICK at \in UNION {[1 .. k -> Placed] : k \in 1 .. 3} :
          Answered([i \in DOMAIN at |-> own[at[i]]])
    BY <1>3 DEF Take
  <2> HIDE DEF own
  <2>2. PICK k \in 1 .. 3 : at \in [1 .. k -> Placed]
    OBVIOUS
  <2>3. [i \in DOMAIN at |-> own[at[i]]] \in [1 .. k -> Int] /\ k \in Nat
    BY <1>2, <2>2
  <2>4. [i \in DOMAIN at |-> own[at[i]]] \in Seq(Int)
    BY <2>3
  <2>5. QED
    BY <2>1, <2>4, AnsweredStands
<1>4. CASE Delete
  <2>1. PICK at \in Placed : Answered(RemoveAt(own, at))
    BY <1>4 DEF Delete
  <2> HIDE DEF own
  <2>2. at \in 1 .. Len(own)
    BY <1>2
  <2>3. SubSeq(own, 1, at - 1) \in Seq(Int) /\ SubSeq(own, at + 1, Len(own)) \in Seq(Int)
    BY <1>1, <1>2, <2>2
  <2>4. RemoveAt(own, at) \in Seq(Int)
    BY <2>3 DEF RemoveAt
  <2>5. QED
    BY <2>1, <2>4, AnsweredStands
<1>5. CASE Insert
  <2>1. PICK at \in 1 .. Len(own) + 1, label \in -2 .. 4 : Answered(InsertAt(own, at, label))
    BY <1>5 DEF Insert
  <2> HIDE DEF own
  <2>2. label \in Int
    OBVIOUS
  <2>3. SubSeq(own, 1, at - 1) \in Seq(Int) /\ SubSeq(own, at, Len(own)) \in Seq(Int)
        /\ <<label>> \in Seq(Int)
    BY <1>1, <1>2, <2>1, <2>2
  <2>4. InsertAt(own, at, label) \in Seq(Int)
    BY <2>3 DEF InsertAt
  <2>5. QED
    BY <2>1, <2>4, AnsweredStands
<1>6. QED
  BY <1>3, <1>4, <1>5

LEMMA SetsStand ==
  ASSUME RangeInv, Append_ \/ Union_ \/ Difference \/ SymmetricDifference
  PROVE  RangeInv'
<1> DEFINE own == rangeIndex.labels
<1>1. own \in Seq(Int)
  BY StandsFor DEF RangeInv
<1>2. PICK other \in Others : \/ Answered(own \o other.labels)
                              \/ Answered(PlainUnion(own, other.labels))
                              \/ Answered(PlainDifference(own, other.labels))
                              \/ Answered(PlainSymmetric(own, other.labels))
  BY DEF Append_, Union_, Difference, SymmetricDifference
<1> HIDE DEF own
<1>3. other.labels \in Seq(Int)
  BY OthersStand
<1>4. /\ own \o other.labels \in Seq(Int)
      /\ PlainUnion(own, other.labels) \in Seq(Int)
      /\ PlainDifference(own, other.labels) \in Seq(Int)
      /\ PlainSymmetric(own, other.labels) \in Seq(Int)
  <2> DEFINE theirs == other.labels
  <2>1. theirs \in Seq(Int)
    BY <1>3
  <2> HIDE DEF theirs
  <2>2. own \o theirs \in Seq(Int)
    BY <1>1, <2>1
  <2>3. /\ PlainUnion(own, theirs) \in Seq(Int)
        /\ PlainDifference(own, theirs) \in Seq(Int)
        /\ PlainSymmetric(own, theirs) \in Seq(Int)
    BY <1>1, <2>1, PlainAnswers
  <2>4. QED
    BY <2>2, <2>3 DEF theirs
<1>5. QED
  BY <1>2, <1>4, AnsweredStands

LEMMA IntersectionStands ==
  ASSUME RangeInv, Intersection
  PROVE  RangeInv'
<1> DEFINE own == rangeIndex.labels
           shared(other) == PlainIntersection(own, other.labels)
           rising(other) == InOrder(shared(other))
           falls(other) == rangeIndex.range.step < 0 /\ other.range.step < 0
<1>1. /\ own \in Seq(Int)
      /\ IsRanged(rangeIndex) => rangeIndex.range \in Triples /\ own = Points(rangeIndex.range)
  BY StandsFor DEF RangeInv
<1>2. PICK other \in Others :
        IF IsRanged(rangeIndex) /\ IsRanged(other)
        THEN Answer(Ranged(RangesMet(rangeIndex.range, other.range)),
                    IF falls(other) THEN Reverse(rising(other)) ELSE rising(other))
        ELSE Answered(shared(other))
  BY DEF Intersection
<1> HIDE DEF own
<1>3. /\ other.labels \in Seq(Int)
      /\ IsRanged(other) => other.range \in Triples /\ other.labels = Points(other.range)
  BY OthersStand, StandsFor
<1>4. CASE IsRanged(rangeIndex) /\ IsRanged(other)
  <2> DEFINE r == rangeIndex.range
             s == other.range
             met == RangesMet(r, s)
             labels == IF falls(other) THEN Reverse(rising(other)) ELSE rising(other)
  <2>1. r \in Triples /\ s \in Triples /\ own = Points(r) /\ other.labels = Points(s)
    BY <1>1, <1>3, <1>4
  <2>2. met \in Triples /\ Points(met) = labels
    <3>1. rising(other) = InOrder(PlainIntersection(Points(r), Points(s)))
      BY <2>1
    <3> HIDE DEF rising
    <3>2. falls(other) <=> r.step < 0 /\ s.step < 0
      OBVIOUS
    <3> HIDE DEF r, s, falls
    <3>3. QED
      BY <2>1, <3>1, <3>2, RangesMetIs
  <2>3. Answer(Ranged(met), labels)
    BY <1>2, <1>4
  <2> HIDE DEF met, labels
  <2>4. Stands(Ranged(met), labels)
    BY <2>2, RangedStands
  <2>5. QED
    BY <2>3, <2>4, AnswerStands
<1>5. CASE ~ (IsRanged(rangeIndex) /\ IsRanged(other))
  <2>1. Answered(shared(other))
    BY <1>2, <1>5
  <2>2. shared(other) \in Seq(Int)
    BY <1>1, <1>3, PlainAnswers
  <2>3. QED
    BY <2>1, <2>2, AnsweredStands
<1>6. QED
  BY <1>4, <1>5

LEMMA OrdersStand ==
  ASSUME RangeInv, SortValues \/ Unique
  PROVE  RangeInv'
<1> DEFINE own == rangeIndex.labels
<1>1. own \in Seq(Int)
  BY StandsFor DEF RangeInv
<1>2. \/ Answered(InOrder(own)) \/ Answered(Reverse(InOrder(own)))
      \/ Answered(Once(own))
  BY DEF SortValues, Unique
<1> HIDE DEF own
<1>3. InOrder(own) \in Seq(Int) /\ Once(own) \in Seq(Int)
  BY <1>1, SortedLabels, PlainAnswers
<1>4. Reverse(InOrder(own)) \in Seq(Int)
  BY <1>3, ReverseIs
<1>5. QED
  BY <1>2, <1>3, <1>4, AnsweredStands

LEMMA ArithmeticStands ==
  ASSUME RangeInv, Arithmetic
  PROVE  RangeInv'
<1> DEFINE own == rangeIndex.labels
           result(op, k, label) ==
             CASE op = "add" -> label + k [] op = "rsub" -> k - label
               [] op = "mul" -> label * k
               [] OTHER -> IF k > 0 THEN label \div k ELSE (-label) \div (-k)
<1>1. own \in Seq(Int)
  BY StandsFor DEF RangeInv
<1>2. PICK op \in {"add", "rsub", "mul", "floordiv"}, k \in {-2, 1, 2} :
        Answered([i \in Placed |-> result(op, k, own[i])])
  BY DEF Arithmetic
<1>3. Len(own) \in Nat /\ Placed = 1 .. Len(own) /\ \A i \in Placed : own[i] \in Int
  BY <1>1 DEF Placed
<1> HIDE DEF own
<1>4. \A label \in Int : result(op, k, label) \in Int
  <2>1. TAKE label \in Int
  <2>2. k = -2 \/ k = 1 \/ k = 2
    OBVIOUS
  <2>3. label + k \in Int /\ k - label \in Int /\ label * k \in Int
    BY <2>2
  <2>4. (IF k > 0 THEN label \div k ELSE (-label) \div (-k)) \in Int
    BY <2>2
  <2>5. QED
    BY <2>3, <2>4
<1> HIDE DEF result
<1>5. [i \in Placed |-> result(op, k, own[i])] \in [1 .. Len(own) -> Int]
  BY <1>3, <1>4
<1>6. [i \in Placed |-> result(op, k, own[i])] \in Seq(Int)
  BY <1>3, <1>5
<1>7. QED
  BY <1>2, <1>6, AnsweredStands

LEMMA RepeatStands ==
  ASSUME RangeInv, Repeat
  PROVE  RangeInv'
<1> DEFINE own == rangeIndex.labels
           pieces(n) == [i \in Placed |-> [c \in 1 .. n |-> own[i]]]
<1>1. own \in Seq(Int)
  BY StandsFor DEF RangeInv
<1>2. PICK n \in 0 .. 2 : Answer(Plain(FlattenSeq(pieces(n))), FlattenSeq(pieces(n)))
  BY DEF Repeat
<1>3. Len(own) \in Nat /\ Placed = 1 .. Len(own) /\ \A i \in Placed : own[i] \in Int
  BY <1>1 DEF Placed
<1> HIDE DEF own
<1>4. /\ pieces(n) = [i \in 1 .. Len(own) |-> pieces(n)[i]]
      /\ \A i \in 1 .. Len(own) : pieces(n)[i] = [c \in 1 .. n |-> own[i]]
  BY <1>3
<1> HIDE DEF pieces
<1>5. IsSequence(pieces(n)) /\ Len(pieces(n)) = Len(own)
  BY <1>3, <1>4, MadeSequence
<1>6. \A i \in 1 .. Len(own) : pieces(n)[i] \in Seq(Int)
  BY <1>3, <1>4, SameLabels
<1>7. FlattenSeq(pieces(n)) \in Seq(Int)
  BY <1>5, <1>6, FlatLabels
<1>8. QED
  BY <1>2, <1>7, PlainStands, AnswerStands

LEMMA RangeInvHoldsAtFirst ==
  ASSUME RangeIndexInit \/ RangeIndexRests
  PROVE  RangeInv
<1>1. CASE RangeIndexInit
  <2>1. PICK r \in Ranges : rangeIndex = Ranged(r) /\ plain = Points(r)
    BY <1>1 DEF RangeIndexInit
  <2>2. r \in Triples
    BY RangesAssumption
  <2>3. QED
    BY <2>1, <2>2, RangedStands DEF RangeInv
<1>2. CASE RangeIndexRests
  <2>1. <<>> \in Seq(Int)
    OBVIOUS
  <2>2. QED
    BY <1>2, <2>1, PlainStands DEF RangeIndexRests, RangeInv
<1>3. QED
  BY <1>1, <1>2

LEMMA RangeInvIsKept == RangeInv /\ [RangeIndexNext]_rangeIndexVars => RangeInv'
<1> SUFFICES ASSUME RangeInv, [RangeIndexNext]_rangeIndexVars PROVE RangeInv'
  OBVIOUS
<1>1. CASE UNCHANGED rangeIndexVars
  BY <1>1 DEF rangeIndexVars, RangeInv
<1>2. CASE RangeIndexNext
  BY <1>2, SliceStands, PartsStand, SetsStand, IntersectionStands, OrdersStand,
     ArithmeticStands, RepeatStands DEF RangeIndexNext
<1>3. QED
  BY <1>1, <1>2

(***************************************************************************)
(* A range index is its labels, for ranges of any length and any whole     *)
(* steps and after any chain of operations: the three numbers a slice, a   *)
(* walk backwards or the meeting of two ranges works out (Euclid's         *)
(* algorithm and the rounding up to the first shared label included), and  *)
(* those an answer is read back into, stand for the labels that an index   *)
(* with all of them written out would have, in its order.                  *)
(***************************************************************************)
THEOREM RangesAreTheirLabels == FacadeSpec => []RangeIsItsLabels
<1>1. FacadeInit => RangeInv
  BY RangeInvHoldsAtFirst DEF FacadeInit
<1>2. [FacadeNext]_<<part, vars, option_vars, mean_vars, store_vars, label_vars>> =>
      [RangeIndexNext]_rangeIndexVars
  BY DEF FacadeNext, StateNext, LabelNext, label_vars
<1>3. RangeInv => RangeIsItsLabels
  BY StandsFor DEF RangeInv, RangeIsItsLabels
<1>4. QED
  BY <1>1, <1>2, <1>3, RangeInvIsKept, PTL DEF FacadeSpec
=============================================================================
