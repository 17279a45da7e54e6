-------------------------- MODULE SqlSessionProofs ---------------------------
(***************************************************************************)
(* Proofs about SqlSession, and about the calls that share plans, for any  *)
(* statements, queries and frames a program may give and any capacities.   *)
(*                                                                         *)
(* SInv: the catalog is one its lists can be (Good), what a transaction    *)
(* saved was Held at BEGIN, and a plan kept under a generation the catalog *)
(* has not passed is the plan of that catalog.  The last is what makes the *)
(* plan cache safe: Grows says that no step changes what planning reads    *)
(* without moving the generation past every key in it.  KInv adds that the *)
(* rows of every table fit its keys, those a ROLLBACK would bring back     *)
(* included.  A statement Lands: it keeps both, fails or not.              *)
(*                                                                         *)
(* SharedHolds: what is kept under a text and a shape is the plan of every *)
(* catalog of that shape, because a plan reads no more of one (ShapePlans) *)
(* unless it has a pivot.                                                  *)
(***************************************************************************)
EXTENDS MCSqlSession, SequenceTheorems, FiniteSetTheorems, WellFoundedInduction, TLAPS

(***************************************************************************)
(* What each operation of a catalog does to the map its lists stand for:   *)
(* given a catalog whose entries and payloads correspond one to one, it    *)
(* returns another, with one name changed.  These lemmas are about the     *)
(* operators of Catalog alone, and serve the lists on their own (Lists)    *)
(* and the session.                                                        *)
(***************************************************************************)

Kinds == {KIND_FRAME, KIND_VIEW}

\* What the lists hold is a record T of four sets: names, frames, the keys a
\* frame is given (it may have none) and views.
KeyLists(T) == T.keys \cup {<<>>}

Catalogs(T) ==
  [keys : Seq(T.names), kinds : Seq(Kinds), slots : Seq(Nat \ {0}),
   frames : Seq(T.frames), uniques : Seq(KeyLists(T)), views : Seq(T.views),
   generation : Nat]

Entries(c) == 1 .. Len(c.keys)

\* WellPacked, entry by entry.
Packed(c) ==
  /\ \A i, j \in Entries(c) : c.keys[i] = c.keys[j] => i = j
  /\ Len(c.kinds) = Len(c.keys) /\ Len(c.slots) = Len(c.keys)
  /\ Len(c.uniques) = Len(c.frames)
  /\ \A i \in Entries(c) :
       c.slots[i] <= IF c.kinds[i] = KIND_FRAME THEN Len(c.frames)
                                                ELSE Len(c.views)
  /\ \A p \in 1 .. Len(c.frames) :
       \E i \in Entries(c) : c.kinds[i] = KIND_FRAME /\ c.slots[i] = p
  /\ \A p \in 1 .. Len(c.views) :
       \E i \in Entries(c) : c.kinds[i] = KIND_VIEW /\ c.slots[i] = p
  /\ \A i, j \in Entries(c) :
       c.kinds[i] = c.kinds[j] /\ c.slots[i] = c.slots[j] => i = j

LEMMA PackedIsWellPacked ==
  ASSUME NEW T, NEW c \in Catalogs(T)
  PROVE  WellPacked(c) <=> Packed(c)
<1> DEFINE At(kind) == {i \in DOMAIN c.keys : c.kinds[i] = kind}
<1>1. /\ c.keys \in Seq(T.names) /\ c.kinds \in Seq(Kinds)
      /\ c.slots \in Seq(Nat \ {0}) /\ c.frames \in Seq(T.frames)
      /\ c.views \in Seq(T.views)
  BY DEF Catalogs
<1>2. /\ DOMAIN c.keys = Entries(c) /\ DOMAIN c.frames = 1 .. Len(c.frames)
      /\ DOMAIN c.views = 1 .. Len(c.views)
  BY <1>1 DEF Entries
<1>3. KIND_FRAME # KIND_VIEW
  BY DEF KIND_FRAME, KIND_VIEW
<1>4. ASSUME WellPacked(c)
      PROVE  Packed(c)
  <2>1. /\ {c.slots[i] : i \in At(KIND_FRAME)} = 1 .. Len(c.frames)
        /\ {c.slots[i] : i \in At(KIND_VIEW)} = 1 .. Len(c.views)
    BY <1>2, <1>3, <1>4 DEF WellPacked
  <2>2. \A kind \in Kinds : \A i, j \in At(kind) : c.slots[i] = c.slots[j] => i = j
    BY <1>4 DEF WellPacked, Kinds
  <2>3. /\ Len(c.kinds) = Len(c.keys) /\ Len(c.slots) = Len(c.keys)
        /\ Len(c.uniques) = Len(c.frames)
        /\ \A i, j \in Entries(c) : c.keys[i] = c.keys[j] => i = j
    BY <1>2, <1>4 DEF WellPacked, IsInjective
  <2>4. \A i \in Entries(c) : c.kinds[i] \in Kinds
    BY <1>1, <2>3 DEF Entries
  <2>5. \A i, j \in Entries(c) :
          c.kinds[i] = c.kinds[j] /\ c.slots[i] = c.slots[j] => i = j
    BY <1>2, <2>2, <2>4
  <2>6. \A i \in Entries(c) :
          c.slots[i] <= IF c.kinds[i] = KIND_FRAME THEN Len(c.frames)
                                                   ELSE Len(c.views)
    <3>1. TAKE i \in Entries(c)
    <3>2. CASE c.kinds[i] = KIND_FRAME
      <4>1. c.slots[i] \in 1 .. Len(c.frames)
        BY <1>2, <2>1, <3>2
      <4>2. QED
        BY <3>2, <4>1
    <3>3. CASE c.kinds[i] = KIND_VIEW
      <4>1. c.slots[i] \in 1 .. Len(c.views)
        BY <1>2, <2>1, <3>3
      <4>2. QED
        BY <1>3, <3>3, <4>1
    <3>4. QED
      BY <2>4, <3>2, <3>3 DEF Kinds
  <2>7. \A p \in 1 .. Len(c.frames) :
          \E i \in Entries(c) : c.kinds[i] = KIND_FRAME /\ c.slots[i] = p
    BY <1>2, <2>1
  <2>8. \A p \in 1 .. Len(c.views) :
          \E i \in Entries(c) : c.kinds[i] = KIND_VIEW /\ c.slots[i] = p
    BY <1>2, <2>1
  <2>9. QED
    BY <2>3, <2>5, <2>6, <2>7, <2>8 DEF Packed
<1>5. ASSUME Packed(c)
      PROVE  WellPacked(c)
  <2>1. \A i \in Entries(c) : c.slots[i] \in Nat \ {0}
    BY <1>1, <1>5 DEF Packed, Entries
  <2>2. {c.slots[i] : i \in At(KIND_FRAME)} = DOMAIN c.frames
    <3>1. \A i \in At(KIND_FRAME) : c.slots[i] \in 1 .. Len(c.frames)
      BY <1>1, <1>2, <1>5, <2>1 DEF Packed
    <3>2. \A p \in 1 .. Len(c.frames) : \E i \in At(KIND_FRAME) : c.slots[i] = p
      BY <1>2, <1>5 DEF Packed
    <3>3. QED
      BY <1>2, <3>1, <3>2
  <2>3. {c.slots[i] : i \in At(KIND_VIEW)} = DOMAIN c.views
    <3>1. \A i \in At(KIND_VIEW) : c.slots[i] \in 1 .. Len(c.views)
      BY <1>1, <1>2, <1>3, <1>5, <2>1 DEF Packed
    <3>2. \A p \in 1 .. Len(c.views) : \E i \in At(KIND_VIEW) : c.slots[i] = p
      BY <1>2, <1>5 DEF Packed
    <3>3. QED
      BY <1>2, <3>1, <3>2
  <2>4. \A kind : \A i, j \in At(kind) : c.slots[i] = c.slots[j] => i = j
    BY <1>2, <1>5 DEF Packed
  <2>5. IsInjective(c.keys) /\ Len(c.kinds) = Len(c.keys)
        /\ Len(c.slots) = Len(c.keys) /\ Len(c.uniques) = Len(c.frames)
    BY <1>2, <1>5 DEF Packed, IsInjective
  <2>6. QED
    BY <1>3, <2>2, <2>3, <2>4, <2>5 DEF WellPacked
<1>6. QED
  BY <1>4, <1>5
-----------------------------------------------------------------------------
\* Where an entry was before the one at spot was removed.
Old(spot, i) == IF i < spot THEN i ELSE i + 1

LEMMA Removed ==
  ASSUME NEW S, NEW s \in Seq(S), NEW spot \in 1 .. Len(s)
  PROVE  /\ RemoveAt(s, spot) \in Seq(S)
         /\ Len(RemoveAt(s, spot)) = Len(s) - 1
         /\ \A i \in 1 .. Len(s) - 1 : RemoveAt(s, spot)[i] = s[Old(spot, i)]
<1> DEFINE low == SubSeq(s, 1, spot - 1)
           high == SubSeq(s, spot + 1, Len(s))
<1>1. low \in Seq(S) /\ Len(low) = spot - 1 /\ \A i \in 1 .. spot - 1 : low[i] = s[i]
  BY SubSeqProperties
<1>2. /\ high \in Seq(S) /\ Len(high) = Len(s) - spot
      /\ \A i \in 1 .. Len(s) - spot : high[i] = s[spot + i]
  BY SubSeqProperties
<1>3. RemoveAt(s, spot) = low \o high
  BY DEF RemoveAt
<1>4. spot \in Nat /\ Len(s) \in Nat /\ spot >= 1 /\ spot <= Len(s)
  OBVIOUS
<1> HIDE DEF low, high
<1>5. low \o high \in Seq(S) /\ Len(low \o high) = Len(s) - 1
  <2>1. low \o high \in Seq(S) /\ Len(low \o high) = Len(low) + Len(high)
    BY <1>1, <1>2, ConcatProperties
  <2>2. QED
    BY <1>1, <1>2, <1>4, <2>1
<1>6. ASSUME NEW i \in 1 .. Len(s) - 1
      PROVE  (low \o high)[i] = s[Old(spot, i)]
  <2>1. CASE i < spot
    <3>1. i \in 1 .. Len(low) /\ (low \o high)[i] = low[i]
      BY <1>1, <1>2, <1>4, <2>1, ConcatProperties
    <3>2. QED
      BY <1>1, <1>4, <2>1, <3>1 DEF Old
  <2>2. CASE ~ (i < spot)
    <3>1. (low \o high)[i] = high[i - (spot - 1)]
      BY <1>1, <1>2, <1>4, <2>2, ConcatProperties
    <3>2. i - (spot - 1) \in 1 .. Len(s) - spot /\ spot + (i - (spot - 1)) = i + 1
      BY <1>4, <2>2
    <3>3. QED
      BY <1>2, <2>2, <3>1, <3>2 DEF Old
  <2>3. QED
    BY <2>1, <2>2
<1>7. QED
  BY <1>3, <1>5, <1>6

\* An element more, and an element in the place of another.
LEMMA Appended ==
  ASSUME NEW S, NEW s \in Seq(S), NEW e \in S
  PROVE  /\ Append(s, e) \in Seq(S) /\ Len(Append(s, e)) = Len(s) + 1
         /\ Append(s, e)[Len(s) + 1] = e
         /\ \A i \in 1 .. Len(s) : Append(s, e)[i] = s[i]
OBVIOUS

LEMMA Replaced ==
  ASSUME NEW S, NEW s \in Seq(S), NEW spot \in 1 .. Len(s), NEW e \in S
  PROVE  /\ [s EXCEPT ![spot] = e] \in Seq(S)
         /\ Len([s EXCEPT ![spot] = e]) = Len(s)
         /\ [s EXCEPT ![spot] = e][spot] = e
         /\ \A i \in 1 .. Len(s) : i # spot => [s EXCEPT ![spot] = e][i] = s[i]
OBVIOUS

\* With no two entries under a name, the first is the one.
LEMMA FoundIs ==
  ASSUME NEW T, NEW c \in Catalogs(T), Packed(c), NEW n
  PROVE  \/ /\ find(c, n) = NOT_FOUND
            /\ \A i \in Entries(c) : c.keys[i] # n
         \/ /\ find(c, n) \in Entries(c) /\ find(c, n) # NOT_FOUND
            /\ c.keys[find(c, n)] = n
<1>1. DOMAIN c.keys = Entries(c)
  BY DEF Catalogs, Entries
<1>2. CASE \E spot \in DOMAIN c.keys : c.keys[spot] = n
  <2>1. PICK spot \in Entries(c) : c.keys[spot] = n
    BY <1>1, <1>2
  <2>2. \A j \in 1 .. spot - 1 : j \in Entries(c) /\ j # spot
    BY <2>1 DEF Entries, Catalogs
  <2>3. \A j \in 1 .. spot - 1 : c.keys[j] # n
    BY <2>1, <2>2 DEF Packed
  <2>4. find(c, n) \in Entries(c) /\ c.keys[find(c, n)] = n
    BY <1>1, <1>2, <2>1, <2>3 DEF find
  <2>5. QED
    BY <2>4 DEF Entries, NOT_FOUND
<1>3. CASE ~ \E spot \in DOMAIN c.keys : c.keys[spot] = n
  BY <1>1, <1>3 DEF find
<1>4. QED
  BY <1>2, <1>3
-----------------------------------------------------------------------------
\* The slot of an entry once the payload of the entry at spot is gone.
Moved(c, spot, i) ==
  IF i # spot /\ c.kinds[i] = c.kinds[spot] /\ c.slots[i] > c.slots[spot]
  THEN c.slots[i] - 1
  ELSE c.slots[i]

\* What drop leaves of c when the name is at spot, entry by entry.
DroppedAt(c, d, spot) ==
  /\ Len(d.keys) = Len(c.keys) - 1
  /\ Len(d.kinds) = Len(c.keys) - 1 /\ Len(d.slots) = Len(c.keys) - 1
  /\ \A i \in 1 .. Len(c.keys) - 1 :
       /\ d.keys[i] = c.keys[Old(spot, i)] /\ d.kinds[i] = c.kinds[Old(spot, i)]
       /\ d.slots[i] = Moved(c, spot, Old(spot, i))
  /\ c.kinds[spot] = KIND_FRAME =>
       /\ d.frames = RemoveAt(c.frames, c.slots[spot])
       /\ d.uniques = RemoveAt(c.uniques, c.slots[spot])
       /\ d.views = c.views
  /\ c.kinds[spot] = KIND_VIEW =>
       /\ d.views = RemoveAt(c.views, c.slots[spot])
       /\ d.frames = c.frames /\ d.uniques = c.uniques
  /\ d.generation = c.generation + 1

LEMMA KindsAre ==
  ASSUME NEW T, NEW c \in Catalogs(T), Packed(c), NEW i \in Entries(c)
  PROVE  /\ c.kinds[i] \in Kinds /\ c.slots[i] \in Nat \ {0} /\ c.keys[i] \in T.names
         /\ c.kinds[i] = KIND_FRAME =>
              /\ c.slots[i] \in 1 .. Len(c.frames)
              /\ c.slots[i] \in 1 .. Len(c.uniques)
         /\ c.kinds[i] = KIND_VIEW => c.slots[i] \in 1 .. Len(c.views)
         /\ KIND_FRAME # KIND_VIEW
<1>1. c.kinds \in Seq(Kinds) /\ c.slots \in Seq(Nat \ {0}) /\ c.keys \in Seq(T.names)
  BY DEF Catalogs
<1>2. Len(c.kinds) = Len(c.keys) /\ Len(c.slots) = Len(c.keys)
      /\ Len(c.uniques) = Len(c.frames)
  BY DEF Packed
<1>3. c.kinds[i] \in Kinds /\ c.slots[i] \in Nat \ {0} /\ c.keys[i] \in T.names
  BY <1>1, <1>2 DEF Entries
<1>4. Len(c.frames) \in Nat /\ Len(c.views) \in Nat
  BY DEF Catalogs
<1>5. KIND_FRAME # KIND_VIEW
  BY DEF KIND_FRAME, KIND_VIEW
<1>6. c.slots[i] <= IF c.kinds[i] = KIND_FRAME THEN Len(c.frames)
                                               ELSE Len(c.views)
  BY DEF Packed
<1>7. QED
  BY <1>2, <1>3, <1>4, <1>5, <1>6

LEMMA DropIs ==
  ASSUME NEW T, NEW c \in Catalogs(T), Packed(c), NEW n, find(c, n) # NOT_FOUND
  PROVE  /\ drop(c, n) \in Catalogs(T)
         /\ DroppedAt(c, drop(c, n), find(c, n))
<1> DEFINE spot == find(c, n)
           kind == c.kinds[spot]
           slot == c.slots[spot]
           slots == [i \in DOMAIN c.slots |-> Moved(c, spot, i)]
           d == drop(c, n)
           f == forget(c, spot)
<1>1. spot \in Entries(c)
  BY FoundIs
<1>2. /\ c.keys \in Seq(T.names) /\ c.kinds \in Seq(Kinds)
      /\ c.slots \in Seq(Nat \ {0}) /\ c.frames \in Seq(T.frames)
      /\ c.uniques \in Seq(KeyLists(T)) /\ c.views \in Seq(T.views)
      /\ c.generation \in Nat
      /\ DOMAIN c = {"keys", "kinds", "slots", "frames", "uniques", "views",
                     "generation"}
  BY DEF Catalogs
<1>3. /\ Len(c.kinds) = Len(c.keys) /\ Len(c.slots) = Len(c.keys)
      /\ Len(c.uniques) = Len(c.frames)
  BY DEF Packed
<1>4. /\ kind \in Kinds /\ slot \in Nat \ {0} /\ KIND_FRAME # KIND_VIEW
      /\ kind = KIND_FRAME => /\ slot \in 1 .. Len(c.frames)
                              /\ slot \in 1 .. Len(c.uniques)
      /\ kind = KIND_VIEW => slot \in 1 .. Len(c.views)
  BY <1>1, KindsAre
<1>5. f = [c EXCEPT
             !.frames = IF kind = KIND_FRAME THEN RemoveAt(c.frames, slot)
                                             ELSE c.frames,
             !.uniques = IF kind = KIND_FRAME THEN RemoveAt(c.uniques, slot)
                                              ELSE c.uniques,
             !.views = IF kind = KIND_VIEW THEN RemoveAt(c.views, slot)
                                           ELSE c.views,
             !.slots = slots]
  BY DEF forget, Moved
<1>6. d = [f EXCEPT !.keys = RemoveAt(@, spot), !.kinds = RemoveAt(@, spot),
                    !.slots = RemoveAt(@, spot), !.generation = @ + 1]
  BY DEF drop
<1>7. slots \in Seq(Nat \ {0}) /\ Len(slots) = Len(c.keys)
  <2>1. \A i \in 1 .. Len(c.keys) : Moved(c, spot, i) \in Nat \ {0}
    BY <1>2, <1>3, <1>4 DEF Moved
  <2>2. DOMAIN c.slots = 1 .. Len(c.keys) /\ Len(c.keys) \in Nat
    BY <1>2, <1>3
  <2>3. QED
    BY <2>1, <2>2
<1>8. \A i \in 1 .. Len(c.keys) : slots[i] = Moved(c, spot, i)
  BY <1>2, <1>3
<1> HIDE DEF slots, f
<1>9. /\ d.keys = RemoveAt(c.keys, spot) /\ d.kinds = RemoveAt(c.kinds, spot)
      /\ d.slots = RemoveAt(slots, spot)
      /\ d.frames = IF kind = KIND_FRAME THEN RemoveAt(c.frames, slot)
                                         ELSE c.frames
      /\ d.uniques = IF kind = KIND_FRAME THEN RemoveAt(c.uniques, slot)
                                          ELSE c.uniques
      /\ d.views = IF kind = KIND_VIEW THEN RemoveAt(c.views, slot) ELSE c.views
      /\ d.generation = c.generation + 1
  BY <1>2, <1>5, <1>6
<1>10. d = [keys |-> d.keys, kinds |-> d.kinds, slots |-> d.slots,
            frames |-> d.frames, uniques |-> d.uniques, views |-> d.views,
            generation |-> d.generation]
  BY <1>5, <1>6 DEF Catalogs
<1> HIDE DEF d, kind, slot
<1>11. spot \in 1 .. Len(c.keys) /\ Len(c.keys) \in Nat
  BY <1>1, <1>2 DEF Entries
<1> HIDE DEF spot
<1>12. /\ d.keys \in Seq(T.names) /\ Len(d.keys) = Len(c.keys) - 1
       /\ \A i \in 1 .. Len(c.keys) - 1 : d.keys[i] = c.keys[Old(spot, i)]
  BY <1>2, <1>9, <1>11, Removed
<1>13. /\ d.kinds \in Seq(Kinds) /\ Len(d.kinds) = Len(c.keys) - 1
       /\ \A i \in 1 .. Len(c.keys) - 1 : d.kinds[i] = c.kinds[Old(spot, i)]
  <2>1. spot \in 1 .. Len(c.kinds) /\ c.kinds \in Seq(Kinds)
    BY <1>2, <1>3, <1>11
  <2>2. /\ RemoveAt(c.kinds, spot) \in Seq(Kinds)
        /\ Len(RemoveAt(c.kinds, spot)) = Len(c.kinds) - 1
        /\ \A i \in 1 .. Len(c.kinds) - 1 :
             RemoveAt(c.kinds, spot)[i] = c.kinds[Old(spot, i)]
    BY <2>1, Removed
  <2>3. QED
    BY <1>3, <1>9, <2>2
<1>14. /\ d.slots \in Seq(Nat \ {0}) /\ Len(d.slots) = Len(c.keys) - 1
       /\ \A i \in 1 .. Len(c.keys) - 1 : d.slots[i] = slots[Old(spot, i)]
  BY SMTT(30), <1>7, <1>9, <1>11, Removed
<1>15. \A i \in 1 .. Len(c.keys) - 1 : d.slots[i] = Moved(c, spot, Old(spot, i))
  <2>1. \A i \in 1 .. Len(c.keys) - 1 : Old(spot, i) \in 1 .. Len(c.keys)
    BY <1>11 DEF Old
  <2>2. QED
    BY <1>8, <1>14, <2>1
<1>16. /\ d.frames \in Seq(T.frames) /\ d.uniques \in Seq(KeyLists(T))
       /\ d.views \in Seq(T.views)
  BY <1>2, <1>4, <1>9, Removed
<1>17. d \in Catalogs(T)
  BY <1>2, <1>9, <1>10, <1>12, <1>13, <1>14, <1>16 DEF Catalogs
<1>18. DroppedAt(c, d, spot)
  BY <1>4, <1>9, <1>12, <1>13, <1>14, <1>15 DEF DroppedAt, kind, slot
<1>19. QED
  BY <1>17, <1>18 DEF d, spot
-----------------------------------------------------------------------------
EntryAt(c, i) ==
  IF c.kinds[i] = KIND_FRAME
  THEN [kind |-> KIND_FRAME, frame |-> frame_at(c, i), keys |-> uniques_at(c, i)]
  ELSE [kind |-> KIND_VIEW, view |-> view_at(c, i)]

\* Where an entry is once the one at at is removed.
New(spot, j) == IF j < spot THEN j ELSE j - 1

LEMMA Shifted ==
  ASSUME NEW k \in Nat, NEW spot \in 1 .. k
  PROVE  /\ \A i \in 1 .. k - 1 : Old(spot, i) \in 1 .. k /\ Old(spot, i) # spot
         /\ \A i, j \in 1 .. k - 1 : Old(spot, i) = Old(spot, j) => i = j
         /\ \A j \in 1 .. k : j # spot =>
              New(spot, j) \in 1 .. k - 1 /\ Old(spot, New(spot, j)) = j
BY DEF Old, New

\* Two entries of a kind keep different slots, within what is left.
LEMMA MovedApart ==
  ASSUME NEW T, NEW c \in Catalogs(T), Packed(c), NEW spot \in Entries(c),
         NEW i \in Entries(c), NEW j \in Entries(c), i # spot, j # spot,
         c.kinds[i] = c.kinds[j], Moved(c, spot, i) = Moved(c, spot, j)
  PROVE  i = j
<1>1. /\ c.slots[i] \in Nat \ {0} /\ c.slots[j] \in Nat \ {0}
      /\ c.slots[spot] \in Nat \ {0}
  BY KindsAre
<1>2. c.kinds[i] = c.kinds[spot] => c.slots[i] # c.slots[spot] /\ c.slots[j] # c.slots[spot]
  BY DEF Packed
<1>3. c.slots[i] = c.slots[j]
  BY <1>1, <1>2 DEF Moved
<1>4. QED
  BY <1>3 DEF Packed

\* The payload an entry points at is still its own.
LEMMA DropKeepsEntries ==
  ASSUME NEW T, NEW c \in Catalogs(T), Packed(c), NEW d \in Catalogs(T), NEW spot \in Entries(c),
         DroppedAt(c, d, spot), NEW i \in Entries(d)
  PROVE  /\ Old(spot, i) \in Entries(c) /\ Old(spot, i) # spot
         /\ d.keys[i] = c.keys[Old(spot, i)] /\ d.kinds[i] = c.kinds[Old(spot, i)]
         /\ d.slots[i] = Moved(c, spot, Old(spot, i))
         /\ d.kinds[i] = KIND_FRAME => /\ d.slots[i] \in 1 .. Len(d.frames)
                                       /\ d.slots[i] \in 1 .. Len(d.uniques)
         /\ d.kinds[i] = KIND_VIEW => d.slots[i] \in 1 .. Len(d.views)
         /\ EntryAt(d, i) = EntryAt(c, Old(spot, i))
<1> DEFINE j == Old(spot, i)
           slot == c.slots[spot]
<1>1. i \in 1 .. Len(c.keys) - 1 /\ Len(c.keys) \in Nat /\ spot \in 1 .. Len(c.keys)
  BY DEF DroppedAt, Entries, Catalogs
<1>2. j \in Entries(c) /\ j # spot
  BY <1>1, Shifted DEF Entries
<1>3. /\ d.keys[i] = c.keys[j] /\ d.kinds[i] = c.kinds[j]
      /\ d.slots[i] = Moved(c, spot, j)
  BY <1>1 DEF DroppedAt
<1> HIDE DEF j
<1>4. /\ c.frames \in Seq(T.frames) /\ c.views \in Seq(T.views)
      /\ c.uniques \in Seq(KeyLists(T))
      /\ Len(c.frames) \in Nat /\ Len(c.views) \in Nat
      /\ Len(c.uniques) = Len(c.frames)
  BY DEF Catalogs, Packed
<1>5. /\ c.kinds[spot] \in Kinds /\ slot \in Nat \ {0}
      /\ c.kinds[spot] = KIND_FRAME => slot \in 1 .. Len(c.frames)
      /\ c.kinds[spot] = KIND_VIEW => slot \in 1 .. Len(c.views)
      /\ KIND_FRAME # KIND_VIEW
  BY KindsAre
<1>6. /\ c.kinds[j] \in Kinds /\ c.slots[j] \in Nat \ {0}
      /\ c.kinds[j] = KIND_FRAME => c.slots[j] \in 1 .. Len(c.frames)
      /\ c.kinds[j] = KIND_VIEW => c.slots[j] \in 1 .. Len(c.views)
  BY <1>2, KindsAre
<1>7. c.kinds[j] = c.kinds[spot] => c.slots[j] # slot
  BY <1>2 DEF Packed
<1>8. CASE c.kinds[j] # c.kinds[spot]
  <2>1. d.slots[i] = c.slots[j]
    BY <1>3, <1>8 DEF Moved
  <2>2. CASE c.kinds[spot] = KIND_FRAME
    <3>1. d.views = c.views /\ d.kinds[i] = KIND_VIEW
      BY <1>3, <1>6, <1>8, <2>2 DEF DroppedAt, Kinds
    <3>2. EntryAt(d, i) = EntryAt(c, j)
      BY <1>3, <1>5, <2>1, <3>1 DEF EntryAt, view_at
    <3>3. QED
      BY <1>2, <1>3, <1>5, <1>6, <2>1, <3>1, <3>2 DEF j
  <2>3. CASE c.kinds[spot] = KIND_VIEW
    <3>1. d.frames = c.frames /\ d.uniques = c.uniques /\ d.kinds[i] = KIND_FRAME
      BY <1>3, <1>6, <1>8, <2>3 DEF DroppedAt, Kinds
    <3>2. EntryAt(d, i) = EntryAt(c, j)
      BY <1>3, <2>1, <3>1 DEF EntryAt, frame_at, uniques_at
    <3>3. QED
      BY <1>2, <1>3, <1>4, <1>5, <1>6, <2>1, <3>1, <3>2 DEF j
  <2>4. QED
    BY <1>5, <2>2, <2>3 DEF Kinds
<1>9. CASE c.kinds[j] = c.kinds[spot]
  <2>1. d.slots[i] = New(slot, c.slots[j])
    BY <1>2, <1>3, <1>5, <1>6, <1>7, <1>9 DEF Moved, New
  <2>2. CASE c.kinds[spot] = KIND_FRAME
    <3>1. /\ d.frames = RemoveAt(c.frames, slot) /\ d.kinds[i] = KIND_FRAME
          /\ d.uniques = RemoveAt(c.uniques, slot)
      BY <1>3, <1>9, <2>2 DEF DroppedAt
    <3>2. /\ New(slot, c.slots[j]) \in 1 .. Len(c.frames) - 1
          /\ Old(slot, New(slot, c.slots[j])) = c.slots[j]
      <4>1. /\ Len(c.frames) \in Nat /\ slot \in 1 .. Len(c.frames)
            /\ c.slots[j] \in 1 .. Len(c.frames) /\ c.slots[j] # slot
        BY <1>4, <1>5, <1>6, <1>7, <1>9, <2>2
      <4>2. \A k \in Nat : \A a1 \in 1 .. k, b1 \in 1 .. k :
              b1 # a1 => New(a1, b1) \in 1 .. k - 1 /\ Old(a1, New(a1, b1)) = b1
        BY Shifted
      <4> HIDE DEF slot
      <4>3. QED
        BY <4>1, <4>2
    <3>3. /\ d.frames[d.slots[i]] = c.frames[c.slots[j]]
          /\ Len(d.frames) = Len(c.frames) - 1
      <4>1. c.frames \in Seq(T.frames) /\ slot \in 1 .. Len(c.frames)
        BY <1>4, <1>5, <2>2
      <4>2. /\ Len(RemoveAt(c.frames, slot)) = Len(c.frames) - 1
            /\ \A p \in 1 .. Len(c.frames) - 1 :
                 RemoveAt(c.frames, slot)[p] = c.frames[Old(slot, p)]
        BY <4>1, Removed
      <4>3. QED
        BY <1>4, <2>1, <3>1, <3>2, <4>2
    <3>4. /\ d.uniques[d.slots[i]] = c.uniques[c.slots[j]]
          /\ Len(d.uniques) = Len(c.frames) - 1
      <4>1. c.uniques \in Seq(KeyLists(T)) /\ slot \in 1 .. Len(c.uniques)
        BY <1>4, <1>5, <2>2
      <4>2. /\ Len(RemoveAt(c.uniques, slot)) = Len(c.uniques) - 1
            /\ \A p \in 1 .. Len(c.uniques) - 1 :
                 RemoveAt(c.uniques, slot)[p] = c.uniques[Old(slot, p)]
        BY <4>1, Removed
      <4>3. QED
        BY <1>4, <2>1, <3>1, <3>2, <4>2
    <3>5. EntryAt(d, i) = EntryAt(c, j)
      BY <1>3, <3>1, <3>3, <3>4 DEF EntryAt, frame_at, uniques_at
    <3>6. QED
      BY <1>2, <1>3, <1>5, <2>1, <3>1, <3>2, <3>3, <3>4, <3>5 DEF j
  <2>3. CASE c.kinds[spot] = KIND_VIEW
    <3>1. d.views = RemoveAt(c.views, slot) /\ d.kinds[i] = KIND_VIEW
      BY <1>3, <1>9, <2>3 DEF DroppedAt
    <3>2. /\ New(slot, c.slots[j]) \in 1 .. Len(c.views) - 1
          /\ Old(slot, New(slot, c.slots[j])) = c.slots[j]
      <4>1. /\ Len(c.views) \in Nat /\ slot \in 1 .. Len(c.views)
            /\ c.slots[j] \in 1 .. Len(c.views) /\ c.slots[j] # slot
        BY <1>4, <1>5, <1>6, <1>7, <1>9, <2>3
      <4>2. \A k \in Nat : \A a1 \in 1 .. k, b1 \in 1 .. k :
              b1 # a1 => New(a1, b1) \in 1 .. k - 1 /\ Old(a1, New(a1, b1)) = b1
        BY Shifted
      <4> HIDE DEF slot
      <4>3. QED
        BY <4>1, <4>2
    <3>3. /\ d.views[d.slots[i]] = c.views[c.slots[j]]
          /\ Len(d.views) = Len(c.views) - 1
      <4>1. c.views \in Seq(T.views) /\ slot \in 1 .. Len(c.views)
        BY <1>4, <1>5, <2>3
      <4>2. /\ Len(RemoveAt(c.views, slot)) = Len(c.views) - 1
            /\ \A p \in 1 .. Len(c.views) - 1 :
                 RemoveAt(c.views, slot)[p] = c.views[Old(slot, p)]
        BY <4>1, Removed
      <4>3. QED
        BY <1>4, <2>1, <3>1, <3>2, <4>2
    <3>4. EntryAt(d, i) = EntryAt(c, j)
      BY <1>3, <1>5, <3>1, <3>3 DEF EntryAt, view_at
    <3>5. QED
      BY <1>2, <1>3, <1>5, <2>1, <3>1, <3>2, <3>3, <3>4 DEF j
  <2>4. QED
    BY <1>5, <2>2, <2>3 DEF Kinds
<1>10. QED
  BY <1>8, <1>9

LEMMA DropPacks ==
  ASSUME NEW T, NEW c \in Catalogs(T), Packed(c), NEW d \in Catalogs(T), NEW spot \in Entries(c),
         DroppedAt(c, d, spot)
  PROVE  Packed(d)
<1> DEFINE slot == c.slots[spot]
<1>1. /\ Len(c.keys) \in Nat /\ spot \in 1 .. Len(c.keys)
      /\ Len(d.keys) = Len(c.keys) - 1 /\ Entries(d) = 1 .. Len(c.keys) - 1
      /\ Len(d.kinds) = Len(d.keys) /\ Len(d.slots) = Len(d.keys)
  BY DEF DroppedAt, Entries, Catalogs
<1>2. \A i \in Entries(d) :
        /\ Old(spot, i) \in Entries(c) /\ Old(spot, i) # spot
        /\ d.keys[i] = c.keys[Old(spot, i)] /\ d.kinds[i] = c.kinds[Old(spot, i)]
        /\ d.slots[i] = Moved(c, spot, Old(spot, i))
        /\ d.kinds[i] = KIND_FRAME => d.slots[i] \in 1 .. Len(d.frames)
        /\ d.kinds[i] = KIND_VIEW => d.slots[i] \in 1 .. Len(d.views)
  BY DropKeepsEntries
<1>3. \A i, j \in Entries(d) : Old(spot, i) = Old(spot, j) => i = j
  <2>1. \A i, j \in 1 .. Len(c.keys) - 1 : Old(spot, i) = Old(spot, j) => i = j
    BY <1>1, Shifted
  <2>2. QED
    BY <1>1, <2>1
<1>4. \A i, j \in Entries(d) : d.keys[i] = d.keys[j] => i = j
  BY <1>2, <1>3 DEF Packed
<1>5. \A i, j \in Entries(d) :
        d.kinds[i] = d.kinds[j] /\ d.slots[i] = d.slots[j] => i = j
  BY <1>2, <1>3, MovedApart
<1>6. \A i \in Entries(d) : d.kinds[i] \in Kinds
  BY <1>2, KindsAre
<1>7. \A i \in Entries(d) :
        d.slots[i] <= IF d.kinds[i] = KIND_FRAME THEN Len(d.frames)
                                                 ELSE Len(d.views)
  BY <1>2, <1>6, KindsAre DEF Kinds
<1>8. \A j \in Entries(c) : j # spot =>
        /\ New(spot, j) \in Entries(d)
        /\ d.kinds[New(spot, j)] = c.kinds[j]
        /\ d.slots[New(spot, j)] = Moved(c, spot, j)
  <2>1. \A j \in 1 .. Len(c.keys) : j # spot =>
          New(spot, j) \in 1 .. Len(c.keys) - 1 /\ Old(spot, New(spot, j)) = j
    BY <1>1, Shifted
  <2>2. Entries(c) = 1 .. Len(c.keys)
    BY DEF Entries
  <2>3. QED
    BY <1>1, <1>2, <2>1, <2>2
<1>9. /\ c.kinds[spot] \in Kinds /\ slot \in Nat \ {0}
      /\ c.kinds[spot] = KIND_FRAME => slot \in 1 .. Len(c.frames)
      /\ c.kinds[spot] = KIND_VIEW => slot \in 1 .. Len(c.views)
      /\ KIND_FRAME # KIND_VIEW
  BY KindsAre
<1>10. /\ c.frames \in Seq(T.frames) /\ c.views \in Seq(T.views)
       /\ c.uniques \in Seq(KeyLists(T))
       /\ Len(c.frames) \in Nat /\ Len(c.views) \in Nat
       /\ Len(c.uniques) = Len(c.frames)
  BY DEF Catalogs, Packed
<1>11. Len(d.uniques) = Len(d.frames)
  BY SMTT(30), <1>9, <1>10, Removed DEF DroppedAt, Kinds
<1>12. \A p \in 1 .. Len(d.frames) :
         \E i \in Entries(d) : d.kinds[i] = KIND_FRAME /\ d.slots[i] = p
  <2>1. TAKE p \in 1 .. Len(d.frames)
  <2>2. CASE c.kinds[spot] = KIND_FRAME
    <3>1. Len(d.frames) = Len(c.frames) - 1
      BY <1>9, <1>10, <2>2, Removed DEF DroppedAt
    <3>2. Old(slot, p) \in 1 .. Len(c.frames) /\ Old(slot, p) # slot
      BY <1>9, <1>10, <2>2, <3>1 DEF Old
    <3>3. PICK j \in Entries(c) :
             c.kinds[j] = KIND_FRAME /\ c.slots[j] = Old(slot, p)
      BY <3>2 DEF Packed
    <3>4. j # spot
      BY <3>2, <3>3
    <3>5. Moved(c, spot, j) = p
      <4>1. slot \in Nat /\ p \in Nat /\ c.kinds[j] = c.kinds[spot]
        BY <1>9, <2>2, <3>3
      <4>2. CASE p < slot
        <5>1. c.slots[j] = p /\ ~(c.slots[j] > slot)
          BY <3>3, <4>1, <4>2 DEF Old
        <5>2. QED
          BY <5>1 DEF Moved
      <4>3. CASE ~(p < slot)
        <5>1. c.slots[j] = p + 1 /\ c.slots[j] > slot /\ c.slots[j] - 1 = p
          BY <3>3, <4>1, <4>3 DEF Old
        <5>2. QED
          BY <3>4, <4>1, <5>1 DEF Moved
      <4>4. QED
        BY <4>2, <4>3
    <3>6. QED
      BY <1>8, <3>3, <3>4, <3>5
  <2>3. CASE c.kinds[spot] = KIND_VIEW
    <3>1. d.frames = c.frames
      BY <2>3 DEF DroppedAt
    <3>2. PICK j \in Entries(c) : c.kinds[j] = KIND_FRAME /\ c.slots[j] = p
      BY <3>1 DEF Packed
    <3>3. j # spot /\ Moved(c, spot, j) = p
      BY <1>9, <2>3, <3>2 DEF Moved
    <3>4. QED
      BY <1>8, <3>2, <3>3
  <2>4. QED
    BY <1>9, <2>2, <2>3 DEF Kinds
<1>13. \A p \in 1 .. Len(d.views) :
         \E i \in Entries(d) : d.kinds[i] = KIND_VIEW /\ d.slots[i] = p
  <2>1. TAKE p \in 1 .. Len(d.views)
  <2>2. CASE c.kinds[spot] = KIND_VIEW
    <3>1. Len(d.views) = Len(c.views) - 1
      BY <1>9, <1>10, <2>2, Removed DEF DroppedAt
    <3>2. Old(slot, p) \in 1 .. Len(c.views) /\ Old(slot, p) # slot
      BY <1>9, <1>10, <2>2, <3>1 DEF Old
    <3>3. PICK j \in Entries(c) :
             c.kinds[j] = KIND_VIEW /\ c.slots[j] = Old(slot, p)
      BY <3>2 DEF Packed
    <3>4. j # spot
      BY <3>2, <3>3
    <3>5. Moved(c, spot, j) = p
      <4>1. slot \in Nat /\ p \in Nat /\ c.kinds[j] = c.kinds[spot]
        BY <1>9, <2>2, <3>3
      <4>2. CASE p < slot
        <5>1. c.slots[j] = p /\ ~(c.slots[j] > slot)
          BY <3>3, <4>1, <4>2 DEF Old
        <5>2. QED
          BY <5>1 DEF Moved
      <4>3. CASE ~(p < slot)
        <5>1. c.slots[j] = p + 1 /\ c.slots[j] > slot /\ c.slots[j] - 1 = p
          BY <3>3, <4>1, <4>3 DEF Old
        <5>2. QED
          BY <3>4, <4>1, <5>1 DEF Moved
      <4>4. QED
        BY <4>2, <4>3
    <3>6. QED
      BY <1>8, <3>3, <3>4, <3>5
  <2>3. CASE c.kinds[spot] = KIND_FRAME
    <3>1. d.views = c.views
      BY <2>3 DEF DroppedAt
    <3>2. PICK j \in Entries(c) : c.kinds[j] = KIND_VIEW /\ c.slots[j] = p
      BY <3>1 DEF Packed
    <3>3. j # spot /\ Moved(c, spot, j) = p
      BY <1>9, <2>3, <3>2 DEF Moved
    <3>4. QED
      BY <1>8, <3>2, <3>3
  <2>4. QED
    BY <1>9, <2>2, <2>3 DEF Kinds
<1>14. QED
  BY <1>1, <1>4, <1>5, <1>7, <1>11, <1>12, <1>13 DEF Packed
-----------------------------------------------------------------------------
LEMMA HeldIs ==
  ASSUME NEW T, NEW c \in Catalogs(T), Packed(c)
  PROVE  /\ \A m : m \in DOMAIN Held(c) <=> \E i \in Entries(c) : c.keys[i] = m
         /\ \A i \in Entries(c) : Held(c)[c.keys[i]] = EntryAt(c, i)
<1>1. \A m : m \in ToSet(c.keys) <=> \E i \in Entries(c) : c.keys[i] = m
  <2>1. DOMAIN c.keys = Entries(c)
    BY DEF Catalogs, Entries
  <2>2. QED
    BY <2>1 DEF ToSet
<1>2. \A i \in Entries(c) : find(c, c.keys[i]) = i
  <2>1. TAKE i \in Entries(c)
  <2>2. find(c, c.keys[i]) \in Entries(c) /\ c.keys[find(c, c.keys[i])] = c.keys[i]
    BY FoundIs
  <2>3. QED
    BY <2>2 DEF Packed
<1>3. \A i \in Entries(c) : Entry(c, c.keys[i]) = EntryAt(c, i)
  BY <1>2 DEF Entry, EntryAt
<1>4. QED
  BY <1>1, <1>3 DEF Held

\* The map with e under n, and without n.
Plus(h, n, e) == [m \in DOMAIN h \cup {n} |-> IF m = n THEN e ELSE h[m]]
Minus(h, n) == [m \in DOMAIN h \ {n} |-> h[m]]

\* Catalogs that agree entry by entry but for n are maps that do.
LEMMA AgreesButFor ==
  ASSUME NEW T, NEW c \in Catalogs(T), Packed(c), NEW d \in Catalogs(T), Packed(d),
         NEW n, NEW e, NEW spot \in Entries(d), d.keys[spot] = n, EntryAt(d, spot) = e,
         \A i \in Entries(d) : i # spot =>
            \E j \in Entries(c) :
               c.keys[j] = d.keys[i] /\ EntryAt(c, j) = EntryAt(d, i),
         \A j \in Entries(c) : c.keys[j] # n =>
            \E i \in Entries(d) : d.keys[i] = c.keys[j]
  PROVE  Held(d) = Plus(Held(c), n, e)
<1>a. /\ \A m : m \in DOMAIN Held(c) <=> \E i \in Entries(c) : c.keys[i] = m
      /\ \A i \in Entries(c) : Held(c)[c.keys[i]] = EntryAt(c, i)
  BY HeldIs
<1>b. /\ \A m : m \in DOMAIN Held(d) <=> \E i \in Entries(d) : d.keys[i] = m
      /\ \A i \in Entries(d) : Held(d)[d.keys[i]] = EntryAt(d, i)
  BY HeldIs
<1>1. DOMAIN Held(d) = DOMAIN Held(c) \cup {n}
  <2>1. \A i \in Entries(d) : d.keys[i] \in DOMAIN Held(c) \cup {n}
    BY <1>a, <1>b
  <2>2. \A j \in Entries(c) : c.keys[j] \in DOMAIN Held(d)
    BY <1>a, <1>b
  <2>3. QED
    BY <2>1, <2>2, <1>a, <1>b
<1>2. \A i \in Entries(d) :
        Held(d)[d.keys[i]] = IF d.keys[i] = n THEN e ELSE Held(c)[d.keys[i]]
  <2>1. TAKE i \in Entries(d)
  <2>2. CASE i = spot
    BY <2>2, <1>a, <1>b
  <2>3. CASE i # spot
    <3>1. d.keys[i] # n
      BY <2>3 DEF Packed
    <3>2. PICK j \in Entries(c) : c.keys[j] = d.keys[i] /\ EntryAt(c, j) = EntryAt(d, i)
      BY <2>3
    <3>3. Held(c)[d.keys[i]] = EntryAt(d, i) /\ Held(d)[d.keys[i]] = EntryAt(d, i)
      BY <3>2, <1>a, <1>b
    <3>4. QED
      BY <3>1, <3>3
  <2>4. QED
    BY <2>2, <2>3
<1>3. \A m \in DOMAIN Held(d) : Held(d)[m] = IF m = n THEN e ELSE Held(c)[m]
  BY <1>2, <1>a, <1>b
<1>4. Held(d) = [m \in DOMAIN Held(d) |-> Held(d)[m]]
  BY DEF Held
<1>5. QED
  BY <1>1, <1>3, <1>4 DEF Plus

\* drop takes a name out of the map, whatever it moves.
LEMMA DropIsMinus ==
  ASSUME NEW T, NEW c \in Catalogs(T), Packed(c), NEW n
  PROVE  /\ drop(c, n) \in Catalogs(T) /\ Packed(drop(c, n))
         /\ \A i \in Entries(drop(c, n)) : drop(c, n).keys[i] # n
         /\ Held(drop(c, n)) = Minus(Held(c), n)
         /\ drop(c, n) = c \/ drop(c, n).generation = c.generation + 1
<1> DEFINE d == drop(c, n)
           spot == find(c, n)
<1>1. CASE spot = NOT_FOUND
  <2>1. d = c
    BY <1>1 DEF drop
  <2>2. \A i \in Entries(c) : c.keys[i] # n
    BY <1>1, FoundIs DEF NOT_FOUND, Entries
  <2>3. n \notin DOMAIN Held(c) /\ Held(c) = [m \in DOMAIN Held(c) |-> Held(c)[m]]
    BY <2>2, HeldIs DEF Held
  <2>4. Held(c) = Minus(Held(c), n)
    BY <2>3 DEF Minus
  <2>5. QED
    BY <2>1, <2>2, <2>4
<1>2. CASE spot # NOT_FOUND
  <2>1. spot \in Entries(c) /\ c.keys[spot] = n
    BY <1>2, FoundIs
  <2>2. d \in Catalogs(T) /\ DroppedAt(c, d, spot)
    BY <1>2, DropIs
  <2> HIDE DEF d, spot
  <2>3. Packed(d)
    BY <2>1, <2>2, DropPacks
  <2>a. /\ \A m : m \in DOMAIN Held(c) <=> \E i \in Entries(c) : c.keys[i] = m
        /\ \A i \in Entries(c) : Held(c)[c.keys[i]] = EntryAt(c, i)
    BY HeldIs
  <2>b. /\ \A m : m \in DOMAIN Held(d) <=> \E i \in Entries(d) : d.keys[i] = m
        /\ \A i \in Entries(d) : Held(d)[d.keys[i]] = EntryAt(d, i)
    BY <2>2, <2>3, HeldIs
  <2>4. \A i \in Entries(d) :
          /\ Old(spot, i) \in Entries(c) /\ Old(spot, i) # spot
          /\ d.keys[i] = c.keys[Old(spot, i)]
          /\ EntryAt(d, i) = EntryAt(c, Old(spot, i))
    BY <2>1, <2>2, DropKeepsEntries
  <2>5. \A i \in Entries(d) : d.keys[i] # n
    BY <2>1, <2>4 DEF Packed
  <2>6. \A j \in Entries(c) : c.keys[j] # n =>
          \E i \in Entries(d) : d.keys[i] = c.keys[j]
    <3>1. TAKE j \in Entries(c)
    <3>2. HAVE c.keys[j] # n
    <3>3. /\ Len(c.keys) \in Nat /\ spot \in 1 .. Len(c.keys)
          /\ j \in 1 .. Len(c.keys) /\ j # spot
      BY <2>1, <3>1, <3>2 DEF Entries, Catalogs
    <3>a. Entries(d) = 1 .. Len(c.keys) - 1
      BY <2>2 DEF Entries, DroppedAt
    <3>4. New(spot, j) \in Entries(d) /\ Old(spot, New(spot, j)) = j
      BY <3>3, <3>a, Shifted
    <3>5. QED
      BY <2>4, <3>4
  <2>7. DOMAIN Held(d) = DOMAIN Held(c) \ {n}
    <3>1. \A i \in Entries(d) : d.keys[i] \in DOMAIN Held(c) \ {n}
      BY <2>4, <2>5, <2>a
    <3>2. \A j \in Entries(c) : c.keys[j] # n => c.keys[j] \in DOMAIN Held(d)
      BY <2>6, <2>b
    <3>3. DOMAIN Held(d) \subseteq DOMAIN Held(c) \ {n}
      BY <3>1, <2>b
    <3>4. DOMAIN Held(c) \ {n} \subseteq DOMAIN Held(d)
      BY <3>2, <2>a
    <3>5. QED
      BY <3>3, <3>4
  <2>8. \A i \in Entries(d) : Held(d)[d.keys[i]] = Held(c)[d.keys[i]]
    BY <2>4, <2>a, <2>b
  <2>9. \A m \in DOMAIN Held(d) : Held(d)[m] = Held(c)[m]
    BY <2>8, <2>b
  <2>10. Held(d) = [m \in DOMAIN Held(d) |-> Held(d)[m]]
    BY DEF Held
  <2>11. Held(d) = Minus(Held(c), n)
    BY <2>7, <2>9, <2>10 DEF Minus
  <2>12. d.generation = c.generation + 1
    BY <2>2 DEF DroppedAt
  <2>13. QED
    BY <2>2, <2>3, <2>5, <2>11, <2>12 DEF d
<1>3. QED
  BY <1>1, <1>2
-----------------------------------------------------------------------------
\* d is c with an entry for n at the end, its payload at the end of its list.
EnteredIn(c, d, n, kind, slot) ==
  /\ d.keys = Append(c.keys, n) /\ d.kinds = Append(c.kinds, kind)
  /\ d.slots = Append(c.slots, slot)

LEMMA EnteredEntries ==
  ASSUME NEW T, NEW c \in Catalogs(T), Packed(c), NEW d \in Catalogs(T), NEW n \in T.names,
         NEW kind \in Kinds, NEW slot \in Nat \ {0},
         EnteredIn(c, d, n, kind, slot)
  PROVE  /\ \A i : i \in Entries(d) <=> i \in Entries(c) \/ i = Len(c.keys) + 1
         /\ Entries(c) = 1 .. Len(c.keys) /\ Len(c.keys) \in Nat
         /\ Len(d.kinds) = Len(d.keys) /\ Len(d.slots) = Len(d.keys)
         /\ \A i \in Entries(c) : /\ d.keys[i] = c.keys[i]
                                  /\ d.kinds[i] = c.kinds[i]
                                  /\ d.slots[i] = c.slots[i]
         /\ d.keys[Len(c.keys) + 1] = n /\ d.kinds[Len(c.keys) + 1] = kind
         /\ d.slots[Len(c.keys) + 1] = slot
<1>1. /\ c.keys \in Seq(T.names) /\ c.kinds \in Seq(Kinds)
      /\ c.slots \in Seq(Nat \ {0})
      /\ Len(c.kinds) = Len(c.keys) /\ Len(c.slots) = Len(c.keys)
      /\ Len(c.keys) \in Nat
  BY DEF Catalogs, Packed
<1>2. /\ Len(d.keys) = Len(c.keys) + 1
      /\ \A i \in 1 .. Len(c.keys) : d.keys[i] = c.keys[i]
      /\ d.keys[Len(c.keys) + 1] = n
  BY <1>1 DEF EnteredIn
<1>3. /\ Len(d.kinds) = Len(c.keys) + 1
      /\ \A i \in 1 .. Len(c.keys) : d.kinds[i] = c.kinds[i]
      /\ d.kinds[Len(c.keys) + 1] = kind
  BY <1>1 DEF EnteredIn
<1>4. /\ Len(d.slots) = Len(c.keys) + 1
      /\ \A i \in 1 .. Len(c.keys) : d.slots[i] = c.slots[i]
      /\ d.slots[Len(c.keys) + 1] = slot
  BY <1>1 DEF EnteredIn
<1>5. QED
  BY <1>1, <1>2, <1>3, <1>4 DEF Entries

FrameEntry(f, unique) == [kind |-> KIND_FRAME, frame |-> f, keys |-> unique]
ViewEntry(v) == [kind |-> KIND_VIEW, view |-> v]

\* What Entered and the lists after it make of c, field by field.
FrameEntered(c, d, n, f) ==
  /\ EnteredIn(c, d, n, KIND_FRAME, Len(c.frames) + 1)
  /\ d.frames = Append(c.frames, f) /\ d.uniques = Append(c.uniques, <<>>)
  /\ d.views = c.views /\ d.generation = c.generation + 1

ViewEntered(c, d, n, v) ==
  /\ EnteredIn(c, d, n, KIND_VIEW, Len(c.views) + 1)
  /\ d.views = Append(c.views, v)
  /\ d.frames = c.frames /\ d.uniques = c.uniques
  /\ d.generation = c.generation + 1

WithFrame(c, n, f) == [Entered(c, n, KIND_FRAME, Len(c.frames) + 1) EXCEPT
                         !.frames = Append(@, f), !.uniques = Append(@, <<>>)]
WithView(c, n, v) == [Entered(c, n, KIND_VIEW, Len(c.views) + 1) EXCEPT
                        !.views = Append(@, v)]

LEMMA FieldsMakeACatalog ==
  ASSUME NEW T, NEW d, d.keys \in Seq(T.names), d.kinds \in Seq(Kinds),
         d.slots \in Seq(Nat \ {0}), d.frames \in Seq(T.frames),
         d.uniques \in Seq(KeyLists(T)), d.views \in Seq(T.views),
         d.generation \in Nat,
         d = [keys |-> d.keys, kinds |-> d.kinds, slots |-> d.slots,
              frames |-> d.frames, uniques |-> d.uniques, views |-> d.views,
              generation |-> d.generation]
  PROVE  d \in Catalogs(T)
BY DEF Catalogs

LEMMA CatalogFields ==
  ASSUME NEW T, NEW c \in Catalogs(T)
  PROVE  /\ c.keys \in Seq(T.names) /\ c.kinds \in Seq(Kinds)
         /\ c.slots \in Seq(Nat \ {0}) /\ c.frames \in Seq(T.frames)
         /\ c.uniques \in Seq(KeyLists(T)) /\ c.views \in Seq(T.views)
         /\ c.generation \in Nat
         /\ Len(c.frames) \in Nat /\ Len(c.views) \in Nat /\ Len(c.keys) \in Nat
BY DEF Catalogs

LEMMA AppendedFields ==
  ASSUME NEW T, NEW c \in Catalogs(T), NEW d, NEW n \in T.names, NEW kind \in Kinds,
         NEW slot \in Nat \ {0}, EnteredIn(c, d, n, kind, slot)
  PROVE  /\ d.keys \in Seq(T.names) /\ d.kinds \in Seq(Kinds)
         /\ d.slots \in Seq(Nat \ {0})
<1>1. /\ c.keys \in Seq(T.names) /\ c.kinds \in Seq(Kinds)
      /\ c.slots \in Seq(Nat \ {0})
  BY CatalogFields
<1>2. Append(c.keys, n) \in Seq(T.names)
  BY <1>1, AppendProperties
<1>3. Append(c.kinds, kind) \in Seq(Kinds)
  BY <1>1, AppendProperties
<1>4. Append(c.slots, slot) \in Seq(Nat \ {0})
  BY <1>1, AppendProperties
<1>5. QED
  BY <1>2, <1>3, <1>4 DEF EnteredIn

LEMMA WithFrameIs ==
  ASSUME NEW T, NEW c \in Catalogs(T), NEW n \in T.names, NEW f \in T.frames
  PROVE  WithFrame(c, n, f) \in Catalogs(T) /\ FrameEntered(c, WithFrame(c, n, f), n, f)
<1> DEFINE d == WithFrame(c, n, f)
<1>1. FrameEntered(c, d, n, f)
  BY DEF Catalogs, WithFrame, Entered, EnteredIn, FrameEntered
<1>2. d = [keys |-> d.keys, kinds |-> d.kinds, slots |-> d.slots,
           frames |-> d.frames, uniques |-> d.uniques, views |-> d.views,
           generation |-> d.generation]
  <2> DEFINE e == Entered(c, n, KIND_FRAME, Len(c.frames) + 1)
  <2>1. e = [c EXCEPT !.keys = Append(@, n), !.kinds = Append(@, KIND_FRAME),
                      !.slots = Append(@, Len(c.frames) + 1), !.generation = @ + 1]
    BY DEF Entered
  <2>2. d = [e EXCEPT !.frames = Append(@, f), !.uniques = Append(@, <<>>)]
    BY DEF WithFrame
  <2> HIDE DEF e, d
  <2>3. QED
    BY <2>1, <2>2 DEF Catalogs
<1> HIDE DEF d
<1>3. KIND_FRAME \in Kinds /\ Len(c.frames) + 1 \in Nat \ {0}
  BY CatalogFields DEF Kinds
<1>4. d.keys \in Seq(T.names) /\ d.kinds \in Seq(Kinds) /\ d.slots \in Seq(Nat \ {0})
  BY <1>1, <1>3, AppendedFields DEF FrameEntered
<1>5. /\ c.frames \in Seq(T.frames) /\ c.uniques \in Seq(KeyLists(T))
      /\ c.views \in Seq(T.views) /\ c.generation \in Nat
  BY CatalogFields
<1>6. /\ Append(c.frames, f) \in Seq(T.frames)
      /\ Append(c.uniques, <<>>) \in Seq(KeyLists(T))
  <2>1. <<>> \in KeyLists(T)
    BY DEF KeyLists
  <2>2. QED
    BY <1>5, <2>1, Appended
<1>7. /\ d.frames \in Seq(T.frames) /\ d.uniques \in Seq(KeyLists(T))
      /\ d.views \in Seq(T.views) /\ d.generation \in Nat
  BY <1>1, <1>5, <1>6 DEF FrameEntered
<1>8. d \in Catalogs(T)
  BY <1>2, <1>4, <1>7, FieldsMakeACatalog
<1>9. QED
  BY <1>1, <1>8 DEF d

LEMMA WithViewIs ==
  ASSUME NEW T, NEW c \in Catalogs(T), NEW n \in T.names, NEW v \in T.views
  PROVE  WithView(c, n, v) \in Catalogs(T) /\ ViewEntered(c, WithView(c, n, v), n, v)
<1> DEFINE d == WithView(c, n, v)
<1>1. ViewEntered(c, d, n, v)
  BY DEF Catalogs, WithView, Entered, EnteredIn, ViewEntered
<1>2. d = [keys |-> d.keys, kinds |-> d.kinds, slots |-> d.slots,
           frames |-> d.frames, uniques |-> d.uniques, views |-> d.views,
           generation |-> d.generation]
  <2> DEFINE e == Entered(c, n, KIND_VIEW, Len(c.views) + 1)
  <2>1. e = [c EXCEPT !.keys = Append(@, n), !.kinds = Append(@, KIND_VIEW),
                      !.slots = Append(@, Len(c.views) + 1), !.generation = @ + 1]
    BY DEF Entered
  <2>2. d = [e EXCEPT !.views = Append(@, v)]
    BY DEF WithView
  <2> HIDE DEF e, d
  <2>3. QED
    BY <2>1, <2>2 DEF Catalogs
<1> HIDE DEF d
<1>3. KIND_VIEW \in Kinds /\ Len(c.views) + 1 \in Nat \ {0}
  BY CatalogFields DEF Kinds
<1>4. d.keys \in Seq(T.names) /\ d.kinds \in Seq(Kinds) /\ d.slots \in Seq(Nat \ {0})
  BY <1>1, <1>3, AppendedFields DEF ViewEntered
<1>5. /\ c.frames \in Seq(T.frames) /\ c.uniques \in Seq(KeyLists(T))
      /\ c.views \in Seq(T.views) /\ c.generation \in Nat
  BY CatalogFields
<1>6. Append(c.views, v) \in Seq(T.views)
  BY <1>5, Appended
<1>7. /\ d.frames \in Seq(T.frames) /\ d.uniques \in Seq(KeyLists(T))
      /\ d.views \in Seq(T.views) /\ d.generation \in Nat
  BY <1>1, <1>5, <1>6 DEF ViewEntered
<1>8. d \in Catalogs(T)
  BY <1>2, <1>4, <1>7, FieldsMakeACatalog
<1>9. QED
  BY <1>1, <1>8 DEF d

LEMMA EnterFrame ==
  ASSUME NEW T, NEW c \in Catalogs(T), Packed(c), NEW n \in T.names, NEW f \in T.frames,
         \A i \in Entries(c) : c.keys[i] # n,
         NEW d \in Catalogs(T), FrameEntered(c, d, n, f)
  PROVE  /\ Packed(d)
         /\ Held(d) = Plus(Held(c), n, FrameEntry(f, <<>>))
<1> DEFINE spot == Len(c.keys) + 1
           top == Len(c.frames) + 1
<1>1. /\ c.keys \in Seq(T.names) /\ c.kinds \in Seq(Kinds)
      /\ c.slots \in Seq(Nat \ {0}) /\ c.frames \in Seq(T.frames)
      /\ c.uniques \in Seq(KeyLists(T)) /\ c.views \in Seq(T.views)
      /\ c.generation \in Nat /\ Len(c.frames) \in Nat /\ Len(c.views) \in Nat
      /\ Len(c.uniques) = Len(c.frames)
  BY DEF Catalogs, Packed
<1>2. /\ EnteredIn(c, d, n, KIND_FRAME, top)
      /\ d.frames = Append(c.frames, f) /\ d.uniques = Append(c.uniques, <<>>)
      /\ d.views = c.views /\ d.generation = c.generation + 1
  BY DEF FrameEntered
<1>3. KIND_FRAME \in Kinds /\ KIND_FRAME # KIND_VIEW /\ top \in Nat \ {0}
  BY <1>1 DEF Kinds, KIND_FRAME, KIND_VIEW
<1>4. /\ Len(d.frames) = top /\ Len(d.uniques) = top
      /\ d.frames[top] = f /\ d.uniques[top] = <<>>
      /\ \A p \in 1 .. Len(c.frames) :
           d.frames[p] = c.frames[p] /\ d.uniques[p] = c.uniques[p]
  <2>1. <<>> \in KeyLists(T)
    BY DEF KeyLists
  <2>2. QED
    BY <1>1, <1>2, <2>1, Appended
<1>5. /\ \A i : i \in Entries(d) <=> i \in Entries(c) \/ i = spot
      /\ Entries(c) = 1 .. Len(c.keys) /\ Len(c.keys) \in Nat
      /\ Len(d.kinds) = Len(d.keys) /\ Len(d.slots) = Len(d.keys)
      /\ \A i \in Entries(c) : /\ d.keys[i] = c.keys[i]
                               /\ d.kinds[i] = c.kinds[i]
                               /\ d.slots[i] = c.slots[i]
      /\ d.keys[spot] = n /\ d.kinds[spot] = KIND_FRAME /\ d.slots[spot] = top
  BY <1>2, <1>3, EnteredEntries
<1>6. \A i \in Entries(c) :
        /\ c.kinds[i] \in Kinds /\ c.slots[i] \in Nat
        /\ c.kinds[i] = KIND_FRAME => c.slots[i] \in 1 .. Len(c.frames)
        /\ c.kinds[i] = KIND_VIEW => c.slots[i] \in 1 .. Len(c.views)
  BY KindsAre
<1> HIDE DEF spot, top
<1>7. Packed(d)
  <2>1. \A i, j \in Entries(d) : d.keys[i] = d.keys[j] => i = j
    BY <1>5 DEF Packed
  <2>2. \A i \in Entries(d) :
          d.slots[i] <= IF d.kinds[i] = KIND_FRAME THEN Len(d.frames)
                                                   ELSE Len(d.views)
    <3>1. TAKE i \in Entries(d)
    <3>2. CASE i = spot
      BY <1>1, <1>3, <1>4, <1>5, <3>2 DEF top
    <3>3. CASE i \in Entries(c)
      <4>1. d.kinds[i] = c.kinds[i] /\ d.slots[i] = c.slots[i] /\ c.kinds[i] \in Kinds
        BY <1>5, <1>6, <3>3
      <4>2. CASE c.kinds[i] = KIND_FRAME
        BY <1>1, <1>2, <1>3, <1>4, <1>6, <3>3, <4>1, <4>2 DEF top
      <4>3. CASE c.kinds[i] = KIND_VIEW
        BY <1>1, <1>2, <1>3, <1>4, <1>6, <3>3, <4>1, <4>3 DEF top
      <4>4. QED
        BY <4>1, <4>2, <4>3 DEF Kinds
    <3>4. QED
      BY <1>5, <3>2, <3>3
  <2>3. \A p \in 1 .. Len(d.frames) :
          \E i \in Entries(d) : d.kinds[i] = KIND_FRAME /\ d.slots[i] = p
    <3>1. TAKE p \in 1 .. Len(d.frames)
    <3>2. CASE p = top
      BY <1>5, <3>2
    <3>3. CASE p # top
      <4>1. p \in 1 .. Len(c.frames)
        BY <1>1, <1>4, <3>1, <3>3 DEF top
      <4>2. PICK i \in Entries(c) : c.kinds[i] = KIND_FRAME /\ c.slots[i] = p
        BY <4>1 DEF Packed
      <4>3. QED
        BY <1>5, <4>2
    <3>4. QED
      BY <3>2, <3>3
  <2>4. \A p \in 1 .. Len(d.views) :
          \E i \in Entries(d) : d.kinds[i] = KIND_VIEW /\ d.slots[i] = p
    BY SMTT(30), <1>2, <1>5 DEF Packed
  <2>5. \A i, j \in Entries(d) :
          d.kinds[i] = d.kinds[j] /\ d.slots[i] = d.slots[j] => i = j
    <3>1. \A i \in Entries(c) : c.kinds[i] = KIND_FRAME => c.slots[i] # top
      BY <1>1, <1>6 DEF top
    <3>2. QED
      BY SMTT(30), <1>5, <3>1 DEF Packed
  <2>6. QED
    BY <1>4, <1>5, <2>1, <2>2, <2>3, <2>4, <2>5 DEF Packed
<1>8. EntryAt(d, spot) = FrameEntry(f, <<>>)
  BY <1>4, <1>5 DEF EntryAt, FrameEntry, frame_at, uniques_at
<1>9. \A i \in Entries(c) : EntryAt(d, i) = EntryAt(c, i)
  BY ZenonT(30), SMTT(30), <1>2, <1>3, <1>4, <1>5, <1>6
     DEF EntryAt, frame_at, uniques_at, view_at, Kinds
<1>10. Held(d) = Plus(Held(c), n, FrameEntry(f, <<>>))
  BY <1>5, <1>7, <1>8, <1>9, AgreesButFor
<1>11. QED
  BY <1>7, <1>10

LEMMA EnterView ==
  ASSUME NEW T, NEW c \in Catalogs(T), Packed(c), NEW n \in T.names, NEW v \in T.views,
         \A i \in Entries(c) : c.keys[i] # n,
         NEW d \in Catalogs(T), ViewEntered(c, d, n, v)
  PROVE  /\ Packed(d)
         /\ Held(d) = Plus(Held(c), n, ViewEntry(v))
<1> DEFINE spot == Len(c.keys) + 1
           top == Len(c.views) + 1
<1>1. /\ c.keys \in Seq(T.names) /\ c.kinds \in Seq(Kinds)
      /\ c.slots \in Seq(Nat \ {0}) /\ c.frames \in Seq(T.frames)
      /\ c.uniques \in Seq(KeyLists(T)) /\ c.views \in Seq(T.views)
      /\ c.generation \in Nat /\ Len(c.frames) \in Nat /\ Len(c.views) \in Nat
      /\ Len(c.uniques) = Len(c.frames)
  BY DEF Catalogs, Packed
<1>2. /\ EnteredIn(c, d, n, KIND_VIEW, top)
      /\ d.views = Append(c.views, v)
      /\ d.frames = c.frames /\ d.uniques = c.uniques
      /\ d.generation = c.generation + 1
  BY DEF ViewEntered
<1>3. KIND_VIEW \in Kinds /\ KIND_FRAME # KIND_VIEW /\ top \in Nat \ {0}
  BY <1>1 DEF Kinds, KIND_FRAME, KIND_VIEW
<1>4. /\ Len(d.views) = top /\ d.views[top] = v
      /\ \A p \in 1 .. Len(c.views) : d.views[p] = c.views[p]
  BY <1>1, <1>2
<1>5. /\ \A i : i \in Entries(d) <=> i \in Entries(c) \/ i = spot
      /\ Entries(c) = 1 .. Len(c.keys) /\ Len(c.keys) \in Nat
      /\ Len(d.kinds) = Len(d.keys) /\ Len(d.slots) = Len(d.keys)
      /\ \A i \in Entries(c) : /\ d.keys[i] = c.keys[i]
                               /\ d.kinds[i] = c.kinds[i]
                               /\ d.slots[i] = c.slots[i]
      /\ d.keys[spot] = n /\ d.kinds[spot] = KIND_VIEW /\ d.slots[spot] = top
  BY <1>2, <1>3, EnteredEntries
<1>6. \A i \in Entries(c) :
        /\ c.kinds[i] \in Kinds /\ c.slots[i] \in Nat
        /\ c.kinds[i] = KIND_FRAME => c.slots[i] \in 1 .. Len(c.frames)
        /\ c.kinds[i] = KIND_VIEW => c.slots[i] \in 1 .. Len(c.views)
  BY KindsAre
<1> HIDE DEF spot, top
<1>7. Packed(d)
  <2>1. \A i, j \in Entries(d) : d.keys[i] = d.keys[j] => i = j
    BY <1>5 DEF Packed
  <2>2. \A i \in Entries(d) :
          d.slots[i] <= IF d.kinds[i] = KIND_FRAME THEN Len(d.frames)
                                                   ELSE Len(d.views)
    <3>1. TAKE i \in Entries(d)
    <3>2. CASE i = spot
      BY <1>1, <1>3, <1>4, <1>5, <3>2 DEF top
    <3>3. CASE i \in Entries(c)
      <4>1. d.kinds[i] = c.kinds[i] /\ d.slots[i] = c.slots[i] /\ c.kinds[i] \in Kinds
        BY <1>5, <1>6, <3>3
      <4>2. CASE c.kinds[i] = KIND_FRAME
        BY <1>1, <1>2, <1>3, <1>4, <1>6, <3>3, <4>1, <4>2 DEF top
      <4>3. CASE c.kinds[i] = KIND_VIEW
        BY <1>1, <1>2, <1>3, <1>4, <1>6, <3>3, <4>1, <4>3 DEF top
      <4>4. QED
        BY <4>1, <4>2, <4>3 DEF Kinds
    <3>4. QED
      BY <1>5, <3>2, <3>3
  <2>3. \A p \in 1 .. Len(d.views) :
          \E i \in Entries(d) : d.kinds[i] = KIND_VIEW /\ d.slots[i] = p
    <3>1. TAKE p \in 1 .. Len(d.views)
    <3>2. CASE p = top
      BY <1>5, <3>2
    <3>3. CASE p # top
      <4>1. p \in 1 .. Len(c.views)
        BY <1>1, <1>4, <3>1, <3>3 DEF top
      <4>2. PICK i \in Entries(c) : c.kinds[i] = KIND_VIEW /\ c.slots[i] = p
        BY <4>1 DEF Packed
      <4>3. QED
        BY <1>5, <4>2
    <3>4. QED
      BY <3>2, <3>3
  <2>4. \A p \in 1 .. Len(d.frames) :
          \E i \in Entries(d) : d.kinds[i] = KIND_FRAME /\ d.slots[i] = p
    BY <1>2, <1>5 DEF Packed
  <2>5. \A i, j \in Entries(d) :
          d.kinds[i] = d.kinds[j] /\ d.slots[i] = d.slots[j] => i = j
    <3>1. \A i \in Entries(c) : c.kinds[i] = KIND_VIEW => c.slots[i] # top
      BY <1>1, <1>6 DEF top
    <3>2. QED
      BY SMTT(30), <1>5, <3>1 DEF Packed
  <2>6. QED
    BY <1>1, <1>2, <1>5, <2>1, <2>2, <2>3, <2>4, <2>5 DEF Packed
<1>8. EntryAt(d, spot) = ViewEntry(v)
  BY <1>3, <1>4, <1>5 DEF EntryAt, ViewEntry, view_at
<1>9. \A i \in Entries(c) : EntryAt(d, i) = EntryAt(c, i)
  BY SMTT(30), <1>2, <1>3, <1>4, <1>5, <1>6
     DEF EntryAt, frame_at, uniques_at, view_at, Kinds
<1>10. Held(d) = Plus(Held(c), n, ViewEntry(v))
  BY <1>5, <1>7, <1>8, <1>9, AgreesButFor
<1>11. QED
  BY <1>7, <1>10
-----------------------------------------------------------------------------
\* A payload replaced in its place.
LEMMA InPlace ==
  ASSUME NEW T, NEW c \in Catalogs(T), Packed(c), NEW d \in Catalogs(T),
         NEW spot \in Entries(c),
         d.keys = c.keys, d.kinds = c.kinds, d.slots = c.slots,
         Len(d.frames) = Len(c.frames), Len(d.uniques) = Len(c.uniques),
         Len(d.views) = Len(c.views),
         \A i \in Entries(c) : i # spot => EntryAt(d, i) = EntryAt(c, i)
  PROVE  /\ Packed(d)
         /\ Held(d) = Plus(Held(c), c.keys[spot], EntryAt(d, spot))
<1>1. Entries(d) = Entries(c)
  BY DEF Entries
<1>2. Packed(d)
  BY <1>1 DEF Packed
<1>3. Held(d) = Plus(Held(c), c.keys[spot], EntryAt(d, spot))
  BY <1>1, <1>2, AgreesButFor
<1>4. QED
  BY <1>2, <1>3

\* d is c with the frame of an entry replaced by f, under the keys u.
FrameReplaced(c, d, spot, f, unique) ==
  /\ d.keys = c.keys /\ d.kinds = c.kinds /\ d.slots = c.slots
  /\ d.frames = [c.frames EXCEPT ![c.slots[spot]] = f]
  /\ d.uniques = [c.uniques EXCEPT ![c.slots[spot]] = unique]
  /\ d.views = c.views /\ d.generation \in Nat
  /\ d = [keys |-> d.keys, kinds |-> d.kinds, slots |-> d.slots,
          frames |-> d.frames, uniques |-> d.uniques, views |-> d.views,
          generation |-> d.generation]

LEMMA FrameInPlace ==
  ASSUME NEW T, NEW c \in Catalogs(T), Packed(c), NEW d,
         NEW spot \in Entries(c), c.kinds[spot] = KIND_FRAME,
         NEW f \in T.frames, NEW unique \in KeyLists(T),
         FrameReplaced(c, d, spot, f, unique)
  PROVE  /\ d \in Catalogs(T) /\ Packed(d)
         /\ Held(d) = Plus(Held(c), c.keys[spot], FrameEntry(f, unique))
<1> DEFINE slot == c.slots[spot]
<1>1. slot \in 1 .. Len(c.frames) /\ slot \in 1 .. Len(c.uniques)
  BY KindsAre
<1>2. /\ c.frames \in Seq(T.frames) /\ c.uniques \in Seq(KeyLists(T))
  BY CatalogFields
<1>3. /\ d.frames \in Seq(T.frames) /\ Len(d.frames) = Len(c.frames)
      /\ d.frames[slot] = f
      /\ \A p \in 1 .. Len(c.frames) : p # slot => d.frames[p] = c.frames[p]
  <2>1. d.frames = [c.frames EXCEPT ![slot] = f]
    BY DEF FrameReplaced
  <2>2. QED
    BY <1>1, <1>2, <2>1, Replaced
<1>4. /\ d.uniques \in Seq(KeyLists(T)) /\ Len(d.uniques) = Len(c.uniques)
      /\ d.uniques[slot] = unique
      /\ \A p \in 1 .. Len(c.uniques) : p # slot => d.uniques[p] = c.uniques[p]
  <2>1. d.uniques = [c.uniques EXCEPT ![slot] = unique]
    BY DEF FrameReplaced
  <2>2. QED
    BY <1>1, <1>2, <2>1, Replaced
<1>5. d \in Catalogs(T)
  BY <1>3, <1>4, CatalogFields, FieldsMakeACatalog DEF FrameReplaced
<1>6. ASSUME NEW i \in Entries(c), i # spot
      PROVE  EntryAt(d, i) = EntryAt(c, i)
  <2>1. CASE c.kinds[i] = KIND_FRAME
    <3>1. /\ c.slots[i] # slot
          /\ c.slots[i] \in 1 .. Len(c.frames) /\ c.slots[i] \in 1 .. Len(c.uniques)
      BY <1>6, <2>1, KindsAre DEF Packed
    <3>2. d.frames[c.slots[i]] = c.frames[c.slots[i]]
          /\ d.uniques[c.slots[i]] = c.uniques[c.slots[i]]
      BY <1>3, <1>4, <3>1
    <3>3. QED
      BY <2>1, <3>2 DEF EntryAt, frame_at, uniques_at, FrameReplaced
  <2>2. CASE c.kinds[i] # KIND_FRAME
    BY <2>2 DEF EntryAt, view_at, FrameReplaced
  <2>3. QED
    BY <2>1, <2>2
<1>7. EntryAt(d, spot) = FrameEntry(f, unique)
  BY <1>3, <1>4 DEF EntryAt, FrameEntry, frame_at, uniques_at, FrameReplaced
<1>8. QED
  BY <1>3, <1>4, <1>5, <1>6, <1>7, InPlace DEF FrameReplaced

LEMMA ViewInPlace ==
  ASSUME NEW T, NEW c \in Catalogs(T), Packed(c), NEW d,
         NEW spot \in Entries(c), c.kinds[spot] = KIND_VIEW, NEW v \in T.views,
         d.keys = c.keys, d.kinds = c.kinds, d.slots = c.slots,
         d.frames = c.frames, d.uniques = c.uniques,
         d.views = [c.views EXCEPT ![c.slots[spot]] = v], d.generation \in Nat,
         d = [keys |-> d.keys, kinds |-> d.kinds, slots |-> d.slots,
              frames |-> d.frames, uniques |-> d.uniques, views |-> d.views,
              generation |-> d.generation]
  PROVE  /\ d \in Catalogs(T) /\ Packed(d)
         /\ Held(d) = Plus(Held(c), c.keys[spot], ViewEntry(v))
<1> DEFINE slot == c.slots[spot]
<1>1. slot \in 1 .. Len(c.views) /\ KIND_FRAME # KIND_VIEW
  BY KindsAre
<1>2. c.views \in Seq(T.views)
  BY CatalogFields
<1>3. /\ d.views \in Seq(T.views) /\ Len(d.views) = Len(c.views)
      /\ d.views[slot] = v
      /\ \A p \in 1 .. Len(c.views) : p # slot => d.views[p] = c.views[p]
  BY <1>1, <1>2
<1>4. d \in Catalogs(T)
  BY <1>3, CatalogFields, FieldsMakeACatalog
<1>5. ASSUME NEW i \in Entries(c), i # spot
      PROVE  EntryAt(d, i) = EntryAt(c, i)
  <2>1. CASE c.kinds[i] = KIND_VIEW
    <3>1. c.slots[i] # slot /\ c.slots[i] \in 1 .. Len(c.views)
      BY <1>5, <2>1, KindsAre DEF Packed
    <3>2. d.views[c.slots[i]] = c.views[c.slots[i]]
      BY <1>3, <3>1
    <3>3. QED
      BY <1>1, <2>1, <3>2 DEF EntryAt, view_at
  <2>2. CASE c.kinds[i] = KIND_FRAME
    BY <2>2 DEF EntryAt, frame_at, uniques_at
  <2>3. QED
    BY <2>1, <2>2, KindsAre DEF Kinds
<1>6. EntryAt(d, spot) = ViewEntry(v)
  BY <1>1, <1>3 DEF EntryAt, ViewEntry, view_at
<1>7. QED
  BY <1>3, <1>4, <1>5, <1>6, InPlace

\* What IsKind says of a name.
LEMMA KindMeans ==
  ASSUME NEW T, NEW c \in Catalogs(T), Packed(c), NEW n, NEW kind, IsKind(c, n, kind)
  PROVE  /\ find(c, n) \in Entries(c) /\ c.keys[find(c, n)] = n
         /\ c.kinds[find(c, n)] = kind
         /\ n \in DOMAIN Held(c) /\ Held(c)[n] = EntryAt(c, find(c, n))
<1>1. find(c, n) # NOT_FOUND /\ c.kinds[find(c, n)] = kind
  BY DEF IsKind
<1>2. find(c, n) \in Entries(c) /\ c.keys[find(c, n)] = n
  BY <1>1, FoundIs
<1>3. QED
  BY <1>1, <1>2, HeldIs
-----------------------------------------------------------------------------
LEMMA RegisterIs ==
  ASSUME NEW T, NEW c \in Catalogs(T), Packed(c), NEW n \in T.names, NEW f \in T.frames
  PROVE  /\ register(c, n, f) \in Catalogs(T) /\ Packed(register(c, n, f))
         /\ Held(register(c, n, f)) = Plus(Held(c), n, FrameEntry(f, <<>>))
         /\ register(c, n, f).generation \in c.generation + 1 .. c.generation + 2
<1> DEFINE d == register(c, n, f)
           spot == find(c, n)
           r == drop(c, n)
<1>1. c.generation \in Nat
  BY CatalogFields
<1>2. CASE IsKind(c, n, KIND_FRAME)
  <2>1. spot \in Entries(c) /\ c.keys[spot] = n /\ c.kinds[spot] = KIND_FRAME
    BY <1>2, KindMeans
  <2>2. d = [c EXCEPT !.frames[c.slots[spot]] = f, !.uniques[c.slots[spot]] = <<>>,
                      !.generation = @ + 1]
    BY <1>2 DEF register
  <2> HIDE DEF d, spot
  <2>3. /\ d.keys = c.keys /\ d.kinds = c.kinds /\ d.slots = c.slots
        /\ d.frames = [c.frames EXCEPT ![c.slots[spot]] = f]
        /\ d.uniques = [c.uniques EXCEPT ![c.slots[spot]] = <<>>]
        /\ d.views = c.views /\ d.generation = c.generation + 1
    BY <2>2 DEF Catalogs
  <2>4. d = [keys |-> d.keys, kinds |-> d.kinds, slots |-> d.slots,
           frames |-> d.frames, uniques |-> d.uniques, views |-> d.views,
           generation |-> d.generation]
    BY <2>2 DEF Catalogs
  <2>5. <<>> \in KeyLists(T) /\ d.generation \in Nat
    BY <1>1, <2>3 DEF KeyLists
  <2>6. /\ d \in Catalogs(T) /\ Packed(d)
        /\ Held(d) = Plus(Held(c), c.keys[spot], FrameEntry(f, <<>>))
    <3>1. FrameReplaced(c, d, spot, f, <<>>)
      BY <2>3, <2>4, <2>5 DEF FrameReplaced
    <3>2. \A unique \in KeyLists(T) : FrameReplaced(c, d, spot, f, unique) =>
            /\ d \in Catalogs(T) /\ Packed(d)
            /\ Held(d) = Plus(Held(c), c.keys[spot], FrameEntry(f, unique))
      <4>1. SUFFICES ASSUME NEW unique \in KeyLists(T), FrameReplaced(c, d, spot, f, unique)
                     PROVE  /\ d \in Catalogs(T) /\ Packed(d)
                            /\ Held(d) = Plus(Held(c), c.keys[spot], FrameEntry(f, unique))
        OBVIOUS
      <4>2. QED
        BY <2>1, <4>1, FrameInPlace
    <3>3. QED
      BY <2>5, <3>1, <3>2
  <2>7. QED
    BY <1>1, <2>1, <2>3, <2>6 DEF d
<1>3. CASE ~IsKind(c, n, KIND_FRAME)
  <2>1. /\ r \in Catalogs(T) /\ Packed(r) /\ \A i \in Entries(r) : r.keys[i] # n
        /\ Held(r) = Minus(Held(c), n)
        /\ r.generation \in {c.generation, c.generation + 1}
    BY <1>1, DropIsMinus
  <2>2. d = WithFrame(r, n, f)
    BY <1>3 DEF register, WithFrame
  <2> HIDE DEF d, r
  <2>3. d \in Catalogs(T) /\ FrameEntered(r, d, n, f)
    BY <2>1, <2>2, WithFrameIs
  <2>4. Packed(d) /\ Held(d) = Plus(Held(r), n, FrameEntry(f, <<>>))
    BY <2>1, <2>3, EnterFrame
  <2>5. Held(d) = Plus(Held(c), n, FrameEntry(f, <<>>))
    BY <2>1, <2>4 DEF Plus, Minus
  <2>6. d.generation \in c.generation + 1 .. c.generation + 2
    BY <1>1, <2>1, <2>3 DEF FrameEntered
  <2>7. QED
    BY <2>3, <2>4, <2>5, <2>6 DEF d
<1>4. QED
  BY <1>2, <1>3

LEMMA DefineIs ==
  ASSUME NEW T, NEW c \in Catalogs(T), Packed(c), NEW n \in T.names, NEW v \in T.views
  PROVE  /\ define(c, n, v) \in Catalogs(T) /\ Packed(define(c, n, v))
         /\ Held(define(c, n, v)) = Plus(Held(c), n, ViewEntry(v))
         /\ define(c, n, v).generation \in c.generation + 1 .. c.generation + 2
<1> DEFINE d == define(c, n, v)
           spot == find(c, n)
           r == drop(c, n)
<1>1. c.generation \in Nat
  BY CatalogFields
<1>2. CASE IsKind(c, n, KIND_VIEW)
  <2>1. spot \in Entries(c) /\ c.keys[spot] = n /\ c.kinds[spot] = KIND_VIEW
    BY <1>2, KindMeans
  <2>2. d = [c EXCEPT !.views[c.slots[spot]] = v, !.generation = @ + 1]
    BY <1>2 DEF define
  <2> HIDE DEF d, spot
  <2>3. /\ d.keys = c.keys /\ d.kinds = c.kinds /\ d.slots = c.slots
        /\ d.frames = c.frames /\ d.uniques = c.uniques
        /\ d.views = [c.views EXCEPT ![c.slots[spot]] = v]
        /\ d.generation = c.generation + 1
    BY <2>2 DEF Catalogs
  <2>4. d = [keys |-> d.keys, kinds |-> d.kinds, slots |-> d.slots,
           frames |-> d.frames, uniques |-> d.uniques, views |-> d.views,
           generation |-> d.generation]
    BY <2>2 DEF Catalogs
  <2>5. d.generation \in Nat
    BY <1>1, <2>3
  <2>6. /\ d \in Catalogs(T) /\ Packed(d)
        /\ Held(d) = Plus(Held(c), c.keys[spot], ViewEntry(v))
    BY <2>1, <2>3, <2>4, <2>5, ViewInPlace
  <2>7. QED
    BY <1>1, <2>1, <2>3, <2>6 DEF d
<1>3. CASE ~IsKind(c, n, KIND_VIEW)
  <2>1. /\ r \in Catalogs(T) /\ Packed(r) /\ \A i \in Entries(r) : r.keys[i] # n
        /\ Held(r) = Minus(Held(c), n)
        /\ r.generation \in {c.generation, c.generation + 1}
    BY <1>1, DropIsMinus
  <2>2. d = WithView(r, n, v)
    BY <1>3 DEF define, WithView
  <2> HIDE DEF d, r
  <2>3. d \in Catalogs(T) /\ ViewEntered(r, d, n, v)
    BY <2>1, <2>2, WithViewIs
  <2>4. Packed(d) /\ Held(d) = Plus(Held(r), n, ViewEntry(v))
    BY <2>1, <2>3, EnterView
  <2>5. Held(d) = Plus(Held(c), n, ViewEntry(v))
    BY <2>1, <2>4 DEF Plus, Minus
  <2>6. d.generation \in c.generation + 1 .. c.generation + 2
    BY <1>1, <2>1, <2>3 DEF ViewEntered
  <2>7. QED
    BY <2>3, <2>4, <2>5, <2>6 DEF d
<1>4. QED
  BY <1>2, <1>3

LEMMA RefillIs ==
  ASSUME NEW T, NEW c \in Catalogs(T), Packed(c), NEW n, NEW f \in T.frames,
         IsKind(c, n, KIND_FRAME)
  PROVE  LET d == refill(c, find(c, n), f) IN
         /\ d \in Catalogs(T) /\ Packed(d)
         /\ n \in DOMAIN Held(c) /\ Held(c)[n].kind = KIND_FRAME
         /\ Held(d) = Plus(Held(c), n, FrameEntry(f, Held(c)[n].keys))
         /\ d.generation \in c.generation + 1 .. c.generation + 2
<1> DEFINE spot == find(c, n)
           d == refill(c, spot, f)
           unique == c.uniques[c.slots[spot]]
<1>1. /\ spot \in Entries(c) /\ c.keys[spot] = n /\ c.kinds[spot] = KIND_FRAME
      /\ n \in DOMAIN Held(c) /\ Held(c)[n] = EntryAt(c, spot)
  BY KindMeans
<1>2. d = [c EXCEPT !.frames[c.slots[spot]] = f, !.generation = @ + 1]
  BY DEF refill
<1>3. Held(c)[n].kind = KIND_FRAME /\ Held(c)[n].keys = unique
  BY <1>1 DEF EntryAt, uniques_at
<1> HIDE DEF d, spot
<1>4. c.slots[spot] \in 1 .. Len(c.uniques)
  BY <1>1, KindsAre
<1>5. c.uniques \in Seq(KeyLists(T)) /\ c.generation \in Nat
  BY CatalogFields
<1>6. unique \in KeyLists(T) /\ c.uniques = [c.uniques EXCEPT ![c.slots[spot]] = unique]
  BY <1>4, <1>5
<1>7. /\ d.keys = c.keys /\ d.kinds = c.kinds /\ d.slots = c.slots
      /\ d.frames = [c.frames EXCEPT ![c.slots[spot]] = f]
      /\ d.uniques = c.uniques /\ d.views = c.views
      /\ d.generation = c.generation + 1
  BY <1>2 DEF Catalogs
<1>8. d = [keys |-> d.keys, kinds |-> d.kinds, slots |-> d.slots,
           frames |-> d.frames, uniques |-> d.uniques, views |-> d.views,
           generation |-> d.generation]
  BY <1>2 DEF Catalogs
<1> HIDE DEF unique
<1>9. /\ d \in Catalogs(T) /\ Packed(d)
      /\ Held(d) = Plus(Held(c), c.keys[spot], FrameEntry(f, unique))
  <2>1. d.uniques = [c.uniques EXCEPT ![c.slots[spot]] = unique] /\ d.generation \in Nat
    BY <1>5, <1>6, <1>7
  <2>2. FrameReplaced(c, d, spot, f, unique)
    BY <1>7, <1>8, <2>1 DEF FrameReplaced
  <2>3. unique \in KeyLists(T) /\ spot \in Entries(c) /\ c.kinds[spot] = KIND_FRAME
    BY <1>1, <1>6
  <2>4. QED
    BY <2>2, <2>3, FrameInPlace
<1>10. d.generation \in c.generation + 1 .. c.generation + 2
  BY <1>5, <1>7
<1>11. QED
  BY <1>1, <1>3, <1>9, <1>10 DEF d, spot

LEMMA ConstrainIs ==
  ASSUME NEW T, NEW c \in Catalogs(T), Packed(c), NEW n, NEW unique \in T.keys,
         IsKind(c, n, KIND_FRAME)
  PROVE  LET d == constrain(c, find(c, n), unique) IN
         /\ d \in Catalogs(T) /\ Packed(d)
         /\ n \in DOMAIN Held(c) /\ Held(c)[n].kind = KIND_FRAME
         /\ Held(d) = Plus(Held(c), n, FrameEntry(Held(c)[n].frame, unique))
         /\ d.generation = c.generation
<1> DEFINE spot == find(c, n)
           d == constrain(c, spot, unique)
           f == c.frames[c.slots[spot]]
<1>1. /\ spot \in Entries(c) /\ c.keys[spot] = n /\ c.kinds[spot] = KIND_FRAME
      /\ n \in DOMAIN Held(c) /\ Held(c)[n] = EntryAt(c, spot)
  BY KindMeans
<1>2. d = [c EXCEPT !.uniques[c.slots[spot]] = unique]
  BY DEF constrain
<1>3. Held(c)[n].kind = KIND_FRAME /\ Held(c)[n].frame = f
  BY <1>1 DEF EntryAt, frame_at
<1> HIDE DEF d, spot
<1>4. c.slots[spot] \in 1 .. Len(c.frames)
  BY <1>1, KindsAre
<1>5. c.frames \in Seq(T.frames) /\ c.generation \in Nat
  BY CatalogFields
<1>6. f \in T.frames /\ c.frames = [c.frames EXCEPT ![c.slots[spot]] = f]
  BY <1>4, <1>5
<1>7. /\ d.keys = c.keys /\ d.kinds = c.kinds /\ d.slots = c.slots
      /\ d.uniques = [c.uniques EXCEPT ![c.slots[spot]] = unique]
      /\ d.frames = c.frames /\ d.views = c.views
      /\ d.generation = c.generation
  BY <1>2 DEF Catalogs
<1>8. d = [keys |-> d.keys, kinds |-> d.kinds, slots |-> d.slots,
           frames |-> d.frames, uniques |-> d.uniques, views |-> d.views,
           generation |-> d.generation]
  BY <1>2 DEF Catalogs
<1> HIDE DEF f
<1>9. /\ d \in Catalogs(T) /\ Packed(d)
      /\ Held(d) = Plus(Held(c), c.keys[spot], FrameEntry(f, unique))
  <2>1. /\ d.frames = [c.frames EXCEPT ![c.slots[spot]] = f] /\ d.generation \in Nat
        /\ unique \in KeyLists(T)
    BY <1>5, <1>6, <1>7 DEF KeyLists
  <2>2. FrameReplaced(c, d, spot, f, unique)
    BY <1>7, <1>8, <2>1 DEF FrameReplaced
  <2>3. QED
    BY <1>1, <1>6, <2>1, <2>2, FrameInPlace
<1>10. QED
  BY <1>1, <1>3, <1>7, <1>9 DEF d, spot

-----------------------------------------------------------------------------
(* The session.                                                            *)

Types == [names |-> Names, frames |-> Tables, keys |-> Seq(KeyKinds),
          views |-> Selects]

Good(c) == c \in Catalogs(Types) /\ Packed(c)

LEMMA TypesAre ==
  /\ Types.names = Names /\ Types.frames = Tables
  /\ Types.keys = Seq(KeyKinds) /\ Types.views = Selects
  /\ KeyLists(Types) = Seq(KeyKinds)
<1>1. <<>> \in Seq(KeyKinds)
  OBVIOUS
<1>2. QED
  BY <1>1 DEF Types, KeyLists
-----------------------------------------------------------------------------
(* Induction over the naturals, for a set in the place of a predicate. *)
LEMMA NatSets ==
  ASSUME NEW S, 0 \in S, \A k \in Nat : k \in S => k + 1 \in S
  PROVE  \A k \in Nat : k \in S
<1> DEFINE T == {k \in Nat : k \notin S}
<1>1. SUFFICES ASSUME T # {} PROVE FALSE
  OBVIOUS
<1>2. PICK m \in T : \A k \in T : ~ (k < m)
  <2> DEFINE R == {ss \in Nat \X Nat : ss[1] < ss[2]}
  <2>1. IsWellFoundedOn(R, Nat)
    BY NatLessThanWellFounded DEF OpToRel
  <2>2. \A x, y \in Nat : x < y => <<x, y>> \in R
    OBVIOUS
  <2> HIDE DEF R
  <2>3. \E x \in T : \A y \in T : ~ (<<y, x>> \in R)
    BY <1>1, <2>1, WFMin DEF R
  <2>4. QED
    BY <2>2, <2>3
<1>3. m # 0 /\ m - 1 \in Nat /\ m - 1 \notin S
  BY <1>2
<1>4. QED
  BY <1>2, <1>3

\* A set of naturals has a least element.
LEMMA LeastIs ==
  ASSUME NEW S \in SUBSET Nat, S # {}
  PROVE  Min(S) \in S /\ \A k \in S : Min(S) <= k
<1>1. PICK m \in S : \A k \in S : ~ (k < m)
  <2> DEFINE R == {ss \in Nat \X Nat : ss[1] < ss[2]}
  <2>1. IsWellFoundedOn(R, Nat)
    BY NatLessThanWellFounded DEF OpToRel
  <2>2. \A x, y \in Nat : x < y => <<x, y>> \in R
    OBVIOUS
  <2> HIDE DEF R
  <2>3. \E x \in S : \A y \in S : ~ (<<y, x>> \in R)
    BY <2>1, WFMin DEF R
  <2>4. QED
    BY <2>2, <2>3
<1>2. \A k \in S : m <= k
  BY <1>1
<1>3. QED
  BY <1>1, <1>2 DEF Min
-----------------------------------------------------------------------------
(* Catalogs. *)

\* A catalog with the lists of another stands for the same map.
LEMMA SameLists ==
  ASSUME NEW T, NEW c \in Catalogs(T), Packed(c), NEW d \in Catalogs(T),
         d.keys = c.keys, d.kinds = c.kinds, d.slots = c.slots,
         d.frames = c.frames, d.uniques = c.uniques, d.views = c.views
  PROVE  Packed(d) /\ Held(d) = Held(c)
<1>1. Entries(d) = Entries(c) /\ Packed(d)
  BY DEF Entries, Packed
<1>2. \A i \in Entries(c) : EntryAt(d, i) = EntryAt(c, i)
  BY DEF EntryAt, frame_at, uniques_at, view_at
<1>3. /\ \A m : m \in DOMAIN Held(c) <=> \E i \in Entries(c) : c.keys[i] = m
      /\ \A i \in Entries(c) : Held(c)[c.keys[i]] = EntryAt(c, i)
  BY HeldIs
<1>4. /\ \A m : m \in DOMAIN Held(d) <=> \E i \in Entries(d) : d.keys[i] = m
      /\ \A i \in Entries(d) : Held(d)[d.keys[i]] = EntryAt(d, i)
  BY <1>1, HeldIs
<1>5. DOMAIN Held(d) = DOMAIN Held(c)
  BY <1>1, <1>3, <1>4
<1>6. \A m \in DOMAIN Held(c) : Held(d)[m] = Held(c)[m]
  BY <1>1, <1>2, <1>3, <1>4
<1>7. /\ Held(c) = [m \in DOMAIN Held(c) |-> Held(c)[m]]
      /\ Held(d) = [m \in DOMAIN Held(d) |-> Held(d)[m]]
  BY DEF Held
<1>8. QED
  BY <1>1, <1>5, <1>6, <1>7

LEMMA MovedIs ==
  ASSUME NEW c, Good(c)
  PROVE  /\ Good(moved(c)) /\ Held(moved(c)) = Held(c)
         /\ moved(c).generation = c.generation + 1
<1> DEFINE d == moved(c)
<1>1. c \in Catalogs(Types) /\ Packed(c) /\ c.generation \in Nat
  BY CatalogFields DEF Good
<1>2. /\ d.generation = c.generation + 1
      /\ d.keys = c.keys /\ d.kinds = c.kinds /\ d.slots = c.slots
      /\ d.frames = c.frames /\ d.uniques = c.uniques /\ d.views = c.views
      /\ d = [keys |-> d.keys, kinds |-> d.kinds, slots |-> d.slots,
              frames |-> d.frames, uniques |-> d.uniques, views |-> d.views,
              generation |-> d.generation]
  <2>1. d = [c EXCEPT !.generation = @ + 1]
    BY DEF moved
  <2> HIDE DEF d
  <2>2. /\ d.generation = c.generation + 1
        /\ d.keys = c.keys /\ d.kinds = c.kinds /\ d.slots = c.slots
        /\ d.frames = c.frames /\ d.uniques = c.uniques /\ d.views = c.views
    BY <1>1, <2>1 DEF Catalogs
  <2>3. d = [keys |-> d.keys, kinds |-> d.kinds, slots |-> d.slots,
             frames |-> d.frames, uniques |-> d.uniques, views |-> d.views,
             generation |-> d.generation]
    BY <1>1, <2>1 DEF Catalogs
  <2>4. QED
    BY <2>2, <2>3
<1> HIDE DEF d
<1>3. d \in Catalogs(Types)
  <2>1. /\ d.keys \in Seq(Types.names) /\ d.kinds \in Seq(Kinds)
        /\ d.slots \in Seq(Nat \ {0}) /\ d.frames \in Seq(Types.frames)
        /\ d.uniques \in Seq(KeyLists(Types)) /\ d.views \in Seq(Types.views)
        /\ d.generation \in Nat
    BY <1>1, <1>2, CatalogFields
  <2>2. QED
    BY <1>2, <2>1, FieldsMakeACatalog
<1>4. Packed(d) /\ Held(d) = Held(c)
  BY <1>1, <1>2, <1>3, SameLists
<1>5. QED
  BY <1>2, <1>3, <1>4 DEF Good, d

\* What is put back is what was saved, under a generation of its own.
LEMMA RestoreIs ==
  ASSUME NEW c, Good(c), NEW d, Good(d)
  PROVE  /\ Good(restore(d, Save(c))) /\ Held(restore(d, Save(c))) = Held(c)
         /\ restore(d, Save(c)).generation = d.generation + 1
<1> DEFINE e == restore(d, Save(c))
<1>1. /\ c \in Catalogs(Types) /\ Packed(c) /\ d \in Catalogs(Types)
      /\ d.generation \in Nat
  BY CatalogFields DEF Good
<1>2. /\ Save(c).keys = c.keys /\ Save(c).kinds = c.kinds
      /\ Save(c).slots = c.slots /\ Save(c).frames = c.frames
      /\ Save(c).uniques = c.uniques /\ Save(c).views = c.views
  <2>1. DOMAIN c = {"keys", "kinds", "slots", "frames", "uniques", "views",
                    "generation"}
    BY <1>1 DEF Catalogs
  <2>2. QED
    BY <2>1 DEF Save
<1>3. e = [keys |-> c.keys, kinds |-> c.kinds, slots |-> c.slots,
           frames |-> c.frames, uniques |-> c.uniques, views |-> c.views,
           generation |-> d.generation + 1]
  <2>1. DOMAIN d = {"keys", "kinds", "slots", "frames", "uniques", "views",
                    "generation"}
    BY <1>1 DEF Catalogs
  <2>2. QED
    BY <1>2, <2>1 DEF restore
<1>4. e \in Catalogs(Types)
  BY <1>1, <1>3 DEF Catalogs
<1> HIDE DEF e
<1>5. Packed(e) /\ Held(e) = Held(c)
  BY <1>1, <1>3, <1>4, SameLists
<1>6. QED
  BY <1>3, <1>4, <1>5 DEF Good, e
\* The map h says nothing of a name that g does not.
Within(h, g) == \A n \in DOMAIN h : n \in DOMAIN g /\ h[n] = g[n]

LEMMA DropKeeps ==
  ASSUME NEW c, Good(c), NEW n
  PROVE  /\ Good(drop(c, n)) /\ Within(Held(drop(c, n)), Held(c))
         /\ drop(c, n) = c \/ drop(c, n).generation = c.generation + 1
<1>1. c \in Catalogs(Types) /\ Packed(c)
  BY DEF Good
<1>2. /\ drop(c, n) \in Catalogs(Types) /\ Packed(drop(c, n))
      /\ Held(drop(c, n)) = Minus(Held(c), n)
      /\ drop(c, n) = c \/ drop(c, n).generation = c.generation + 1
  BY <1>1, DropIsMinus
<1>3. Within(Minus(Held(c), n), Held(c))
  BY DEF Within, Minus
<1>4. QED
  BY <1>2, <1>3 DEF Good

\* The catalogs of a DROP are one a name, each made by dropping one more.
LEMMA WithoutIs ==
  ASSUME NEW c, NEW names, Len(names) \in Nat
  PROVE  Without(c, names) =
           [k \in 0 .. Len(names) |->
              IF k = 0 THEN c ELSE drop(Without(c, names)[k - 1], names[k])]
<1> DEFINE F(g, m) ==
             [k \in 0 .. m |-> IF k = 0 THEN c ELSE drop(g[k - 1], names[k])]
           S == {m \in Nat : \E g : g = F(g, m)}
<1>1. 0 \in S
  <2>1. [k \in {0} |-> c] = F([k \in {0} |-> c], 0)
    OBVIOUS
  <2>2. QED
    BY <2>1
<1>2. ASSUME NEW m \in Nat, m \in S
      PROVE  m + 1 \in S
  <2>1. PICK g : g = F(g, m)
    BY <1>2
  <2>2. DEFINE h == [k \in 0 .. m + 1 |->
                       IF k = m + 1 THEN drop(g[m], names[m + 1]) ELSE g[k]]
  <2>3. \A k \in 0 .. m : h[k] = g[k] /\ k # m + 1
    OBVIOUS
  <2>4. \A k \in 0 .. m : g[k] = IF k = 0 THEN c ELSE drop(g[k - 1], names[k])
    BY <2>1
  <2>5. ASSUME NEW k \in 0 .. m + 1
        PROVE  h[k] = IF k = 0 THEN c ELSE drop(h[k - 1], names[k])
    <3>1. CASE k = m + 1
      <4>1. h[k] = drop(g[m], names[m + 1]) /\ k # 0 /\ k - 1 = m
        BY <3>1
      <4>2. h[m] = g[m]
        BY <2>3
      <4>3. QED
        BY <3>1, <4>1, <4>2
    <3>2. CASE k # m + 1
      <4>1. k \in 0 .. m /\ h[k] = g[k]
        BY <2>3, <3>2
      <4>2. k = 0 \/ h[k - 1] = g[k - 1]
        BY <2>3, <4>1
      <4>3. QED
        BY <2>4, <4>1, <4>2
    <3>3. QED
      BY <3>1, <3>2
  <2>6. h = [k \in 0 .. m + 1 |-> h[k]]
    OBVIOUS
  <2> HIDE DEF h
  <2>7. h = F(h, m + 1)
    BY <2>5, <2>6
  <2>8. QED
    BY <2>7
<1>3. \E g : g = F(g, Len(names))
  <2> HIDE DEF S
  <2>1. \A m \in Nat : m \in S
    BY <1>1, <1>2, NatSets
  <2>2. QED
    BY <2>1 DEF S
<1>4. Without(c, names) = CHOOSE g : g = F(g, Len(names))
  BY DEF Without
<1>5. QED
  BY <1>3, <1>4

\* None of them holds what the first does not, and the generation of each
\* that is another catalog is another.
LEMMA WithoutKeeps ==
  ASSUME NEW c, Good(c), NEW names, Len(names) \in Nat,
         NEW m \in 0 .. Len(names)
  PROVE  LET d == Without(c, names)[m] IN
         /\ Good(d) /\ Within(Held(d), Held(c))
         /\ d = c \/ d.generation > c.generation
<1> DEFINE after == Without(c, names)
           Fit(d) == /\ Good(d) /\ Within(Held(d), Held(c))
                     /\ d = c \/ d.generation > c.generation
           S == {k \in Nat : k <= Len(names) => Fit(after[k])}
<1>1. \A k \in 0 .. Len(names) :
        after[k] = IF k = 0 THEN c ELSE drop(after[k - 1], names[k])
  BY WithoutIs
<1> HIDE DEF after
<1>2. 0 \in S
  BY <1>1 DEF Within
<1>3. ASSUME NEW k \in Nat, k \in S
      PROVE  k + 1 \in S
  <2>1. SUFFICES ASSUME k + 1 <= Len(names) PROVE Fit(after[k + 1])
    OBVIOUS
  <2>2. Fit(after[k])
    BY <1>3, <2>1
  <2>3. k + 1 \in 0 .. Len(names) /\ k + 1 # 0 /\ (k + 1) - 1 = k
    BY <2>1
  <2>4. after[k + 1] = drop(after[k], names[k + 1])
    BY <1>1, <2>3
  <2>5. c.generation \in Nat /\ after[k].generation \in Nat
    BY <2>2, CatalogFields DEF Good
  <2>6. /\ Good(after[k + 1]) /\ Within(Held(after[k + 1]), Held(after[k]))
        /\ after[k + 1] = after[k] \/ after[k + 1].generation = after[k].generation + 1
    BY <2>2, <2>4, DropKeeps
  <2>7. Within(Held(after[k + 1]), Held(c))
    BY <2>2, <2>6 DEF Within
  <2>8. after[k + 1] = c \/ after[k + 1].generation > c.generation
    BY <2>2, <2>5, <2>6
  <2>9. QED
    BY <2>6, <2>7, <2>8
<1>4. \A k \in Nat : k \in S
  <2> HIDE DEF S
  <2>1. QED
    BY <1>2, <1>3, NatSets
<1>5. m \in Nat /\ m <= Len(names)
  OBVIOUS
<1>6. QED
  BY <1>4, <1>5 DEF after
-----------------------------------------------------------------------------
(* Keys. *)

\* The rows of one table hold to its keys.
RowsFit(rows, keys) ==
  keys # <<>> =>
    /\ \A i, j \in DOMAIN rows : i # j /\ rows[i] = rows[j] => rows[i] = Null
    /\ ~Nullable(keys) => Null \notin ToSet(rows)

Kept(h) ==
  \A n \in DOMAIN h :
    h[n].kind = KIND_FRAME => RowsFit(h[n].frame.rows, h[n].keys)

LEMMA KeptWithin ==
  ASSUME NEW h, NEW g, Within(h, g), Kept(g)
  PROVE  Kept(h)
BY DEF Kept, Within

LEMMA KeptPlusFrame ==
  ASSUME NEW h, Kept(h), NEW n, NEW f, NEW keys, RowsFit(f.rows, keys)
  PROVE  Kept(Plus(h, n, FrameEntry(f, keys)))
BY DEF Kept, Plus, FrameEntry

LEMMA KeptPlusView ==
  ASSUME NEW h, Kept(h), NEW n, NEW v
  PROVE  Kept(Plus(h, n, ViewEntry(v)))
<1>1. KIND_VIEW # KIND_FRAME
  BY DEF KIND_VIEW, KIND_FRAME
<1>2. QED
  BY <1>1 DEF Kept, Plus, ViewEntry

\* An insert that passed the check leaves a table that holds to its keys.
LEMMA CheckedRowsFit ==
  ASSUME Empty \notin Values, NEW old \in Seq(Values), NEW new \in Seq(Values),
         NEW keys, RowsFit(old, keys), check_keys(old, new, keys),
         ~Nullable(keys) => Null \notin ToSet(new)
  PROVE  RowsFit(old \o new, keys)
<1>1. SUFFICES ASSUME keys # <<>>
               PROVE  /\ \A i, j \in DOMAIN (old \o new) :
                           i # j /\ (old \o new)[i] = (old \o new)[j]
                             => (old \o new)[i] = Null
                      /\ ~Nullable(keys) => Null \notin ToSet(old \o new)
  BY DEF RowsFit
<1> DEFINE all == old \o new
<1>2. /\ DOMAIN all = 1 .. Len(old) + Len(new)
      /\ Len(old) \in Nat /\ Len(new) \in Nat
      /\ DOMAIN old = 1 .. Len(old) /\ DOMAIN new = 1 .. Len(new)
      /\ \A i \in 1 .. Len(old) : all[i] = old[i]
      /\ \A i \in 1 .. Len(old) + Len(new) :
           ~ (i <= Len(old)) =>
             i - Len(old) \in 1 .. Len(new) /\ all[i] = new[i - Len(old)]
  OBVIOUS
<1>3. /\ \A i \in 1 .. Len(old) : old[i] \in Values
      /\ \A i \in 1 .. Len(new) : new[i] \in Values
  OBVIOUS
<1> HIDE DEF all
<1>4. \A x \in Values : x # Null => KeyText(x) = x /\ KeyText(x) # Empty
  BY DEF KeyText
<1>5. ASSUME NEW i \in 1 .. Len(new), new[i] # Null
      PROVE  /\ \A j \in 1 .. Len(old) : old[j] # new[i]
             /\ \A j \in 1 .. i - 1 : new[j] # new[i]
  <2>1. KeyText(new[i]) = new[i] /\ KeyText(new[i]) # Empty
    BY <1>3, <1>4, <1>5
  <2>2. /\ \A j \in DOMAIN old : KeyText(old[j]) # KeyText(new[i])
        /\ \A j \in 1 .. i - 1 : KeyText(new[j]) # KeyText(new[i])
    BY <1>1, <1>2, <2>1 DEF check_keys
  <2>3. QED
    BY <1>2, <2>2
<1>6. ASSUME NEW i \in DOMAIN all, NEW j \in DOMAIN all, i < j,
             all[i] = all[j], all[j] # Null
      PROVE  FALSE
  <2>1. i \in 1 .. Len(old) + Len(new) /\ j \in 1 .. Len(old) + Len(new)
    BY <1>2
  <2>2. CASE j <= Len(old)
    <3>1. i \in DOMAIN old /\ j \in DOMAIN old /\ old[i] = old[j] /\ old[j] # Null
      BY <1>2, <1>6, <2>1, <2>2
    <3>2. QED
      BY <1>1, <1>6, <3>1 DEF RowsFit
  <2>3. CASE ~ (j <= Len(old)) /\ i <= Len(old)
    BY <1>2, <1>5, <1>6, <2>1, <2>3
  <2>4. CASE ~ (j <= Len(old)) /\ ~ (i <= Len(old))
    <3>1. i - Len(old) \in 1 .. (j - Len(old)) - 1
      BY <1>2, <1>6, <2>1, <2>4
    <3>2. QED
      BY <1>2, <1>5, <1>6, <2>1, <2>4, <3>1
  <2>5. QED
    BY <2>2, <2>3, <2>4
<1>7. \A i, j \in DOMAIN all : i # j /\ all[i] = all[j] => all[i] = Null
  BY <1>2, <1>6
<1>8. ~Nullable(keys) => Null \notin ToSet(all)
  <2>1. ~Nullable(keys) => \A i \in DOMAIN old : old[i] # Null
    BY <1>1 DEF RowsFit, ToSet
  <2>2. ~Nullable(keys) => \A i \in DOMAIN new : new[i] # Null
    BY DEF ToSet
  <2>3. QED
    BY <1>2, <2>1, <2>2 DEF ToSet
<1>9. QED
  BY <1>7, <1>8 DEF all-----------------------------------------------------------------------------
(* Names and queries. *)

\* A name is of the kind of what it holds.
LEMMA HoldsAFrame ==
  ASSUME NEW c, Good(c), NEW n
  PROVE  /\ IsKind(c, n, KIND_FRAME) <=>
              n \in DOMAIN Held(c) /\ Held(c)[n].kind = KIND_FRAME
         /\ IsKind(c, n, KIND_FRAME) =>
              /\ frame_at(c, find(c, n)) \in Tables
              /\ uniques_at(c, find(c, n)) \in Seq(KeyKinds)
              /\ Held(c)[n] = FrameEntry(frame_at(c, find(c, n)),
                                         uniques_at(c, find(c, n)))
<1> DEFINE place == find(c, n)
<1>1. c \in Catalogs(Types) /\ Packed(c)
  BY DEF Good
<1>2. ASSUME IsKind(c, n, KIND_FRAME)
      PROVE  /\ n \in DOMAIN Held(c) /\ Held(c)[n].kind = KIND_FRAME
             /\ frame_at(c, place) \in Tables /\ uniques_at(c, place) \in Seq(KeyKinds)
             /\ Held(c)[n] = FrameEntry(frame_at(c, place), uniques_at(c, place))
  <2>1. /\ place \in Entries(c) /\ c.kinds[place] = KIND_FRAME
        /\ n \in DOMAIN Held(c) /\ Held(c)[n] = EntryAt(c, place)
    BY <1>1, <1>2, KindMeans
  <2>2. c.slots[place] \in 1 .. Len(c.frames) /\ c.slots[place] \in 1 .. Len(c.uniques)
    BY <1>1, <2>1, KindsAre
  <2>3. c.frames \in Seq(Tables) /\ c.uniques \in Seq(Seq(KeyKinds))
    BY <1>1, CatalogFields, TypesAre
  <2>4. Held(c)[n] = FrameEntry(frame_at(c, place), uniques_at(c, place))
    BY <2>1 DEF EntryAt, FrameEntry
  <2>5. frame_at(c, place) \in Tables /\ uniques_at(c, place) \in Seq(KeyKinds)
    BY <2>2, <2>3 DEF frame_at, uniques_at
  <2>6. Held(c)[n].kind = KIND_FRAME
    BY <2>4 DEF FrameEntry
  <2>7. QED
    BY <2>1, <2>4, <2>5, <2>6
<1>3. ASSUME n \in DOMAIN Held(c), Held(c)[n].kind = KIND_FRAME
      PROVE  IsKind(c, n, KIND_FRAME)
  <2>1. PICK i \in Entries(c) : c.keys[i] = n
    BY <1>1, <1>3, HeldIs
  <2>2. Held(c)[n] = EntryAt(c, i)
    BY <1>1, <2>1, HeldIs
  <2>3. c.kinds[i] = KIND_FRAME
    BY <1>3, <2>2 DEF EntryAt, KIND_FRAME, KIND_VIEW
  <2>4. place = i /\ place # NOT_FOUND
    <3>1. place \in Entries(c) /\ place # NOT_FOUND /\ c.keys[place] = n
      BY <1>1, <2>1, FoundIs
    <3>2. QED
      BY <1>1, <2>1, <3>1 DEF Packed
  <2>5. QED
    BY <2>3, <2>4 DEF IsKind
<1>4. QED
  BY <1>2, <1>3

Errors == {Fine, Before, Unbound, Running}

LEMMA OutcomesAre ==
  ASSUME NEW c, NEW query
  PROVE  /\ Outcome(c, query) \in Errors /\ CheckOutcome(c, query) \in Errors
         /\ Outcome(c, query) = Fine => Resolves(c, query)
BY DEF Outcome, CheckOutcome, Errors, Fine, Before, Unbound, Running

\* What a query that runs answers is a frame.
LEMMA AnswersAreTables ==
  ASSUME NEW c, Good(c), NEW query \in Selects, Outcome(c, query) = Fine
  PROVE  Rows(c, query) \in Seq(Values) /\ Answer(c, query) \in Tables
<1>1. IsKind(c, Scanned(c, query.from), KIND_FRAME)
  BY OutcomesAre DEF Resolves
<1>2. frame_at(c, find(c, Scanned(c, query.from))) \in Tables
  BY <1>1, HoldsAFrame
<1>3. Rows(c, query) \in Seq(Values)
  BY <1>2 DEF Rows, Tables
<1>4. query.column \in Columns
  BY DEF Selects
<1>5. QED
  BY <1>3, <1>4 DEF Answer, Tables

\* The parts of a statement, by its operation.
LEMMA TextsAre ==
  ASSUME NEW s \in Texts
  PROVE  /\ s.op = "create" => /\ s.name \in Names /\ s.schema \in Columns
                               /\ s.keys \in Seq(KeyKinds)
         /\ s.op \in {"create_as", "create_view"} =>
              s.name \in Names /\ s.query \in Selects
         /\ s.op = "insert" => s.name \in Names /\ s.rows \in Seq(Values)
         /\ s.op = "insert_from" => s.name \in Names /\ s.query \in Selects
         /\ s.op = "drop" => s.names \in Seq(Names)
         /\ s.op = "begin" => s.read_only \in BOOLEAN
         /\ s.op = "pragma" => s.value \in BOOLEAN
         /\ s.op = "select" => s.query \in Selects
         /\ s.op = "prepare" => s.name \in Prepared /\ s.body \in Bodies
         /\ s.op \in {"execute", "deallocate"} => s.name \in Prepared
         /\ s.op \in {"create", "create_as", "create_view", "insert",
                      "insert_from", "drop", "begin", "commit", "rollback",
                      "reset", "set", "pragma", "select", "prepare",
                      "execute", "deallocate"}
BY SMTT(30) DEF Texts
-----------------------------------------------------------------------------
(* The statements. *)

Settings == [order : {"asc", "desc"}, optimizer : BOOLEAN]

\* A plan is kept under a generation the catalog has been at, and one kept
\* under the generation it is at is the plan it calls for.
PlansHold ==
  \A k \in DOMAIN plans :
    /\ k[2] \in Nat /\ k[2] <= catalog.generation
    /\ k[2] = catalog.generation =>
         Plans(catalog, k[1]) /\ plans[k] = PlanOf(catalog, setting, k[1])

\* What is saved are the lists of a catalog that held what the ghost says.
SavedHolds == \E c : Good(c) /\ saved = <<Save(c)>> /\ began = Held(c)

SInv ==
  /\ Good(catalog)
  /\ setting \in Settings
  /\ saved = <<>> \/ SavedHolds
  /\ aborted \in BOOLEAN /\ read_only \in BOOLEAN
  /\ aborted \/ read_only => in_transaction
  /\ prepared \in [Prepared -> Bodies \cup {Nothing}]
  /\ error \in Errors
  /\ PlansHold

\* Tables hold to their keys, those a rollback would bring back too.
KInv == Kept(Held(catalog)) /\ (in_transaction => Kept(began))

\* What every statement does to the catalog: it leaves a catalog, one that
\* is the same or of a later generation, whose tables hold to their keys.
Lands ==
  /\ Good(catalog')
  /\ \/ catalog' = catalog /\ setting' = setting
     \/ catalog'.generation > catalog.generation
  /\ setting' \in Settings
  /\ prepared' \in [Prepared -> Bodies \cup {Nothing}]
  /\ error' \in Errors
  /\ Empty \notin Values /\ Kept(Held(catalog)) => Kept(Held(catalog'))

LEMMA Raised ==
  ASSUME SInv, NEW how \in Errors, Raise(how)
  PROVE  Lands
BY DEF SInv, Raise, Lands

LEMMA Made ==
  ASSUME SInv, NEW d, Makes(d), Good(d),
         d = catalog \/ d.generation > catalog.generation,
         Empty \notin Values /\ Kept(Held(catalog)) => Kept(Held(d))
  PROVE  Lands
BY DEF SInv, Makes, Lands, Errors

LEMMA SetLands ==
  ASSUME SInv, NEW st \in Settings, SetsTo(st)
  PROVE  Lands /\ Held(catalog') = Held(catalog)
<1>1. Good(catalog) /\ catalog.generation \in Nat
  BY CatalogFields DEF SInv, Good
<1>2. /\ Good(catalog') /\ Held(catalog') = Held(catalog)
      /\ catalog'.generation = catalog.generation + 1
  BY <1>1, MovedIs DEF SetsTo
<1>3. QED
  BY <1>1, <1>2 DEF SInv, SetsTo, Lands, Errors

LEMMA RegisterGives ==
  ASSUME NEW c, Good(c), NEW n \in Names, NEW f \in Tables
  PROVE  LET d == register(c, n, f) IN
         /\ Good(d) /\ d.generation > c.generation
         /\ IsKind(d, n, KIND_FRAME)
         /\ Held(d) = Plus(Held(c), n, FrameEntry(f, <<>>))
         /\ Kept(Held(c)) => Kept(Held(d))
<1> DEFINE d == register(c, n, f)
<1>1. /\ c \in Catalogs(Types) /\ Packed(c) /\ c.generation \in Nat
      /\ n \in Types.names /\ f \in Types.frames
  BY CatalogFields, TypesAre DEF Good
<1>2. /\ d \in Catalogs(Types) /\ Packed(d)
      /\ Held(d) = Plus(Held(c), n, FrameEntry(f, <<>>))
      /\ d.generation \in c.generation + 1 .. c.generation + 2
  BY <1>1, RegisterIs
<1> HIDE DEF d
<1>3. Good(d) /\ d.generation > c.generation
  BY <1>1, <1>2 DEF Good
<1>4. n \in DOMAIN Held(d) /\ Held(d)[n].kind = KIND_FRAME
  BY <1>2 DEF Plus, FrameEntry
<1>5. RowsFit(f.rows, <<>>)
  BY DEF RowsFit
<1>6. Kept(Held(c)) => Kept(Held(d))
  BY <1>2, <1>5, KeptPlusFrame
<1>7. QED
  BY <1>2, <1>3, <1>4, <1>6, HoldsAFrame DEF d

LEMMA TakenLands ==
  ASSUME SInv, NEW s, NEW kind, Taken(s, kind)
  PROVE  Lands
<1>1. Good(catalog) /\ Before \in Errors
  BY DEF SInv, Errors
<1>2. QED
  BY <1>1, Made, Raised DEF Taken

LEMMA CreateTableLands ==
  ASSUME SInv, NEW s \in Texts, s.op = "create", CreateTable(s)
  PROVE  Lands
<1> DEFINE f == [schema |-> s.schema, rows |-> <<>>]
           made == register(catalog, s.name, f)
           d == constrain(made, find(made, s.name), s.keys)
<1>1. Good(catalog) /\ catalog.generation \in Nat
  BY CatalogFields DEF SInv, Good
<1>2. s.name \in Names /\ f \in Tables /\ s.keys \in Seq(KeyKinds)
  BY TextsAre DEF Tables
<1>3. /\ Good(made) /\ made.generation > catalog.generation
      /\ IsKind(made, s.name, KIND_FRAME)
      /\ Held(made) = Plus(Held(catalog), s.name, FrameEntry(f, <<>>))
      /\ Kept(Held(catalog)) => Kept(Held(made))
  BY <1>1, <1>2, RegisterGives
<1>4. Held(made)[s.name].frame = f
  BY <1>3 DEF Plus, FrameEntry
<1>5. RowsFit(f.rows, s.keys)
  <2>1. f.rows = <<>> /\ DOMAIN <<>> = {} /\ ToSet(<<>>) = {}
    BY DEF ToSet
  <2>2. QED
    BY <2>1 DEF RowsFit
<1> HIDE DEF f, made
<1>6. /\ Good(d) /\ d.generation = made.generation
      /\ Held(d) = Plus(Held(made), s.name, FrameEntry(f, s.keys))
  <2>1. made \in Catalogs(Types) /\ Packed(made) /\ s.keys \in Types.keys
    BY <1>2, <1>3, TypesAre DEF Good
  <2>2. /\ d \in Catalogs(Types) /\ Packed(d)
        /\ Held(d) = Plus(Held(made), s.name,
                          FrameEntry(Held(made)[s.name].frame, s.keys))
        /\ d.generation = made.generation
    BY <1>3, <2>1, ConstrainIs
  <2>3. QED
    BY <1>4, <2>2 DEF Good
<1> HIDE DEF d
<1>7. Kept(Held(catalog)) => Kept(Held(d))
  BY <1>3, <1>5, <1>6, KeptPlusFrame
<1>8. d.generation > catalog.generation
  BY <1>3, <1>6
<1>9. CASE Taken(s, KIND_FRAME)
  BY <1>9, TakenLands
<1>10. CASE Makes(d)
  BY <1>6, <1>7, <1>8, <1>10, Made
<1>11. QED
  BY <1>9, <1>10 DEF CreateTable, d, made, f

LEMMA CreateTableAsLands ==
  ASSUME SInv, NEW s \in Texts, s.op = "create_as", CreateTableAs(s)
  PROVE  Lands
<1>1. Good(catalog) /\ s.name \in Names /\ s.query \in Selects
  BY TextsAre DEF SInv
<1>2. CASE Taken(s, KIND_FRAME)
  BY <1>2, TakenLands
<1>3. CASE Raise(Outcome(catalog, s.query))
  BY <1>3, OutcomesAre, Raised
<1>4. CASE /\ Outcome(catalog, s.query) = Fine
           /\ Makes(register(catalog, s.name, Answer(catalog, s.query)))
  <2>1. Answer(catalog, s.query) \in Tables
    BY <1>1, <1>4, AnswersAreTables
  <2>2. QED
    BY <1>1, <1>4, <2>1, RegisterGives, Made
<1>5. QED
  BY <1>2, <1>3, <1>4 DEF CreateTableAs

LEMMA CreateViewLands ==
  ASSUME SInv, NEW s \in Texts, s.op = "create_view", CreateView(s)
  PROVE  Lands
<1> DEFINE d == define(catalog, s.name, s.query)
<1>1. /\ catalog \in Catalogs(Types) /\ Packed(catalog)
      /\ catalog.generation \in Nat
  BY CatalogFields DEF SInv, Good
<1>2. s.name \in Types.names /\ s.query \in Types.views
  BY TextsAre, TypesAre
<1>3. /\ d \in Catalogs(Types) /\ Packed(d)
      /\ Held(d) = Plus(Held(catalog), s.name, ViewEntry(s.query))
      /\ d.generation \in catalog.generation + 1 .. catalog.generation + 2
  BY <1>1, <1>2, DefineIs
<1> HIDE DEF d
<1>4. Good(d) /\ d.generation > catalog.generation
  BY <1>1, <1>3 DEF Good
<1>5. Kept(Held(catalog)) => Kept(Held(d))
  BY <1>3, KeptPlusView
<1>6. CASE Taken(s, KIND_VIEW)
  BY <1>6, TakenLands
<1>7. CASE Raise(CheckOutcome(catalog, s.query))
  BY <1>7, OutcomesAre, Raised
<1>8. CASE Makes(d)
  BY <1>4, <1>5, <1>8, Made
<1>9. QED
  BY <1>6, <1>7, <1>8 DEF CreateView, d

LEMMA InsertLands ==
  ASSUME SInv, NEW s \in Texts, s.op \in {"insert", "insert_from"}, Insert(s)
  PROVE  Lands
<1> DEFINE c == catalog
           old == frame_at(c, at(s.name))
           keys == uniques_at(c, at(s.name))
           new == Given(s)
           f == [old EXCEPT !.rows = @ \o new]
           d == refill(c, at(s.name), f)
           Fits == /\ ~Nullable(keys) => Null \notin ToSet(new)
                   /\ check_keys(old.rows, new, keys)
<1>1. /\ Good(c) /\ c \in Catalogs(Types) /\ Packed(c) /\ c.generation \in Nat
  BY CatalogFields DEF SInv, Good
<1>2. CASE Raise(Before)
  BY <1>2, Raised DEF Errors
<1>3. CASE Raise(Running)
  BY <1>3, Raised DEF Errors
<1>4. CASE Raise(GivenOutcome(s))
  <2>1. GivenOutcome(s) \in Errors
    BY OutcomesAre DEF GivenOutcome, Errors
  <2>2. QED
    BY <1>4, <2>1, Raised
<1>5. CASE /\ IsKind(c, s.name, KIND_FRAME) /\ GivenOutcome(s) = Fine
           /\ Fits /\ Makes(d)
  <2>1. new \in Seq(Values)
    <3>1. CASE s.op = "insert"
      BY <3>1, TextsAre DEF Given
    <3>2. CASE s.op = "insert_from"
      <4>1. s.query \in Selects /\ Outcome(c, s.query) = Fine
        BY <1>5, <3>2, TextsAre DEF GivenOutcome
      <4>2. Rows(c, s.query) \in Seq(Values)
        BY <1>1, <4>1, AnswersAreTables
      <4>3. QED
        BY <3>2, <4>2 DEF Given
    <3>3. QED
      BY <3>1, <3>2
  <2>2. /\ old \in Tables /\ keys \in Seq(KeyKinds)
        /\ s.name \in DOMAIN Held(c) /\ Held(c)[s.name] = FrameEntry(old, keys)
    BY <1>1, <1>5, HoldsAFrame DEF at
  <2>3. old.rows \in Seq(Values)
    BY <2>2 DEF Tables
  <2>4. f \in Tables /\ f.rows = old.rows \o new
    <3>1. old.rows \o new \in Seq(Values)
      BY <2>1, <2>3, ConcatProperties
    <3> HIDE DEF old, new
    <3>2. QED
      BY <2>2, <3>1 DEF Tables
  <2>5. /\ d \in Catalogs(Types) /\ Packed(d)
        /\ Held(d) = Plus(Held(c), s.name, FrameEntry(f, Held(c)[s.name].keys))
        /\ d.generation \in c.generation + 1 .. c.generation + 2
    <3>1. f \in Types.frames /\ IsKind(c, s.name, KIND_FRAME)
      BY <1>5, <2>4, TypesAre
    <3> HIDE DEF f
    <3>2. QED
      BY <1>1, <3>1, RefillIs DEF at
  <2>6. Held(c)[s.name].keys = keys /\ Held(c)[s.name].frame = old
        /\ Held(c)[s.name].kind = KIND_FRAME
    BY <2>2 DEF FrameEntry
  <2> HIDE DEF f, d, old, keys, new
  <2>7. Good(d) /\ d.generation > c.generation
    BY <1>1, <2>5 DEF Good
  <2>8. Empty \notin Values /\ Kept(Held(c)) => Kept(Held(d))
    <3>1. SUFFICES ASSUME Empty \notin Values, Kept(Held(c)) PROVE Kept(Held(d))
      OBVIOUS
    <3>2. RowsFit(old.rows, keys)
      BY <2>2, <2>6, <3>1 DEF Kept
    <3>3. RowsFit(f.rows, keys)
      BY <1>5, <2>1, <2>3, <2>4, <3>1, <3>2, CheckedRowsFit
    <3>4. QED
      BY <2>5, <2>6, <3>1, <3>3, KeptPlusFrame
  <2>9. QED
    BY <1>5, <2>7, <2>8, Made
<1>6. QED
  BY <1>2, <1>3, <1>4, <1>5 DEF Insert

LEMMA DropLands ==
  ASSUME SInv, NEW s \in Texts, s.op = "drop", Drop(s)
  PROVE  Lands
<1> DEFINE after == Without(catalog, s.names)
           Stops == {k \in DOMAIN s.names :
                       IF find(after[k - 1], s.names[k]) = NOT_FOUND
                       THEN ~s.if_exists
                       ELSE ~IsKind(after[k - 1], s.names[k], s.kind)}
<1>1. Good(catalog) /\ Len(s.names) \in Nat /\ DOMAIN s.names = 1 .. Len(s.names)
  BY TextsAre DEF SInv
<1>2. ASSUME NEW m \in 0 .. Len(s.names)
      PROVE  /\ Good(after[m])
             /\ Kept(Held(catalog)) => Kept(Held(after[m]))
             /\ after[m] = catalog \/ after[m].generation > catalog.generation
  BY <1>1, WithoutKeeps, KeptWithin
<1>3. CASE Makes(after[Len(s.names)])
  <2>1. Len(s.names) \in 0 .. Len(s.names)
    BY <1>1
  <2> HIDE DEF after
  <2>2. QED
    BY <1>2, <1>3, <2>1, Made
<1>4. CASE /\ Stops # {} /\ catalog' = after[Min(Stops) - 1]
           /\ error' = Before /\ UNCHANGED <<setting, prepared>>
  <2>1. Stops \in SUBSET (1 .. Len(s.names))
    BY <1>1
  <2> HIDE DEF Stops, after
  <2>2. Min(Stops) \in Stops
    <3>1. Stops \in SUBSET Nat
      BY <2>1
    <3>2. QED
      BY <1>4, <3>1, LeastIs
  <2>3. Min(Stops) - 1 \in 0 .. Len(s.names)
    <3>1. Min(Stops) \in 1 .. Len(s.names)
      BY <2>1, <2>2
    <3>2. QED
      BY <1>1, <3>1
  <2>4. QED
    BY <1>2, <1>4, <2>3 DEF SInv, Lands, Errors
<1>5. QED
  BY <1>3, <1>4 DEF Drop

\* A setting is one of the session's, whatever SET, RESET or PRAGMA says.
LEMMA SettingLands ==
  ASSUME SInv, NEW s \in Texts, s.op \in {"set", "reset", "pragma"},
         Statement(s)
  PROVE  Lands /\ Held(catalog') = Held(catalog)
<1>1. setting \in Settings /\ Good(catalog) /\ catalog.generation \in Nat
  BY CatalogFields DEF SInv, Good
<1>2. Running \in Errors /\ Before \in Errors
  BY DEF Errors
<1>3. CASE s.op = "set"
  <2>1. Set(s)
    BY <1>3 DEF Statement, Writes
  <2>2. CASE s.value \in {"asc", "desc"} /\ SetsTo([setting EXCEPT !.order = s.value])
    <3>1. [setting EXCEPT !.order = s.value] \in Settings
      BY <1>1, <2>2 DEF Settings
    <3>2. QED
      BY <2>2, <3>1, SetLands
  <2>3. CASE Raise(Running)
    BY <1>2, <2>3, Raised DEF Raise
  <2>4. QED
    BY <2>1, <2>2, <2>3 DEF Set
<1>4. CASE s.op = "reset"
  <2>1. Reset(s)
    BY <1>4 DEF Statement, Writes
  <2>2. [setting EXCEPT !.order = Plain.order] \in Settings
    BY <1>1 DEF Settings, Plain
  <2>3. QED
    BY <2>1, <2>2, SetLands DEF Reset
<1>5. CASE s.op = "pragma"
  <2>1. Pragma(s)
    BY <1>5 DEF Statement, Writes
  <2>2. CASE s.known /\ SetsTo([setting EXCEPT !.optimizer = s.value])
    <3>1. [setting EXCEPT !.optimizer = s.value] \in Settings
      BY <1>1, <1>5, TextsAre DEF Settings
    <3>2. QED
      BY <2>2, <3>1, SetLands
  <2>3. CASE /\ catalog' = moved(catalog) /\ error' = Before
             /\ UNCHANGED <<setting, prepared>>
    <3>1. /\ Good(catalog') /\ Held(catalog') = Held(catalog)
          /\ catalog'.generation = catalog.generation + 1
      BY <1>1, <2>3, MovedIs
    <3>2. QED
      BY <1>1, <1>2, <2>3, <3>1 DEF SInv, Lands
  <2>4. QED
    BY <2>1, <2>2, <2>3 DEF Pragma
<1>6. QED
  BY <1>3, <1>4, <1>5

\* A query that is run, and the names of prepared statements.
LEMMA OtherLands ==
  ASSUME SInv, NEW s \in Texts, Statement(s),
         s.op \in {"select", "prepare", "deallocate", "execute"}
  PROVE  Lands /\ catalog' = catalog
<1>1. /\ Good(catalog) /\ setting \in Settings
      /\ prepared \in [Prepared -> Bodies \cup {Nothing}]
  BY DEF SInv
<1>2. CASE s.op = "select"
  <2>1. Raise(Outcome(catalog, s.query))
    BY <1>2 DEF Statement, Writes, Select
  <2>2. QED
    BY <2>1, OutcomesAre, Raised DEF Raise
<1>3. CASE s.op = "prepare"
  <2>1. Prepare(s) /\ s.body \in Bodies
    BY <1>3, TextsAre DEF Statement, Writes
  <2>2. QED
    BY <1>1, <2>1 DEF Prepare, Lands, Errors
<1>4. CASE s.op = "deallocate"
  <2>1. Deallocate(s)
    BY <1>4 DEF Statement, Writes
  <2>2. QED
    BY <1>1, <2>1 DEF Deallocate, Lands, Errors
<1>5. CASE s.op = "execute"
  <2>1. Raise(Before)
    BY <1>5 DEF Statement, Writes, Unprepared
  <2>2. QED
    BY <2>1, Raised DEF Raise, Errors
<1>6. QED
  BY <1>2, <1>3, <1>4, <1>5

LEMMA StatementLands ==
  ASSUME SInv, NEW s \in Texts, Statement(s), s.op \notin Transactions
  PROVE  Lands
<1>1. s.op \in Writes \/ s.op \in {"set", "reset", "pragma"}
        \/ s.op \in {"select", "prepare", "deallocate", "execute"}
  BY TextsAre DEF Writes, Transactions
<1>2. CASE s.op \in Writes /\ read_only
  <2>1. Raise(Running)
    BY <1>2 DEF Statement
  <2>2. QED
    BY <2>1, Raised DEF Errors
<1>3. CASE s.op \in Writes /\ ~read_only
  <2>1. /\ s.op = "create" => CreateTable(s)
        /\ s.op = "create_as" => CreateTableAs(s)
        /\ s.op = "create_view" => CreateView(s)
        /\ s.op \in {"insert", "insert_from"} => Insert(s)
        /\ s.op = "drop" => Drop(s)
    BY <1>3 DEF Statement
  <2>2. QED
    BY <1>3, <2>1, CreateTableLands, CreateTableAsLands, CreateViewLands,
       InsertLands, DropLands DEF Writes
<1>4. QED
  BY <1>1, <1>2, <1>3, SettingLands, OtherLands
-----------------------------------------------------------------------------
(* The steps of a session. *)

Grows == \/ catalog' = catalog /\ setting' = setting
         \/ catalog'.generation > catalog.generation

\* What a step keeps.
Keeps == /\ SInv' /\ Grows
         /\ Empty \notin Values /\ KInv => KInv'

\* A plan outlives no change: the generation it is kept under has passed.
LEMMA PlansStillHold ==
  ASSUME SInv, Grows, Good(catalog'), plans' = plans
  PROVE  PlansHold'
<1>1. catalog.generation \in Nat /\ catalog'.generation \in Nat /\ PlansHold
  BY CatalogFields DEF SInv, Good
<1>2. CASE catalog' = catalog /\ setting' = setting
  BY <1>1, <1>2 DEF PlansHold, Plans, Resolves, Binds, PlanOf
<1>3. CASE catalog'.generation > catalog.generation
  BY <1>1, <1>3 DEF PlansHold
<1>4. QED
  BY <1>2, <1>3 DEF Grows

LEMMA BodyIsAText ==
  ASSUME SInv, NEW s \in Texts
  PROVE  Body(s) \in Texts
<1>1. CASE s.op = "execute" /\ prepared[s.name] # Nothing
  <2>1. s.name \in Prepared /\ prepared[s.name] \in Bodies \cup {Nothing}
    BY <1>1, TextsAre DEF SInv
  <2>2. QED
    BY <1>1, <2>1, TextsAssumption DEF Body
<1>2. QED
  BY <1>1 DEF Body

LEMMA TransactionKeeps ==
  ASSUME SInv, NEW s \in Texts, s.op \in Transactions, Transaction(s),
         plans' = plans
  PROVE  Keeps
<1>1. /\ Good(catalog) /\ catalog.generation \in Nat
      /\ setting' = setting /\ prepared' = prepared
      /\ setting \in Settings /\ prepared \in [Prepared -> Bodies \cup {Nothing}]
      /\ aborted \in BOOLEAN /\ read_only \in BOOLEAN
  BY CatalogFields DEF SInv, Good, Transaction
<1>2. Running \in Errors /\ Fine \in Errors
  BY DEF Errors
<1>3. ASSUME catalog' = catalog, saved' = saved, read_only' = read_only,
             began' = began, error' \in Errors, aborted' \in BOOLEAN,
             aborted' => in_transaction
      PROVE  Keeps
  <2>1. Grows /\ PlansHold'
    BY <1>1, <1>3, PlansStillHold DEF Grows
  <2>2. saved' = <<>> \/ SavedHolds'
    BY <1>3 DEF SInv, SavedHolds
  <2>3. SInv'
    BY <1>1, <1>3, <2>1, <2>2 DEF SInv, in_transaction
  <2>4. KInv => KInv'
    BY <1>3 DEF KInv, in_transaction
  <2>5. QED
    BY <2>1, <2>3, <2>4 DEF Keeps
<1>4. ASSUME Ended, error' \in Errors, Good(catalog'), Grows,
             KInv => Kept(Held(catalog'))
      PROVE  Keeps
  <2>1. PlansHold'
    BY <1>4, PlansStillHold
  <2>2. saved' = <<>> /\ aborted' = FALSE /\ read_only' = FALSE
    BY <1>4 DEF Ended
  <2>3. SInv'
    BY <1>1, <1>4, <2>1, <2>2 DEF SInv, in_transaction
  <2>4. KInv => KInv'
    BY <1>4, <2>2 DEF KInv, in_transaction
  <2>5. QED
    BY <1>4, <2>3, <2>4 DEF Keeps
<1>5. CASE in_transaction /\ RollsBack
  <2>1. PICK c : Good(c) /\ saved = <<Save(c)>> /\ began = Held(c)
    BY <1>5 DEF SInv, SavedHolds, in_transaction
  <2>2. catalog' = restore(catalog, Save(c)) /\ Ended /\ error' = Fine
    BY <1>5, <2>1 DEF RollsBack
  <2>3. /\ Good(catalog') /\ Held(catalog') = Held(c)
        /\ catalog'.generation = catalog.generation + 1
    BY <1>1, <2>1, <2>2, RestoreIs
  <2>4. Grows
    BY <1>1, <2>3 DEF Grows
  <2>5. KInv => Kept(Held(catalog'))
    BY <1>5, <2>1, <2>3 DEF KInv
  <2>6. QED
    BY <1>2, <1>4, <2>2, <2>3, <2>4, <2>5
<1>6. CASE s.op = "begin"
  <2>1. Begin(s) /\ s.read_only \in BOOLEAN
    BY <1>6, TextsAre DEF Transaction
  <2>2. CASE /\ in_transaction /\ aborted' = TRUE /\ error' = Running
             /\ UNCHANGED <<saved, read_only, began>> /\ catalog' = catalog
    BY <1>2, <1>3, <2>2
  <2>3. CASE /\ ~in_transaction /\ saved' = <<Save(catalog)>>
             /\ aborted' = FALSE /\ read_only' = s.read_only
             /\ began' = Held(catalog) /\ error' = Fine /\ catalog' = catalog
    <3>1. Grows /\ PlansHold'
      BY <1>1, <2>3, PlansStillHold DEF Grows
    <3>2. SavedHolds' /\ saved' # <<>>
      BY <1>1, <2>3 DEF SavedHolds
    <3>3. SInv'
      BY <1>1, <1>2, <2>1, <2>3, <3>1, <3>2 DEF SInv, in_transaction
    <3>4. KInv => KInv'
      BY <2>3 DEF KInv
    <3>5. QED
      BY <3>1, <3>3, <3>4 DEF Keeps
  <2>4. QED
    BY <2>1, <2>2, <2>3 DEF Begin
<1>7. ASSUME ~in_transaction, error' = Running, UNCHANGED <<catalog, transaction>>
      PROVE  Keeps
  <2>1. ~aborted /\ ~read_only
    BY <1>7 DEF SInv
  <2>2. QED
    BY <1>1, <1>2, <1>3, <1>7, <2>1 DEF transaction
<1>8. CASE s.op = "commit"
  <2>1. Commit(s)
    BY <1>8 DEF Transaction
  <2>2. CASE in_transaction /\ Ended /\ error' = Fine /\ catalog' = catalog
    BY <1>1, <1>2, <1>4, <2>2 DEF Grows, KInv
  <2>3. QED
    BY <1>5, <1>7, <2>1, <2>2 DEF Commit
<1>9. CASE s.op = "rollback"
  <2>1. Rollback(s)
    BY <1>9 DEF Transaction
  <2>2. QED
    BY <1>5, <1>7, <2>1 DEF Rollback
<1>10. QED
  BY <1>6, <1>8, <1>9 DEF Transactions

LEMMA ExecuteKeeps ==
  ASSUME SInv, NEW s \in Texts, Execute(s)
  PROVE  Keeps
<1>1. Body(s) \in Texts
  BY BodyIsAText
<1>2. CASE /\ error' = Running
           /\ UNCHANGED <<catalog, setting, transaction, prepared, plans>>
  <2>1. /\ catalog' = catalog /\ setting' = setting /\ saved' = saved
        /\ aborted' = aborted /\ read_only' = read_only /\ began' = began
        /\ prepared' = prepared /\ plans' = plans
    BY <1>2 DEF transaction
  <2>2. Grows /\ PlansHold'
    BY <2>1, PlansStillHold DEF Grows, SInv
  <2>3. SInv'
    BY <1>2, <2>1, <2>2 DEF SInv, SavedHolds, in_transaction, Errors
  <2>4. KInv => KInv'
    BY <2>1 DEF KInv, in_transaction
  <2>5. QED
    BY <2>2, <2>3, <2>4 DEF Keeps
<1>3. CASE Body(s).op \in Transactions /\ Transaction(Body(s)) /\ plans' = plans
  BY <1>1, <1>3, TransactionKeeps
<1>4. CASE /\ Body(s).op \notin Transactions /\ Statement(Body(s))
           /\ aborted' = (in_transaction /\ Fails(s, error'))
           /\ UNCHANGED <<saved, read_only, began, plans>>
  <2>1. Lands
    BY <1>1, <1>4, StatementLands
  <2>2. Grows /\ PlansHold'
    BY <1>4, <2>1, PlansStillHold DEF Grows, Lands
  <2>3. aborted' \in BOOLEAN /\ (aborted' => in_transaction)
    BY <1>4
  <2>4. saved' = <<>> \/ SavedHolds'
    BY <1>4 DEF SInv, SavedHolds
  <2>5. SInv'
    BY <1>4, <2>1, <2>2, <2>3, <2>4 DEF SInv, Lands, in_transaction
  <2>6. Empty \notin Values /\ KInv => KInv'
    BY <1>4, <2>1 DEF KInv, Lands, in_transaction
  <2>7. QED
    BY <2>2, <2>5, <2>6 DEF Keeps
<1>5. QED
  BY <1>2, <1>3, <1>4 DEF Execute

LEMMA SelectIsAText ==
  ASSUME NEW query \in Selects
  PROVE  AsSelect(query) \in Texts /\ Body(AsSelect(query)) = AsSelect(query)
BY DEF AsSelect, Body, Texts

\* A query leaves the catalog as it is, and keeps a plan that is its own.
LEMMA RunsKeeps ==
  ASSUME SInv, NEW query \in Selects, NEW plan, Runs(plan, query),
         \/ plans' = plans
         \/ /\ Plans(catalog, query)
            /\ plans' = Keep(plans, KeyNow(query),
                             PlanOf(catalog, setting, query), Capacity)
  PROVE  Keeps
<1>1. /\ catalog' = catalog /\ setting' = setting /\ saved' = saved
      /\ aborted' = aborted /\ read_only' = read_only /\ began' = began
      /\ prepared' = prepared
  BY DEF Runs, transaction
<1>2. error' \in Errors
  BY DEF Runs, RunOutcome, Errors
<1>3. catalog.generation \in Nat /\ PlansHold /\ Grows
  BY <1>1, CatalogFields DEF SInv, Good, Grows
<1>4. PlansHold'
  <2>1. CASE plans' = plans
    BY <1>1, <1>3, <2>1, PlansStillHold DEF SInv
  <2>2. CASE /\ Plans(catalog, query)
             /\ plans' = Keep(plans, KeyNow(query),
                              PlanOf(catalog, setting, query), Capacity)
    <3>1. ASSUME NEW k \in DOMAIN plans'
          PROVE  /\ k[2] \in Nat /\ k[2] <= catalog.generation
                 /\ k[2] = catalog.generation =>
                      /\ Plans(catalog, k[1])
                      /\ plans'[k] = PlanOf(catalog, setting, k[1])
      <4>1. CASE k = KeyNow(query)
        <5>1. k[1] = query /\ k[2] = catalog.generation
          BY <4>1 DEF KeyNow, Key
        <5>2. plans'[k] = PlanOf(catalog, setting, query)
          BY <2>2, <3>1, <4>1 DEF Keep
        <5>3. QED
          BY <1>3, <2>2, <5>1, <5>2
      <4>2. CASE k # KeyNow(query)
        <5>1. k \in DOMAIN plans /\ plans'[k] = plans[k]
          BY <2>2, <3>1, <4>2 DEF Keep, NoPlans
        <5>2. QED
          BY <1>3, <5>1 DEF PlansHold
      <4>3. QED
        BY <4>1, <4>2
    <3>2. QED
      BY <1>1, <3>1 DEF PlansHold, Plans, Resolves, Binds, PlanOf
  <2>3. QED
    BY <2>1, <2>2
<1>5. SInv'
  BY <1>1, <1>2, <1>4 DEF SInv, SavedHolds, in_transaction
<1>6. KInv => KInv'
  BY <1>1 DEF KInv, in_transaction
<1>7. QED
  BY <1>3, <1>5, <1>6 DEF Keeps

LEMMA RegisterKeeps ==
  ASSUME SInv, NEW h \in Handed, Register(h)
  PROVE  Keeps
<1>1. Good(catalog) /\ h.name \in Names /\ h.frame \in Tables
  BY TextsAssumption DEF SInv
<1>2. /\ catalog' = register(catalog, h.name, h.frame) /\ error' = Fine
      /\ setting' = setting /\ saved' = saved
      /\ aborted' = aborted /\ read_only' = read_only /\ began' = began
      /\ prepared' = prepared /\ plans' = plans
  BY DEF Register, transaction
<1>3. /\ Good(catalog') /\ catalog'.generation > catalog.generation
      /\ Kept(Held(catalog)) => Kept(Held(catalog'))
  BY <1>1, <1>2, RegisterGives
<1>4. Grows /\ PlansHold'
  BY <1>2, <1>3, PlansStillHold DEF Grows
<1>5. SInv'
  BY <1>2, <1>3, <1>4 DEF SInv, SavedHolds, in_transaction, Errors
<1>6. KInv => KInv'
  BY <1>2, <1>3 DEF KInv, in_transaction
<1>7. QED
  BY <1>4, <1>5, <1>6 DEF Keeps

LEMMA NextKeeps ==
  ASSUME SInv, Next
  PROVE  Keeps
<1>1. ASSUME NEW s \in Statements, Execute(s)
      PROVE  Keeps
  BY <1>1, ExecuteKeeps, TextsAssumption
<1>2. ASSUME NEW query \in Queries,
             QueryInTransaction(query) \/ QueryHit(query) \/ QueryMiss(query)
      PROVE  Keeps
  <2>1. query \in Selects /\ AsSelect(query) \in Texts
    BY TextsAssumption, SelectIsAText
  <2>2. CASE Execute(AsSelect(query))
    BY <2>1, <2>2, ExecuteKeeps
  <2>3. CASE QueryHit(query)
    BY <2>1, <2>3, RunsKeeps DEF QueryHit
  <2>4. CASE /\ Plans(catalog, query)
             /\ plans' = Keep(plans, KeyNow(query),
                              PlanOf(catalog, setting, query), Capacity)
             /\ Runs(PlanOf(catalog, setting, query), query)
    BY <2>1, <2>4, RunsKeeps
  <2>5. QED
    BY <1>2, <2>2, <2>3, <2>4 DEF QueryInTransaction, QueryMiss
<1>3. QED
  BY <1>1, <1>2, RegisterKeeps DEF Next

LEMMA UnchangedKeeps ==
  ASSUME SInv, UNCHANGED vars
  PROVE  Keeps
<1>1. /\ catalog' = catalog /\ setting' = setting /\ saved' = saved
      /\ aborted' = aborted /\ read_only' = read_only /\ began' = began
      /\ prepared' = prepared /\ plans' = plans /\ error' = error
  BY DEF vars, transaction
<1>2. Grows /\ PlansHold'
  BY <1>1, PlansStillHold DEF Grows, SInv
<1>3. SInv'
  BY <1>1, <1>2 DEF SInv, SavedHolds, in_transaction
<1>4. KInv => KInv'
  BY <1>1 DEF KInv, in_transaction
<1>5. QED
  BY <1>2, <1>3, <1>4 DEF Keeps

LEMMA EmptyIsGood == Good(EmptyCatalog) /\ DOMAIN Held(EmptyCatalog) = {}
<1>1. EmptyCatalog \in Catalogs(Types)
  <2>1. /\ <<>> \in Seq(Types.names) /\ <<>> \in Seq(Kinds)
        /\ <<>> \in Seq(Nat \ {0}) /\ <<>> \in Seq(Types.frames)
        /\ <<>> \in Seq(KeyLists(Types)) /\ <<>> \in Seq(Types.views)
    OBVIOUS
  <2>2. QED
    BY <2>1, FieldsMakeACatalog DEF EmptyCatalog
<1>2. Packed(EmptyCatalog)
  BY DEF EmptyCatalog, Packed, Entries
<1>3. DOMAIN Held(EmptyCatalog) = {}
  BY DEF Held, EmptyCatalog, ToSet
<1>4. QED
  BY <1>1, <1>2, <1>3 DEF Good

LEMMA InitHolds ==
  ASSUME Init
  PROVE  SInv /\ KInv
<1>1. Good(EmptyCatalog) /\ DOMAIN Held(EmptyCatalog) = {}
  BY EmptyIsGood
<1>4. PlansHold
  BY DEF Init, NoPlans, PlansHold
<1>5. Plain \in Settings /\ Fine \in Errors
  BY DEF Plain, Settings, Errors
<1>6. SInv
  BY <1>1, <1>4, <1>5 DEF Init, SInv
<1>7. KInv
  BY <1>1 DEF Init, KInv, Kept, in_transaction
<1>8. QED
  BY <1>6, <1>7
-----------------------------------------------------------------------------
(* The theorems. *)

LEMMA AlwaysSInv == Spec => []SInv
<1>1. Init => SInv
  BY InitHolds
<1>2. SInv /\ [Next]_vars => SInv'
  BY NextKeeps, UnchangedKeeps DEF Keeps
<1>3. QED
  BY <1>1, <1>2, PTL DEF Spec

(***************************************************************************)
(* Every change to what planning reads, a rollback included, moves the     *)
(* generation on, and a kept plan that the next query would find is the    *)
(* plan it would be given afresh, for any statements and frames.           *)
(***************************************************************************)
THEOREM PlansFollow == Spec => PlansFollowChanges
<1>1. SInv => TypeOK
  <2>1. SUFFICES ASSUME SInv PROVE TypeOK
    OBVIOUS
  <2>2. WellPacked(catalog)
    BY <2>1, PackedIsWellPacked DEF SInv, Good
  <2>3. Len(saved) <= 1
    <3>1. CASE saved = <<>>
      BY <3>1
    <3>2. CASE \E c : saved = <<Save(c)>>
      <4>1. PICK c : saved = <<Save(c)>>
        BY <3>2
      <4>2. Len(<<Save(c)>>) = 1
        OBVIOUS
      <4>3. QED
        BY <4>1, <4>2
    <3>3. QED
      BY <2>1, <3>1, <3>2 DEF SInv, SavedHolds
  <2>4. QED
    BY <2>1, <2>2, <2>3 DEF SInv, TypeOK, Settings, Errors
<1>2. SInv => KeptPlansAreCurrent
  BY DEF SInv, PlansHold, KeptPlansAreCurrent, KeyNow, Key
<1>3. SInv /\ [Next]_vars =>
        [/\ catalog'.generation >= catalog.generation
         /\ Held(catalog') # Held(catalog) \/ setting' # setting =>
              catalog'.generation > catalog.generation]_vars
  <2>1. SUFFICES ASSUME SInv, Next
                 PROVE  /\ catalog'.generation >= catalog.generation
                        /\ Held(catalog') # Held(catalog) \/ setting' # setting =>
                             catalog'.generation > catalog.generation
    OBVIOUS
  <2>2. Keeps
    BY <2>1, NextKeeps
  <2>3. catalog.generation \in Nat /\ catalog'.generation \in Nat
    BY <2>1, <2>2, CatalogFields DEF Keeps, SInv, Good
  <2>4. QED
    BY <2>2, <2>3 DEF Keeps, Grows
<1>4. QED
  BY <1>1, <1>2, <1>3, AlwaysSInv, PTL
     DEF Spec, PlansFollowChanges, GenerationSeesEveryChange

(***************************************************************************)
(* No two rows of a table agree on its key and a primary key is never      *)
(* missing, through inserts, drops that move tables, changes of kind and   *)
(* rollbacks - if no value is a text of no bytes, which a key does not     *)
(* tell from a missing one.                                                *)
(***************************************************************************)
THEOREM KeysAlwaysHold ==
  ASSUME Empty \notin Values
  PROVE  Spec => []KeysHold
<1>1. Init => KInv
  BY InitHolds
<1>2. SInv /\ KInv /\ [Next]_vars => KInv'
  BY NextKeeps, UnchangedKeeps DEF Keeps
<1>3. SInv /\ KInv => KeysHold
  <2>1. SUFFICES ASSUME SInv, KInv, NEW n \in Frames
                 PROVE  RowsFit(frame_at(catalog, at(n)).rows,
                                uniques_at(catalog, at(n)))
    BY DEF KeysHold, RowsFit
  <2>2. /\ n \in DOMAIN Held(catalog) /\ Held(catalog)[n].kind = KIND_FRAME
        /\ Held(catalog)[n] = FrameEntry(frame_at(catalog, at(n)),
                                         uniques_at(catalog, at(n)))
    BY <2>1, HoldsAFrame DEF Frames, SInv, at
  <2>3. QED
    BY <2>1, <2>2 DEF KInv, Kept, FrameEntry
<1>4. QED
  BY <1>1, <1>2, <1>3, AlwaysSInv, PTL DEF Spec

\* A transaction that rolls back puts back what its names held at BEGIN.
LEMMA RollsBackTo ==
  ASSUME SInv, in_transaction, RollsBack
  PROVE  Held(catalog') = began
<1>1. PICK c : Good(c) /\ saved = <<Save(c)>> /\ began = Held(c)
  BY DEF SInv, SavedHolds, in_transaction
<1>2. catalog' = restore(catalog, Save(c)) /\ Good(catalog)
  BY <1>1 DEF RollsBack, SInv
<1>3. QED
  BY <1>1, <1>2, RestoreIs

\* How a statement ends an aborted transaction.
LEMMA AbortedExecutes ==
  ASSUME SInv, aborted, NEW s \in Texts, Execute(s)
  PROVE  \/ /\ error' = Running
            /\ UNCHANGED <<catalog, setting, transaction, prepared>>
         \/ /\ s.op = "begin" /\ error' = Running /\ aborted' = TRUE
            /\ UNCHANGED <<catalog, setting, saved, read_only, began, prepared>>
         \/ /\ s.op \in {"commit", "rollback"} /\ in_transaction /\ RollsBack
            /\ UNCHANGED <<setting, prepared>>
<1>1. in_transaction
  BY DEF SInv
<1>2. CASE error' = Running /\ UNCHANGED <<catalog, setting, transaction, prepared>>
  BY <1>2
<1>3. CASE s.op \in Transactions /\ Transaction(Body(s))
  <2>1. Body(s) = s
    BY <1>3 DEF Body, Transactions
  <2>2. CASE s.op = "begin"
    BY <1>1, <1>3, <2>1, <2>2 DEF Transaction, Begin
  <2>3. CASE s.op = "commit"
    BY <1>1, <1>3, <2>1, <2>3 DEF Transaction, Commit
  <2>4. CASE s.op = "rollback"
    BY <1>1, <1>3, <2>1, <2>4 DEF Transaction, Rollback
  <2>5. QED
    BY <1>3, <2>2, <2>3, <2>4 DEF Transactions
<1>4. QED
  BY <1>2, <1>3 DEF Execute

\* A statement outside BEGIN, COMMIT and ROLLBACK ends no transaction.
LEMMA OnlyStatementsRun ==
  ASSUME SInv, NEW s \in Texts, Execute(s), ~aborted
  PROVE  \/ Body(s).op \in Transactions /\ Transaction(Body(s))
         \/ /\ Body(s).op \notin Transactions /\ Statement(Body(s))
            /\ aborted' = (in_transaction /\ Fails(s, error'))
            /\ UNCHANGED <<saved, read_only, began>>
BY DEF Execute

\* The steps that are not a statement's.
LEMMA NextIs ==
  ASSUME SInv, Next
  PROVE  \/ \E s \in Texts : Execute(s)
         \/ ~in_transaction /\ UNCHANGED <<catalog, setting, transaction, prepared>>
         \/ \E h \in Handed : Register(h)
<1>1. ASSUME NEW query \in Queries,
             QueryInTransaction(query) \/ QueryHit(query) \/ QueryMiss(query)
      PROVE  \/ \E s \in Texts : Execute(s)
             \/ /\ ~in_transaction
                /\ UNCHANGED <<catalog, setting, transaction, prepared>>
  <2>1. AsSelect(query) \in Texts
    BY TextsAssumption, SelectIsAText
  <2>2. QED
    BY <1>1, <2>1 DEF QueryInTransaction, QueryHit, QueryMiss, Runs
<1>2. QED
  BY <1>1, TextsAssumption DEF Next

(***************************************************************************)
(* A transaction that is rolled back, or committed after it was aborted,   *)
(* leaves every name holding what it held at BEGIN, whatever was created,  *)
(* filled, dropped or registered since.                                    *)
(***************************************************************************)
THEOREM RollbackAlwaysRestores == Spec => RollbackRestores
<1>1. SInv /\ [Next]_vars =>
        [in_transaction /\ saved' = <<>>
         /\ (aborted \/ \E s \in Statements : Body(s).op = "rollback" /\ Execute(s))
           => Held(catalog') = began]_vars
  <2>1. SUFFICES ASSUME SInv, Next, in_transaction, saved' = <<>>,
                        aborted \/ \E s \in Statements :
                                     Body(s).op = "rollback" /\ Execute(s)
                 PROVE  Held(catalog') = began
    OBVIOUS
  <2>2. saved' # saved
    BY <2>1 DEF in_transaction
  <2>3. CASE aborted
    <3>1. PICK s \in Texts : Execute(s)
      BY <2>1, <2>2, NextIs DEF Register, transaction
    <3>2. RollsBack
      BY <2>1, <2>2, <2>3, <3>1, AbortedExecutes DEF transaction
    <3>3. QED
      BY <2>1, <3>2, RollsBackTo
  <2>4. CASE ~aborted
    <3>1. PICK s \in Statements : Body(s).op = "rollback" /\ Execute(s)
      BY <2>1, <2>4
    <3>2. Transaction(Body(s))
      BY <2>4, <3>1 DEF Execute, Transactions
    <3>3. RollsBack
      BY <2>1, <3>1, <3>2 DEF Transaction, Rollback
    <3>4. QED
      BY <2>1, <3>3, RollsBackTo
  <2>5. QED
    BY <2>3, <2>4
<1>2. QED
  BY <1>1, AlwaysSInv, PTL DEF Spec, RollbackRestores

(***************************************************************************)
(* Refused is refused: an aborted transaction and one begun READ ONLY      *)
(* change no name and no setting they may not, prepared statements         *)
(* included, and a statement that fails while it runs aborts the           *)
(* transaction it is in, whose COMMIT then keeps nothing.                  *)
(***************************************************************************)
THEOREM RefusedAlwaysChangesNothing == Spec => RefusedChangesNothing
<1>1. SInv /\ [Next]_vars =>
        [aborted /\ aborted' =>
           \/ Held(catalog') = Held(catalog) /\ setting' = setting
                                             /\ prepared' = prepared
           \/ \E h \in Handed : Register(h)]_vars
  <2>1. SUFFICES ASSUME SInv, Next, aborted, aborted',
                        ~ \E h \in Handed : Register(h)
                 PROVE  Held(catalog') = Held(catalog) /\ setting' = setting
                                                      /\ prepared' = prepared
    OBVIOUS
  <2>2. PICK s \in Texts : Execute(s)
    BY <2>1, NextIs DEF SInv
  <2>3. ~RollsBack
    BY <2>1 DEF RollsBack, Ended
  <2>4. QED
    BY <2>1, <2>2, <2>3, AbortedExecutes
<1>2. SInv /\ [Next]_vars =>
        [read_only /\ read_only' =>
           \/ Held(catalog') = Held(catalog)
           \/ \E h \in Handed : Register(h)]_vars
  <2>1. SUFFICES ASSUME SInv, Next, read_only, read_only',
                        ~ \E h \in Handed : Register(h)
                 PROVE  Held(catalog') = Held(catalog)
    OBVIOUS
  <2>2. PICK s \in Texts : Execute(s)
    BY <2>1, NextIs DEF SInv
  <2>3. ~Ended
    BY <2>1 DEF Ended
  <2>4. CASE aborted
    BY <2>1, <2>2, <2>3, <2>4, AbortedExecutes DEF RollsBack
  <2>5. CASE Body(s).op \in Transactions /\ Transaction(Body(s))
    <3>1. catalog' = catalog
      BY <2>3, <2>5 DEF Transaction, Transactions, Begin, Commit, Rollback, RollsBack
    <3>2. QED
      BY <3>1
  <2>6. CASE Body(s).op \notin Transactions /\ Statement(Body(s))
    <3>1. Body(s) \in Texts
      BY <2>1, BodyIsAText
    <3>2. CASE Body(s).op \in Writes
      <4>1. Raise(Running)
        BY <2>1, <2>6, <3>2 DEF Statement
      <4>2. QED
        BY <4>1 DEF Raise
    <3>3. CASE Body(s).op \notin Writes
      <4>1. Body(s).op \in {"set", "reset", "pragma"}
              \/ Body(s).op \in {"select", "prepare", "deallocate", "execute"}
        BY <2>6, <3>1, <3>3, TextsAre DEF Writes, Transactions
      <4>2. QED
        BY <2>1, <2>6, <3>1, <4>1, SettingLands, OtherLands
    <3>4. QED
      BY <3>2, <3>3
  <2>7. QED
    BY <2>1, <2>2, <2>4, <2>5, <2>6, OnlyStatementsRun
<1>3. SInv /\ [Next]_vars =>
        [in_transaction /\ in_transaction' /\ error' = Running => aborted']_vars
  <2>1. SUFFICES ASSUME SInv, Next, in_transaction, in_transaction',
                        error' = Running
                 PROVE  aborted'
    OBVIOUS
  <2>2. PICK s \in Texts : Execute(s)
    <3>1. ~ \E h \in Handed : Register(h)
      BY <2>1 DEF Register, Running, Fine
    <3>2. QED
      BY <2>1, <3>1, NextIs
  <2>3. ~Ended
    BY <2>1 DEF Ended, in_transaction
  <2>4. CASE aborted
    BY <2>1, <2>2, <2>3, <2>4, AbortedExecutes DEF transaction, RollsBack
  <2>5. CASE Body(s).op \in Transactions /\ Transaction(Body(s))
    <3>1. CASE Body(s).op = "begin"
      BY <2>1, <2>5, <3>1 DEF Transaction, Begin
    <3>2. CASE Body(s).op = "commit"
      BY <2>1, <2>3, <2>5, <3>2 DEF Transaction, Commit, RollsBack
    <3>3. CASE Body(s).op = "rollback"
      BY <2>1, <2>3, <2>5, <3>3 DEF Transaction, Rollback, RollsBack
    <3>4. QED
      BY <2>5, <3>1, <3>2, <3>3 DEF Transactions
  <2>6. CASE aborted' = (in_transaction /\ Fails(s, error'))
    BY <2>1, <2>6 DEF Fails
  <2>7. QED
    BY <2>1, <2>2, <2>4, <2>5, <2>6, OnlyStatementsRun
<1>4. QED
  BY <1>1, <1>2, <1>3, AlwaysSInv, PTL
     DEF Spec, RefusedChangesNothing, AbortedIsFrozen, ReadOnlyChangesNothing,
         RunningFailureAborts
-----------------------------------------------------------------------------
(* The calls of firepanda.sql that share plans. *)

\* What the shape of a catalog tells of it.
LEMMA ShapeTells ==
  ASSUME NEW c, Good(c), NEW d, Good(d), shape(c) = shape(d)
  PROVE  /\ Len(c.keys) = Len(d.keys) /\ Entries(c) = Entries(d)
         /\ \A i \in Entries(c) :
              /\ c.keys[i] = d.keys[i] /\ c.kinds[i] = d.kinds[i]
              /\ c.kinds[i] = KIND_VIEW => view_at(c, i) = view_at(d, i)
              /\ c.kinds[i] = KIND_FRAME =>
                   frame_at(c, i).schema = frame_at(d, i).schema
<1>1. /\ c \in Catalogs(Types) /\ Packed(c) /\ d \in Catalogs(Types) /\ Packed(d)
      /\ DOMAIN c.keys = Entries(c) /\ DOMAIN d.keys = Entries(d)
      /\ Len(c.keys) \in Nat /\ Len(d.keys) \in Nat
  BY CatalogFields DEF Good, Entries
<1>2. Entries(c) = Entries(d) /\ Len(c.keys) = Len(d.keys)
  <2>1. DOMAIN shape(c) = Entries(c) /\ DOMAIN shape(d) = Entries(d)
    BY <1>1 DEF shape
  <2>2. QED
    BY <1>1, <2>1 DEF Entries
<1>3. ASSUME NEW i \in Entries(c)
      PROVE  /\ c.keys[i] = d.keys[i] /\ c.kinds[i] = d.kinds[i]
             /\ c.kinds[i] = KIND_VIEW => view_at(c, i) = view_at(d, i)
             /\ c.kinds[i] = KIND_FRAME =>
                  frame_at(c, i).schema = frame_at(d, i).schema
  <2>1. /\ c.kinds[i] \in Kinds /\ d.kinds[i] \in Kinds
        /\ KIND_FRAME # KIND_VIEW
    BY <1>1, <1>2, KindsAre
  <2>2. /\ shape(c)[i] = IF c.kinds[i] = KIND_VIEW
                         THEN <<c.keys[i], KIND_VIEW, view_at(c, i)>>
                         ELSE <<c.keys[i], KIND_FRAME, frame_at(c, i).schema,
                                uniques_at(c, i)>>
        /\ shape(d)[i] = IF d.kinds[i] = KIND_VIEW
                         THEN <<d.keys[i], KIND_VIEW, view_at(d, i)>>
                         ELSE <<d.keys[i], KIND_FRAME, frame_at(d, i).schema,
                                uniques_at(d, i)>>
    BY <1>1, <1>2 DEF shape
  <2>3. shape(c)[i][1] = c.keys[i] /\ shape(d)[i][1] = d.keys[i]
    BY <2>2
  <2>4. shape(c)[i][2] = c.kinds[i] /\ shape(d)[i][2] = d.kinds[i]
    BY <2>1, <2>2 DEF Kinds
  <2>5. /\ c.kinds[i] = KIND_VIEW => shape(c)[i][3] = view_at(c, i)
        /\ c.kinds[i] = KIND_FRAME => shape(c)[i][3] = frame_at(c, i).schema
        /\ d.kinds[i] = KIND_VIEW => shape(d)[i][3] = view_at(d, i)
        /\ d.kinds[i] = KIND_FRAME => shape(d)[i][3] = frame_at(d, i).schema
    BY <2>1, <2>2
  <2>6. QED
    BY <2>3, <2>4, <2>5
<1>4. QED
  BY <1>2, <1>3

\* Catalogs of a shape find a name at the same entry.
LEMMA ShapeFinds ==
  ASSUME NEW c, Good(c), NEW d, Good(d), shape(c) = shape(d), NEW n
  PROVE  /\ find(c, n) = find(d, n)
         /\ \A kind : IsKind(c, n, kind) <=> IsKind(d, n, kind)
         /\ IsKind(c, n, KIND_VIEW) =>
              view_at(c, find(c, n)) = view_at(d, find(d, n))
         /\ IsKind(c, n, KIND_FRAME) =>
              frame_at(c, find(c, n)).schema = frame_at(d, find(d, n)).schema
<1>1. c \in Catalogs(Types) /\ Packed(c) /\ d \in Catalogs(Types) /\ Packed(d)
  BY DEF Good
<1>2. /\ Entries(c) = Entries(d)
      /\ \A i \in Entries(c) :
           /\ c.keys[i] = d.keys[i] /\ c.kinds[i] = d.kinds[i]
           /\ c.kinds[i] = KIND_VIEW => view_at(c, i) = view_at(d, i)
           /\ c.kinds[i] = KIND_FRAME =>
                frame_at(c, i).schema = frame_at(d, i).schema
  BY ShapeTells
<1>3. /\ \/ find(c, n) = NOT_FOUND /\ \A i \in Entries(c) : c.keys[i] # n
         \/ /\ find(c, n) \in Entries(c) /\ find(c, n) # NOT_FOUND
            /\ c.keys[find(c, n)] = n
      /\ \/ find(d, n) = NOT_FOUND /\ \A i \in Entries(d) : d.keys[i] # n
         \/ /\ find(d, n) \in Entries(d) /\ find(d, n) # NOT_FOUND
            /\ d.keys[find(d, n)] = n
  BY <1>1, FoundIs
<1>4. find(c, n) = find(d, n)
  BY <1>1, <1>2, <1>3 DEF Packed
<1>5. find(c, n) # NOT_FOUND => find(c, n) \in Entries(c)
  BY <1>3
<1>6. QED
  BY <1>2, <1>4, <1>5 DEF IsKind

\* Each name a query reaches is read off the view before it.
Through(c, n) == IF IsKind(c, n, KIND_VIEW) THEN view_at(c, find(c, n)).from ELSE n

LEMMA ReachedIs ==
  ASSUME NEW c, Len(c.keys) \in Nat, NEW n
  PROVE  Reached(c, n) =
           [k \in 0 .. Len(c.keys) |->
              IF k = 0 THEN n ELSE Through(c, Reached(c, n)[k - 1])]
<1> DEFINE F(g, m) ==
             [k \in 0 .. m |-> IF k = 0 THEN n ELSE Through(c, g[k - 1])]
           S == {m \in Nat : \E g : g = F(g, m)}
<1>1. 0 \in S
  <2>1. [k \in {0} |-> n] = F([k \in {0} |-> n], 0)
    OBVIOUS
  <2>2. QED
    BY <2>1
<1>2. ASSUME NEW m \in Nat, m \in S
      PROVE  m + 1 \in S
  <2>1. PICK g : g = F(g, m)
    BY <1>2
  <2>2. DEFINE h == [k \in 0 .. m + 1 |->
                       IF k = m + 1 THEN Through(c, g[m]) ELSE g[k]]
  <2>3. \A k \in 0 .. m : h[k] = g[k] /\ k # m + 1
    OBVIOUS
  <2>4. \A k \in 0 .. m : g[k] = IF k = 0 THEN n ELSE Through(c, g[k - 1])
    BY <2>1
  <2>5. ASSUME NEW k \in 0 .. m + 1
        PROVE  h[k] = IF k = 0 THEN n ELSE Through(c, h[k - 1])
    <3>1. CASE k = m + 1
      <4>1. h[k] = Through(c, g[m]) /\ k # 0 /\ k - 1 = m
        BY <3>1
      <4>2. h[m] = g[m]
        BY <2>3
      <4>3. QED
        BY <3>1, <4>1, <4>2
    <3>2. CASE k # m + 1
      <4>1. k \in 0 .. m /\ h[k] = g[k]
        BY <2>3, <3>2
      <4>2. k = 0 \/ h[k - 1] = g[k - 1]
        BY <2>3, <4>1
      <4>3. QED
        BY <2>4, <4>1, <4>2
    <3>3. QED
      BY <3>1, <3>2
  <2>6. h = [k \in 0 .. m + 1 |-> h[k]]
    OBVIOUS
  <2> HIDE DEF h
  <2>7. h = F(h, m + 1)
    BY <2>5, <2>6
  <2>8. QED
    BY <2>7
<1>3. \E g : g = F(g, Len(c.keys))
  <2> HIDE DEF S
  <2>1. \A m \in Nat : m \in S
    BY <1>1, <1>2, NatSets
  <2>2. QED
    BY <2>1 DEF S
<1>4. Reached(c, n) = CHOOSE g : g = F(g, Len(c.keys))
  BY DEF Reached, Through
<1>5. QED
  BY <1>3, <1>4

LEMMA ShapeReaches ==
  ASSUME NEW c, Good(c), NEW d, Good(d), shape(c) = shape(d), NEW n
  PROVE  Reached(c, n) = Reached(d, n) /\ Scanned(c, n) = Scanned(d, n)
<1> DEFINE m == Len(c.keys)
           S == {k \in Nat : k <= m => Reached(c, n)[k] = Reached(d, n)[k]}
<1>1. m \in Nat /\ Len(d.keys) = m
  BY CatalogFields, ShapeTells DEF Good
<1>2. /\ Reached(c, n) = [k \in 0 .. m |->
                            IF k = 0 THEN n ELSE Through(c, Reached(c, n)[k - 1])]
      /\ Reached(d, n) = [k \in 0 .. m |->
                            IF k = 0 THEN n ELSE Through(d, Reached(d, n)[k - 1])]
  BY <1>1, ReachedIs
<1>3. \A x : Through(c, x) = Through(d, x)
  BY ShapeFinds DEF Through
<1> HIDE DEF m
<1>4. 0 \in S
  BY <1>1, <1>2
<1>5. ASSUME NEW k \in Nat, k \in S
      PROVE  k + 1 \in S
  <2>1. SUFFICES ASSUME k + 1 <= m
                 PROVE  Reached(c, n)[k + 1] = Reached(d, n)[k + 1]
    OBVIOUS
  <2>2. /\ k + 1 \in 0 .. m /\ k + 1 # 0 /\ (k + 1) - 1 = k
        /\ Reached(c, n)[k] = Reached(d, n)[k]
    BY <1>1, <1>5, <2>1
  <2>3. /\ Reached(c, n)[k + 1] = Through(c, Reached(c, n)[k])
        /\ Reached(d, n)[k + 1] = Through(d, Reached(d, n)[k])
    BY <1>2, <2>2
  <2>4. QED
    BY <1>3, <2>2, <2>3
<1>6. \A k \in Nat : k \in S
  <2> HIDE DEF S
  <2>1. QED
    BY <1>4, <1>5, NatSets
<1>7. \A k \in 0 .. m : Reached(c, n)[k] = Reached(d, n)[k]
  BY <1>1, <1>6
<1>8. Reached(c, n) = Reached(d, n)
  BY <1>2, <1>7
<1>9. QED
  BY <1>1, <1>8 DEF Scanned, m

\* A plan reads no more of a catalog than its shape, unless it has a pivot.
LEMMA ShapePlans ==
  ASSUME NEW c, Good(c), NEW d, Good(d), shape(c) = shape(d),
         NEW query, ~query.pivot
  PROVE  /\ Plans(c, query) <=> Plans(d, query)
         /\ PlanOf(c, Plain, query) = PlanOf(d, Plain, query)
<1> DEFINE n == Scanned(c, query.from)
<1>1. Reached(c, query.from) = Reached(d, query.from) /\ Scanned(d, query.from) = n
  BY ShapeReaches
<1>2. Resolves(c, query) <=> Resolves(d, query)
  BY <1>1, ShapeFinds DEF Resolves
<1>3. Resolves(c, query) => (Binds(c, query) <=> Binds(d, query))
  <2>1. SUFFICES ASSUME IsKind(c, n, KIND_FRAME)
                 PROVE  Binds(c, query) <=> Binds(d, query)
    BY DEF Resolves
  <2>2. frame_at(c, find(c, n)).schema = frame_at(d, find(d, n)).schema
    BY <2>1, ShapeFinds
  <2>3. \A x : (IsKind(c, x, KIND_VIEW) => view_at(c, find(c, x)).column = query.column)
           <=> (IsKind(d, x, KIND_VIEW) => view_at(d, find(d, x)).column = query.column)
    BY ShapeFinds
  <2> HIDE DEF n
  <2>4. QED
    BY <1>1, <2>2, <2>3 DEF Binds, n
<1>4. PlanOf(c, Plain, query) = PlanOf(d, Plain, query)
  BY <1>1 DEF PlanOf
<1>5. QED
  BY <1>2, <1>3, <1>4 DEF Plans

\* The instance's operators are these modules' own.
LEMMA SharedConstants ==
  /\ Shared!KIND_FRAME = KIND_FRAME /\ Shared!KIND_VIEW = KIND_VIEW
  /\ Shared!NOT_FOUND = NOT_FOUND /\ Shared!EmptyCatalog = EmptyCatalog
  /\ Shared!Plain = Plain /\ Shared!NoPlans = NoPlans
  BY DEF Shared!KIND_FRAME, KIND_FRAME, Shared!KIND_VIEW, KIND_VIEW,
         Shared!NOT_FOUND, NOT_FOUND, Shared!EmptyCatalog, EmptyCatalog,
         Shared!Plain, Plain, Shared!NoPlans, NoPlans

LEMMA SharedSets ==
  /\ \A s : Shared!Cardinality(s) = Cardinality(s)
  /\ \A s : Shared!ToSet(s) = ToSet(s)
  /\ \A s : Shared!SetToSeqs(s) = SetToSeqs(s)
<1>1. \A s : Shared!Cardinality(s) = Cardinality(s)
  BY DEF Shared!Cardinality, Cardinality
<1>2. \A s : Shared!ToSet(s) = ToSet(s)
  BY DEF Shared!ToSet, ToSet
<1>3. \A s : Shared!SetToSeqs(s) = SetToSeqs(s)
  BY <1>1 DEF Shared!SetToSeqs, SetToSeqs
<1>4. QED
  BY <1>1, <1>2, <1>3

LEMMA SharedFinds ==
  ASSUME NEW c
  PROVE  /\ \A n : Shared!find(c, n) = find(c, n)
         /\ \A n, kind : Shared!IsKind(c, n, kind) <=> IsKind(c, n, kind)
         /\ \A i : /\ Shared!frame_at(c, i) = frame_at(c, i)
                   /\ Shared!view_at(c, i) = view_at(c, i)
                   /\ Shared!uniques_at(c, i) = uniques_at(c, i)
<1>1. \A n : Shared!find(c, n) = find(c, n)
  BY SharedConstants DEF Shared!find, find
<1>2. QED
  BY <1>1, SharedConstants
     DEF Shared!IsKind, IsKind, Shared!frame_at, frame_at, Shared!view_at, view_at,
         Shared!uniques_at, uniques_at

LEMMA SharedRegisters ==
  ASSUME NEW c, NEW n, NEW f
  PROVE  Shared!register(c, n, f) = register(c, n, f)
<1>1. \A list, i : Shared!RemoveAt(list, i) = RemoveAt(list, i)
  BY DEF Shared!RemoveAt, RemoveAt
<1>2. \A i : Shared!forget(c, i) = forget(c, i)
  BY <1>1, SharedConstants DEF Shared!forget, forget
<1>3. Shared!drop(c, n) = drop(c, n)
  BY <1>1, <1>2, SharedConstants, SharedFinds DEF Shared!drop, drop
<1>4. \A d, k, s : Shared!Entered(d, n, k, s) = Entered(d, n, k, s)
  BY DEF Shared!Entered, Entered
<1>5. CASE IsKind(c, n, KIND_FRAME)
  BY <1>5, SharedConstants, SharedFinds DEF Shared!register, register
<1>6. CASE ~IsKind(c, n, KIND_FRAME)
  <2> DEFINE room == drop(c, n)
             put == Entered(room, n, KIND_FRAME, Len(room.frames) + 1)
  <2>1. register(c, n, f) = [put EXCEPT !.frames = Append(@, f),
                                        !.uniques = Append(@, <<>>)]
    BY <1>6 DEF register
  <2>2. ~Shared!IsKind(c, n, Shared!KIND_FRAME)
    BY <1>6, SharedConstants, SharedFinds
  <2>3. Shared!register(c, n, f) = [put EXCEPT !.frames = Append(@, f),
                                               !.uniques = Append(@, <<>>)]
    BY <1>3, <1>4, <2>2, SharedConstants DEF Shared!register
  <2>4. QED
    BY <2>1, <2>3
<1>7. QED
  BY <1>5, <1>6

LEMMA SharedReads ==
  ASSUME NEW c, NEW query
  PROVE  /\ Shared!Plans(c, query) <=> Plans(c, query)
         /\ Shared!PlanOf(c, Plain, query) = PlanOf(c, Plain, query)
         /\ Shared!KeyOf(c, query) = Key(query, shape(c))
<1>1. \A n : Shared!Reached(c, n) = Reached(c, n)
  BY SharedConstants, SharedFinds DEF Shared!Reached, Reached
<1>2. \A n : Shared!Scanned(c, n) = Scanned(c, n)
  BY <1>1 DEF Shared!Scanned, Scanned
<1>3. Shared!Plans(c, query) <=> Plans(c, query)
  BY <1>1, <1>2, SharedConstants, SharedFinds
     DEF Shared!Plans, Plans, Shared!Resolves, Resolves, Shared!Binds, Binds
<1>4. Shared!PlanOf(c, Plain, query) = PlanOf(c, Plain, query)
  BY <1>2, SharedFinds, SharedSets DEF Shared!PlanOf, PlanOf, Shared!Rows, Rows
<1>5. Shared!shape(c) = shape(c)
  BY SharedConstants, SharedFinds DEF Shared!shape, shape
<1>6. QED
  BY <1>3, <1>4, <1>5 DEF Shared!KeyOf, Shared!Key, Key

\* The catalogs a call of firepanda.sql builds are one a name.
LEMMA CatalogOfIs ==
  ASSUME NEW names, Len(names) \in Nat, NEW frames
  PROVE  \E g : /\ g = [k \in 0 .. Len(names) |->
                          IF k = 0 THEN EmptyCatalog
                          ELSE register(g[k - 1], names[k], frames[names[k]])]
               /\ Shared!CatalogOf(names, frames) = g[Len(names)]
<1> DEFINE F(g, m) ==
             [k \in 0 .. m |->
                IF k = 0 THEN EmptyCatalog
                ELSE register(g[k - 1], names[k], frames[names[k]])]
           S == {m \in Nat : \E g : g = F(g, m)}
<1>1. 0 \in S
  <2>1. [k \in {0} |-> EmptyCatalog] = F([k \in {0} |-> EmptyCatalog], 0)
    OBVIOUS
  <2>2. QED
    BY <2>1
<1>2. ASSUME NEW m \in Nat, m \in S
      PROVE  m + 1 \in S
  <2>1. PICK g : g = F(g, m)
    BY <1>2
  <2>2. DEFINE h == [k \in 0 .. m + 1 |->
                       IF k = m + 1
                       THEN register(g[m], names[m + 1], frames[names[m + 1]])
                       ELSE g[k]]
  <2>3. \A k \in 0 .. m : h[k] = g[k] /\ k # m + 1
    OBVIOUS
  <2>4. \A k \in 0 .. m :
          g[k] = IF k = 0 THEN EmptyCatalog
                 ELSE register(g[k - 1], names[k], frames[names[k]])
    BY <2>1
  <2>5. ASSUME NEW k \in 0 .. m + 1
        PROVE  h[k] = IF k = 0 THEN EmptyCatalog
                      ELSE register(h[k - 1], names[k], frames[names[k]])
    <3>1. CASE k = m + 1
      <4>1. /\ h[k] = register(g[m], names[m + 1], frames[names[m + 1]])
            /\ k # 0 /\ k - 1 = m
        BY <3>1
      <4>2. h[m] = g[m]
        BY <2>3
      <4>3. QED
        BY <3>1, <4>1, <4>2
    <3>2. CASE k # m + 1
      <4>1. k \in 0 .. m /\ h[k] = g[k]
        BY <2>3, <3>2
      <4>2. k = 0 \/ h[k - 1] = g[k - 1]
        BY <2>3, <4>1
      <4>3. QED
        BY <2>4, <4>1, <4>2
    <3>3. QED
      BY <3>1, <3>2
  <2>6. h = [k \in 0 .. m + 1 |-> h[k]]
    OBVIOUS
  <2> HIDE DEF h
  <2>7. h = F(h, m + 1)
    BY <2>5, <2>6
  <2>8. QED
    BY <2>7
<1>3. \E g : g = F(g, Len(names))
  <2> HIDE DEF S
  <2>1. \A m \in Nat : m \in S
    BY <1>1, <1>2, NatSets
  <2>2. QED
    BY <2>1 DEF S
<1>4. Shared!CatalogOf(names, frames)
        = (CHOOSE g : g = F(g, Len(names)))[Len(names)]
  BY SharedConstants, SharedRegisters DEF Shared!CatalogOf
<1>5. QED
  BY <1>3, <1>4

LEMMA CatalogOfIsGood ==
  ASSUME NEW names \in Shared!Orders, NEW frames \in [Names -> SharedFrames]
  PROVE  Good(Shared!CatalogOf(names, frames))
<1>1. Len(names) \in Nat /\ \A k \in 1 .. Len(names) : names[k] \in Names
  <2>1. PICK ns \in SUBSET Names : names \in SetToSeqs(ns)
    BY SharedSets DEF Shared!Orders
  <2>2. Cardinality(ns) \in Nat
    BY <2>1, SharedAssumption, FS_Subset, FS_CardinalityType DEF SharedAssumption
  <2>3. names \in [1 .. Cardinality(ns) -> ns]
    BY <2>1 DEF SetToSeqs
  <2>4. names \in Seq(ns) /\ Len(names) = Cardinality(ns)
    BY <2>2, <2>3
  <2>5. QED
    BY <2>1, <2>2, <2>3, <2>4
<1>2. PICK g : /\ g = [k \in 0 .. Len(names) |->
                         IF k = 0 THEN EmptyCatalog
                         ELSE register(g[k - 1], names[k], frames[names[k]])]
               /\ Shared!CatalogOf(names, frames) = g[Len(names)]
  BY <1>1, CatalogOfIs
<1> DEFINE S == {k \in Nat : k <= Len(names) => Good(g[k])}
<1>3. 0 \in S
  <2>1. Good(EmptyCatalog)
    BY EmptyIsGood
  <2>2. QED
    BY <1>1, <1>2, <2>1
<1>4. ASSUME NEW k \in Nat, k \in S
      PROVE  k + 1 \in S
  <2>1. SUFFICES ASSUME k + 1 <= Len(names) PROVE Good(g[k + 1])
    OBVIOUS
  <2>2. /\ k + 1 \in 1 .. Len(names) /\ k + 1 \in 0 .. Len(names)
        /\ k + 1 # 0 /\ (k + 1) - 1 = k /\ Good(g[k])
    BY <1>1, <1>4, <2>1
  <2>3. g[k + 1] = register(g[k], names[k + 1], frames[names[k + 1]])
    BY <1>2, <2>2
  <2>4. names[k + 1] \in Names /\ frames[names[k + 1]] \in Tables
    BY <1>1, <2>2, SharedAssumption DEF SharedAssumption
  <2>5. QED
    BY <2>2, <2>3, <2>4, RegisterGives
<1>5. \A k \in Nat : k \in S
  <2> HIDE DEF S
  <2>1. QED
    BY <1>3, <1>4, NatSets
<1>6. Good(g[Len(names)])
  <2>1. Len(names) \in Nat /\ Len(names) <= Len(names)
    BY <1>1
  <2>2. QED
    BY <1>5, <2>1
<1>7. QED
  BY <1>2, <1>6

(***************************************************************************)
(* What is kept under a key is the plan of every catalog with that key.    *)
(***************************************************************************)
SharedHolds ==
  \A c, query :
    /\ Good(c) /\ query \in SharedQueries /\ Key(query, shape(c)) \in DOMAIN shared
    => Plans(c, query) /\ shared[Key(query, shape(c))] = PlanOf(c, Plain, query)

LEMMA SharedStillHolds ==
  ASSUME \A query \in SharedQueries : ~query.pivot, SharedHolds,
         NEW names \in Shared!Orders, NEW frames \in [Names -> SharedFrames],
         NEW query \in SharedQueries, Shared!Call(names, frames, query)
  PROVE  SharedHolds' /\ ran' = wanted'
<1> DEFINE c == Shared!CatalogOf(names, frames)
           key == Key(query, shape(c))
<1>1. Good(c)
  BY CatalogOfIsGood
<1> HIDE DEF c
<1>2. CASE /\ key \in DOMAIN shared /\ ran' = shared[key] /\ shared' = shared
           /\ wanted' = IF Plans(c, query) THEN PlanOf(c, Plain, query)
                        ELSE Shared!Unplanned
  BY <1>1, <1>2 DEF SharedHolds
<1>3. CASE /\ key \notin DOMAIN shared /\ ~Plans(c, query)
           /\ ran' = Shared!Unplanned /\ shared' = shared
           /\ wanted' = IF Plans(c, query) THEN PlanOf(c, Plain, query)
                        ELSE Shared!Unplanned
  BY <1>3 DEF SharedHolds
<1>4. CASE /\ Plans(c, query) /\ ran' = PlanOf(c, Plain, query)
           /\ wanted' = IF Plans(c, query) THEN PlanOf(c, Plain, query)
                        ELSE Shared!Unplanned
           /\ \E room \in {NoPlans, shared} :
                shared' = [k \in DOMAIN room \cup {key} |->
                             IF k = key THEN PlanOf(c, Plain, query) ELSE room[k]]
  <2>1. ran' = wanted'
    BY <1>4
  <2>2. ASSUME NEW d, NEW other, Good(d), other \in SharedQueries,
               Key(other, shape(d)) \in DOMAIN shared'
        PROVE  Plans(d, other) /\ shared'[Key(other, shape(d))] = PlanOf(d, Plain, other)
    <3>1. CASE Key(other, shape(d)) = key
      <4>1. other = query /\ shape(d) = shape(c)
        BY <3>1 DEF Key
      <4>2. shared'[key] = PlanOf(c, Plain, query)
        BY <1>4
      <4>3. QED
        BY <1>1, <1>4, <2>2, <3>1, <4>1, <4>2, ShapePlans
    <3>2. CASE Key(other, shape(d)) # key
      <4> DEFINE at1 == Key(other, shape(d))
      <4> HIDE DEF key
      <4>1. at1 \in DOMAIN shared /\ shared'[at1] = shared[at1]
        BY <1>4, <2>2, <3>2 DEF NoPlans
      <4>2. QED
        BY <2>2, <4>1 DEF SharedHolds
    <3>3. QED
      BY <3>1, <3>2
  <2>3. QED
    BY <2>1, <2>2 DEF SharedHolds
<1>5. QED
  <2>1. /\ Shared!Plans(c, query) <=> Plans(c, query)
        /\ Shared!PlanOf(c, Shared!Plain, query) = PlanOf(c, Plain, query)
        /\ Shared!KeyOf(c, query) = key
    BY SharedReads, SharedConstants
  <2>2. Shared!Wanted(c, query) = IF Plans(c, query) THEN PlanOf(c, Plain, query)
                                  ELSE Shared!Unplanned
    BY <2>1 DEF Shared!Wanted
  <2>3. \E room \in {NoPlans, shared} :
          Shared!Keep(shared, key, PlanOf(c, Plain, query), SharedCapacity)
            = [k \in DOMAIN room \cup {key} |->
                 IF k = key THEN PlanOf(c, Plain, query) ELSE room[k]]
    BY SharedConstants DEF Shared!Keep
  <2>4. \/ Shared!Hit(c, query) \/ Shared!Miss(c, query)
        \/ Shared!Unplannable(c, query)
    BY DEF Shared!Call, c
  <2> HIDE DEF key
  <2>5. CASE Shared!Hit(c, query)
    BY <1>2, <2>1, <2>2, <2>5 DEF Shared!Hit
  <2>6. CASE Shared!Miss(c, query)
    BY <1>4, <2>1, <2>2, <2>3, <2>6 DEF Shared!Miss
  <2>7. CASE Shared!Unplannable(c, query)
    BY <1>3, <2>1, <2>2, <2>7 DEF Shared!Unplannable
  <2>8. QED
    BY <2>4, <2>5, <2>6, <2>7

(***************************************************************************)
(* The plan a call of firepanda.sql runs is the plan its own frames call   *)
(* for, whatever other calls over other frames kept before it - unless a   *)
(* query is a pivot, whose columns are the values its rows hold.           *)
(***************************************************************************)
THEOREM SharedPlansAreTheirOwn ==
  ASSUME \A query \in SharedQueries : ~query.pivot
  PROVE  SqlSpec => []RunsItsOwnPlan
<1> DEFINE PInv == SharedHolds /\ ran = wanted
<1>1. SqlInit => PInv
  BY DEF SqlInit, Shared!Init, Shared!NoPlans, SharedHolds
<1>2. PInv /\ [SqlNext]_<<vars, others>> => PInv'
  <2>1. SUFFICES ASSUME PInv, [SqlNext]_<<vars, others>>
                 PROVE  PInv'
    OBVIOUS
  <2>2. CASE UNCHANGED <<shared, ran, wanted>>
    BY <2>1, <2>2 DEF SharedHolds
  <2>3. CASE Shared!Next
    <3>1. PICK names \in Shared!Orders, query \in SharedQueries :
             \E frames \in [Names -> SharedFrames] : Shared!Call(names, frames, query)
      BY <2>3 DEF Shared!Next
    <3>2. PICK frames \in [Names -> SharedFrames] : Shared!Call(names, frames, query)
      BY <3>1
    <3>3. QED
      BY <2>1, <3>2, SharedStillHolds
  <2>4. QED
    BY <2>1, <2>2, <2>3 DEF SqlNext, others
<1>3. PInv => RunsItsOwnPlan
  BY DEF RunsItsOwnPlan, Shared!RunsItsOwnPlan
<1>4. QED
  BY <1>1, <1>2, <1>3, PTL DEF SqlSpec
-----------------------------------------------------------------------------
(* The lists, and the session, as parts of a behaviour of the run. *)

\* The operations of the instance are those the lemmas are about.
LEMMA ListsConstants ==
  /\ Lists!KIND_FRAME = KIND_FRAME /\ Lists!KIND_VIEW = KIND_VIEW
  /\ Lists!NOT_FOUND = NOT_FOUND /\ Lists!EmptyCatalog = EmptyCatalog
  BY DEF Lists!KIND_FRAME, KIND_FRAME, Lists!KIND_VIEW, KIND_VIEW,
         Lists!NOT_FOUND, NOT_FOUND, Lists!EmptyCatalog, EmptyCatalog

LEMMA ListsFind ==
  ASSUME NEW c, NEW n
  PROVE  /\ Lists!find(c, n) = find(c, n)
         /\ \A kind : Lists!IsKind(c, n, kind) <=> IsKind(c, n, kind)
         /\ Lists!drop(c, n) = drop(c, n)
<1>1. Lists!find(c, n) = find(c, n)
  BY ListsConstants DEF Lists!find, find
<1>2. \A kind : Lists!IsKind(c, n, kind) <=> IsKind(c, n, kind)
  BY <1>1, ListsConstants DEF Lists!IsKind, IsKind
<1>3. \A list, i : Lists!RemoveAt(list, i) = RemoveAt(list, i)
  BY DEF Lists!RemoveAt, RemoveAt
<1>4. \A i : Lists!forget(c, i) = forget(c, i)
  BY <1>3, ListsConstants DEF Lists!forget, forget
<1>5. Lists!drop(c, n) = drop(c, n)
  BY <1>1, <1>3, <1>4, ListsConstants DEF Lists!drop, drop
<1>6. QED
  BY <1>1, <1>2, <1>5

LEMMA ListsChange ==
  ASSUME NEW c, NEW n, NEW e
  PROVE  /\ Lists!register(c, n, e) = register(c, n, e)
         /\ Lists!define(c, n, e) = define(c, n, e)
<1>1. \A d, k, s : Lists!Entered(d, n, k, s) = Entered(d, n, k, s)
  BY DEF Lists!Entered, Entered
<1>2. Lists!register(c, n, e) = register(c, n, e)
  <2>1. CASE IsKind(c, n, KIND_FRAME)
    <3>1. Lists!IsKind(c, n, Lists!KIND_FRAME)
      BY <2>1, ListsConstants, ListsFind
    <3>2. QED
      BY <2>1, <3>1, ListsFind DEF Lists!register, register
  <2>2. CASE ~IsKind(c, n, KIND_FRAME)
    <3>1. ~Lists!IsKind(c, n, Lists!KIND_FRAME)
      BY <2>2, ListsConstants, ListsFind
    <3>2. QED
      BY <1>1, <2>2, <3>1, ListsConstants, ListsFind DEF Lists!register, register
  <2>3. QED
    BY <2>1, <2>2
<1>3. Lists!define(c, n, e) = define(c, n, e)
  <2>1. CASE IsKind(c, n, KIND_VIEW)
    <3>1. Lists!IsKind(c, n, Lists!KIND_VIEW)
      BY <2>1, ListsConstants, ListsFind
    <3>2. QED
      BY <2>1, <3>1, ListsFind DEF Lists!define, define
  <2>2. CASE ~IsKind(c, n, KIND_VIEW)
    <3>1. ~Lists!IsKind(c, n, Lists!KIND_VIEW)
      BY <2>2, ListsConstants, ListsFind
    <3>2. QED
      BY <1>1, <2>2, <3>1, ListsConstants, ListsFind DEF Lists!define, define
  <2>3. QED
    BY <2>1, <2>2
<1>4. QED
  BY <1>2, <1>3

LEMMA ListsHold ==
  ASSUME NEW c
  PROVE  Lists!Held(c) = Held(c)
<1>1. \A i : /\ Lists!frame_at(c, i) = frame_at(c, i)
             /\ Lists!view_at(c, i) = view_at(c, i)
             /\ Lists!uniques_at(c, i) = uniques_at(c, i)
  BY DEF Lists!frame_at, frame_at, Lists!view_at, view_at,
         Lists!uniques_at, uniques_at
<1>2. QED
  BY <1>1, ListsFind, ListsConstants
     DEF Lists!Held, Held, Lists!Entry, Entry, Lists!ToSet, ToSet

LEMMA ListsActions ==
  /\ \A n, f : Lists!Register(n, f) => listed' = register(listed, n, f)
  /\ \A n, v : Lists!Define(n, v) => listed' = define(listed, n, v)
  /\ \A n : Lists!Drop(n) => listed' = drop(listed, n)
  /\ \A n, f : Lists!Refill(n, f) =>
       IsKind(listed, n, KIND_FRAME) /\ listed' = refill(listed, find(listed, n), f)
  /\ \A n, k : Lists!Constrain(n, k) =>
       IsKind(listed, n, KIND_FRAME) /\ listed' = constrain(listed, find(listed, n), k)
<1>1. /\ \A n, f : Lists!Register(n, f) => listed' = register(listed, n, f)
      /\ \A n, v : Lists!Define(n, v) => listed' = define(listed, n, v)
      /\ \A n : Lists!Drop(n) => listed' = drop(listed, n)
  BY ListsChange, ListsFind DEF Lists!Register, Lists!Define, Lists!Drop
<1>2. \A n, f : Lists!Refill(n, f) =>
        IsKind(listed, n, KIND_FRAME) /\ listed' = refill(listed, find(listed, n), f)
  BY ListsConstants, ListsFind DEF Lists!Refill, Lists!refill, refill
<1>3. \A n, k : Lists!Constrain(n, k) =>
        IsKind(listed, n, KIND_FRAME) /\ listed' = constrain(listed, find(listed, n), k)
  BY ListsConstants, ListsFind DEF Lists!Constrain, Lists!constrain, constrain
<1>4. QED
  BY <1>1, <1>2, <1>3

ListTypes == [names |-> ListNames, frames |-> ListFrames, keys |-> ListKeys,
              views |-> ListViews]

\* The catalog is well formed, and its generation is the last bound passed.
LInv == listed \in Catalogs(ListTypes) /\ Packed(listed)
          /\ listed.generation <= ListChanges + 2

LEMMA ListsStart ==
  ASSUME ListChanges \in Nat, Lists!Init
  PROVE  LInv /\ Lists!NM!Init
<1>1. listed = EmptyCatalog
  BY ListsConstants DEF Lists!Init
<1>2. EmptyCatalog \in Catalogs(ListTypes) /\ EmptyCatalog.generation = 0
  BY DEF EmptyCatalog, Catalogs
<1>3. Entries(EmptyCatalog) = {} /\ Len(EmptyCatalog.frames) = 0
      /\ Len(EmptyCatalog.views) = 0
  BY DEF EmptyCatalog, Entries
<1>4. Packed(EmptyCatalog)
  BY <1>3 DEF Packed, EmptyCatalog
<1>5. ToSet(EmptyCatalog.keys) = {}
  BY DEF EmptyCatalog, ToSet
<1>6. Lists!Held(EmptyCatalog) = [n \in {} |-> {}]
  BY <1>5, ListsHold DEF Held
<1>7. QED
  BY <1>1, <1>2, <1>4, <1>6 DEF LInv, Lists!NM!Init, Lists!NM!NoNames

LEMMA ListsStep ==
  ASSUME ListChanges \in Nat, LInv, Lists!Next
  PROVE  LInv' /\ Lists!NM!Next
<1> DEFINE c == listed
           d == listed'
<1>0. /\ ListTypes.names = ListNames /\ ListTypes.frames = ListFrames
      /\ ListTypes.keys = ListKeys /\ ListTypes.views = ListViews
  BY DEF ListTypes
<1>1. /\ c \in Catalogs(ListTypes) /\ Packed(c) /\ c.generation < ListChanges
      /\ c.generation \in Nat
  BY CatalogFields DEF LInv, Lists!Next
<1>2. ASSUME NEW e \in Catalogs(ListTypes), listed' = e, Packed(e),
             e.generation \in c.generation .. c.generation + 2
      PROVE  LInv'
  BY <1>1, <1>2 DEF LInv
<1>held. Lists!Held(c) = Held(c) /\ Lists!Held(d) = Held(d)
  BY ListsHold
<1>3. ASSUME NEW n \in ListNames, NEW f \in ListFrames, Lists!Register(n, f)
      PROVE  LInv' /\ Lists!NM!Next
  <2>1. d = register(c, n, f)
    BY <1>3, ListsActions
  <2>2. /\ d \in Catalogs(ListTypes) /\ Packed(d)
        /\ Held(d) = Plus(Held(c), n, FrameEntry(f, <<>>))
        /\ d.generation \in c.generation .. c.generation + 2
    BY <1>0, <1>1, <2>1, RegisterIs
  <2>3. Lists!NM!Register(n, f)
    BY <1>held, <2>2
       DEF Lists!NM!Register, Lists!NM!With, Lists!NM!Frame, Plus, FrameEntry, KIND_FRAME
  <2>4. QED
    BY <1>2, <2>2, <2>3 DEF Lists!NM!Next
<1>4. ASSUME NEW n \in ListNames, NEW f \in ListFrames, Lists!Refill(n, f)
      PROVE  LInv' /\ Lists!NM!Next
  <2>1. IsKind(c, n, KIND_FRAME) /\ d = refill(c, find(c, n), f)
    BY <1>4, ListsActions
  <2>2. /\ d \in Catalogs(ListTypes) /\ Packed(d)
        /\ n \in DOMAIN Held(c) /\ Held(c)[n].kind = KIND_FRAME
        /\ Held(d) = Plus(Held(c), n, FrameEntry(f, Held(c)[n].keys))
        /\ d.generation \in c.generation .. c.generation + 2
    BY <1>0, <1>1, <2>1, RefillIs
  <2>3. Lists!NM!Refill(n, f)
    BY <1>held, <2>2
       DEF Lists!NM!Refill, Lists!NM!HoldsFrame, Lists!NM!With, Lists!NM!Frame, Plus,
           FrameEntry, KIND_FRAME
  <2>4. QED
    BY <1>2, <2>2, <2>3 DEF Lists!NM!Next
<1>5. ASSUME NEW n \in ListNames, NEW v \in ListViews, Lists!Define(n, v)
      PROVE  LInv' /\ Lists!NM!Next
  <2>1. d = define(c, n, v)
    BY <1>5, ListsActions
  <2>2. /\ d \in Catalogs(ListTypes) /\ Packed(d)
        /\ Held(d) = Plus(Held(c), n, ViewEntry(v))
        /\ d.generation \in c.generation .. c.generation + 2
    BY <1>0, <1>1, <2>1, DefineIs
  <2>3. Lists!NM!Define(n, v)
    BY <1>held, <2>2
       DEF Lists!NM!Define, Lists!NM!With, Lists!NM!View, Plus, ViewEntry, KIND_VIEW
  <2>4. QED
    BY <1>2, <2>2, <2>3 DEF Lists!NM!Next
<1>6. ASSUME NEW n \in ListNames, NEW k \in ListKeys, Lists!Constrain(n, k)
      PROVE  LInv' /\ Lists!NM!Next
  <2>1. IsKind(c, n, KIND_FRAME) /\ d = constrain(c, find(c, n), k)
    BY <1>6, ListsActions
  <2>2. /\ d \in Catalogs(ListTypes) /\ Packed(d)
        /\ n \in DOMAIN Held(c) /\ Held(c)[n].kind = KIND_FRAME
        /\ Held(d) = Plus(Held(c), n, FrameEntry(Held(c)[n].frame, k))
        /\ d.generation = c.generation
    BY <1>0, <1>1, <2>1, ConstrainIs
  <2>3. Lists!NM!Constrain(n, k)
    BY <1>held, <2>2
       DEF Lists!NM!Constrain, Lists!NM!HoldsFrame, Lists!NM!With, Lists!NM!Frame, Plus,
           FrameEntry, KIND_FRAME
  <2>4. d.generation \in c.generation .. c.generation + 2
    BY <1>1, <2>2
  <2>5. QED
    BY <1>2, <2>2, <2>3, <2>4 DEF Lists!NM!Next
<1>7. ASSUME NEW n \in ListNames, Lists!Drop(n)
      PROVE  LInv' /\ Lists!NM!Next
  <2>1. d = drop(c, n)
    BY <1>7, ListsActions
  <2>2. /\ d \in Catalogs(ListTypes) /\ Packed(d) /\ Held(d) = Minus(Held(c), n)
        /\ d.generation \in {c.generation, c.generation + 1}
    BY <1>1, <2>1, DropIsMinus
  <2>3. Lists!NM!Drop(n)
    BY <1>held, <2>2 DEF Lists!NM!Drop, Minus
  <2>4. d.generation \in c.generation .. c.generation + 2
    BY <1>1, <2>2
  <2>5. QED
    BY <1>2, <2>2, <2>3, <2>4 DEF Lists!NM!Next
<1>8. QED
  BY <1>3, <1>4, <1>5, <1>6, <1>7 DEF Lists!Next

LEMMA AlwaysLInv ==
  ASSUME ListChanges \in Nat
  PROVE  SqlSpec => []LInv
<1>1. SqlInit => LInv
  BY ListsStart DEF SqlInit
<1>2. LInv /\ UNCHANGED listed => LInv'
  BY DEF LInv, Packed, Entries, Catalogs
<1>3. LInv /\ [SqlNext]_<<vars, others>> => LInv'
  BY <1>2, ListsStep DEF SqlNext, others
<1>4. QED
  BY <1>1, <1>3, PTL DEF SqlSpec

(***************************************************************************)
(* The fields of a catalog keep their types, whatever is called on it.     *)
(***************************************************************************)
THEOREM FieldsKeepTypes ==
  ASSUME ListChanges \in Nat
  PROVE  SqlSpec => []Lists!TypeOK
<1>1. LInv => Lists!TypeOK
  <2>1. SUFFICES ASSUME LInv PROVE Lists!TypeOK
    OBVIOUS
  <2>2. /\ ListTypes.names = ListNames /\ ListTypes.frames = ListFrames
        /\ ListTypes.views = ListViews /\ KeyLists(ListTypes) = ListKeys \cup {<<>>}
    BY DEF ListTypes, KeyLists
  <2>3. listed.generation \in 0 .. ListChanges + 2
    BY <2>1, CatalogFields DEF LInv
  <2>4. QED
    BY <2>1, <2>2, <2>3, CatalogFields, ListsConstants DEF LInv, Lists!TypeOK, Kinds
<1>2. QED
  BY <1>1, AlwaysLInv, PTL

(***************************************************************************)
(* However frames and views are registered, replaced by one another and    *)
(* dropped, no entry points past a payload that moved: for any names the   *)
(* slots of a kind number its payloads, one each, with nothing left over.  *)
(***************************************************************************)
THEOREM SlotsAlwaysPacked ==
  ASSUME ListChanges \in Nat
  PROVE  SqlSpec => []Lists!SlotsStayPacked
<1>1. LInv => WellPacked(listed)
  BY PackedIsWellPacked DEF LInv
<1>2. WellPacked(listed) => Lists!SlotsStayPacked
  BY ListsConstants
     DEF Lists!SlotsStayPacked, Lists!WellPacked, WellPacked, Lists!IsInjective,
         IsInjective
<1>3. QED
  BY <1>1, <1>2, AlwaysLInv, PTL

(***************************************************************************)
(* To its callers the catalog is a map: every call changes the entry it    *)
(* names, as the map would, and no other, whatever it moves in the lists,  *)
(* which are packed at every step.                                         *)
(***************************************************************************)
THEOREM ListsAreAMap ==
  ASSUME ListChanges \in Nat
  PROVE  SqlSpec => ImplementsNameMap
<1>1. SqlInit => Lists!NM!Init
  BY ListsStart DEF SqlInit
<1>2. UNCHANGED listed => UNCHANGED Lists!Held(listed)
  OBVIOUS
<1>3. LInv /\ [SqlNext]_<<vars, others>> => [Lists!NM!Next]_(Lists!Held(listed))
  BY <1>2, ListsStep DEF SqlNext, others
<1>4. SqlSpec => Lists!ImplementsNameMap
  BY <1>1, <1>3, AlwaysLInv, PTL DEF SqlSpec, Lists!ImplementsNameMap, Lists!NM!Spec
<1>5. QED
  BY <1>4, FieldsKeepTypes, SlotsAlwaysPacked, PTL DEF ImplementsNameMap

\* What a session does beside the lists and the calls that share plans is
\* what it does alone.
LEMMA SessionIsASession == SqlSpec => Spec
<1>1. SqlInit => Init
  BY DEF SqlInit
<1>2. [SqlNext]_<<vars, others>> => [Next]_vars
  BY DEF SqlNext, others, Shared!Next, vars, transaction
<1>3. QED
  BY <1>1, <1>2, PTL DEF SqlSpec, Spec
=============================================================================
