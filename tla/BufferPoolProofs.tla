-------------------------- MODULE BufferPoolProofs ---------------------------
(***************************************************************************)
(* Proofs about BufferPool for any callers, allocations and sizes: what is *)
(* taken is zero and nobody else's, and no operation changes the bytes of  *)
(* a buffer it was not given.                                              *)
(*                                                                         *)
(* Both rest on what a refcount says.  A fresh allocation has no buffer on *)
(* it, held or in a list; and when the count is one and a buffer is known  *)
(* to be on it, there is no other.                                         *)
(***************************************************************************)
EXTENDS BufferPool, TLAPS, FiniteSetTheorems, WellFoundedInduction

\* What the constants have to be.  The last conjunct is arithmetic - powers
\* of two are natural numbers - and the provers are not given it.
PoolAssumption ==
  /\ IsFiniteSet(Handles)
  /\ NUM_CLASSES \in Nat \ {0} /\ LimitPerClass \in Nat
  /\ Requests \subseteq Nat /\ OwnSizes \subseteq Nat /\ WindowSizes \subseteq Nat
  /\ \A i \in Class : class_capacity(i) \in Nat

IInv == /\ TypeOK
        /\ held \in [Live -> Buffers]
        /\ free \in [Class -> Seq(Buffers)]
-----------------------------------------------------------------------------
\* A size is given the first class that holds it, or none.
LEMMA SizeClassIs ==
  ASSUME PoolAssumption, NEW n \in Nat
  PROVE  size_class(n) \in Class \cup {-1}
<1>1. CASE n > class_capacity(NUM_CLASSES - 1)
  BY <1>1 DEF size_class
<1>2. CASE ~(n > class_capacity(NUM_CLASSES - 1))
  <2> DEFINE S == {i \in Class : n <= class_capacity(i)}
  <2>1. NUM_CLASSES - 1 \in S /\ S \subseteq Nat
    BY <1>2 DEF PoolAssumption, Class
  <2>2. PICK i \in S : \A j \in S : ~(j < i)
    <3> DEFINE R == {ss \in Nat \X Nat : ss[1] < ss[2]}
    <3>1. IsWellFoundedOn(R, Nat)
      BY NatLessThanWellFounded DEF OpToRel
    <3>2. \A x, y \in Nat : x < y => <<x, y>> \in R
      OBVIOUS
    <3> HIDE DEF R, S
    <3>3. \E x \in S : \A y \in S : ~(<<y, x>> \in R)
      BY <2>1, <3>1, WFMin DEF R
    <3>4. QED
      BY <2>1, <3>2, <3>3
  <2>3. /\ i \in Class /\ n <= class_capacity(i)
        /\ \A j \in 0 .. i - 1 : j \in Class /\ class_capacity(j) \in Nat
    BY DEF Class, PoolAssumption
  <2>4. \A j \in 0 .. i - 1 : class_capacity(j) < n
    BY <2>2, <2>3 DEF Class
  <2>5. QED
    BY <1>2, <2>3, <2>4 DEF size_class
<1>3. QED
  BY <1>1, <1>2

LEMMA CountsAreNumbers ==
  ASSUME PoolAssumption, IInv, NEW a
  PROVE  /\ IsFiniteSet(HeldOn(a)) /\ Cardinality(HeldOn(a)) \in Nat
         /\ IsFiniteSet(PooledOn(a)) /\ Cardinality(PooledOn(a)) \in Nat
<1>1. IsFiniteSet(HeldOn(a))
  BY FS_Subset DEF PoolAssumption, IInv, TypeOK, HeldOn
<1>2. IsFiniteSet(Class) /\ IsFiniteSet(1 .. LimitPerClass)
  BY FS_Interval DEF PoolAssumption, Class
<1>3. IsFiniteSet(Class \X (1 .. LimitPerClass))
  BY <1>2, FS_Product
<1>4. IsFiniteSet(PooledOn(a))
  BY <1>3, FS_Subset DEF PooledOn
<1>5. QED
  BY <1>1, <1>4, FS_CardinalityType

\* Every place in a list is counted.
LEMMA ListsAreCounted ==
  ASSUME PoolAssumption, IInv, NEW c \in Class, NEW k \in DOMAIN free[c]
  PROVE  <<c, k>> \in PooledOn(free[c][k].mem)
<1>1. free[c] \in Seq(Buffers) /\ Len(free[c]) <= LimitPerClass
  BY DEF IInv, TypeOK
<1>2. k \in 1 .. Len(free[c]) /\ Len(free[c]) \in Nat
  BY <1>1
<1>3. k \in 1 .. LimitPerClass
  BY <1>1, <1>2 DEF PoolAssumption
<1>4. QED
  BY <1>2, <1>3 DEF PooledOn

LEMMA FreshIsNobodys ==
  ASSUME PoolAssumption, IInv, NEW a, Fresh(a)
  PROVE  /\ \A h \in Live : held[h].mem # a
         /\ \A c \in Class : \A k \in DOMAIN free[c] : free[c][k].mem # a
<1>1. Cardinality(HeldOn(a)) = 0 /\ Cardinality(PooledOn(a)) = 0
  BY CountsAreNumbers DEF Fresh, Holders
<1>2. HeldOn(a) = {} /\ PooledOn(a) = {}
  BY <1>1, CountsAreNumbers, FS_EmptySet
<1>3. QED
  BY <1>2, ListsAreCounted DEF HeldOn

\* A buffer that a caller writes to has its bytes to itself afterwards.
LEMMA PrivateToHandle ==
  ASSUME PoolAssumption, IInv, NEW h \in Live, NEW a, Private(held[h], a)
  PROVE  \A g \in Live : g # h => held[g].mem # a
<1>1. CASE Holders(held[h].mem) = 1 /\ a = held[h].mem
  <2>1. h \in HeldOn(a)
    BY <1>1 DEF HeldOn
  <2>2. Cardinality(HeldOn(a)) # 0
    BY <2>1, CountsAreNumbers, FS_EmptySet
  <2>3. Cardinality(HeldOn(a)) = 1
    BY <1>1, <2>2, CountsAreNumbers DEF Holders
  <2>4. PICK x : HeldOn(a) = {x}
    BY <2>3, CountsAreNumbers, FS_Singleton
  <2>5. QED
    BY <2>1, <2>4 DEF HeldOn
<1>2. CASE Fresh(a)
  BY <1>2, FreshIsNobodys
<1>3. QED
  BY <1>1, <1>2 DEF Private

\* So has one that is taken off a list.
LEMMA PrivateToTaker ==
  ASSUME PoolAssumption, IInv, NEW c \in Class, free[c] # <<>>,
         NEW a, Private(Last(free[c]), a)
  PROVE  /\ \A g \in Live : held[g].mem # a
         /\ \A d \in Class : \A k \in DOMAIN free[d] :
              <<d, k>> # <<c, Len(free[c])>> => free[d][k].mem # a
<1> DEFINE top == Len(free[c])
<1>1. top \in DOMAIN free[c] /\ Last(free[c]) = free[c][top]
  BY DEF IInv, Last
<1>2. CASE Holders(free[c][top].mem) = 1 /\ a = free[c][top].mem
  <2>1. <<c, top>> \in PooledOn(a)
    BY <1>1, <1>2, ListsAreCounted
  <2>2. Cardinality(PooledOn(a)) # 0
    BY <2>1, CountsAreNumbers, FS_EmptySet
  <2>3. Cardinality(PooledOn(a)) = 1 /\ Cardinality(HeldOn(a)) = 0
    BY <1>2, <2>2, CountsAreNumbers DEF Holders
  <2>4. HeldOn(a) = {}
    BY <2>3, CountsAreNumbers, FS_EmptySet
  <2>5. PICK x : PooledOn(a) = {x}
    BY <2>3, CountsAreNumbers, FS_Singleton
  <2>6. QED
    BY <2>1, <2>4, <2>5, ListsAreCounted DEF HeldOn
<1>3. CASE Fresh(a)
  BY <1>3, FreshIsNobodys
<1>4. QED
  BY <1>1, <1>2, <1>3 DEF Private
-----------------------------------------------------------------------------
LEMMA HoldKeepsHeld ==
  ASSUME PoolAssumption, IInv, NEW h \in Handles, NEW b \in Buffers, Hold(h, b)
  PROVE  /\ held' \in [DOMAIN held' -> Buffers]
         /\ DOMAIN held' = Live \cup {h} /\ DOMAIN held' \subseteq Handles
         /\ held'[h] = b
         /\ \A g \in Live : g # h => held'[g] = held[g]
BY DEF IInv, TypeOK, Hold, Live

LEMMA LetGoKeepsHeld ==
  ASSUME PoolAssumption, IInv, NEW h \in Live, Let_go(h)
  PROVE  /\ held' \in [DOMAIN held' -> Buffers]
         /\ DOMAIN held' = Live \ {h} /\ DOMAIN held' \subseteq Handles
         /\ \A g \in Live : g # h => held'[g] = held[g]
BY DEF IInv, TypeOK, Let_go, Live

\* The last buffer of a list and the list without it.
LEMMA ListsPop ==
  ASSUME PoolAssumption, IInv, NEW c \in Class, free[c] # <<>>
  PROVE  /\ Last(free[c]) \in Buffers
         /\ Front(free[c]) \in Seq(Buffers)
         /\ Len(Front(free[c])) = Len(free[c]) - 1
         /\ Len(free[c]) \in Nat
         /\ \A k \in 1 .. Len(free[c]) - 1 : Front(free[c])[k] = free[c][k]
<1>1. free[c] \in Seq(Buffers) /\ Len(free[c]) \in Nat /\ Len(free[c]) # 0
  BY DEF IInv
<1>2. Last(free[c]) \in Buffers
  BY <1>1 DEF Last
<1>3. Front(free[c]) = SubSeq(free[c], 1, Len(free[c]) - 1)
  BY DEF Front
<1>4. QED
  BY <1>1, <1>2, <1>3

\* What TypeOK says of held and free, once they have their shapes.
LEMMA ShapesAreTypes ==
  ASSUME held' \in [DOMAIN held' -> Buffers], DOMAIN held' \subseteq Handles,
         free' \in [Class -> Seq(Buffers)],
         \A c \in Class : Len(free'[c]) <= LimitPerClass,
         data' \subseteq Allocs
  PROVE  IInv'
<1>1. \A c \in Class : \A k \in DOMAIN free'[c] : free'[c][k] \in Buffers
  OBVIOUS
<1>2. QED
  BY <1>1 DEF IInv, TypeOK, Live, Class
-----------------------------------------------------------------------------
LEMMA InitGivesIInv ==
  ASSUME PoolAssumption, Init
  PROVE  IInv
<1>1. held \in [Live -> Buffers] /\ Live = {}
  BY DEF Init, Live
<1>2. free \in [Class -> Seq(Buffers)] /\ \A c \in Class : free[c] = <<>>
  BY DEF Init
<1>3. QED
  BY <1>1, <1>2 DEF IInv, TypeOK, Init, PoolAssumption

LEMMA TakeRecycledKeepsIInv ==
  ASSUME PoolAssumption, IInv, NEW h \in Handles, NEW n \in Requests,
         TakeRecycled(h, n)
  PROVE  IInv'
<1> DEFINE c == size_class(n)
<1>1. c \in Class /\ free[c] # <<>>
  BY SizeClassIs DEF TakeRecycled, PoolAssumption
<1>2. PICK a \in Allocs :
         /\ Hold(h, [Last(free[c]) EXCEPT !.mem = a, !.window = FALSE, !.size = n])
         /\ data' = data \ {a}
  BY DEF TakeRecycled
<1> HIDE DEF c
<1>3. [Last(free[c]) EXCEPT !.mem = a, !.window = FALSE, !.size = n] \in Buffers
  BY <1>1, ListsPop DEF Buffers, PoolAssumption
<1>4. /\ held' \in [DOMAIN held' -> Buffers]
      /\ DOMAIN held' \subseteq Handles
  BY <1>2, <1>3, HoldKeepsHeld
<1>5. free' = [free EXCEPT ![c] = Front(@)]
  BY DEF TakeRecycled, c
<1>6. free' \in [Class -> Seq(Buffers)]
  BY <1>1, <1>5, ListsPop DEF IInv
<1>7. \A d \in Class : Len(free'[d]) <= LimitPerClass
  <2>1. TAKE d \in Class
  <2>2. CASE d = c
    <3>1. free'[d] = Front(free[c]) /\ Len(free[c]) <= LimitPerClass
      BY <1>1, <1>5, <2>2 DEF IInv, TypeOK
    <3>2. QED
      BY <1>1, <3>1, ListsPop DEF PoolAssumption
  <2>3. CASE d # c
    BY <1>5, <2>3 DEF IInv, TypeOK
  <2>4. QED
    BY <2>2, <2>3
<1>8. QED
  BY <1>2, <1>4, <1>6, <1>7, ShapesAreTypes DEF IInv, TypeOK

LEMMA NewBufferIsABuffer ==
  ASSUME NEW a \in Allocs, NEW k \in Nat, NEW n \in Nat
  PROVE  NewBuffer(a, k, n) \in Buffers
BY DEF NewBuffer, Buffers

\* An action that gives a handle a buffer and leaves the lists alone.
LEMMA HoldKeepsIInv ==
  ASSUME PoolAssumption, IInv, NEW h \in Handles, NEW b \in Buffers,
         Hold(h, b), free' = free, data' \subseteq Allocs
  PROVE  IInv'
<1>1. held' \in [DOMAIN held' -> Buffers] /\ DOMAIN held' \subseteq Handles
  BY HoldKeepsHeld
<1>2. QED
  BY <1>1, ShapesAreTypes DEF IInv, TypeOK

LEMMA TakeNewKeepsIInv ==
  ASSUME PoolAssumption, IInv, NEW h \in Handles, NEW n \in Requests,
         TakeNew(h, n)
  PROVE  IInv'
<1> DEFINE c == size_class(n)
           k == IF c < 0 THEN n ELSE class_capacity(c)
<1>1. n \in Nat /\ k \in Nat
  BY SizeClassIs DEF PoolAssumption, Class
<1>2. PICK a \in Allocs : Hold(h, NewBuffer(a, k, n)) /\ data' = data \ {a}
  BY DEF TakeNew
<1> HIDE DEF k, c
<1>3. NewBuffer(a, k, n) \in Buffers
  BY <1>1, NewBufferIsABuffer
<1>4. QED
  BY <1>2, <1>3, HoldKeepsIInv DEF TakeNew, IInv, TypeOK

LEMMA MakeKeepsIInv ==
  ASSUME PoolAssumption, IInv, NEW h \in Handles, NEW n \in OwnSizes, Make(h, n)
  PROVE  IInv'
<1>1. PICK a \in Allocs : Hold(h, NewBuffer(a, n, n)) /\ data' = data \ {a}
  BY DEF Make
<1>2. NewBuffer(a, n, n) \in Buffers
  BY NewBufferIsABuffer DEF PoolAssumption
<1>3. QED
  BY <1>1, <1>2, HoldKeepsIInv DEF Make, IInv, TypeOK

LEMMA CopyKeepsIInv ==
  ASSUME PoolAssumption, IInv, NEW h \in Handles, NEW g \in Live, Copy(h, g)
  PROVE  IInv'
BY HoldKeepsIInv DEF Copy, IInv, TypeOK

LEMMA WindowKeepsIInv ==
  ASSUME PoolAssumption, IInv, NEW h \in Handles, NEW g \in Live,
         NEW n \in WindowSizes, Window(h, g, n)
  PROVE  IInv'
<1> DEFINE b == [mem |-> held[g].mem, window |-> TRUE, size |-> n, capacity |-> n]
<1>1. held[g] \in Buffers
  BY DEF IInv
<1>2. b \in Buffers
  BY <1>1 DEF Buffers, PoolAssumption
<1>3. Hold(h, b) /\ free' = free /\ data' = data
  BY DEF Window
<1> HIDE DEF b
<1>4. QED
  BY <1>2, <1>3, HoldKeepsIInv DEF IInv, TypeOK

LEMMA GiveKeepsIInv ==
  ASSUME PoolAssumption, IInv, NEW h \in Live, Give(h)
  PROVE  IInv'
<1> DEFINE c == size_class(held[h].capacity)
<1>1. held' \in [DOMAIN held' -> Buffers] /\ DOMAIN held' \subseteq Handles
  BY LetGoKeepsHeld DEF Give
<1>2. free' \in [Class -> Seq(Buffers)]
      /\ \A d \in Class : Len(free'[d]) <= LimitPerClass
  <2>1. held[h] \in Buffers /\ held[h].capacity \in Nat
    BY DEF IInv, Buffers
  <2>2. c \in Class \cup {-1}
    BY <2>1, SizeClassIs DEF PoolAssumption
  <2>3. \A d \in Class : Len(free[d]) <= LimitPerClass /\ Len(free[d]) \in Nat
    BY DEF IInv, TypeOK
  <2>4. CASE c >= 0 /\ HasRoom(c)
    <3>1. free' = [free EXCEPT ![c] = Append(@, held[h])]
      BY <2>4 DEF Give
    <3>2. c \in Class /\ Len(free[c]) < LimitPerClass
      BY <2>2, <2>4 DEF HasRoom
    <3> HIDE DEF c
    <3>3. free[c] \in Seq(Buffers)
      BY <3>2 DEF IInv
    <3>4. Append(free[c], held[h]) \in Seq(Buffers)
          /\ Len(Append(free[c], held[h])) = Len(free[c]) + 1
      BY <2>1, <3>3
    <3>5. free' \in [Class -> Seq(Buffers)]
      BY <3>1, <3>2, <3>4 DEF IInv
    <3>6. \A d \in Class : d # c => free'[d] = free[d]
      BY <3>1 DEF IInv
    <3>7. free'[c] = Append(free[c], held[h])
      BY <3>1, <3>2 DEF IInv
    <3>8. Len(free'[c]) <= LimitPerClass
      BY <2>3, <3>2, <3>4, <3>7 DEF PoolAssumption
    <3>9. QED
      BY <2>3, <3>5, <3>6, <3>8
  <2>5. CASE ~(c >= 0 /\ HasRoom(c))
    <3>1. free' = free
      BY <2>5 DEF Give
    <3>2. QED
      BY <2>3, <3>1 DEF IInv
  <2>6. QED
    BY <2>4, <2>5
<1>3. QED
  BY <1>1, <1>2, ShapesAreTypes DEF Give, IInv, TypeOK

LEMMA WriteKeepsIInv ==
  ASSUME PoolAssumption, IInv, NEW h \in Live, Write(h)
  PROVE  IInv'
<1>1. PICK a \in Allocs :
         /\ held' = [held EXCEPT ![h].mem = a, ![h].window = FALSE]
         /\ data' = data \cup {a}
  BY DEF Write
<1>2. held' \in [DOMAIN held' -> Buffers] /\ DOMAIN held' = Live
  BY <1>1 DEF IInv, Buffers, Live
<1>3. QED
  BY <1>1, <1>2, ShapesAreTypes DEF Write, IInv, TypeOK

LEMMA DropKeepsIInv ==
  ASSUME PoolAssumption, IInv, NEW h \in Live, Drop(h)
  PROVE  IInv'
BY LetGoKeepsHeld, ShapesAreTypes DEF Drop, IInv, TypeOK

LEMMA ClearKeepsIInv ==
  ASSUME PoolAssumption, IInv, Clear
  PROVE  IInv'
<1>1. free' \in [Class -> Seq(Buffers)] /\ \A c \in Class : free'[c] = <<>>
  BY DEF Clear
<1>2. QED
  BY <1>1, ShapesAreTypes DEF Clear, IInv, TypeOK, PoolAssumption, Live

LEMMA StepKeepsIInv ==
  ASSUME PoolAssumption, IInv, [Next]_vars
  PROVE  IInv'
<1>1. CASE UNCHANGED vars
  BY <1>1 DEF vars, IInv, TypeOK, Live, Class
<1>2. ASSUME NEW h \in Handles, NEW n \in Requests, TakeRecycled(h, n)
      PROVE  IInv'
  BY <1>2, TakeRecycledKeepsIInv
<1>3. ASSUME NEW h \in Handles, NEW n \in Requests, TakeNew(h, n)
      PROVE  IInv'
  BY <1>3, TakeNewKeepsIInv
<1>4. ASSUME NEW h \in Handles, NEW n \in OwnSizes, Make(h, n)
      PROVE  IInv'
  BY <1>4, MakeKeepsIInv
<1>5. ASSUME NEW h \in Handles, NEW g \in Live, Copy(h, g)
      PROVE  IInv'
  BY <1>5, CopyKeepsIInv
<1>6. ASSUME NEW h \in Handles, NEW g \in Live, NEW n \in WindowSizes,
             Window(h, g, n)
      PROVE  IInv'
  BY <1>6, WindowKeepsIInv
<1>7. ASSUME NEW h \in Live, Give(h) \/ Write(h) \/ Drop(h)
      PROVE  IInv'
  BY <1>7, GiveKeepsIInv, WriteKeepsIInv, DropKeepsIInv
<1>8. CASE Clear
  BY <1>8, ClearKeepsIInv
<1>9. QED
  BY <1>1, <1>2, <1>3, <1>4, <1>5, <1>6, <1>7, <1>8 DEF Next
-----------------------------------------------------------------------------
ZeroAndPrivate(h) ==
  /\ held'[h].mem \notin data'
  /\ ~held'[h].window
  /\ \A g \in Live : held[g].mem # held'[h].mem
  /\ \A c \in Class : \A k \in DOMAIN free'[c] : free'[c][k].mem # held'[h].mem

LEMMA RecycledIsPrivate ==
  ASSUME PoolAssumption, IInv, NEW h \in Handles, NEW n \in Requests,
         TakeRecycled(h, n)
  PROVE  ZeroAndPrivate(h)
<1> DEFINE c == size_class(n)
<1>1. c \in Class /\ free[c] # <<>>
  BY SizeClassIs DEF TakeRecycled, PoolAssumption
<1>2. PICK a \in Allocs :
         /\ Private(Last(free[c]), a)
         /\ Hold(h, [Last(free[c]) EXCEPT !.mem = a, !.window = FALSE, !.size = n])
         /\ data' = data \ {a}
  BY DEF TakeRecycled
<1>3. free' = [free EXCEPT ![c] = Front(@)]
  BY DEF TakeRecycled
<1> HIDE DEF c
<1>4. Last(free[c]) \in Buffers
  BY <1>1, ListsPop
<1>5. held'[h] = [Last(free[c]) EXCEPT !.mem = a, !.window = FALSE, !.size = n]
  BY <1>2 DEF Hold
<1>6. held'[h].mem = a /\ held'[h].window = FALSE
  BY <1>4, <1>5 DEF Buffers
<1>7. \A g \in Live : held[g].mem # a
  BY <1>1, <1>2, PrivateToTaker
<1>8. ASSUME NEW d \in Class, NEW k \in DOMAIN free'[d]
      PROVE  free'[d][k].mem # a
  <2>1. CASE d = c
    <3>1. free'[c] = Front(free[c])
      BY <1>1, <1>3 DEF IInv
    <3>2. DOMAIN Front(free[c]) = 1 .. Len(free[c]) - 1
      BY <1>1, ListsPop
    <3>3. /\ k \in 1 .. Len(free[c]) - 1 /\ k \in DOMAIN free[c]
          /\ k # Len(free[c])
      BY <1>1, <2>1, <3>1, <3>2, ListsPop DEF IInv
    <3>4. free'[d][k] = free[c][k]
      BY <1>1, <2>1, <3>1, <3>3, ListsPop
    <3>5. QED
      BY <1>1, <1>2, <3>3, <3>4, PrivateToTaker
  <2>2. CASE d # c
    BY <1>1, <1>2, <1>3, <2>2, PrivateToTaker DEF IInv
  <2>3. QED
    BY <2>1, <2>2
<1>9. QED
  BY <1>2, <1>6, <1>7, <1>8 DEF ZeroAndPrivate

LEMMA NewIsPrivate ==
  ASSUME PoolAssumption, IInv, NEW h \in Handles, NEW n \in Requests,
         TakeNew(h, n)
  PROVE  ZeroAndPrivate(h)
<1> DEFINE k == IF size_class(n) < 0 THEN n ELSE class_capacity(size_class(n))
<1>1. PICK a \in Allocs : /\ Fresh(a)
                          /\ Hold(h, NewBuffer(a, k, n))
                          /\ data' = data \ {a}
  BY DEF TakeNew
<1> HIDE DEF k
<1>2. held'[h].mem = a /\ held'[h].window = FALSE
  BY <1>1 DEF Hold, NewBuffer
<1>3. free' = free
  BY DEF TakeNew
<1>4. QED
  BY <1>1, <1>2, <1>3, FreshIsNobodys DEF ZeroAndPrivate

\* What one step leaves a buffer that it does not write through.
Keeps(h) == /\ held'[h] = held[h]
            /\ held[h].mem \in data' <=> held[h].mem \in data

LEMMA OthersKeepTheirBytes ==
  ASSUME PoolAssumption, IInv, [Next]_vars,
         NEW h \in Live, h \in DOMAIN held', ~Write(h)
  PROVE  Keeps(h)
<1>1. CASE UNCHANGED vars
  BY <1>1 DEF vars, Keeps
<1>2. ASSUME NEW g \in Handles, NEW n \in Requests, TakeRecycled(g, n)
      PROVE  Keeps(h)
  <2>1. /\ g \notin Live
        /\ size_class(n) \in Class /\ free[size_class(n)] # <<>>
    BY SizeClassIs, <1>2 DEF TakeRecycled, PoolAssumption
  <2>2. PICK a \in Allocs : /\ Private(Last(free[size_class(n)]), a)
                            /\ data' = data \ {a}
    BY <1>2 DEF TakeRecycled
  <2>3. held[h].mem # a
    BY <2>1, <2>2, PrivateToTaker
  <2>4. held'[h] = held[h]
    BY <1>2, <2>1 DEF TakeRecycled, Hold
  <2>5. QED
    BY <2>2, <2>3, <2>4 DEF Keeps
<1>3. ASSUME NEW g \in Handles, NEW n \in Requests, TakeNew(g, n)
      PROVE  Keeps(h)
  <2>1. PICK a \in Allocs : Fresh(a) /\ data' = data \ {a}
    BY <1>3 DEF TakeNew
  <2>2. held'[h] = held[h]
    BY <1>3 DEF TakeNew, Hold
  <2>3. QED
    BY <2>1, <2>2, FreshIsNobodys DEF Keeps
<1>4. ASSUME NEW g \in Handles, NEW n \in OwnSizes, Make(g, n)
      PROVE  Keeps(h)
  <2>1. PICK a \in Allocs : Fresh(a) /\ data' = data \ {a}
    BY <1>4 DEF Make
  <2>2. held'[h] = held[h]
    BY <1>4 DEF Make, Hold
  <2>3. QED
    BY <2>1, <2>2, FreshIsNobodys DEF Keeps
<1>5. ASSUME NEW g \in Handles, NEW f \in Live, Copy(g, f)
      PROVE  Keeps(h)
  BY <1>5 DEF Copy, Hold, Keeps
<1>6. ASSUME NEW g \in Handles, NEW f \in Live, NEW n \in WindowSizes,
             Window(g, f, n)
      PROVE  Keeps(h)
  BY <1>6 DEF Window, Hold, Keeps
<1>7. ASSUME NEW g \in Live, Give(g) \/ Drop(g)
      PROVE  Keeps(h)
  BY <1>7 DEF Give, Drop, Let_go, Keeps
<1>8. ASSUME NEW g \in Live, Write(g)
      PROVE  Keeps(h)
  <2>1. PICK a \in Allocs :
           /\ Private(held[g], a)
           /\ held' = [held EXCEPT ![g].mem = a, ![g].window = FALSE]
           /\ data' = data \cup {a}
    BY <1>8 DEF Write
  <2>2. g # h
    BY <1>8
  <2>3. held[h].mem # a
    BY <2>1, <2>2, PrivateToHandle
  <2>4. held'[h] = held[h]
    BY <2>1, <2>2 DEF IInv
  <2>5. QED
    BY <2>1, <2>3, <2>4 DEF Keeps
<1>9. CASE Clear
  BY <1>9 DEF Clear, Keeps
<1>10. QED
  BY <1>1, <1>2, <1>3, <1>4, <1>5, <1>6, <1>7, <1>8, <1>9 DEF Next
-----------------------------------------------------------------------------
LEMMA AlwaysIInv ==
  ASSUME PoolAssumption
  PROVE  Spec => []IInv
<1>1. Init => IInv
  BY InitGivesIInv
<1>2. IInv /\ [Next]_vars => IInv'
  BY StepKeepsIInv
<1>3. QED
  BY <1>1, <1>2, PTL DEF Spec

(***************************************************************************)
(* The buffers callers hold and the lists of the pool keep their types,    *)
(* and no list outgrows limit_per_class, whatever is given and taken.      *)
(***************************************************************************)
THEOREM PoolIsWellFormed ==
  ASSUME PoolAssumption
  PROVE  Spec => []TypeOK
<1>1. IInv => TypeOK
  BY DEF IInv
<1>2. QED
  BY <1>1, AlwaysIInv, PTL

(***************************************************************************)
(* take "returns a zeroed buffer", "a private allocation either way": what *)
(* it hands out has no byte that is not zero, and no held buffer and no    *)
(* other pooled one is on its allocation, though a caller may have given   *)
(* the pool a handle and kept a copy of it or a window on it.              *)
(***************************************************************************)
THEOREM TakenBuffersArePrivate ==
  ASSUME PoolAssumption
  PROVE  Spec => TakenIsZeroAndPrivate
<1>1. IInv =>
        \A h \in Handles, n \in Requests :
          TakeRecycled(h, n) \/ TakeNew(h, n) =>
             /\ held'[h].mem \notin data'
             /\ ~held'[h].window
             /\ \A g \in Live : held[g].mem # held'[h].mem
             /\ \A c \in Class : \A k \in DOMAIN free'[c] :
                   free'[c][k].mem # held'[h].mem
  BY RecycledIsPrivate, NewIsPrivate DEF ZeroAndPrivate
<1>2. QED
  BY <1>1, AlwaysIInv, PTL DEF TakenIsZeroAndPrivate

(***************************************************************************)
(* The pool "never writes over bytes someone is reading": no operation of  *)
(* the pool, and none of a caller on a buffer of its own, changes what     *)
(* another buffer reads.                                                   *)
(***************************************************************************)
THEOREM TenantsAreUndisturbed ==
  ASSUME PoolAssumption
  PROVE  Spec => TenantsKeepTheirBytes
<1>1. IInv /\ [Next]_vars =>
        \A h \in Live : (h \in DOMAIN held' /\ ~Write(h)) => Keeps(h)
  BY OthersKeepTheirBytes
<1>2. QED
  BY <1>1, AlwaysIInv, PTL DEF TenantsKeepTheirBytes, Keeps, Spec
=============================================================================
