------------------------- MODULE SharedBufferProofs --------------------------
(***************************************************************************)
(* Proofs about SharedBuffer for any threads, buffers, sizes and blocks:   *)
(* whatever order the steps of the threads take, refcounts count holders,  *)
(* pointers are valid and pads are zero.                                   *)
(*                                                                         *)
(* A mutable use takes up to four steps, between which other threads copy, *)
(* window, drop and unshare the buffers on the same allocation.  The proof *)
(* rests on what the language and make_private exclude: a buffer that is   *)
(* being unshared is used by that thread alone, and one that may be        *)
(* written has its allocation to itself until the use is over.             *)
(*                                                                         *)
(* Then sharing is invisible: SharedBuffer implements ValueBuffers.  A     *)
(* buffer reads as its bytes in its allocation, and part way through a     *)
(* swap as the bytes its unshare has copied.  Each constructor, drop and   *)
(* resize is one step of the value.  Of a mutable use the first step and   *)
(* the last one are: copying out, letting go and storing change nothing    *)
(* that anybody reads.                                                     *)
(*                                                                         *)
(* The last theorems are of the buffers and the pool as parts of a         *)
(* behaviour of the run.                                                   *)
(***************************************************************************)
EXTENDS MCMemory, FiniteSetTheorems, TLAPS

\* What the constants have to be besides what SharedBuffer assumes of them.
BufferAssumption ==
  /\ IsFiniteSet(Handles) /\ IsFiniteSet(Workers)
  /\ None \notin Handles /\ None \notin Allocs

BufferT == [mem : Allocs, offset : Nat, size : Nat, capacity : Nat,
            slack : BOOLEAN]
OpT == [pc : {"idle", "copy", "release", "store", "ready"},
        on : Handles \cup {None}, why : {"none", "write", "zero", "private"},
        new : Allocs \cup {None}]

Shape ==
  /\ buf \in [Live -> BufferT] /\ Live \subseteq Handles
  /\ count \in [Allocs -> Nat]
  /\ bytes = [a \in Allocs |-> bytes[a]]
  /\ \A a \in Allocs : \A i \in DOMAIN bytes[a] : bytes[a][i] \in Byte
  /\ op \in [Workers -> OpT]
  /\ region \in Handles \cup {None}

Unsharing(w) == op[w].pc \in {"copy", "release", "store"}

\* What a thread is doing to a buffer and what it may rely on.
Uses ==
  /\ \A w \in Workers :
       /\ op[w].pc = "idle" => op[w].on = None
       /\ op[w].pc # "idle" => op[w].on \in Live
       /\ op[w].new # None <=> op[w].pc \in {"release", "store"}
       /\ op[w].new # None => count[op[w].new] = 1
       /\ op[w].pc = "ready" => Alone(op[w].on)
       /\ Unsharing(w) => /\ region # op[w].on
                          /\ \A v \in Workers : v # w => op[v].on # op[w].on
  /\ region # None => region \in Live /\ Alone(region)

HoldersOf(a) == {h \in Live : buf[h].mem = a /\ ~Swapping(h)}
MakersOf(a) == {w \in Workers : op[w].new = a}

Counts == \A a \in Allocs :
            count[a] = Cardinality(HoldersOf(a)) + Cardinality(MakersOf(a))

\* The bytes that a buffer, and an unshare, has room for.
Room ==
  /\ \A h \in Live : buf[h].size <= buf[h].capacity
  /\ \A h \in Live : ~Swapping(h) =>
       \A i \in 0 .. buf[h].capacity - 1 :
          buf[h].offset + i \in DOMAIN bytes[buf[h].mem]
  /\ \A w \in Workers : op[w].new # None =>
       DOMAIN bytes[op[w].new] = 0 .. buf[op[w].on].capacity - 1

\* The pads, that of the allocation an unshare has made too.
Pads ==
  /\ PadIsZero
  /\ \A w \in Workers : op[w].new # None =>
       \A i \in buf[op[w].on].size .. buf[op[w].on].capacity - 1 :
          bytes[op[w].new][i] = 0

IInv == Shape /\ Uses /\ Counts /\ Room /\ Pads
-----------------------------------------------------------------------------
LEMMA HoldersAreFinite ==
  ASSUME BufferAssumption, Shape, NEW a
  PROVE  /\ IsFiniteSet(HoldersOf(a)) /\ Cardinality(HoldersOf(a)) \in Nat
         /\ IsFiniteSet(MakersOf(a)) /\ Cardinality(MakersOf(a)) \in Nat
<1>1. HoldersOf(a) \subseteq Handles /\ MakersOf(a) \subseteq Workers
  BY DEF Shape, HoldersOf, MakersOf
<1>2. IsFiniteSet(HoldersOf(a)) /\ IsFiniteSet(MakersOf(a))
  BY <1>1, FS_Subset DEF BufferAssumption
<1>3. QED
  BY <1>2, FS_CardinalityType

\* A buffer that is not part way through a swap is counted.
LEMMA HolderCounts ==
  ASSUME BufferAssumption, Shape, Counts, NEW h \in Live, ~Swapping(h)
  PROVE  count[buf[h].mem] > 0
<1>1. buf[h].mem \in Allocs /\ h \in HoldersOf(buf[h].mem)
  BY DEF Shape, BufferT, HoldersOf
<1>2. Cardinality(HoldersOf(buf[h].mem)) # 0
  BY <1>1, HoldersAreFinite, FS_EmptySet
<1>3. QED
  BY <1>1, <1>2, HoldersAreFinite DEF Counts

LEMMA UncountedIsUnheld ==
  ASSUME BufferAssumption, Shape, Counts, NEW a \in Allocs, count[a] = 0
  PROVE  /\ \A h \in Live : ~Swapping(h) => buf[h].mem # a
         /\ \A w \in Workers : op[w].new # a
<1>1. Cardinality(HoldersOf(a)) = 0 /\ Cardinality(MakersOf(a)) = 0
  BY HoldersAreFinite DEF Counts
<1>2. HoldersOf(a) = {} /\ MakersOf(a) = {}
  BY <1>1, HoldersAreFinite, FS_EmptySet
<1>3. QED
  BY <1>2 DEF HoldersOf, MakersOf

\* A count of one is that of the one buffer that is known.
LEMMA OneIsAlone ==
  ASSUME BufferAssumption, Shape, Counts, NEW h \in Live, ~Swapping(h),
         count[buf[h].mem] = 1
  PROVE  /\ \A g \in Live : g # h /\ ~Swapping(g) => buf[g].mem # buf[h].mem
         /\ \A w \in Workers : op[w].new # buf[h].mem
<1> DEFINE a == buf[h].mem
<1>1. a \in Allocs /\ h \in HoldersOf(a)
  BY DEF Shape, BufferT, HoldersOf
<1>2. Cardinality(HoldersOf(a)) # 0
  BY <1>1, HoldersAreFinite, FS_EmptySet
<1>3. Cardinality(HoldersOf(a)) = 1 /\ Cardinality(MakersOf(a)) = 0
  BY <1>1, <1>2, HoldersAreFinite DEF Counts
<1>4. MakersOf(a) = {}
  BY <1>3, HoldersAreFinite, FS_EmptySet
<1>5. PICK x : HoldersOf(a) = {x}
  BY <1>3, HoldersAreFinite, FS_Singleton
<1>6. QED
  BY <1>1, <1>4, <1>5 DEF HoldersOf, MakersOf

\* And of the one unshare.
LEMMA NewIsOwn ==
  ASSUME BufferAssumption, Shape, Counts, NEW w \in Workers, op[w].new # None,
         count[op[w].new] = 1
  PROVE  /\ \A g \in Live : ~Swapping(g) => buf[g].mem # op[w].new
         /\ \A v \in Workers : v # w => op[v].new # op[w].new
<1> DEFINE a == op[w].new
<1>1. a \in Allocs /\ w \in MakersOf(a)
  BY DEF Shape, OpT, MakersOf
<1>2. Cardinality(MakersOf(a)) # 0
  BY <1>1, HoldersAreFinite, FS_EmptySet
<1>3. Cardinality(MakersOf(a)) = 1 /\ Cardinality(HoldersOf(a)) = 0
  BY <1>1, <1>2, HoldersAreFinite DEF Counts
<1>4. HoldersOf(a) = {}
  BY <1>3, HoldersAreFinite, FS_EmptySet
<1>5. PICK x : MakersOf(a) = {x}
  BY <1>3, HoldersAreFinite, FS_Singleton
<1>6. QED
  BY <1>1, <1>4, <1>5 DEF HoldersOf, MakersOf

\* A buffer that no thread uses, is ready to write or is written by a kernel
\* is not part way through a swap.
LEMMA Steady ==
  ASSUME Shape, Uses, NEW h \in Live
  PROVE  /\ Unused(h) => ~Swapping(h)
         /\ region = h => ~Swapping(h)
         /\ \A w \in Workers : op[w].on = h /\ op[w].pc # "store" => ~Swapping(h)
BY DEF Uses, Unsharing, Swapping, Unused
-----------------------------------------------------------------------------
LEMMA RoundsUp ==
  ASSUME NEW n \in Nat
  PROVE  /\ round_up(n) \in Nat /\ n <= round_up(n)
         /\ n % ALIGNMENT = 0 => round_up(n) = n
<1> DEFINE A == ALIGNMENT
           q == (n + A - 1) \div A
<1>1. A \in Nat /\ A > 0
  BY SizesAreNat
<1> HIDE DEF A
<1>2. q \in Int /\ A * q <= n + A - 1 /\ n + A - 1 < A * q + A
  BY <1>1
<1>3. round_up(n) = q * A
  BY DEF round_up, A
<1> HIDE DEF q
<1>4. q * A = A * q /\ A * q \in Int
  BY <1>1, <1>2
<1>5. A * q > n - 1
  BY <1>1, <1>2, <1>4
<1>6. ASSUME n % A = 0
      PROVE  A * q = n
  <2>1. PICK k \in Int : k = n \div A
    BY <1>1
  <2>2. n = A * k
    BY <1>1, <1>6, <2>1
  <2>3. A * q <= A * k + A - 1 /\ A * k + A - 1 < A * q + A
    BY <1>2, <2>2
  <2>4. q <= k
    BY <1>1, <1>2, <2>1, <2>3
  <2>5. k <= q
    BY <1>1, <1>2, <2>1, <2>3
  <2>6. QED
    BY <1>2, <2>1, <2>2, <2>4, <2>5
<1>7. QED
  BY <1>3, <1>4, <1>5, <1>6 DEF A

LEMMA CapacityHolds ==
  ASSUME NEW n \in Nat
  PROVE  AllocCapacity(n) \in Nat /\ n <= AllocCapacity(n)
BY RoundsUp, SizesAreNat DEF AllocCapacity
-----------------------------------------------------------------------------
\* How a count follows its holders.
LEMMA NobodyMoves ==
  ASSUME Counts, count' = count,
         \A b \in Allocs : HoldersOf(b)' = HoldersOf(b) /\ MakersOf(b)' = MakersOf(b)
  PROVE  Counts'
BY DEF Counts

LEMMA HolderComes ==
  ASSUME BufferAssumption, Shape, Counts, NEW a \in Allocs, NEW h,
         h \notin HoldersOf(a), HoldersOf(a)' = HoldersOf(a) \cup {h},
         count'[a] = count[a] + 1,
         \A b \in Allocs : /\ MakersOf(b)' = MakersOf(b)
                           /\ b # a => /\ HoldersOf(b)' = HoldersOf(b)
                                       /\ count'[b] = count[b]
  PROVE  Counts'
<1>1. Cardinality(HoldersOf(a) \cup {h}) = Cardinality(HoldersOf(a)) + 1
  BY HoldersAreFinite, FS_AddElement
<1>2. count'[a] = Cardinality(HoldersOf(a)') + Cardinality(MakersOf(a)')
  BY <1>1, HoldersAreFinite DEF Counts
<1>3. \A b \in Allocs : b # a =>
        count'[b] = Cardinality(HoldersOf(b)') + Cardinality(MakersOf(b)')
  BY DEF Counts
<1>4. QED
  BY <1>2, <1>3 DEF Counts

LEMMA HolderGoes ==
  ASSUME BufferAssumption, Shape, Counts, NEW a \in Allocs, NEW h,
         h \in HoldersOf(a), HoldersOf(a)' = HoldersOf(a) \ {h},
         count'[a] = count[a] - 1,
         \A b \in Allocs : /\ MakersOf(b)' = MakersOf(b)
                           /\ b # a => /\ HoldersOf(b)' = HoldersOf(b)
                                       /\ count'[b] = count[b]
  PROVE  Counts'
<1>1. Cardinality(HoldersOf(a) \ {h}) = Cardinality(HoldersOf(a)) - 1
  BY HoldersAreFinite, FS_RemoveElement
<1>2. count'[a] = Cardinality(HoldersOf(a)') + Cardinality(MakersOf(a)')
  BY <1>1, HoldersAreFinite DEF Counts
<1>3. \A b \in Allocs : b # a =>
        count'[b] = Cardinality(HoldersOf(b)') + Cardinality(MakersOf(b)')
  BY DEF Counts
<1>4. QED
  BY <1>2, <1>3 DEF Counts

LEMMA MakerComes ==
  ASSUME BufferAssumption, Shape, Counts, NEW a \in Allocs, NEW w,
         w \notin MakersOf(a), MakersOf(a)' = MakersOf(a) \cup {w},
         count'[a] = count[a] + 1,
         \A b \in Allocs : /\ HoldersOf(b)' = HoldersOf(b)
                           /\ b # a => /\ MakersOf(b)' = MakersOf(b)
                                       /\ count'[b] = count[b]
  PROVE  Counts'
<1>1. Cardinality(MakersOf(a) \cup {w}) = Cardinality(MakersOf(a)) + 1
  BY HoldersAreFinite, FS_AddElement
<1>2. count'[a] = Cardinality(HoldersOf(a)') + Cardinality(MakersOf(a)')
  BY <1>1, HoldersAreFinite DEF Counts
<1>3. \A b \in Allocs : b # a =>
        count'[b] = Cardinality(HoldersOf(b)') + Cardinality(MakersOf(b)')
  BY DEF Counts
<1>4. QED
  BY <1>2, <1>3 DEF Counts

\* The unshare hands what it made to the buffer.
LEMMA MakerIsHolder ==
  ASSUME BufferAssumption, Shape, Counts, NEW a \in Allocs, NEW w, NEW h,
         w \in MakersOf(a), MakersOf(a)' = MakersOf(a) \ {w},
         h \notin HoldersOf(a), HoldersOf(a)' = HoldersOf(a) \cup {h},
         count' = count,
         \A b \in Allocs : b # a => /\ HoldersOf(b)' = HoldersOf(b)
                                    /\ MakersOf(b)' = MakersOf(b)
  PROVE  Counts'
<1>1. Cardinality(HoldersOf(a) \cup {h}) = Cardinality(HoldersOf(a)) + 1
  BY HoldersAreFinite, FS_AddElement
<1>2. Cardinality(MakersOf(a) \ {w}) = Cardinality(MakersOf(a)) - 1
  BY HoldersAreFinite, FS_RemoveElement
<1>3. count'[a] = Cardinality(HoldersOf(a)') + Cardinality(MakersOf(a)')
  BY <1>1, <1>2, HoldersAreFinite DEF Counts
<1>4. \A b \in Allocs : b # a =>
        count'[b] = Cardinality(HoldersOf(b)') + Cardinality(MakersOf(b)')
  BY DEF Counts
<1>5. QED
  BY <1>3, <1>4 DEF Counts
-----------------------------------------------------------------------------
LEMMA InitGivesIInv ==
  ASSUME BufferAssumption, Init
  PROVE  IInv
<1>1. Live = {} /\ buf \in [Live -> BufferT]
  BY DEF Init, Live
<1>2. Shape
  <2>1. op \in [Workers -> OpT]
    BY DEF Init, OpT, Idle
  <2>2. bytes = [a \in Allocs |-> bytes[a]] /\ \A a \in Allocs : bytes[a] = <<>>
    BY DEF Init
  <2>3. QED
    BY <1>1, <2>1, <2>2 DEF Init, Shape
<1>3. Uses
  BY DEF Init, Uses, Unsharing, Idle
<1>4. \A a \in Allocs : HoldersOf(a) = {} /\ MakersOf(a) = {}
  BY <1>1 DEF HoldersOf, MakersOf, Init, Idle, BufferAssumption
<1>5. Counts
  <2>1. Cardinality({}) = 0
    BY FS_EmptySet
  <2>2. \A a \in Allocs :
          count[a] = 0 /\ Cardinality(HoldersOf(a)) = 0 /\ Cardinality(MakersOf(a)) = 0
    BY <1>4, <2>1 DEF Init
  <2>3. QED
    BY <2>2 DEF Counts
<1>6. Room /\ Pads
  BY <1>1 DEF Room, Pads, PadIsZero, Init, Idle
<1>7. QED
  BY <1>2, <1>3, <1>5, <1>6 DEF IInv

\* A handle that is not in use is given a buffer.
LEMMA Added ==
  ASSUME BufferAssumption, IInv, NEW h \in Handles, h \notin Live,
         NEW b \in BufferT, buf' = With(h, b), op' = op, region' = region
  PROVE  /\ Live' = Live \cup {h} /\ buf' \in [Live' -> BufferT]
         /\ Live' \subseteq Handles
         /\ buf'[h] = b /\ \A g \in Live : buf'[g] = buf[g]
         /\ \A g : Swapping(g)' <=> Swapping(g)
         /\ ~Swapping(h)
         /\ \A w \in Workers : op[w].on # h
         /\ \A a : MakersOf(a)' = MakersOf(a)
         /\ HoldersOf(b.mem)' = HoldersOf(b.mem) \cup {h}
         /\ \A a : a # b.mem => HoldersOf(a)' = HoldersOf(a)
<1>1. /\ Live' = Live \cup {h} /\ buf' \in [Live' -> BufferT]
      /\ Live' \subseteq Handles
      /\ buf'[h] = b /\ \A g \in Live : buf'[g] = buf[g]
  BY DEF IInv, Shape, With, Live
<1>2. \A g : Swapping(g)' <=> Swapping(g)
  BY DEF Swapping
<1>3. \A w \in Workers : op[w].on # h
  BY DEF IInv, Uses, BufferAssumption
<1>4. ~Swapping(h)
  BY <1>3 DEF Swapping
<1>5. \A a : MakersOf(a)' = MakersOf(a)
  BY DEF MakersOf
<1>6. HoldersOf(b.mem)' = HoldersOf(b.mem) \cup {h}
  BY <1>1, <1>2, <1>4 DEF HoldersOf
<1>7. \A a : a # b.mem => HoldersOf(a)' = HoldersOf(a)
  BY <1>1, <1>2 DEF HoldersOf
<1>8. QED
  BY <1>1, <1>2, <1>3, <1>4, <1>5, <1>6, <1>7

\* The counts that somebody relies on do not move.
LEMMA UsesStand ==
  ASSUME IInv, op' = op, region' = region,
         \A g \in Live : g \in Live' /\ buf'[g] = buf[g],
         \A a \in Allocs : count[a] = 1 =>
            \/ count'[a] = 1
            \/ \E g \in Live : buf[g].mem = a /\ Unused(g),
         Counts, BufferAssumption
  PROVE  Uses'
<1>1. \A w \in Workers : op[w].new # None => count'[op[w].new] = 1
  <2>1. TAKE w \in Workers
  <2>2. HAVE op[w].new # None
  <2>3. op[w].new \in Allocs /\ count[op[w].new] = 1
    BY <2>2 DEF IInv, Shape, OpT, Uses
  <2>4. \A g \in Live : Unused(g) => buf[g].mem # op[w].new
    BY <2>2, <2>3, NewIsOwn, Steady DEF IInv
  <2>5. QED
    BY <2>3, <2>4
<1>2. ASSUME NEW h \in Live, Alone(h), ~Unused(h), ~Swapping(h)
      PROVE  Alone(h)'
  <2>1. buf[h].mem \in Allocs /\ count[buf[h].mem] = 1
    BY <1>2 DEF IInv, Shape, BufferT, Alone
  <2>2. \A g \in Live : Unused(g) => buf[g].mem # buf[h].mem
    BY <1>2, <2>1, OneIsAlone, Steady DEF IInv
  <2>3. QED
    BY <1>2, <2>1, <2>2 DEF Alone
<1>3. \A w \in Workers : op[w].pc = "ready" => Alone(op[w].on)'
  <2>1. TAKE w \in Workers
  <2>2. HAVE op[w].pc = "ready"
  <2>3. /\ op[w].on \in Live /\ Alone(op[w].on) /\ ~Unused(op[w].on)
        /\ ~Swapping(op[w].on)
    BY <2>2, Steady DEF IInv, Uses, Unused
  <2>4. QED
    BY <1>2, <2>3
<1>4. region # None => region \in Live' /\ Alone(region)'
  <2>1. HAVE region # None
  <2>2. region \in Live /\ Alone(region) /\ ~Unused(region) /\ ~Swapping(region)
    BY <2>1, Steady DEF IInv, Uses, Unused
  <2>3. QED
    BY <1>2, <2>2
<1>5. QED
  BY <1>1, <1>3, <1>4 DEF IInv, Uses, Unsharing, Alone

LEMMA AllocateKeeps ==
  ASSUME BufferAssumption, IInv, NEW h \in Handles, NEW n \in Nat,
         NEW fill, \A i \in 0 .. n - 1 : fill[i] \in Byte, Allocate(h, n, fill)
  PROVE  IInv'
<1> DEFINE cap == AllocCapacity(n)
<1>1. PICK a \in Allocs :
         /\ count[a] = 0 /\ count' = [count EXCEPT ![a] = 1]
         /\ bytes' = [bytes EXCEPT ![a] = [i \in 0 .. cap - 1 |->
                                             IF i < n THEN fill[i] ELSE 0]]
         /\ buf' = With(h, [mem |-> a, offset |-> 0, size |-> n,
                            capacity |-> cap, slack |-> FALSE])
  BY DEF Allocate
<1> DEFINE b == [mem |-> a, offset |-> 0, size |-> n, capacity |-> cap,
                 slack |-> FALSE]
<1>2. h \notin Live /\ op' = op /\ region' = region
  BY DEF Allocate
<1>3. cap \in Nat /\ n <= cap
  BY CapacityHolds
<1> HIDE DEF cap
<1>4. b \in BufferT
  BY <1>3 DEF BufferT
<1>5. buf' = With(h, b) /\ b.mem = a /\ b.size = n /\ b.capacity = cap /\ b.offset = 0
  BY <1>1
<1> HIDE DEF b
<1>6. /\ Live' = Live \cup {h} /\ buf' \in [Live' -> BufferT]
      /\ Live' \subseteq Handles
      /\ buf'[h] = b /\ \A g \in Live : buf'[g] = buf[g]
      /\ \A g : Swapping(g)' <=> Swapping(g)
      /\ ~Swapping(h)
      /\ \A w \in Workers : op[w].on # h
      /\ \A x : MakersOf(x)' = MakersOf(x)
      /\ HoldersOf(a)' = HoldersOf(a) \cup {h}
      /\ \A x : x # a => HoldersOf(x)' = HoldersOf(x)
  BY <1>2, <1>4, <1>5, Added
<1>7. /\ \A g \in Live : ~Swapping(g) => buf[g].mem # a
      /\ \A w \in Workers : op[w].new # a
  BY <1>1, UncountedIsUnheld DEF IInv
<1>8. /\ DOMAIN bytes' = Allocs /\ DOMAIN bytes'[a] = 0 .. cap - 1
      /\ \A i \in 0 .. cap - 1 : bytes'[a][i] = IF i < n THEN fill[i] ELSE 0
      /\ \A x \in Allocs : x # a => bytes'[x] = bytes[x]
  BY <1>1 DEF IInv, Shape
<1>9. Shape'
  <2>1. bytes' = [x \in Allocs |-> bytes'[x]]
    BY <1>1 DEF IInv, Shape
  <2>2. count' \in [Allocs -> Nat]
    BY <1>1 DEF IInv, Shape
  <2>3. \A i \in 0 .. cap - 1 : i < n => i \in 0 .. n - 1
    BY <1>3
  <2>4. \A x \in Allocs : \A i \in DOMAIN bytes'[x] : bytes'[x][i] \in Byte
    BY ZenonT(30), <1>8, <2>3, ByteHasZero DEF IInv, Shape
  <2>5. op' \in [Workers -> OpT] /\ region' \in Handles \cup {None}
    BY <1>2 DEF IInv, Shape
  <2>6. QED
    BY <1>6, <2>1, <2>2, <2>4, <2>5 DEF Shape
<1>10. Uses'
  <2>1. \A x \in Allocs : count[x] = 1 => count'[x] = 1
    BY <1>1 DEF IInv, Shape
  <2>2. QED
    BY <1>2, <1>6, <2>1, UsesStand DEF IInv
<1>11. Counts'
  <2>1. count'[a] = count[a] + 1 /\ \A x \in Allocs : x # a => count'[x] = count[x]
    BY <1>1 DEF IInv, Shape
  <2>2. h \notin HoldersOf(a)
    BY <1>2 DEF HoldersOf
  <2>3. QED
    BY <1>6, <2>1, <2>2, HolderComes DEF IInv
<1>12. \A g \in Live : ~Swapping(g) =>
         /\ buf'[g].mem \in Allocs
         /\ buf'[g] = buf[g] /\ bytes'[buf'[g].mem] = bytes[buf[g].mem]
  BY <1>6, <1>7, <1>8 DEF IInv, Shape, BufferT
<1>13. \A w \in Workers : op[w].new # None =>
         /\ bytes'[op[w].new] = bytes[op[w].new]
         /\ buf'[op[w].on] = buf[op[w].on]
  BY <1>6, <1>7, <1>8 DEF IInv, Shape, OpT, Uses
<1>14. Room'
  <2>1. \A g \in Live' : buf'[g].size <= buf'[g].capacity
    BY <1>3, <1>5, <1>6 DEF IInv, Room
  <2>2. \A i \in 0 .. buf'[h].capacity - 1 :
          buf'[h].offset + i \in DOMAIN bytes'[buf'[h].mem]
    BY <1>3, <1>5, <1>6, <1>8
  <2>3. \A g \in Live' : ~Swapping(g)' =>
          \A i \in 0 .. buf'[g].capacity - 1 :
             buf'[g].offset + i \in DOMAIN bytes'[buf'[g].mem]
    BY <1>6, <1>12, <2>2 DEF IInv, Room
  <2>4. \A w \in Workers : op'[w].new # None =>
          DOMAIN bytes'[op'[w].new] = 0 .. buf'[op'[w].on].capacity - 1
    BY <1>2, <1>13 DEF IInv, Room
  <2>5. QED
    BY <2>1, <2>3, <2>4 DEF Room
<1>15. Pads'
  <2>1. \A i \in buf'[h].size .. buf'[h].capacity - 1 :
          bytes'[buf'[h].mem][buf'[h].offset + i] = 0
    BY <1>3, <1>5, <1>6, <1>8
  <2>2. PadIsZero'
    BY <1>6, <1>12, <2>1 DEF IInv, Pads, PadIsZero
  <2>3. \A w \in Workers : op'[w].new # None =>
          \A i \in buf'[op'[w].on].size .. buf'[op'[w].on].capacity - 1 :
             bytes'[op'[w].new][i] = 0
    BY <1>2, <1>13 DEF IInv, Pads
  <2>4. QED
    BY <2>2, <2>3 DEF Pads
<1>16. QED
  BY <1>9, <1>10, <1>11, <1>14, <1>15 DEF IInv

\* A handle that is not in use is given a share of what another one holds.
LEMMA ShareKeeps ==
  ASSUME BufferAssumption, IInv, NEW h \in Handles, h \notin Live,
         NEW g \in Live, Unused(g), NEW b \in BufferT,
         b.mem = buf[g].mem, b.size <= b.capacity,
         buf[g].offset <= b.offset,
         b.offset + b.capacity <= buf[g].offset + buf[g].capacity,
         ~b.slack => ~buf[g].slack /\ \A i \in b.size .. b.capacity - 1 :
                       b.offset + i >= buf[g].offset + buf[g].size,
         buf' = With(h, b), Retain(buf[g].mem),
         bytes' = bytes, op' = op, region' = region
  PROVE  IInv'
<1>0. PICK a : a = buf[g].mem
  OBVIOUS
<1>1. a \in Allocs /\ ~Swapping(g) /\ buf[g] \in BufferT
  BY <1>0, Steady DEF IInv, Shape, BufferT
<1>2. count' = [count EXCEPT ![a] = count[a] + 1]
  BY <1>0 DEF Retain
<1>3. b.mem = a
  BY <1>0
<1>4. /\ Live' = Live \cup {h} /\ buf' \in [Live' -> BufferT]
      /\ Live' \subseteq Handles
      /\ buf'[h] = b /\ \A x \in Live : buf'[x] = buf[x]
      /\ \A x : Swapping(x)' <=> Swapping(x)
      /\ ~Swapping(h)
      /\ \A w \in Workers : op[w].on # h
      /\ \A x : MakersOf(x)' = MakersOf(x)
      /\ HoldersOf(a)' = HoldersOf(a) \cup {h}
      /\ \A x : x # a => HoldersOf(x)' = HoldersOf(x)
  BY <1>3, Added
<1>5. Shape'
  <2>1. count' \in [Allocs -> Nat]
    BY <1>1, <1>2 DEF IInv, Shape
  <2>2. /\ bytes' = [x \in Allocs |-> bytes'[x]]
        /\ \A x \in Allocs : \A i \in DOMAIN bytes'[x] : bytes'[x][i] \in Byte
        /\ op' \in [Workers -> OpT] /\ region' \in Handles \cup {None}
    BY DEF IInv, Shape
  <2>3. buf' \in [Live' -> BufferT] /\ Live' \subseteq Handles
    BY <1>4
  <2>4. QED
    BY <2>1, <2>2, <2>3 DEF Shape
<1>6. Uses'
  <2>1. \A x \in Allocs : count[x] = 1 => count'[x] = 1 \/ buf[g].mem = x
    BY <1>0, <1>2 DEF IInv, Shape
  <2>2. \A x \in Live : x \in Live' /\ buf'[x] = buf[x]
    BY <1>4
  <2>3. QED
    BY <2>1, <2>2, UsesStand DEF IInv
<1>7. Counts'
  <2>1. count'[a] = count[a] + 1 /\ \A x \in Allocs : x # a => count'[x] = count[x]
    BY <1>1, <1>2 DEF IInv, Shape
  <2>2. h \notin HoldersOf(a)
    BY DEF HoldersOf
  <2>3. \A x \in Allocs : /\ MakersOf(x)' = MakersOf(x)
                          /\ x # a => /\ HoldersOf(x)' = HoldersOf(x)
                                      /\ count'[x] = count[x]
    BY <1>4, <2>1
  <2>4. HoldersOf(a)' = HoldersOf(a) \cup {h}
    BY <1>4
  <2>5. Shape /\ Counts
    BY DEF IInv
  <2>6. QED
    BY <1>1, <2>1, <2>2, <2>3, <2>4, <2>5, HolderComes
<1>8. \A w \in Workers : op[w].new # None => buf'[op[w].on] = buf[op[w].on]
  BY <1>4 DEF IInv, Shape, OpT, Uses
<1>9. Room'
  <2>1. \A x \in Live' : buf'[x].size <= buf'[x].capacity
    BY <1>4 DEF IInv, Room
  <2>2. \A i \in 0 .. b.capacity - 1 : b.offset + i \in DOMAIN bytes[a]
    <3>1. TAKE i \in 0 .. b.capacity - 1
    <3>2. PICK j \in 0 .. buf[g].capacity - 1 : buf[g].offset + j = b.offset + i
      <4>1. b.offset + i - buf[g].offset \in 0 .. buf[g].capacity - 1
        BY <1>1 DEF BufferT
      <4>2. buf[g].offset + (b.offset + i - buf[g].offset) = b.offset + i
        BY <1>1 DEF BufferT
      <4>3. QED
        BY <4>1, <4>2
    <3>3. buf[g].offset + j \in DOMAIN bytes[a]
      BY <1>0, <1>1 DEF IInv, Room
    <3>4. QED
      BY <3>2, <3>3
  <2>3. \A x \in Live' : ~Swapping(x)' =>
          \A i \in 0 .. buf'[x].capacity - 1 :
             buf'[x].offset + i \in DOMAIN bytes'[buf'[x].mem]
    BY <1>3, <1>4, <2>2 DEF IInv, Room
  <2>4. \A w \in Workers : op'[w].new # None =>
          DOMAIN bytes'[op'[w].new] = 0 .. buf'[op'[w].on].capacity - 1
    BY <1>8 DEF IInv, Room
  <2>5. QED
    BY <2>1, <2>3, <2>4 DEF Room
<1>10. Pads'
  <2>1. ASSUME ~b.slack
        PROVE  \A i \in b.size .. b.capacity - 1 : bytes[a][b.offset + i] = 0
    <3>1. TAKE i \in b.size .. b.capacity - 1
    <3>2. PICK j \in buf[g].size .. buf[g].capacity - 1 :
             buf[g].offset + j = b.offset + i
      <4>1. b.offset + i >= buf[g].offset + buf[g].size
        BY <2>1
      <4>2. b.offset + i - buf[g].offset \in buf[g].size .. buf[g].capacity - 1
        BY <1>1, <4>1 DEF BufferT
      <4>3. buf[g].offset + (b.offset + i - buf[g].offset) = b.offset + i
        BY <1>1 DEF BufferT
      <4>4. QED
        BY <4>2, <4>3
    <3>3. bytes[a][buf[g].offset + j] = 0
      BY <1>0, <1>1, <2>1 DEF IInv, Pads, PadIsZero
    <3>4. QED
      BY <3>2, <3>3
  <2>2. PadIsZero'
    BY <1>3, <1>4, <2>1 DEF IInv, Pads, PadIsZero
  <2>3. \A w \in Workers : op'[w].new # None =>
          \A i \in buf'[op'[w].on].size .. buf'[op'[w].on].capacity - 1 :
             bytes'[op'[w].new][i] = 0
    BY <1>8 DEF IInv, Pads
  <2>4. QED
    BY <2>2, <2>3 DEF Pads
<1>11. QED
  BY <1>5, <1>6, <1>7, <1>9, <1>10 DEF IInv

LEMMA CopyOfKeeps ==
  ASSUME BufferAssumption, IInv, NEW h \in Handles, NEW g \in Live, CopyOf(h, g)
  PROVE  IInv'
<1> DEFINE b == buf[g]
<1>1. b \in BufferT /\ b.size <= b.capacity
  BY DEF IInv, Shape, Room
<1>2. \A i \in b.size .. b.capacity - 1 : b.offset + i >= b.offset + b.size
  BY <1>1 DEF BufferT
<1>3. b.offset <= b.offset /\ b.offset + b.capacity <= b.offset + b.capacity
  BY <1>1 DEF BufferT
<1>4. QED
  BY <1>1, <1>2, <1>3, ShareKeeps DEF CopyOf

LEMMA WindowOfKeeps ==
  ASSUME BufferAssumption, IInv, NEW h \in Handles, NEW g \in Live,
         NEW at \in 0 .. buf[g].size, NEW n \in 0 .. buf[g].size,
         WindowOf(h, g, at, n)
  PROVE  IInv'
<1> DEFINE cap == WindowCapacity(g, at, n)
           b == [mem |-> buf[g].mem, offset |-> buf[g].offset + at,
                 size |-> n, capacity |-> cap, slack |-> buf[g].slack]
<1>1. /\ buf[g] \in BufferT /\ buf[g].size <= buf[g].capacity
      /\ at + n <= buf[g].size /\ (n % ALIGNMENT = 0 \/ at + n = buf[g].size)
  BY DEF IInv, Shape, Room, WindowOf
<1>2. at \in Nat /\ n \in Nat
  BY <1>1 DEF BufferT
<1>3. /\ round_up(n) \in Nat /\ n <= round_up(n)
      /\ n % ALIGNMENT = 0 => round_up(n) = n
  BY <1>2, RoundsUp
<1>4. /\ cap \in Nat /\ n <= cap /\ at + cap <= buf[g].capacity
      /\ n % ALIGNMENT = 0 => cap = n
  BY <1>1, <1>2, <1>3 DEF BufferT, WindowCapacity, Smaller
<1>5. buf' = With(h, b)
  BY DEF WindowOf
<1> HIDE DEF cap
<1>6. b \in BufferT
  BY <1>1, <1>2, <1>4 DEF BufferT
<1>7. /\ b.mem = buf[g].mem /\ b.offset = buf[g].offset + at /\ b.size = n
      /\ b.capacity = cap /\ b.slack = buf[g].slack
  OBVIOUS
<1> HIDE DEF b
<1>8. /\ b.size <= b.capacity /\ buf[g].offset <= b.offset
      /\ b.offset + b.capacity <= buf[g].offset + buf[g].capacity
  BY <1>1, <1>2, <1>4, <1>7 DEF BufferT
<1>9. \A i \in b.size .. b.capacity - 1 :
        b.offset + i >= buf[g].offset + buf[g].size
  <2>1. CASE n % ALIGNMENT = 0
    BY <1>2, <1>4, <1>7, <2>1
  <2>2. CASE at + n = buf[g].size
    BY <1>1, <1>2, <1>4, <1>7, <2>2 DEF BufferT
  <2>3. QED
    BY <1>1, <2>1, <2>2
<1>10. h \notin Live /\ Unused(g) /\ Retain(buf[g].mem) /\ bytes' = bytes
       /\ op' = op /\ region' = region
  BY DEF WindowOf
<1>11. QED
  BY <1>5, <1>6, <1>7, <1>8, <1>9, <1>10, ShareKeeps
-----------------------------------------------------------------------------
\* A count goes down: only what nobody else relies on is touched.
LEMMA LetGo ==
  ASSUME BufferAssumption, IInv, NEW h \in Live, ~Swapping(h),
         NEW a, a = buf[h].mem, Release(a)
  PROVE  /\ a \in Allocs /\ h \in HoldersOf(a)
         /\ count' \in [Allocs -> Nat] /\ count'[a] = count[a] - 1
         /\ \A x \in Allocs : x # a => count'[x] = count[x]
         /\ bytes' = [x \in Allocs |-> bytes'[x]]
         /\ \A x \in Allocs : \A i \in DOMAIN bytes'[x] : bytes'[x][i] \in Byte
         /\ \A g \in Live : g # h /\ ~Swapping(g) =>
               /\ bytes'[buf[g].mem] = bytes[buf[g].mem]
               /\ count[buf[g].mem] = 1 => count'[buf[g].mem] = 1
         /\ \A w \in Workers : op[w].new # None =>
               /\ bytes'[op[w].new] = bytes[op[w].new]
               /\ count'[op[w].new] = 1
<1>1. a \in Allocs /\ h \in HoldersOf(a)
  BY DEF IInv, Shape, BufferT, HoldersOf
<1>2. count \in [Allocs -> Nat] /\ count[a] > 0
  BY HolderCounts DEF IInv, Shape
<1>3. /\ count' \in [Allocs -> Nat] /\ count'[a] = count[a] - 1
      /\ \A x \in Allocs : x # a => count'[x] = count[x]
  BY <1>1, <1>2 DEF Release
<1>4. /\ bytes' = [x \in Allocs |-> bytes'[x]]
      /\ \A x \in Allocs : x # a => bytes'[x] = bytes[x]
      /\ bytes'[a] = IF count[a] = 1 THEN <<>> ELSE bytes[a]
  BY <1>1 DEF IInv, Shape, Release
<1>5. \A x \in Allocs : \A i \in DOMAIN bytes'[x] : bytes'[x][i] \in Byte
  BY <1>4 DEF IInv, Shape
<1>6. ASSUME NEW g \in Live, g # h, ~Swapping(g)
      PROVE  /\ bytes'[buf[g].mem] = bytes[buf[g].mem]
             /\ count[buf[g].mem] = 1 => count'[buf[g].mem] = 1
  <2>1. buf[g].mem \in Allocs
    BY DEF IInv, Shape, BufferT
  <2>2. count[a] = 1 => buf[g].mem # a
    BY <1>6, OneIsAlone DEF IInv
  <2>3. QED
    BY <1>3, <1>4, <2>1, <2>2
<1>7. ASSUME NEW w \in Workers, op[w].new # None
      PROVE  /\ bytes'[op[w].new] = bytes[op[w].new]
             /\ count'[op[w].new] = 1
  <2>1. op[w].new \in Allocs /\ count[op[w].new] = 1
    BY <1>7 DEF IInv, Shape, OpT, Uses
  <2>2. op[w].new # a
    BY <1>7, <2>1, NewIsOwn DEF IInv
  <2>3. QED
    BY <1>3, <1>4, <2>1, <2>2
<1>8. QED
  BY <1>1, <1>3, <1>4, <1>5, <1>6, <1>7

LEMMA DropKeeps ==
  ASSUME BufferAssumption, IInv, NEW h \in Live, Drop(h)
  PROVE  IInv'
<1>1. PICK a : a = buf[h].mem
  OBVIOUS
<1>2. ~Swapping(h) /\ Release(a) /\ op' = op /\ region' = region
  BY <1>1, Steady DEF IInv, Drop
<1>3. /\ a \in Allocs /\ h \in HoldersOf(a)
      /\ count' \in [Allocs -> Nat] /\ count'[a] = count[a] - 1
      /\ \A x \in Allocs : x # a => count'[x] = count[x]
      /\ bytes' = [x \in Allocs |-> bytes'[x]]
      /\ \A x \in Allocs : \A i \in DOMAIN bytes'[x] : bytes'[x][i] \in Byte
      /\ \A g \in Live : g # h /\ ~Swapping(g) =>
            /\ bytes'[buf[g].mem] = bytes[buf[g].mem]
            /\ count[buf[g].mem] = 1 => count'[buf[g].mem] = 1
      /\ \A w \in Workers : op[w].new # None =>
            /\ bytes'[op[w].new] = bytes[op[w].new]
            /\ count'[op[w].new] = 1
  BY <1>1, <1>2, LetGo
<1>4. /\ Live' = Live \ {h} /\ \A g \in Live : g # h => buf'[g] = buf[g]
      /\ buf' = [g \in Live' |-> buf'[g]]
  BY DEF Drop, Live
<1>5. region # h /\ \A w \in Workers : op[w].on # h
  BY DEF Drop, Unused
<1>6. \A g : Swapping(g)' <=> Swapping(g)
  BY <1>2 DEF Swapping
<1>7. Shape'
  <2>1. \A g \in Live' : buf'[g] \in BufferT
    BY <1>4 DEF IInv, Shape
  <2>2. buf' \in [Live' -> BufferT] /\ Live' \subseteq Handles
    BY <1>4, <2>1 DEF IInv, Shape
  <2>3. op' \in [Workers -> OpT] /\ region' \in Handles \cup {None}
    BY <1>2 DEF IInv, Shape
  <2>4. QED
    BY <1>3, <2>2, <2>3 DEF Shape
<1>8. \A g \in Live : g # h /\ ~Swapping(g) /\ Alone(g) => Alone(g)'
  BY <1>3, <1>4 DEF Alone
<1>9. Uses'
  <2>1. \A w \in Workers : op[w].pc = "ready" => Alone(op[w].on)'
    <3>1. TAKE w \in Workers
    <3>2. HAVE op[w].pc = "ready"
    <3>3. op[w].on \in Live /\ ~Swapping(op[w].on) /\ Alone(op[w].on)
      BY <3>2, Steady DEF IInv, Uses
    <3>4. QED
      BY <1>2, <1>5, <1>8, <3>3 DEF Alone
  <2>2. region # None => region \in Live' /\ Alone(region)'
    <3>1. HAVE region # None
    <3>2. region \in Live /\ ~Swapping(region) /\ Alone(region) /\ region # h
      BY <1>5, <3>1, Steady DEF IInv, Uses
    <3>3. QED
      BY <1>2, <1>4, <1>8, <3>2 DEF Alone
  <2>3. QED
    BY <1>2, <1>3, <1>4, <1>5, <2>1, <2>2 DEF IInv, Uses, Unsharing, Alone
<1>10. Counts'
  <2>1. \A x \in Allocs : MakersOf(x)' = MakersOf(x)
    BY <1>2 DEF MakersOf
  <2>2. HoldersOf(a)' = HoldersOf(a) \ {h}
    BY <1>4, <1>6 DEF HoldersOf
  <2>3. \A x \in Allocs : x # a => HoldersOf(x)' = HoldersOf(x)
    BY <1>1, <1>4, <1>6 DEF HoldersOf
  <2>4. \A x \in Allocs : /\ MakersOf(x)' = MakersOf(x)
                          /\ x # a => /\ HoldersOf(x)' = HoldersOf(x)
                                      /\ count'[x] = count[x]
    BY <1>3, <2>1, <2>3
  <2>5. QED
    BY <1>3, <2>2, <2>4, HolderGoes DEF IInv
<1>11. \A w \in Workers : op[w].new # None =>
         op[w].on # h /\ buf'[op[w].on] = buf[op[w].on]
  BY <1>4, <1>5 DEF IInv, Shape, OpT, Uses
<1>12. Room'
  BY <1>2, <1>3, <1>4, <1>6, <1>11 DEF IInv, Room
<1>13. Pads'
  BY <1>2, <1>3, <1>4, <1>6, <1>11 DEF IInv, Pads, PadIsZero
<1>14. QED
  BY <1>7, <1>9, <1>10, <1>12, <1>13 DEF IInv

LEMMA SetSizeKeeps ==
  ASSUME BufferAssumption, IInv, NEW h \in Live, NEW n \in Nat, SetSize(h, n)
  PROVE  IInv'
<1>1. /\ ~Swapping(h) /\ op' = op /\ region' = region
      /\ count' = count /\ bytes' = bytes /\ n <= buf[h].capacity
      /\ \A w \in Workers : op[w].on # h
  BY Steady DEF IInv, SetSize, Unused
<1>2. /\ buf'[h] = [buf[h] EXCEPT !.size = n, !.slack = @ \/ n < buf[h].size]
      /\ \A g \in Live : g # h => buf'[g] = buf[g]
      /\ buf' = [g \in Live |-> buf'[g]] /\ Live' = Live
  BY DEF IInv, Shape, SetSize, Live
<1>3. buf[h] \in BufferT /\ (buf[h].slack \/ n < buf[h].size) \in BOOLEAN
  BY DEF IInv, Shape, BufferT
<1>4. /\ buf'[h] \in BufferT /\ buf'[h].mem = buf[h].mem
      /\ buf'[h].offset = buf[h].offset /\ buf'[h].size = n
      /\ buf'[h].capacity = buf[h].capacity
      /\ buf'[h].slack = (buf[h].slack \/ n < buf[h].size)
  BY <1>2, <1>3 DEF BufferT
<1>5. \A g : Swapping(g)' <=> Swapping(g)
  BY <1>1 DEF Swapping
<1>6. Shape'
  <2>1. \A g \in Live : buf'[g] \in BufferT
    BY <1>2, <1>4 DEF IInv, Shape
  <2>2. buf' \in [Live' -> BufferT]
    BY <1>2, <2>1
  <2>3. QED
    BY <1>1, <1>2, <2>2 DEF IInv, Shape
<1>7. \A g \in Live : buf'[g].mem = buf[g].mem /\ buf'[g].offset = buf[g].offset
  BY <1>2, <1>4
<1>8. Uses'
  BY <1>1, <1>2, <1>7 DEF IInv, Uses, Unsharing, Alone
<1>9. Counts'
  <2>1. \A x \in Allocs : HoldersOf(x)' = HoldersOf(x) /\ MakersOf(x)' = MakersOf(x)
    BY <1>1, <1>2, <1>5, <1>7 DEF HoldersOf, MakersOf
  <2>2. QED
    BY <1>1, <2>1, NobodyMoves DEF IInv
<1>10. \A w \in Workers : op[w].new # None => buf'[op[w].on] = buf[op[w].on]
  BY <1>1, <1>2 DEF IInv, Shape, OpT, Uses
<1>11. Room'
  <2>1. \A g \in Live : buf'[g].size <= buf'[g].capacity
    BY <1>1, <1>2, <1>4 DEF IInv, Room
  <2>2. \A g \in Live : buf'[g].capacity = buf[g].capacity
    BY <1>2, <1>4
  <2>3. QED
    BY <1>1, <1>2, <1>5, <1>7, <1>10, <2>1, <2>2 DEF IInv, Room
<1>12. Pads'
  <2>1. ASSUME ~buf'[h].slack
        PROVE  \A i \in buf'[h].size .. buf'[h].capacity - 1 :
                 bytes[buf[h].mem][buf[h].offset + i] = 0
    <3>1. ~buf[h].slack /\ buf[h].size <= n
      BY <1>3, <1>4, <2>1 DEF BufferT
    <3>2. \A i \in n .. buf[h].capacity - 1 :
            i \in buf[h].size .. buf[h].capacity - 1
      BY <1>3, <3>1 DEF BufferT
    <3>3. QED
      BY <1>1, <1>4, <3>1, <3>2 DEF IInv, Pads, PadIsZero
  <2>2. \A g \in Live' : ~Swapping(g)' /\ ~buf'[g].slack =>
          \A i \in buf'[g].size .. buf'[g].capacity - 1 :
             bytes'[buf'[g].mem][buf'[g].offset + i] = 0
    <3>1. TAKE g \in Live'
    <3>2. CASE g = h
      BY <1>1, <1>4, <2>1, <3>2
    <3>3. CASE g # h
      BY <1>1, <1>2, <1>5, <3>3 DEF IInv, Pads, PadIsZero
    <3>4. QED
      BY <3>2, <3>3
  <2>3. PadIsZero'
    BY <2>2 DEF PadIsZero
  <2>4. QED
    BY <1>1, <1>10, <2>3 DEF IInv, Pads
<1>13. QED
  BY <1>6, <1>8, <1>9, <1>11, <1>12 DEF IInv
-----------------------------------------------------------------------------
\* A mutable use begins.
LEMMA AskKeeps ==
  ASSUME BufferAssumption, IInv, NEW w \in Workers, NEW h \in Live,
         NEW why \in {"write", "zero", "private"}, Ask(w, h, why)
  PROVE  IInv'
<1>1. /\ op[w].pc = "idle" /\ (Unused(h) \/ region = h) /\ buf' = buf
      /\ count' = count /\ bytes' = bytes /\ region' = region /\ Live' = Live
  BY DEF Ask, Live
<1>2. /\ op'[w] = [pc |-> IF Alone(h) THEN "ready" ELSE "copy",
                   on |-> h, why |-> why, new |-> None]
      /\ \A v \in Workers : v # w => op'[v] = op[v]
      /\ op' = [v \in Workers |-> op'[v]]
  BY DEF IInv, Shape, Ask
<1>3. /\ op'[w].on = h /\ op'[w].new = None
      /\ op'[w].pc = IF Alone(h) THEN "ready" ELSE "copy"
  BY <1>2
<1>4. op[w].new = None /\ op[w].on = None
  BY <1>1 DEF IInv, Uses
<1>5. \A g : Swapping(g)' <=> Swapping(g)
  BY <1>1, <1>2, <1>3 DEF Swapping
<1>6. Shape'
  <2>1. h \in Handles
    BY DEF IInv, Shape
  <2>2. op'[w] \in OpT
    BY <1>2, <2>1 DEF OpT
  <2>3. \A v \in Workers : op'[v] \in OpT
    BY <1>2, <2>2 DEF IInv, Shape
  <2>4. op' \in [Workers -> OpT]
    BY <1>2, <2>3
  <2>5. QED
    BY <1>1, <2>4 DEF IInv, Shape
<1>7. Uses'
  <2>1. region = h => Alone(h)
    BY DEF IInv, Uses, BufferAssumption, Shape
  <2>2. ~Alone(h) => region # h /\ \A v \in Workers : op[v].on # h
    BY <1>1, <2>1 DEF Unused
  <2>3. \A v \in Workers : Unsharing(v) => op[v].on # h
    BY <1>1 DEF IInv, Uses, Unused
  <2>4. h # None
    BY DEF IInv, Shape, BufferAssumption
  <2>5. \A v \in Workers : Unsharing(v)' =>
          /\ region # op'[v].on
          /\ \A x \in Workers : x # v => op'[x].on # op'[v].on
    <3>1. TAKE v \in Workers
    <3>2. CASE v = w
      BY <1>2, <1>3, <2>2, <3>2 DEF Unsharing
    <3>3. CASE v # w
      BY <1>2, <1>3, <2>3, <3>3 DEF IInv, Uses, Unsharing
    <3>4. QED
      BY <3>2, <3>3
  <2>6. \A v \in Workers :
          /\ op'[v].pc = "idle" => op'[v].on = None
          /\ op'[v].pc # "idle" => op'[v].on \in Live
          /\ op'[v].new # None <=> op'[v].pc \in {"release", "store"}
          /\ op'[v].new # None => count[op'[v].new] = 1
          /\ op'[v].pc = "ready" => /\ count[buf[op'[v].on].mem] = 1
                                    /\ buf[op'[v].on].offset = 0
    <3>1. TAKE v \in Workers
    <3>2. CASE v = w
      BY <1>3, <3>2 DEF Alone
    <3>3. CASE v # w
      BY <1>2, <3>3 DEF IInv, Uses, Alone
    <3>4. QED
      BY <3>2, <3>3
  <2>7. QED
    BY <1>1, <2>5, <2>6 DEF IInv, Uses, Alone
<1>8. Counts'
  <2>1. \A x : HoldersOf(x)' = HoldersOf(x)
    BY <1>1, <1>5 DEF HoldersOf
  <2>2. \A x \in Allocs : MakersOf(x)' = MakersOf(x)
    BY <1>2, <1>3, <1>4 DEF MakersOf, BufferAssumption
  <2>3. QED
    BY <1>1, <2>1, <2>2, NobodyMoves DEF IInv
<1>9. \A v \in Workers : op'[v].new # None => op'[v] = op[v]
  BY <1>2, <1>3
<1>10. Room'
  BY <1>1, <1>5, <1>9 DEF IInv, Room
<1>11. Pads'
  BY <1>1, <1>5, <1>9 DEF IInv, Pads, PadIsZero
<1>12. QED
  BY <1>6, <1>7, <1>8, <1>10, <1>11 DEF IInv

\* The new allocation is made, and nobody else knows of it.
LEMMA CopyOutKeeps ==
  ASSUME BufferAssumption, IInv, NEW w \in Workers, CopyOut(w)
  PROVE  IInv'
<1>1. PICK h, b : h = op[w].on /\ b = buf[h]
  OBVIOUS
<1>2. PICK a \in Allocs :
         /\ count[a] = 0 /\ count' = [count EXCEPT ![a] = 1]
         /\ bytes' = [bytes EXCEPT ![a] = [i \in 0 .. b.capacity - 1 |->
                        IF i < b.size THEN SourceByte(b, i) ELSE 0]]
         /\ op' = [op EXCEPT ![w].pc = "release", ![w].new = a]
  BY <1>1 DEF CopyOut
<1>3. op[w].pc = "copy" /\ buf' = buf /\ region' = region /\ Live' = Live
  BY DEF CopyOut, Live
<1>4. /\ h \in Live /\ op[w].new = None /\ region # h
      /\ \A v \in Workers : v # w => op[v].on # h
  BY <1>1, <1>3 DEF IInv, Uses, Unsharing
<1>5. /\ op'[w] = [op[w] EXCEPT !.pc = "release", !.new = a]
      /\ \A v \in Workers : v # w => op'[v] = op[v]
      /\ op' = [v \in Workers |-> op'[v]]
  BY <1>2 DEF IInv, Shape
<1>6. op[w] \in OpT /\ b \in BufferT /\ b.size <= b.capacity
  BY <1>1, <1>4 DEF IInv, Shape, Room
<1>7. /\ op'[w] \in OpT /\ op'[w].pc = "release" /\ op'[w].new = a
      /\ op'[w].on = h
  BY <1>1, <1>5, <1>6 DEF OpT
<1>8. \A g : Swapping(g)' <=> Swapping(g)
  BY <1>3, <1>5, <1>7 DEF Swapping
<1>9. /\ \A g \in Live : ~Swapping(g) => buf[g].mem # a
      /\ \A v \in Workers : op[v].new # a
  BY <1>2, UncountedIsUnheld DEF IInv
<1>10. /\ bytes' = [x \in Allocs |-> bytes'[x]]
       /\ DOMAIN bytes'[a] = 0 .. b.capacity - 1
       /\ \A i \in 0 .. b.capacity - 1 :
             bytes'[a][i] = IF i < b.size THEN SourceByte(b, i) ELSE 0
       /\ \A x \in Allocs : x # a => bytes'[x] = bytes[x]
  BY <1>2 DEF IInv, Shape
<1>11. /\ count' \in [Allocs -> Nat] /\ count'[a] = 1
       /\ \A x \in Allocs : x # a => count'[x] = count[x]
  BY <1>2 DEF IInv, Shape
<1>12. a # None
  BY DEF BufferAssumption
<1>13. Shape'
  <2>1. \A i : SourceByte(b, i) \in Byte
    <3>1. TAKE i
    <3>2. b.mem \in Allocs
      BY <1>6 DEF BufferT
    <3>3. QED
      BY <3>2, ByteHasZero DEF IInv, Shape, SourceByte
  <2>2. \A x \in Allocs : \A i \in DOMAIN bytes'[x] : bytes'[x][i] \in Byte
    BY <1>10, <2>1, ByteHasZero DEF IInv, Shape
  <2>3. \A v \in Workers : op'[v] \in OpT
    BY <1>5, <1>7 DEF IInv, Shape
  <2>4. op' \in [Workers -> OpT]
    BY <1>5, <2>3
  <2>5. QED
    BY <1>3, <1>10, <1>11, <2>2, <2>4 DEF IInv, Shape
<1>14. \A g \in Live : Alone(g) => Alone(g)'
  <2>1. TAKE g \in Live
  <2>2. HAVE Alone(g)
  <2>3. buf[g].mem \in Allocs /\ buf[g].mem # a
    BY <1>2, <2>2 DEF IInv, Shape, BufferT, Alone
  <2>4. QED
    BY <1>3, <1>11, <2>2, <2>3 DEF Alone
<1>15. Uses'
  <2>1. \A v \in Workers :
          /\ op'[v].pc = "idle" => op'[v].on = None
          /\ op'[v].pc # "idle" => op'[v].on \in Live
          /\ op'[v].new # None <=> op'[v].pc \in {"release", "store"}
    <3>1. TAKE v \in Workers
    <3>2. CASE v = w
      BY <1>4, <1>7, <1>12, <3>2
    <3>3. CASE v # w
      BY <1>5, <3>3 DEF IInv, Uses
    <3>4. QED
      BY <3>2, <3>3
  <2>2. \A v \in Workers : op'[v].new # None => count'[op'[v].new] = 1
    <3>1. TAKE v \in Workers
    <3>2. HAVE op'[v].new # None
    <3>3. CASE v = w
      BY <1>7, <1>11, <3>3
    <3>4. CASE v # w
      <4>1. op'[v] = op[v] /\ op[v].new \in Allocs /\ count[op[v].new] = 1
        BY <1>5, <3>2, <3>4 DEF IInv, Uses, Shape, OpT
      <4>2. QED
        BY <1>9, <1>11, <4>1
    <3>5. QED
      BY <3>3, <3>4
  <2>3. \A v \in Workers : op'[v].pc = "ready" => Alone(op[v].on)'
    <3>1. TAKE v \in Workers
    <3>2. HAVE op'[v].pc = "ready"
    <3>3. v # w /\ op'[v] = op[v]
      BY <1>5, <1>7, <3>2
    <3>4. op[v].on \in Live /\ Alone(op[v].on)
      BY <3>2, <3>3 DEF IInv, Uses
    <3>5. QED
      BY <1>14, <3>3, <3>4 DEF Alone
  <2>4. \A v \in Workers : Unsharing(v)' =>
          /\ region' # op'[v].on
          /\ \A x \in Workers : x # v => op'[x].on # op'[v].on
    <3>1. TAKE v \in Workers
    <3>2. \A x \in Workers : op'[x].on = op[x].on
      BY <1>1, <1>5, <1>7
    <3>3. Unsharing(v)' => Unsharing(v)
      BY <1>3, <1>5 DEF Unsharing
    <3>4. QED
      BY <1>3, <3>2, <3>3 DEF IInv, Uses
  <2>5. region # None => region \in Live' /\ Alone(region)'
    BY <1>3, <1>14 DEF IInv, Uses, Alone
  <2>6. QED
    BY <1>3, <2>1, <2>2, <2>3, <2>4, <2>5 DEF Uses, Alone
<1>16. Counts'
  <2>1. \A x : HoldersOf(x)' = HoldersOf(x)
    BY <1>3, <1>8 DEF HoldersOf
  <2>2. w \notin MakersOf(a) /\ MakersOf(a)' = MakersOf(a) \cup {w}
    BY <1>5, <1>7, <1>9 DEF MakersOf
  <2>3. \A x \in Allocs : x # a => MakersOf(x)' = MakersOf(x)
    BY <1>4, <1>5, <1>7 DEF MakersOf, BufferAssumption
  <2>4. count'[a] = count[a] + 1
    BY <1>2, <1>11
  <2>5. \A x \in Allocs : /\ HoldersOf(x)' = HoldersOf(x)
                          /\ x # a => /\ MakersOf(x)' = MakersOf(x)
                                      /\ count'[x] = count[x]
    BY <1>11, <2>1, <2>3
  <2>6. QED
    BY <2>2, <2>4, <2>5, MakerComes DEF IInv
<1>17. \A g \in Live : ~Swapping(g) => bytes'[buf[g].mem] = bytes[buf[g].mem]
  BY <1>9, <1>10 DEF IInv, Shape, BufferT
<1>18. \A v \in Workers : v # w /\ op[v].new # None =>
         op'[v] = op[v] /\ bytes'[op[v].new] = bytes[op[v].new]
  BY <1>5, <1>9, <1>10 DEF IInv, Shape, OpT
<1>19. Room'
  <2>1. \A v \in Workers : op'[v].new # None =>
          DOMAIN bytes'[op'[v].new] = 0 .. buf'[op'[v].on].capacity - 1
    <3>1. TAKE v \in Workers
    <3>2. HAVE op'[v].new # None
    <3>3. CASE v = w
      BY <1>1, <1>3, <1>7, <1>10, <3>3
    <3>4. CASE v # w
      BY <1>3, <1>5, <1>18, <3>2, <3>4 DEF IInv, Room
    <3>5. QED
      BY <3>3, <3>4
  <2>2. QED
    BY <1>3, <1>8, <1>17, <2>1 DEF IInv, Room
<1>20. Pads'
  <2>1. \A v \in Workers : op'[v].new # None =>
          \A i \in buf'[op'[v].on].size .. buf'[op'[v].on].capacity - 1 :
             bytes'[op'[v].new][i] = 0
    <3>1. TAKE v \in Workers
    <3>2. HAVE op'[v].new # None
    <3>3. CASE v = w
      <4>1. \A i \in b.size .. b.capacity - 1 :
              i \in 0 .. b.capacity - 1 /\ ~(i < b.size)
        BY <1>6 DEF BufferT
      <4>2. QED
        BY <1>1, <1>3, <1>7, <1>10, <3>3, <4>1
    <3>4. CASE v # w
      BY <1>3, <1>5, <1>18, <3>2, <3>4 DEF IInv, Pads
    <3>5. QED
      BY <3>3, <3>4
  <2>2. PadIsZero'
    BY <1>3, <1>8, <1>17 DEF IInv, Pads, PadIsZero
  <2>3. QED
    BY <2>1, <2>2 DEF Pads
<1>21. QED
  BY <1>13, <1>15, <1>16, <1>19, <1>20 DEF IInv

\* The old allocation is let go of: the buffer is part way through its swap.
LEMMA ReleaseOldKeeps ==
  ASSUME BufferAssumption, IInv, NEW w \in Workers, ReleaseOld(w)
  PROVE  IInv'
<1>1. PICK h, a : h = op[w].on /\ a = buf[h].mem
  OBVIOUS
<1>2. /\ op[w].pc = "release" /\ buf' = buf /\ region' = region /\ Live' = Live
      /\ Release(a)
  BY <1>1 DEF ReleaseOld, Live
<1>3. /\ h \in Live /\ op[w].new # None /\ region # h
      /\ \A v \in Workers : v # w => op[v].on # h
  BY <1>1, <1>2 DEF IInv, Uses, Unsharing
<1>4. ~Swapping(h)
  BY <1>1, <1>2, <1>3 DEF Swapping
<1>5. /\ a \in Allocs /\ h \in HoldersOf(a)
      /\ count' \in [Allocs -> Nat] /\ count'[a] = count[a] - 1
      /\ \A x \in Allocs : x # a => count'[x] = count[x]
      /\ bytes' = [x \in Allocs |-> bytes'[x]]
      /\ \A x \in Allocs : \A i \in DOMAIN bytes'[x] : bytes'[x][i] \in Byte
      /\ \A g \in Live : g # h /\ ~Swapping(g) =>
            /\ bytes'[buf[g].mem] = bytes[buf[g].mem]
            /\ count[buf[g].mem] = 1 => count'[buf[g].mem] = 1
      /\ \A v \in Workers : op[v].new # None =>
            /\ bytes'[op[v].new] = bytes[op[v].new]
            /\ count'[op[v].new] = 1
  BY <1>1, <1>2, <1>3, <1>4, LetGo
<1>6. /\ op'[w] = [op[w] EXCEPT !.pc = "store"]
      /\ \A v \in Workers : v # w => op'[v] = op[v]
      /\ op' = [v \in Workers |-> op'[v]]
  BY DEF IInv, Shape, ReleaseOld
<1>7. op[w] \in OpT
  BY DEF IInv, Shape
<1>8. /\ op'[w] \in OpT /\ op'[w].pc = "store" /\ op'[w].new = op[w].new
      /\ op'[w].on = h
  BY <1>1, <1>6, <1>7 DEF OpT
<1>9. Swapping(h)' /\ \A g : g # h => (Swapping(g)' <=> Swapping(g))
  BY <1>1, <1>3, <1>6, <1>8 DEF Swapping
<1>10. \A v \in Workers : op'[v].on = op[v].on /\ op'[v].new = op[v].new
  BY <1>1, <1>6, <1>8
<1>11. Shape'
  <2>1. \A v \in Workers : op'[v] \in OpT
    BY <1>6, <1>8 DEF IInv, Shape
  <2>2. op' \in [Workers -> OpT]
    BY <1>6, <2>1
  <2>3. QED
    BY <1>2, <1>5, <2>2 DEF IInv, Shape
<1>12. \A g \in Live : g # h /\ ~Swapping(g) /\ Alone(g) => Alone(g)'
  BY <1>2, <1>5 DEF Alone
<1>13. Uses'
  <2>1. \A v \in Workers :
          /\ op'[v].pc = "idle" => op'[v].on = None
          /\ op'[v].pc # "idle" => op'[v].on \in Live
          /\ op'[v].new # None <=> op'[v].pc \in {"release", "store"}
    <3>1. TAKE v \in Workers
    <3>2. CASE v = w
      BY <1>3, <1>8, <3>2
    <3>3. CASE v # w
      BY <1>6, <3>3 DEF IInv, Uses
    <3>4. QED
      BY <3>2, <3>3
  <2>2. \A v \in Workers : op'[v].new # None => count'[op'[v].new] = 1
    BY <1>5, <1>10
  <2>3. \A v \in Workers : op'[v].pc = "ready" => Alone(op[v].on)'
    <3>1. TAKE v \in Workers
    <3>2. HAVE op'[v].pc = "ready"
    <3>3. v # w /\ op'[v] = op[v]
      BY <1>6, <1>8, <3>2
    <3>4. /\ op[v].on \in Live /\ op[v].on # h /\ Alone(op[v].on)
          /\ ~Swapping(op[v].on)
      BY <1>3, <3>2, <3>3, Steady DEF IInv, Uses
    <3>5. QED
      BY <1>12, <3>3, <3>4 DEF Alone
  <2>4. \A v \in Workers : Unsharing(v)' =>
          /\ region' # op'[v].on
          /\ \A x \in Workers : x # v => op'[x].on # op'[v].on
    <3>1. TAKE v \in Workers
    <3>2. Unsharing(v)' => Unsharing(v)
      BY <1>2, <1>6 DEF Unsharing
    <3>3. QED
      BY <1>2, <1>10, <3>2 DEF IInv, Uses
  <2>5. region # None => region \in Live' /\ Alone(region)'
    <3>1. HAVE region # None
    <3>2. region \in Live /\ ~Swapping(region) /\ Alone(region) /\ region # h
      BY <1>3, <3>1, Steady DEF IInv, Uses
    <3>3. QED
      BY <1>2, <1>12, <3>2 DEF Alone
  <2>6. QED
    BY <1>2, <1>10, <2>1, <2>2, <2>3, <2>4, <2>5 DEF Uses, Alone
<1>14. Counts'
  <2>1. \A x : MakersOf(x)' = MakersOf(x)
    BY <1>10 DEF MakersOf
  <2>2. HoldersOf(a)' = HoldersOf(a) \ {h}
    BY <1>2, <1>9 DEF HoldersOf
  <2>3. \A x : x # a => HoldersOf(x)' = HoldersOf(x)
    BY <1>1, <1>2, <1>9 DEF HoldersOf
  <2>4. \A x \in Allocs : /\ MakersOf(x)' = MakersOf(x)
                          /\ x # a => /\ HoldersOf(x)' = HoldersOf(x)
                                      /\ count'[x] = count[x]
    BY <1>5, <2>1, <2>3
  <2>5. QED
    BY <1>5, <2>2, <2>4, HolderGoes DEF IInv
<1>15. Room'
  BY <1>2, <1>5, <1>9, <1>10 DEF IInv, Room
<1>16. Pads'
  BY <1>2, <1>5, <1>9, <1>10 DEF IInv, Pads, PadIsZero
<1>17. QED
  BY <1>11, <1>13, <1>14, <1>15, <1>16 DEF IInv

\* The buffer takes hold of what the unshare has made.
LEMMA StoreNewKeeps ==
  ASSUME BufferAssumption, IInv, NEW w \in Workers, StoreNew(w)
  PROVE  IInv'
<1>1. PICK h, a : h = op[w].on /\ a = op[w].new
  OBVIOUS
<1>2. /\ op[w].pc = "store" /\ count' = count /\ bytes' = bytes
      /\ region' = region
  BY DEF StoreNew
<1>3. /\ h \in Live /\ a # None /\ count[a] = 1 /\ region # h
      /\ \A v \in Workers : v # w => op[v].on # h
  BY <1>1, <1>2 DEF IInv, Uses, Unsharing
<1>4. a \in Allocs /\ buf[h] \in BufferT /\ op[w] \in OpT
  BY <1>1, <1>3 DEF IInv, Shape, OpT
<1>5. /\ buf'[h] = [buf[h] EXCEPT !.mem = a, !.offset = 0, !.slack = FALSE]
      /\ \A g \in Live : g # h => buf'[g] = buf[g]
      /\ buf' = [g \in Live |-> buf'[g]] /\ Live' = Live
  BY <1>1, <1>3 DEF IInv, Shape, StoreNew, Live
<1>6. /\ buf'[h] \in BufferT /\ buf'[h].mem = a /\ buf'[h].offset = 0
      /\ buf'[h].size = buf[h].size /\ buf'[h].capacity = buf[h].capacity
  <2>1. PICK m : m = [buf[h] EXCEPT !.mem = a]
    OBVIOUS
  <2>2. m \in BufferT /\ m.mem = a /\ m.size = buf[h].size /\ m.capacity = buf[h].capacity
    BY <1>4, <2>1 DEF BufferT
  <2>3. PICK o : o = [m EXCEPT !.offset = 0]
    OBVIOUS
  <2>4. /\ o \in BufferT /\ o.mem = a /\ o.offset = 0
        /\ o.size = buf[h].size /\ o.capacity = buf[h].capacity
    BY <2>2, <2>3 DEF BufferT
  <2>5. buf'[h] = [o EXCEPT !.slack = FALSE]
    BY <1>5, <2>1, <2>3
  <2>6. QED
    BY <2>4, <2>5 DEF BufferT
<1>7. /\ op'[w] = [op[w] EXCEPT !.pc = "ready", !.new = None]
      /\ \A v \in Workers : v # w => op'[v] = op[v]
      /\ op' = [v \in Workers |-> op'[v]]
  BY DEF IInv, Shape, StoreNew
<1>8. /\ op'[w] \in OpT /\ op'[w].pc = "ready" /\ op'[w].new = None
      /\ op'[w].on = h
  BY <1>1, <1>4, <1>7 DEF OpT
<1>9. /\ Swapping(h) /\ ~Swapping(h)'
      /\ \A g : g # h => (Swapping(g)' <=> Swapping(g))
  <2>1. Swapping(h)
    BY <1>1, <1>2 DEF Swapping
  <2>2. \A v \in Workers : ~(op'[v].on = h /\ op'[v].pc = "store")
    BY <1>3, <1>7, <1>8
  <2>3. \A g : g # h => (Swapping(g)' <=> Swapping(g))
    BY <1>1, <1>7, <1>8 DEF Swapping
  <2>4. QED
    BY <2>1, <2>2, <2>3 DEF Swapping
<1>10. Shape'
  <2>1. \A v \in Workers : op'[v] \in OpT
    BY <1>7, <1>8 DEF IInv, Shape
  <2>2. \A g \in Live : buf'[g] \in BufferT
    BY <1>5, <1>6 DEF IInv, Shape
  <2>3. op' \in [Workers -> OpT] /\ buf' \in [Live' -> BufferT]
    BY <1>5, <1>7, <2>1, <2>2
  <2>4. QED
    BY <1>2, <1>5, <2>3 DEF IInv, Shape
<1>11. \A g \in Live : g # h /\ Alone(g) => Alone(g)'
  BY <1>2, <1>5 DEF Alone
<1>12. Uses'
  <2>1. \A v \in Workers :
          /\ op'[v].pc = "idle" => op'[v].on = None
          /\ op'[v].pc # "idle" => op'[v].on \in Live
          /\ op'[v].new # None <=> op'[v].pc \in {"release", "store"}
          /\ op'[v].new # None => count[op'[v].new] = 1
    <3>1. TAKE v \in Workers
    <3>2. CASE v = w
      BY <1>3, <1>8, <3>2
    <3>3. CASE v # w
      BY <1>7, <3>3 DEF IInv, Uses
    <3>4. QED
      BY <3>2, <3>3
  <2>2. \A v \in Workers : op'[v].pc = "ready" => Alone(op[v].on)'
    <3>1. TAKE v \in Workers
    <3>2. HAVE op'[v].pc = "ready"
    <3>3. CASE v = w
      BY <1>1, <1>2, <1>3, <1>6, <1>8, <3>3 DEF Alone
    <3>4. CASE v # w
      <4>1. /\ op'[v] = op[v] /\ op[v].on \in Live /\ op[v].on # h
            /\ Alone(op[v].on)
        BY <1>3, <1>7, <3>2, <3>4 DEF IInv, Uses
      <4>2. QED
        BY <1>11, <4>1 DEF Alone
    <3>5. QED
      BY <3>3, <3>4
  <2>3. \A v \in Workers : op'[v].on = op[v].on
    BY <1>1, <1>7, <1>8
  <2>4. \A v \in Workers : Unsharing(v)' =>
          /\ region' # op'[v].on
          /\ \A x \in Workers : x # v => op'[x].on # op'[v].on
    <3>1. TAKE v \in Workers
    <3>2. Unsharing(v)' => Unsharing(v)
      BY <1>7, <1>8 DEF Unsharing
    <3>3. QED
      BY <1>2, <2>3, <3>2 DEF IInv, Uses
  <2>5. region # None => region \in Live' /\ Alone(region)'
    BY <1>2, <1>3, <1>5, <1>11 DEF IInv, Uses, Alone
  <2>6. QED
    BY <1>2, <1>5, <2>1, <2>2, <2>3, <2>4, <2>5 DEF Uses, Alone
<1>13. Counts'
  <2>1. w \in MakersOf(a) /\ MakersOf(a)' = MakersOf(a) \ {w}
    BY <1>1, <1>3, <1>7, <1>8 DEF MakersOf
  <2>2. h \notin HoldersOf(a) /\ HoldersOf(a)' = HoldersOf(a) \cup {h}
    BY ZenonT(30), <1>3, <1>5, <1>6, <1>9 DEF HoldersOf
  <2>3. \A x \in Allocs : x # a => HoldersOf(x)' = HoldersOf(x)
    BY ZenonT(30), <1>5, <1>6, <1>9 DEF HoldersOf
  <2>4. \A x \in Allocs : x # a => MakersOf(x)' = MakersOf(x)
    BY <1>1, <1>7, <1>8 DEF MakersOf, BufferAssumption
  <2>5. QED
    BY <1>2, <1>4, <2>1, <2>2, <2>3, <2>4, MakerIsHolder DEF IInv
<1>14. \A v \in Workers : op'[v].new # None =>
         v # w /\ op'[v] = op[v] /\ buf'[op[v].on] = buf[op[v].on]
  <2>1. TAKE v \in Workers
  <2>2. HAVE op'[v].new # None
  <2>3. v # w /\ op'[v] = op[v]
    BY <1>7, <1>8, <2>2
  <2>4. op[v].on \in Live /\ op[v].on # h
    BY <1>3, <2>2, <2>3 DEF IInv, Shape, OpT, Uses
  <2>5. QED
    BY <1>5, <2>3, <2>4
<1>15. /\ DOMAIN bytes[a] = 0 .. buf[h].capacity - 1
       /\ \A i \in buf[h].size .. buf[h].capacity - 1 : bytes[a][i] = 0
  BY <1>1, <1>3 DEF IInv, Room, Pads
<1>16. Room'
  <2>1. \A g \in Live : buf'[g].size <= buf'[g].capacity
    BY <1>5, <1>6 DEF IInv, Room
  <2>2. \A i \in 0 .. buf'[h].capacity - 1 :
          buf'[h].offset + i \in DOMAIN bytes'[buf'[h].mem]
    BY <1>2, <1>4, <1>6, <1>15 DEF BufferT
  <2>3. \A g \in Live : g # h /\ ~Swapping(g)' =>
          \A i \in 0 .. buf'[g].capacity - 1 :
             buf'[g].offset + i \in DOMAIN bytes'[buf'[g].mem]
    BY <1>2, <1>5, <1>9 DEF IInv, Room
  <2>4. \A g \in Live : ~Swapping(g)' =>
          \A i \in 0 .. buf'[g].capacity - 1 :
             buf'[g].offset + i \in DOMAIN bytes'[buf'[g].mem]
    BY <2>2, <2>3
  <2>5. \A v \in Workers : op'[v].new # None =>
          DOMAIN bytes'[op'[v].new] = 0 .. buf'[op'[v].on].capacity - 1
    BY <1>2, <1>14 DEF IInv, Room
  <2>6. QED
    BY <1>5, <2>1, <2>4, <2>5 DEF Room
<1>17. Pads'
  <2>1. \A i \in buf'[h].size .. buf'[h].capacity - 1 :
          bytes'[buf'[h].mem][buf'[h].offset + i] = 0
    BY <1>2, <1>4, <1>6, <1>15 DEF BufferT
  <2>2. \A g \in Live : g # h /\ ~Swapping(g)' /\ ~buf'[g].slack =>
          \A i \in buf'[g].size .. buf'[g].capacity - 1 :
             bytes'[buf'[g].mem][buf'[g].offset + i] = 0
    BY <1>2, <1>5, <1>9 DEF IInv, Pads, PadIsZero
  <2>3. PadIsZero'
    BY <1>5, <2>1, <2>2 DEF PadIsZero
  <2>4. QED
    BY <1>2, <1>14, <2>3 DEF IInv, Pads
<1>18. QED
  BY <1>10, <1>12, <1>13, <1>16, <1>17 DEF IInv

\* A mutable use ends, and may leave its buffer to a kernel.
LEMMA UseEnds ==
  ASSUME BufferAssumption, IInv, NEW w \in Workers, op[w].pc = "ready",
         op' = [op EXCEPT ![w] = Idle], count' = count,
         region' = region \/ (region = None /\ region' = op[w].on),
         Live' = Live, buf' \in [Live -> BufferT],
         \A g \in Live : buf'[g].mem = buf[g].mem /\ buf'[g].offset = buf[g].offset
  PROVE  /\ op' \in [Workers -> OpT] /\ region' \in Handles \cup {None}
         /\ \A g : Swapping(g)' <=> Swapping(g)
         /\ \A v \in Workers : op'[v].new # None =>
               v # w /\ op'[v] = op[v] /\ op[v].on # op[w].on
         /\ Uses' /\ Counts'
<1>1. /\ op'[w] = Idle /\ \A v \in Workers : v # w => op'[v] = op[v]
      /\ op' = [v \in Workers |-> op'[v]]
  BY DEF IInv, Shape
<1>2. /\ op'[w] \in OpT /\ op'[w].pc = "idle" /\ op'[w].on = None
      /\ op'[w].new = None
  BY <1>1 DEF Idle, OpT
<1>3. /\ op[w].on \in Live /\ op[w].on \in Handles /\ Alone(op[w].on)
      /\ op[w].new = None
  BY DEF IInv, Uses, Shape
<1>4. op' \in [Workers -> OpT] /\ region' \in Handles \cup {None}
  <2>1. \A v \in Workers : op'[v] \in OpT
    BY <1>1, <1>2 DEF IInv, Shape
  <2>2. QED
    BY <1>1, <1>3, <2>1 DEF IInv, Shape
<1>5. \A g : Swapping(g)' <=> Swapping(g)
  BY <1>1, <1>2 DEF Swapping
<1>6. \A v \in Workers : Unsharing(v)' =>
        v # w /\ op'[v] = op[v] /\ Unsharing(v) /\ op[v].on # op[w].on
  BY <1>1, <1>2 DEF IInv, Uses, Unsharing
<1>7. \A v \in Workers : op'[v].new # None =>
        v # w /\ op'[v] = op[v] /\ op[v].on # op[w].on
  <2>1. TAKE v \in Workers
  <2>2. HAVE op'[v].new # None
  <2>3. v # w /\ op'[v] = op[v]
    BY <1>1, <1>2, <2>2
  <2>4. Unsharing(v)
    BY <2>2, <2>3 DEF IInv, Uses, Unsharing
  <2>5. QED
    BY <2>3, <2>4 DEF IInv, Uses
<1>8. \A g \in Live : Alone(g) => Alone(g)'
  BY DEF Alone
<1>9. Uses'
  <2>1. \A v \in Workers :
          /\ op'[v].pc = "idle" => op'[v].on = None
          /\ op'[v].pc # "idle" => op'[v].on \in Live
          /\ op'[v].new # None <=> op'[v].pc \in {"release", "store"}
          /\ op'[v].new # None => count[op'[v].new] = 1
          /\ op'[v].pc = "ready" => op'[v] = op[v] /\ Alone(op[v].on)
    <3>1. TAKE v \in Workers
    <3>2. CASE v = w
      BY <1>2, <3>2
    <3>3. CASE v # w
      BY <1>1, <3>3 DEF IInv, Uses
    <3>4. QED
      BY <3>2, <3>3
  <2>2. \A v \in Workers : op'[v].pc = "ready" =>
          /\ count'[buf'[op'[v].on].mem] = 1 /\ buf'[op'[v].on].offset = 0
    BY <2>1 DEF Alone
  <2>3. \A v \in Workers : Unsharing(v)' =>
          /\ region' # op'[v].on
          /\ \A x \in Workers : x # v => op'[x].on # op'[v].on
    <3>1. TAKE v \in Workers
    <3>2. HAVE Unsharing(v)'
    <3>3. /\ op'[v] = op[v] /\ Unsharing(v) /\ op[v].on # op[w].on
          /\ op[v].on # None
      BY <1>6, <3>2 DEF IInv, Uses, Unsharing, Shape, BufferAssumption
    <3>4. \A x \in Workers : x # v => op[x].on # op[v].on
      BY <3>3 DEF IInv, Uses
    <3>5. \A x \in Workers : x # v => op'[x].on # op[v].on
      BY <1>1, <1>2, <3>3, <3>4
    <3>6. QED
      BY <3>3, <3>5 DEF IInv, Uses
  <2>4. region' # None =>
          /\ region' \in Live
          /\ count'[buf'[region'].mem] = 1 /\ buf'[region'].offset = 0
    BY <1>3 DEF IInv, Uses, Alone
  <2>5. QED
    BY <2>1, <2>2, <2>3, <2>4 DEF Uses, Alone
<1>10. Counts'
  <2>1. \A x \in Allocs : HoldersOf(x)' = HoldersOf(x)
    BY <1>5 DEF HoldersOf
  <2>2. \A x \in Allocs : MakersOf(x)' = MakersOf(x)
    BY <1>1, <1>2, <1>3 DEF MakersOf, BufferAssumption
  <2>3. QED
    BY <2>1, <2>2, NobodyMoves DEF IInv
<1>11. QED
  BY <1>4, <1>5, <1>7, <1>9, <1>10

\* What may be written is nobody else's.
LEMMA ReadyIsAlone ==
  ASSUME BufferAssumption, IInv, NEW w \in Workers, op[w].pc = "ready",
         NEW h, h = op[w].on
  PROVE  /\ h \in Live /\ buf[h] \in BufferT /\ ~Swapping(h)
         /\ buf[h].mem \in Allocs /\ buf[h].offset = 0
         /\ \A g \in Live : g # h /\ ~Swapping(g) => buf[g].mem # buf[h].mem
         /\ \A v \in Workers : op[v].new # buf[h].mem
<1>1. h \in Live /\ Alone(h) /\ ~Swapping(h)
  BY Steady DEF IInv, Uses
<1>2. buf[h] \in BufferT /\ buf[h].mem \in Allocs
  BY <1>1 DEF IInv, Shape, BufferT
<1>3. QED
  BY <1>1, <1>2, OneIsAlone DEF IInv, Alone

LEMMA WriteByteKeeps ==
  ASSUME BufferAssumption, IInv, NEW w \in Workers, WriteByte(w)
  PROVE  IInv'
<1>1. PICK h, m : h = op[w].on /\ m = buf[h].mem
  OBVIOUS
<1>2. /\ op[w].pc = "ready" /\ op' = [op EXCEPT ![w] = Idle]
      /\ buf' = buf /\ count' = count /\ region' = region /\ Live' = Live
  BY DEF WriteByte, Live
<1>3. /\ h \in Live /\ buf[h] \in BufferT /\ ~Swapping(h)
      /\ m \in Allocs /\ buf[h].offset = 0
      /\ \A g \in Live : g # h /\ ~Swapping(g) => buf[g].mem # m
      /\ \A v \in Workers : op[v].new # m
  BY <1>1, <1>2, ReadyIsAlone
<1>4. /\ op' \in [Workers -> OpT] /\ region' \in Handles \cup {None}
      /\ \A g : Swapping(g)' <=> Swapping(g)
      /\ \A v \in Workers : op'[v].new # None =>
            v # w /\ op'[v] = op[v] /\ op[v].on # op[w].on
      /\ Uses' /\ Counts'
  BY <1>2, UseEnds DEF IInv, Shape
<1>5. /\ bytes' = [x \in Allocs |-> bytes'[x]]
      /\ \A x \in Allocs : x # m => bytes'[x] = bytes[x]
      /\ DOMAIN bytes'[m] = DOMAIN bytes[m]
      /\ \A i \in DOMAIN bytes[m] :
            /\ bytes'[m][i] \in Byte
            /\ ~(i \in 0 .. buf[h].size - 1) => bytes'[m][i] = bytes[m][i]
  <2>1. CASE buf[h].size > 0
    <3>1. PICK i \in 0 .. buf[h].size - 1, v \in Byte :
            bytes' = [bytes EXCEPT ![m] = [bytes[m] EXCEPT ![0 + i] = v]]
      <4>1. buf[op[w].on].size > 0 /\ buf[op[w].on].size = buf[h].size
        BY <1>1, <2>1
      <4>2. \E i \in 0 .. buf[op[w].on].size - 1, v \in Byte :
              bytes' = [bytes EXCEPT ![buf[op[w].on].mem]
                                     [buf[op[w].on].offset + i] = v]
        BY <4>1 DEF WriteByte
      <4>3. buf[op[w].on].mem = m /\ buf[op[w].on].offset = 0
        BY <1>1, <1>3
      <4>4. QED
        BY <4>1, <4>2, <4>3
    <3>2. 0 + i = i
      OBVIOUS
    <3>3. bytes'[m] = [bytes[m] EXCEPT ![i] = v]
      BY <1>3, <3>1, <3>2 DEF IInv, Shape
    <3>4. /\ bytes' = [x \in Allocs |-> bytes'[x]]
          /\ \A x \in Allocs : x # m => bytes'[x] = bytes[x]
      BY <3>1 DEF IInv, Shape
    <3>5. \A j \in DOMAIN bytes[m] : bytes[m][j] \in Byte
      BY <1>3 DEF IInv, Shape
    <3>6. /\ DOMAIN bytes'[m] = DOMAIN bytes[m]
          /\ \A j \in DOMAIN bytes[m] :
                bytes'[m][j] = IF j = i THEN v ELSE bytes[m][j]
      BY <3>3
    <3>7. \A j : ~(j \in 0 .. buf[h].size - 1) => j # i
      OBVIOUS
    <3>8. QED
      BY <3>4, <3>5, <3>6, <3>7
  <2>2. CASE ~(buf[h].size > 0)
    <3>1. bytes' = bytes
      BY <1>1, <1>3, <2>2 DEF WriteByte, BufferT
    <3>2. QED
      BY <1>3, <3>1 DEF IInv, Shape
  <2>3. QED
    BY <2>1, <2>2
<1>6. Shape'
  <2>1. \A x \in Allocs : \A i \in DOMAIN bytes'[x] : bytes'[x][i] \in Byte
    BY <1>5 DEF IInv, Shape
  <2>2. QED
    BY <1>2, <1>4, <1>5, <2>1 DEF IInv, Shape
<1>7. \A g \in Live : g # h /\ ~Swapping(g) => bytes'[buf[g].mem] = bytes[buf[g].mem]
  BY <1>3, <1>5 DEF IInv, Shape, BufferT
<1>8. \A v \in Workers : op'[v].new # None =>
        op'[v] = op[v] /\ bytes'[op[v].new] = bytes[op[v].new]
  BY <1>3, <1>4, <1>5 DEF IInv, Shape, OpT
<1>9. Room'
  <2>1. \A g \in Live : ~Swapping(g) =>
          DOMAIN bytes'[buf[g].mem] = DOMAIN bytes[buf[g].mem]
    BY <1>1, <1>5, <1>7
  <2>2. QED
    BY <1>2, <1>4, <1>8, <2>1 DEF IInv, Room
<1>10. Pads'
  <2>1. ASSUME ~buf[h].slack
        PROVE  \A i \in buf[h].size .. buf[h].capacity - 1 : bytes'[m][0 + i] = 0
    <3>1. TAKE i \in buf[h].size .. buf[h].capacity - 1
    <3>2. i \in 0 .. buf[h].capacity - 1 /\ ~(i \in 0 .. buf[h].size - 1) /\ 0 + i = i
      BY <1>3 DEF BufferT
    <3>3. 0 + i \in DOMAIN bytes[m] /\ bytes[m][0 + i] = 0
      BY <1>1, <1>3, <2>1, <3>2 DEF IInv, Room, Pads, PadIsZero
    <3>4. QED
      BY <1>5, <3>2, <3>3
  <2>2. PadIsZero'
    <3>1. \A g \in Live : ~Swapping(g) /\ ~buf[g].slack =>
            \A i \in buf[g].size .. buf[g].capacity - 1 :
               bytes'[buf[g].mem][buf[g].offset + i] = 0
      BY <1>1, <1>3, <1>7, <2>1 DEF IInv, Pads, PadIsZero
    <3>2. QED
      BY <1>2, <1>4, <3>1 DEF PadIsZero
  <2>3. QED
    BY <1>2, <1>8, <2>2 DEF IInv, Pads
<1>11. QED
  BY <1>4, <1>6, <1>9, <1>10 DEF IInv

LEMMA ZeroKeeps ==
  ASSUME BufferAssumption, IInv, NEW w \in Workers, Zero(w)
  PROVE  IInv'
<1>1. PICK h, m : h = op[w].on /\ m = buf[h].mem
  OBVIOUS
<1>2. /\ op[w].pc = "ready" /\ op' = [op EXCEPT ![w] = Idle]
      /\ count' = count /\ region' = region
  BY DEF Zero
<1>3. /\ h \in Live /\ buf[h] \in BufferT /\ ~Swapping(h)
      /\ m \in Allocs /\ buf[h].offset = 0
      /\ \A g \in Live : g # h /\ ~Swapping(g) => buf[g].mem # m
      /\ \A v \in Workers : op[v].new # m
  BY <1>1, <1>2, ReadyIsAlone
<1>4. /\ buf'[h] = [buf[h] EXCEPT !.slack = FALSE]
      /\ \A g \in Live : g # h => buf'[g] = buf[g]
      /\ buf' = [g \in Live |-> buf'[g]] /\ Live' = Live
  BY <1>1, <1>3 DEF IInv, Shape, Zero, Live
<1>5. /\ buf'[h] \in BufferT /\ buf'[h].mem = m /\ buf'[h].offset = 0
      /\ buf'[h].size = buf[h].size /\ buf'[h].capacity = buf[h].capacity
  BY <1>1, <1>3, <1>4 DEF BufferT
<1>6. /\ buf' \in [Live -> BufferT]
      /\ \A g \in Live : buf'[g].mem = buf[g].mem /\ buf'[g].offset = buf[g].offset
  <2>1. \A g \in Live : /\ buf'[g] \in BufferT /\ buf'[g].mem = buf[g].mem
                        /\ buf'[g].offset = buf[g].offset
    BY <1>1, <1>3, <1>4, <1>5 DEF IInv, Shape
  <2>2. QED
    BY <1>4, <2>1
<1>7. /\ op' \in [Workers -> OpT] /\ region' \in Handles \cup {None}
      /\ \A g : Swapping(g)' <=> Swapping(g)
      /\ \A v \in Workers : op'[v].new # None =>
            v # w /\ op'[v] = op[v] /\ op[v].on # op[w].on
      /\ Uses' /\ Counts'
  BY <1>2, <1>4, <1>6, UseEnds
<1>8. /\ bytes' = [x \in Allocs |-> bytes'[x]]
      /\ \A x \in Allocs : x # m => bytes'[x] = bytes[x]
      /\ bytes'[m] = [i \in DOMAIN bytes[m] |->
                        IF i \in buf[h].offset .. buf[h].offset + buf[h].capacity - 1
                        THEN 0 ELSE bytes[m][i]]
  BY <1>1, <1>3 DEF IInv, Shape, Zero
<1>9. DOMAIN bytes'[m] = DOMAIN bytes[m]
  BY <1>8
<1>10. \A i \in DOMAIN bytes[m] : bytes'[m][i] =
          IF i \in 0 .. 0 + buf[h].capacity - 1 THEN 0 ELSE bytes[m][i]
  BY <1>3, <1>8
<1>11. Shape'
  <2>1. \A x \in Allocs : \A i \in DOMAIN bytes'[x] : bytes'[x][i] \in Byte
    BY <1>8, <1>9, <1>10, ByteHasZero DEF IInv, Shape
  <2>2. QED
    BY <1>2, <1>4, <1>6, <1>7, <1>8, <2>1 DEF IInv, Shape
<1>12. \A g \in Live : g # h /\ ~Swapping(g) => bytes'[buf[g].mem] = bytes[buf[g].mem]
  BY <1>3, <1>8 DEF IInv, Shape, BufferT
<1>13. \A v \in Workers : op'[v].new # None =>
         /\ op'[v] = op[v] /\ bytes'[op[v].new] = bytes[op[v].new]
         /\ buf'[op[v].on] = buf[op[v].on]
  <2>1. TAKE v \in Workers
  <2>2. HAVE op'[v].new # None
  <2>3. op'[v] = op[v] /\ op[v].on # h /\ op[v].new \in Allocs
    BY <1>1, <1>7, <2>2 DEF IInv, Shape, OpT
  <2>4. op[v].on \in Live
    BY <2>2, <2>3 DEF IInv, Uses
  <2>5. QED
    BY <1>3, <1>4, <1>8, <2>3, <2>4
<1>14. Room'
  <2>1. \A g \in Live : /\ buf'[g].capacity = buf[g].capacity
                        /\ buf'[g].size <= buf'[g].capacity
    BY <1>4, <1>5 DEF IInv, Room
  <2>2. \A g \in Live : ~Swapping(g) =>
          DOMAIN bytes'[buf[g].mem] = DOMAIN bytes[buf[g].mem]
    BY <1>1, <1>9, <1>12
  <2>3. QED
    BY <1>4, <1>6, <1>7, <1>13, <2>1, <2>2 DEF IInv, Room
<1>15. Pads'
  <2>1. \A i \in buf'[h].size .. buf'[h].capacity - 1 : bytes'[m][0 + i] = 0
    <3>1. TAKE i \in buf'[h].size .. buf'[h].capacity - 1
    <3>2. i \in 0 .. buf[h].capacity - 1
      BY <1>3, <1>5 DEF BufferT
    <3>3. 0 + i \in DOMAIN bytes[m]
      BY <1>1, <1>3, <3>2 DEF IInv, Room
    <3>4. 0 + i \in 0 .. 0 + buf[h].capacity - 1
      BY <1>3, <3>2 DEF BufferT
    <3>5. QED
      BY <1>10, <3>3, <3>4
  <2>2. \A g \in Live : ~Swapping(g) /\ ~buf'[g].slack =>
          \A i \in buf'[g].size .. buf'[g].capacity - 1 :
             bytes'[buf'[g].mem][buf'[g].offset + i] = 0
    <3>1. TAKE g \in Live
    <3>2. CASE g = h
      BY <1>5, <2>1, <3>2
    <3>3. CASE g # h
      BY <1>4, <1>12, <3>3 DEF IInv, Pads, PadIsZero
    <3>4. QED
      BY <3>2, <3>3
  <2>3. PadIsZero'
    BY <1>4, <1>7, <2>2 DEF PadIsZero
  <2>4. QED
    BY <1>13, <2>3 DEF IInv, Pads
<1>16. QED
  BY <1>7, <1>11, <1>14, <1>15 DEF IInv

LEMMA StartRegionKeeps ==
  ASSUME BufferAssumption, IInv, NEW w \in Workers, StartRegion(w)
  PROVE  IInv'
<1>1. /\ op[w].pc = "ready" /\ op' = [op EXCEPT ![w] = Idle] /\ region = None
      /\ region' = op[w].on /\ buf' = buf /\ count' = count /\ bytes' = bytes
      /\ Live' = Live
  BY DEF StartRegion, Live
<1>2. /\ op' \in [Workers -> OpT] /\ region' \in Handles \cup {None}
      /\ \A g : Swapping(g)' <=> Swapping(g)
      /\ \A v \in Workers : op'[v].new # None =>
            v # w /\ op'[v] = op[v] /\ op[v].on # op[w].on
      /\ Uses' /\ Counts'
  BY <1>1, UseEnds DEF IInv, Shape
<1>3. Shape'
  BY <1>1, <1>2 DEF IInv, Shape
<1>4. Room'
  BY <1>1, <1>2 DEF IInv, Room
<1>5. Pads'
  BY <1>1, <1>2 DEF IInv, Pads, PadIsZero
<1>6. QED
  BY <1>2, <1>3, <1>4, <1>5 DEF IInv

LEMMA EndRegionKeeps ==
  ASSUME BufferAssumption, IInv, EndRegion
  PROVE  IInv'
<1>1. /\ region' = None /\ buf' = buf /\ count' = count /\ bytes' = bytes
      /\ op' = op /\ Live' = Live
  BY DEF EndRegion, Live
<1>2. \A g : Swapping(g)' <=> Swapping(g)
  BY <1>1 DEF Swapping
<1>3. Shape'
  BY <1>1 DEF IInv, Shape
<1>4. Uses'
  <2>1. \A v \in Workers : Unsharing(v) => op[v].on # None
    BY DEF IInv, Uses, Unsharing, Shape, BufferAssumption
  <2>2. QED
    BY <1>1, <2>1 DEF IInv, Uses, Unsharing, Alone
<1>5. Counts'
  <2>1. \A x \in Allocs : HoldersOf(x)' = HoldersOf(x) /\ MakersOf(x)' = MakersOf(x)
    BY <1>1, <1>2 DEF HoldersOf, MakersOf
  <2>2. QED
    BY <1>1, <2>1, NobodyMoves DEF IInv
<1>6. Room' /\ Pads'
  BY <1>1, <1>2 DEF IInv, Room, Pads, PadIsZero
<1>7. QED
  BY <1>3, <1>4, <1>5, <1>6 DEF IInv
-----------------------------------------------------------------------------
LEMMA MakeKeeps ==
  ASSUME BufferAssumption, IInv, NEW h \in Handles, Make(h)
  PROVE  IInv'
<1>1. ASSUME NEW n \in Sizes, NewZeroed(h, n)
      PROVE  IInv'
  BY <1>1, SizesAreNat, ByteHasZero, AllocateKeeps DEF NewZeroed
<1>2. ASSUME NEW n \in Sizes, NewOverwritten(h, n)
      PROVE  IInv'
  <2>1. PICK fill \in [0 .. n - 1 -> Byte] : Allocate(h, n, fill)
    BY <1>2 DEF NewOverwritten
  <2>2. \A i \in 0 .. n - 1 : fill[i] \in Byte
    OBVIOUS
  <2>3. QED
    BY <2>1, <2>2, SizesAreNat, AllocateKeeps
<1>3. ASSUME NEW g \in Live, CopyOf(h, g)
      PROVE  IInv'
  BY <1>3, CopyOfKeeps
<1>4. ASSUME NEW g \in Live, NEW at \in 0 .. buf[g].size,
             NEW n \in 0 .. buf[g].size, WindowOf(h, g, at, n)
      PROVE  IInv'
  BY <1>4, WindowOfKeeps
<1>5. QED
  BY <1>1, <1>2, <1>3, <1>4 DEF Make

LEMMA MutateKeeps ==
  ASSUME BufferAssumption, IInv, NEW w \in Workers, Mutate(w)
  PROVE  IInv'
<1>1. ASSUME NEW h \in Live, NEW why \in {"write", "zero", "private"},
             Ask(w, h, why)
      PROVE  IInv'
  BY <1>1, AskKeeps
<1>2. CASE CopyOut(w)
  BY <1>2, CopyOutKeeps
<1>3. CASE ReleaseOld(w)
  BY <1>3, ReleaseOldKeeps
<1>4. CASE StoreNew(w)
  BY <1>4, StoreNewKeeps
<1>5. CASE WriteByte(w)
  BY <1>5, WriteByteKeeps
<1>6. CASE Zero(w)
  BY <1>6, ZeroKeeps
<1>7. CASE StartRegion(w)
  BY <1>7, StartRegionKeeps
<1>8. QED
  BY <1>1, <1>2, <1>3, <1>4, <1>5, <1>6, <1>7 DEF Mutate, Unshare

LEMMA StepKeepsIInv ==
  ASSUME BufferAssumption, IInv, [Next]_vars
  PROVE  IInv'
<1>1. ASSUME NEW h \in Handles, Make(h)
      PROVE  IInv'
  BY <1>1, MakeKeeps
<1>2. ASSUME NEW h \in Live, Drop(h)
      PROVE  IInv'
  BY <1>2, DropKeeps
<1>3. ASSUME NEW h \in Live, NEW n \in Sizes, SetSize(h, n)
      PROVE  IInv'
  BY <1>3, SizesAreNat, SetSizeKeeps
<1>4. ASSUME NEW w \in Workers, Mutate(w)
      PROVE  IInv'
  BY <1>4, MutateKeeps
<1>5. CASE EndRegion
  BY <1>5, EndRegionKeeps
<1>6. CASE UNCHANGED vars
  <2>1. /\ buf' = buf /\ count' = count /\ bytes' = bytes /\ op' = op
        /\ region' = region /\ Live' = Live
    BY <1>6 DEF vars, Live
  <2>2. \A g : Swapping(g)' <=> Swapping(g)
    BY <2>1 DEF Swapping
  <2>3. Shape' /\ Uses'
    BY <2>1 DEF IInv, Shape, Uses, Unsharing, Alone
  <2>4. \A x \in Allocs : HoldersOf(x)' = HoldersOf(x) /\ MakersOf(x)' = MakersOf(x)
    BY <2>1, <2>2 DEF HoldersOf, MakersOf
  <2>5. Counts'
    BY <2>1, <2>4, NobodyMoves DEF IInv
  <2>6. Room' /\ Pads'
    BY <2>1, <2>2 DEF IInv, Room, Pads, PadIsZero
  <2>7. QED
    BY <2>3, <2>5, <2>6 DEF IInv
<1>7. QED
  BY <1>1, <1>2, <1>3, <1>4, <1>5, <1>6 DEF Next

LEMMA AlwaysIInv ==
  ASSUME BufferAssumption
  PROVE  Spec => []IInv
<1>1. Init => IInv
  BY InitGivesIInv
<1>2. IInv /\ [Next]_vars => IInv'
  BY StepKeepsIInv
<1>3. QED
  BY <1>1, <1>2, PTL DEF Spec

(***************************************************************************)
(* The fields of buffers, the counts, the bytes and the threads' places    *)
(* keep their types: no step leaves a buffer without its allocation, a     *)
(* count below zero or a byte that was never written.                      *)
(***************************************************************************)
THEOREM BuffersKeepTypes ==
  ASSUME BufferAssumption
  PROVE  Spec => []TypeOK
<1>1. IInv => TypeOK
  BY DEF IInv, Shape, TypeOK, BufferT, OpT
<1>2. QED
  BY <1>1, AlwaysIInv, PTL

(***************************************************************************)
(* _mem, refcounted: whatever the threads are in the middle of, a count is *)
(* the number of buffers on the allocation and of the unshare that has     *)
(* made it, so no allocation is freed under a buffer and none is leaked.   *)
(***************************************************************************)
THEOREM CountsAreTrue ==
  ASSUME BufferAssumption
  PROVE  Spec => []CountIsHolders
<1>1. IInv => CountIsHolders
  BY DEF IInv, Counts, HoldersOf, MakersOf, CountIsHolders
<1>2. QED
  BY <1>1, AlwaysIInv, PTL

(***************************************************************************)
(* A buffer's allocation is live and holds its capacity, windows and       *)
(* buffers that went private included, whoever has let go of it.           *)
(***************************************************************************)
THEOREM PointersStayValid ==
  ASSUME BufferAssumption
  PROVE  Spec => []PointersAreValid
<1>1. ASSUME IInv
      PROVE  PointersAreValid
  <2>1. \A h \in Live : ~Swapping(h) => count[buf[h].mem] > 0
    BY <1>1, HolderCounts DEF IInv
  <2>2. QED
    BY <1>1, <2>1 DEF IInv, Room, PointersAreValid
<1>2. QED
  BY <1>1, AlwaysIInv, PTL

(***************************************************************************)
(* A kernel may read whole registers past the end of any buffer, window or *)
(* copy: the pad is zero through sharing, unsharing, writes and zero().    *)
(***************************************************************************)
THEOREM PadsStayZero ==
  ASSUME BufferAssumption
  PROVE  Spec => []PadIsZero
<1>1. IInv => PadIsZero
  BY DEF IInv, Pads
<1>2. QED
  BY <1>1, AlwaysIInv, PTL
-----------------------------------------------------------------------------

\* There is a largest size, as there is when the sizes are finitely many.
SizesAreBounded == \E n \in Sizes : \A k \in Sizes : k <= n

\* The longest value, as SharedBuffer instantiates it.
Top == CHOOSE m \in {round_up(n) + ALIGNMENT : n \in Sizes} :
          \A n \in Sizes : round_up(n) + ALIGNMENT <= m

LEMMA RoundingIsMonotone ==
  ASSUME NEW n \in Nat, NEW k \in Nat, k <= n
  PROVE  round_up(k) <= round_up(n)
<1> DEFINE A == ALIGNMENT
<1>1. A \in Nat /\ A > 0
  BY SizesAreNat
<1> HIDE DEF A
<1>2. PICK p \in Int, q \in Int : p = (k + A - 1) \div A /\ q = (n + A - 1) \div A
  BY <1>1
<1>3. A * p <= k + A - 1 /\ n + A - 1 < A * q + A
  BY <1>1, <1>2
<1>4. A * p < A * q + A
  BY <1>1, <1>2, <1>3
<1>5. p <= q
  BY <1>1, <1>2, <1>4
<1>6. p * A <= q * A
  BY <1>1, <1>2, <1>5
<1>7. QED
  BY <1>2, <1>6 DEF round_up, A

LEMMA TopHolds ==
  ASSUME SizesAreBounded
  PROVE  Top \in Nat /\ \A n \in Sizes : n <= Top
<1>1. PICK m \in Sizes : \A k \in Sizes : k <= m
  BY DEF SizesAreBounded
<1>2. \A n \in Sizes : n \in Nat /\ round_up(n) \in Nat /\ n <= round_up(n)
  BY SizesAreNat, RoundsUp
<1>3. \A n \in Sizes : round_up(n) + ALIGNMENT <= round_up(m) + ALIGNMENT
  BY <1>1, <1>2, SizesAreNat, RoundingIsMonotone
<1>4. \E t \in {round_up(n) + ALIGNMENT : n \in Sizes} :
         \A n \in Sizes : round_up(n) + ALIGNMENT <= t
  BY <1>1, <1>3
<1>5. /\ Top \in {round_up(n) + ALIGNMENT : n \in Sizes}
      /\ \A n \in Sizes : round_up(n) + ALIGNMENT <= Top
  BY <1>4 DEF Top
<1>6. QED
  BY <1>2, <1>5, SizesAreNat
-----------------------------------------------------------------------------
\* What the mapping needs besides the invariant of SharedBufferProofs: values
\* are no longer than the longest, uses have a purpose, and what an unshare
\* has copied is still what the buffer reads as.
Fits == \A h \in Live : buf[h].size <= Top
Purposes == \A w \in Workers :
              IF op[w].pc = "idle" THEN op[w] = Idle
              ELSE op[w].why \in {"write", "zero", "private"}
Copied == \A w \in Workers : op[w].pc = "release" =>
            LET b == buf[op[w].on] IN
            \A i \in 0 .. b.size - 1 :
               bytes[op[w].new][i] = bytes[b.mem][b.offset + i]

VInv == IInv /\ Fits /\ Purposes /\ Copied

\* The mapped state: what the buffers read as and what the threads ask for.
Reads == [h \in Live |-> View(h)]
Asks == [w \in Workers |-> [on |-> op[w].on, why |-> op[w].why]]
-----------------------------------------------------------------------------
LEMMA ViewSteady ==
  ASSUME NEW h
  PROVE  /\ ~Swapping(h) => View(h) = [i \in 0 .. buf[h].size - 1 |->
                                         bytes[buf[h].mem][buf[h].offset + i]]
         /\ ~Swapping(h)' => View(h)' = [i \in 0 .. buf'[h].size - 1 |->
                                           bytes'[buf'[h].mem][buf'[h].offset + i]]
<1>1. ~Swapping(h) => {w \in Workers : op[w].on = h /\ op[w].pc = "store"} = {}
  BY DEF Swapping
<1>2. ~Swapping(h)' => {w \in Workers : op'[w].on = h /\ op'[w].pc = "store"} = {}
  BY DEF Swapping
<1>3. QED
  BY <1>1, <1>2 DEF View

LEMMA ViewSwapping ==
  ASSUME NEW h, NEW w \in Workers
  PROVE  /\ Uses /\ op[w].on = h /\ op[w].pc = "store" =>
              View(h) = [i \in 0 .. buf[h].size - 1 |-> bytes[op[w].new][i]]
         /\ Uses' /\ op'[w].on = h /\ op'[w].pc = "store" =>
              View(h)' = [i \in 0 .. buf'[h].size - 1 |-> bytes'[op'[w].new][i]]
<1>1. ASSUME Uses, op[w].on = h, op[w].pc = "store"
      PROVE  {v \in Workers : op[v].on = h /\ op[v].pc = "store"} = {w}
  BY <1>1 DEF Uses, Unsharing
<1>2. ASSUME Uses', op'[w].on = h, op'[w].pc = "store"
      PROVE  {v \in Workers : op'[v].on = h /\ op'[v].pc = "store"} = {w}
  BY <1>2 DEF Uses, Unsharing
<1>3. {w} # {} /\ (CHOOSE v \in {w} : TRUE) = w
  OBVIOUS
<1>4. QED
  BY <1>1, <1>2, <1>3 DEF View

\* What a live buffer reads as is a string of its size.
LEMMA ViewsAreStrings ==
  ASSUME NEW h
  PROVE  /\ IInv /\ h \in Live => View(h) \in [0 .. buf[h].size - 1 -> Byte]
         /\ IInv' /\ h \in Live' => View(h)' \in [0 .. buf'[h].size - 1 -> Byte]
<1>1. ASSUME IInv, h \in Live
      PROVE  View(h) \in [0 .. buf[h].size - 1 -> Byte]
  <2>1. /\ buf[h] \in BufferT /\ buf[h].size <= buf[h].capacity
        /\ \A i \in 0 .. buf[h].size - 1 : i \in 0 .. buf[h].capacity - 1
    BY <1>1 DEF IInv, Shape, Room, BufferT
  <2>2. CASE ~Swapping(h)
    <3>1. \A i \in 0 .. buf[h].size - 1 : bytes[buf[h].mem][buf[h].offset + i] \in Byte
      BY <1>1, <2>1, <2>2 DEF IInv, Shape, Room, BufferT
    <3>2. QED
      BY <2>2, <3>1, ViewSteady
  <2>3. CASE Swapping(h)
    <3>1. PICK w \in Workers : op[w].on = h /\ op[w].pc = "store"
      BY <2>3 DEF Swapping
    <3>2. /\ op[w].new \in Allocs
          /\ DOMAIN bytes[op[w].new] = 0 .. buf[h].capacity - 1
      BY <1>1, <3>1 DEF IInv, Shape, OpT, Uses, Room
    <3>3. \A i \in 0 .. buf[h].size - 1 : bytes[op[w].new][i] \in Byte
      BY <1>1, <2>1, <3>2 DEF IInv, Shape
    <3>4. QED
      BY <1>1, <3>1, <3>3, ViewSwapping DEF IInv
  <2>4. QED
    BY <2>2, <2>3
<1>2. ASSUME IInv', h \in Live'
      PROVE  View(h)' \in [0 .. buf'[h].size - 1 -> Byte]
  <2>1. /\ buf'[h] \in BufferT /\ buf'[h].size <= buf'[h].capacity
        /\ \A i \in 0 .. buf'[h].size - 1 : i \in 0 .. buf'[h].capacity - 1
    BY <1>2 DEF IInv, Shape, Room, BufferT
  <2>2. CASE ~Swapping(h)'
    <3>1. \A i \in 0 .. buf'[h].size - 1 : bytes'[buf'[h].mem][buf'[h].offset + i] \in Byte
      BY <1>2, <2>1, <2>2 DEF IInv, Shape, Room, BufferT
    <3>2. QED
      BY <2>2, <3>1, ViewSteady
  <2>3. CASE Swapping(h)'
    <3>1. PICK w \in Workers : op'[w].on = h /\ op'[w].pc = "store"
      BY <2>3 DEF Swapping
    <3>2. /\ op'[w].new \in Allocs
          /\ DOMAIN bytes'[op'[w].new] = 0 .. buf'[h].capacity - 1
      BY <1>2, <3>1 DEF IInv, Shape, OpT, Uses, Room
    <3>3. \A i \in 0 .. buf'[h].size - 1 : bytes'[op'[w].new][i] \in Byte
      BY <1>2, <2>1, <3>2 DEF IInv, Shape
    <3>4. QED
      BY <1>2, <3>1, <3>3, ViewSwapping DEF IInv
  <2>4. QED
    BY <2>2, <2>3
<1>3. QED
  BY <1>1, <1>2
-----------------------------------------------------------------------------
\* A step leaves g alone: its fields, its bytes, and an unshare of it.
Calm(g) ==
  /\ buf'[g] = buf[g]
  /\ Swapping(g)' <=> Swapping(g)
  /\ ~Swapping(g) => bytes'[buf[g].mem] = bytes[buf[g].mem]
  /\ \A w \in Workers : op[w].on = g /\ op[w].new # None =>
        op'[w] = op[w] /\ bytes'[op[w].new] = bytes[op[w].new]

LEMMA CalmReadsTheSame ==
  ASSUME IInv, IInv', NEW g \in Live, g \in Live', Calm(g)
  PROVE  View(g)' = View(g)
<1>1. CASE ~Swapping(g)
  <2>1. ~Swapping(g)' /\ buf'[g] = buf[g] /\ bytes'[buf[g].mem] = bytes[buf[g].mem]
    BY <1>1 DEF Calm
  <2>2. View(g) = [i \in 0 .. buf[g].size - 1 |->
                     bytes[buf[g].mem][buf[g].offset + i]]
    BY <1>1, ViewSteady
  <2>3. View(g)' = [i \in 0 .. buf'[g].size - 1 |->
                      bytes'[buf'[g].mem][buf'[g].offset + i]]
    BY <2>1, ViewSteady
  <2>4. QED
    BY <2>1, <2>2, <2>3
<1>2. CASE Swapping(g)
  <2>1. PICK w \in Workers : op[w].on = g /\ op[w].pc = "store"
    BY <1>2 DEF Swapping
  <2>2. op[w].new # None
    BY <2>1 DEF IInv, Uses
  <2>3. op'[w] = op[w] /\ bytes'[op[w].new] = bytes[op[w].new] /\ buf'[g] = buf[g]
    BY <2>1, <2>2 DEF Calm
  <2>4. Uses /\ Uses'
    BY DEF IInv
  <2>5. View(g) = [i \in 0 .. buf[g].size - 1 |-> bytes[op[w].new][i]]
    BY <2>1, <2>4, ViewSwapping
  <2>6. View(g)' = [i \in 0 .. buf'[g].size - 1 |-> bytes'[op'[w].new][i]]
    BY SMTT(30), <2>1, <2>3, <2>4, ViewSwapping
  <2>7. QED
    BY <2>3, <2>5, <2>6
<1>3. QED
  BY <1>1, <1>2

\* What an unshare has copied is what a buffer left alone reads as.
LEMMA CopiedStands ==
  ASSUME VInv, NEW w \in Workers, op[w].pc = "release", op'[w] = op[w],
         Calm(op[w].on)
  PROVE  \A i \in 0 .. buf'[op'[w].on].size - 1 :
            bytes'[op'[w].new][i] =
              bytes'[buf'[op'[w].on].mem][buf'[op'[w].on].offset + i]
<1>1. op[w].on \in Live /\ op[w].new # None
  BY DEF VInv, IInv, Uses
<1>2. ~Swapping(op[w].on)
  BY <1>1, Steady DEF VInv, IInv
<1>3. /\ buf'[op[w].on] = buf[op[w].on]
      /\ bytes'[buf[op[w].on].mem] = bytes[buf[op[w].on].mem]
      /\ bytes'[op[w].new] = bytes[op[w].new]
  BY <1>1, <1>2 DEF Calm
<1>4. QED
  BY <1>3 DEF VInv, Copied

\* The rest of the invariant stands when the threads that use a buffer find
\* it as it was.
LEMMA RestStands ==
  ASSUME VInv, IInv', op' = op, \A g \in Live' \ Live : buf'[g].size <= Top,
         \A g \in Live : (\E w \in Workers : op[w].on = g) => Calm(g),
         \A g \in Live : g \in Live' => Calm(g) \/ buf'[g].size <= Top
  PROVE  VInv'
<1>1. Fits'
  <2>1. ASSUME NEW g \in Live'
        PROVE  buf'[g].size <= Top
    BY DEF VInv, Fits, Calm
  <2>2. QED
    BY <2>1 DEF Fits
<1>2. Purposes'
  BY DEF VInv, Purposes
<1>3. Copied'
  <2>1. ASSUME NEW w \in Workers, op[w].pc = "release"
        PROVE  op[w].on \in Live /\ Calm(op[w].on) /\ op'[w] = op[w]
    BY <2>1 DEF VInv, IInv, Uses
  <2>2. QED
    BY <2>1, CopiedStands DEF Copied
<1>4. QED
  BY <1>1, <1>2, <1>3 DEF VInv

\* Steps that nobody sees.
LEMMA Unseen ==
  ASSUME IInv, IInv', Live' = Live, \A g \in Live : View(g)' = View(g),
         \A w \in Workers : op'[w].on = op[w].on /\ op'[w].why = op[w].why
  PROVE  UNCHANGED Values!vars
<1>1. Reads' = Reads
  BY DEF Reads
<1>2. Asks' = Asks
  BY DEF Asks
<1>3. QED
  BY <1>1, <1>2 DEF Values!vars, Reads, Asks
-----------------------------------------------------------------------------
LEMMA Mapped ==
  /\ Values!Live = Live /\ DOMAIN Reads = Live
  /\ \A h \in Live : Reads[h] = View(h)
  /\ \A w \in Workers : Asks[w] = [on |-> op[w].on, why |-> op[w].why]
BY DEF Values!Live, Reads, Asks

LEMMA StringsAre ==
  ASSUME NEW n \in 0 .. Top, NEW v \in [0 .. n - 1 -> Byte]
  PROVE  v \in Values!Strings
BY DEF Values!Strings, Top

LEMMA LengthIs ==
  ASSUME SizesAreBounded, NEW n \in 0 .. Top, NEW v, DOMAIN v = 0 .. n - 1
  PROVE  Values!Length(v) = n
<1>1. Top \in Nat
  BY TopHolds
<1>2. \A k \in 0 .. Top : DOMAIN v = 0 .. k - 1 => k = n
  <2>1. ASSUME NEW k \in 0 .. Top, 0 .. k - 1 = 0 .. n - 1
        PROVE  k = n
    <3>1. k \in Int /\ n \in Int /\ k >= 0 /\ n >= 0
      BY <1>1
    <3>2. \A i \in Int : i \in 0 .. k - 1 <=> i \in 0 .. n - 1
      BY <2>1
    <3>3. ~(k < n)
      BY <3>1, <3>2
    <3>4. ~(n < k)
      BY <3>1, <3>2
    <3>5. QED
      BY <3>1, <3>3, <3>4
  <2>2. QED
    BY <2>1
<1>3. QED
  BY <1>2 DEF Values!Length, Top

\* A handle that is not in use is given a buffer: one value more.
LEMMA OneMore ==
  ASSUME BufferAssumption, VInv, IInv', NEW h \in Handles, h \notin Live,
         NEW b \in BufferT, b.size <= Top,
         buf' = With(h, b), op' = op, region' = region,
         \A g \in Live : ~Swapping(g) => bytes'[buf[g].mem] = bytes[buf[g].mem],
         \A w \in Workers : op[w].new # None => bytes'[op[w].new] = bytes[op[w].new]
  PROVE  /\ VInv'
         /\ h \notin Values!Live
         /\ Reads' = Values!With(h, View(h)')
         /\ Asks' = Asks
         /\ View(h)' = [i \in 0 .. b.size - 1 |-> bytes'[b.mem][b.offset + i]]
<1>1. /\ Live' = Live \cup {h} /\ buf'[h] = b /\ \A g \in Live : buf'[g] = buf[g]
      /\ \A g : Swapping(g)' <=> Swapping(g)
      /\ ~Swapping(h)
  BY Added DEF VInv
<1>2. \A g \in Live : Calm(g)
  BY <1>1 DEF Calm
<1>3. VInv'
  BY <1>1, <1>2, RestStands
<1>4. \A g \in Live : View(g)' = View(g)
  BY <1>1, <1>2, CalmReadsTheSame DEF VInv
<1>5. Reads' = [g \in Live \cup {h} |-> IF g = h THEN View(h)' ELSE Reads[g]]
  <2>1. Reads' = [g \in Live \cup {h} |-> View(g)']
    BY <1>1 DEF Reads
  <2>2. \A g \in Live \cup {h} :
          View(g)' = IF g = h THEN View(h)' ELSE Reads[g]
    BY <1>4, Mapped
  <2>3. QED
    BY <2>1, <2>2
<1>6. Values!With(h, View(h)') =
        [g \in Live \cup {h} |-> IF g = h THEN View(h)' ELSE Reads[g]]
  BY Mapped DEF Values!With, Reads
<1>7. Asks' = Asks
  BY DEF Asks
<1>8. View(h)' = [i \in 0 .. b.size - 1 |-> bytes'[b.mem][b.offset + i]]
  BY <1>1, ViewSteady
<1>9. QED
  BY <1>3, <1>5, <1>6, <1>7, <1>8, Mapped

LEMMA AllocateIsNew ==
  ASSUME BufferAssumption, SizesAreBounded, VInv, NEW h \in Handles,
         NEW n \in Sizes, NEW fill, \A i \in 0 .. n - 1 : fill[i] \in Byte,
         Allocate(h, n, fill)
  PROVE  VInv' /\ Values!New(h)
<1>1. n \in Nat /\ n <= Top /\ n \in 0 .. Top
  BY SizesAreNat, TopHolds
<1>2. IInv'
  BY <1>1, AllocateKeeps DEF VInv
<1> DEFINE cap == AllocCapacity(n)
<1>3. cap \in Nat
  BY <1>1, CapacityHolds
<1>4. PICK a \in Allocs :
         /\ count[a] = 0
         /\ bytes' = [bytes EXCEPT ![a] = [i \in 0 .. cap - 1 |->
                                             IF i < n THEN fill[i] ELSE 0]]
         /\ buf' = With(h, [mem |-> a, offset |-> 0, size |-> n,
                            capacity |-> cap, slack |-> FALSE])
  BY DEF Allocate
<1> HIDE DEF cap
<1>5. PICK b : b = [mem |-> a, offset |-> 0, size |-> n, capacity |-> cap,
                    slack |-> FALSE]
  OBVIOUS
<1>6. b \in BufferT /\ b.size = n /\ buf' = With(h, b)
  BY <1>1, <1>3, <1>4, <1>5 DEF BufferT
<1>7. /\ \A g \in Live : ~Swapping(g) => buf[g].mem # a
      /\ \A w \in Workers : op[w].new # a
  BY <1>4, UncountedIsUnheld DEF VInv, IInv
<1>8. \A x \in Allocs : x # a => bytes'[x] = bytes[x]
  BY <1>4 DEF VInv, IInv, Shape
<1>9. \A g \in Live : ~Swapping(g) => bytes'[buf[g].mem] = bytes[buf[g].mem]
  BY <1>7, <1>8 DEF VInv, IInv, Shape, BufferT
<1>10. \A w \in Workers : op[w].new # None => bytes'[op[w].new] = bytes[op[w].new]
  BY <1>7, <1>8 DEF VInv, IInv, Shape, OpT
<1>11. h \notin Live /\ op' = op /\ region' = region
  BY DEF Allocate
<1>12. /\ VInv' /\ h \notin Values!Live /\ Asks' = Asks
       /\ Reads' = Values!With(h, View(h)')
  BY <1>1, <1>2, <1>6, <1>9, <1>10, <1>11, OneMore
<1>13. h \in Live' /\ buf'[h] = b
  BY <1>6, <1>11, Added DEF VInv
<1>14. View(h)' \in Values!Strings
  BY <1>1, <1>2, <1>6, <1>13, ViewsAreStrings, StringsAre
<1>15. QED
  BY <1>12, <1>14 DEF Values!New, Reads, Asks

LEMMA ShareIsCut ==
  ASSUME BufferAssumption, SizesAreBounded, VInv, IInv', NEW h \in Handles,
         h \notin Live, NEW g \in Live, Unused(g), NEW b \in BufferT,
         NEW at \in Nat, b.mem = buf[g].mem, b.offset = buf[g].offset + at,
         at + b.size <= buf[g].size,
         buf' = With(h, b), bytes' = bytes, op' = op, region' = region
  PROVE  VInv' /\ Values!Cut(h, g)
<1>1. /\ buf[g] \in BufferT /\ buf[g].size <= Top /\ ~Swapping(g)
  BY Steady DEF VInv, IInv, Shape, Fits
<1>2. Top \in Nat /\ b.size <= Top /\ buf[g].size \in 0 .. Top
  BY <1>1, TopHolds DEF BufferT
<1>3. /\ VInv' /\ h \notin Values!Live /\ Asks' = Asks
      /\ Reads' = Values!With(h, View(h)')
      /\ View(h)' = [i \in 0 .. b.size - 1 |-> bytes'[b.mem][b.offset + i]]
  BY <1>2, OneMore
<1>4. View(g) = [i \in 0 .. buf[g].size - 1 |->
                   bytes[buf[g].mem][buf[g].offset + i]]
  BY <1>1, ViewSteady
<1>5. Values!Length(Reads[g]) = buf[g].size
  BY <1>2, <1>4, LengthIs, Mapped
<1>6. /\ at \in 0 .. Values!Length(Reads[g])
      /\ b.size \in 0 .. Values!Length(Reads[g]) - at
  BY <1>1, <1>5 DEF BufferT
<1>7. View(h)' = [i \in 0 .. b.size - 1 |-> Reads[g][at + i]]
  <2>1. ASSUME NEW i \in 0 .. b.size - 1
        PROVE  bytes'[b.mem][b.offset + i] = Reads[g][at + i]
    <3>1. at + i \in 0 .. buf[g].size - 1
      BY <1>1 DEF BufferT
    <3>2. buf[g].offset + (at + i) = b.offset + i
      BY <1>1 DEF BufferT
    <3>3. Reads[g] = View(g)
      BY Mapped
    <3>4. View(g)[at + i] = bytes[buf[g].mem][buf[g].offset + (at + i)]
      BY <1>4, <3>1
    <3>5. QED
      BY <3>2, <3>3, <3>4
  <2>2. QED
    BY <1>3, <2>1
<1>8. View(h)' = Values!Slice(Reads[g], at, b.size)
  BY <1>7 DEF Values!Slice
<1>9. QED
  BY <1>3, <1>6, <1>8 DEF Values!Cut, Reads, Asks

LEMMA CopyOfIsCut ==
  ASSUME BufferAssumption, SizesAreBounded, VInv, NEW h \in Handles,
         NEW g \in Live, CopyOf(h, g)
  PROVE  VInv' /\ Values!Cut(h, g)
<1>1. IInv'
  BY CopyOfKeeps DEF VInv
<1>2. /\ buf[g] \in BufferT /\ buf[g].offset = buf[g].offset + 0
      /\ 0 + buf[g].size <= buf[g].size
  BY DEF VInv, IInv, Shape, BufferT
<1>3. /\ h \notin Live /\ Unused(g) /\ buf' = With(h, buf[g])
      /\ bytes' = bytes /\ op' = op /\ region' = region
  BY DEF CopyOf
<1>4. QED
  BY <1>1, <1>2, <1>3, ShareIsCut

LEMMA WindowOfIsCut ==
  ASSUME BufferAssumption, SizesAreBounded, VInv, NEW h \in Handles,
         NEW g \in Live, NEW at \in 0 .. buf[g].size, NEW n \in 0 .. buf[g].size,
         WindowOf(h, g, at, n)
  PROVE  VInv' /\ Values!Cut(h, g)
<1>1. IInv'
  BY WindowOfKeeps DEF VInv
<1>2. PICK b : b = [mem |-> buf[g].mem, offset |-> buf[g].offset + at,
                    size |-> n, capacity |-> WindowCapacity(g, at, n),
                    slack |-> buf[g].slack]
  OBVIOUS
<1>3. /\ h \notin Live /\ Unused(g) /\ buf' = With(h, b) /\ at + n <= buf[g].size
      /\ bytes' = bytes /\ op' = op /\ region' = region
  BY <1>2 DEF WindowOf
<1>4. /\ b.mem = buf[g].mem /\ b.offset = buf[g].offset + at /\ b.size = n
  BY <1>2
<1>5. b \in BufferT
  <2>1. buf'[h] = b /\ h \in Live'
    BY <1>3 DEF With, Live
  <2>2. QED
    BY <1>1, <2>1 DEF IInv, Shape
<1>6. at \in Nat /\ at + b.size <= buf[g].size
  BY <1>3, <1>4 DEF VInv, IInv, Shape, BufferT
<1>7. QED
  BY <1>1, <1>3, <1>4, <1>5, <1>6, ShareIsCut

LEMMA DropIsFree ==
  ASSUME BufferAssumption, VInv, NEW h \in Live, Drop(h)
  PROVE  VInv' /\ Values!Free(h)
<1>1. IInv'
  BY DropKeeps DEF VInv
<1>2. /\ ~Swapping(h) /\ op' = op /\ Live' = Live \ {h}
      /\ \A g \in Live : g # h => buf'[g] = buf[g]
      /\ \A w \in Workers : op[w].on # h
  BY Steady DEF VInv, IInv, Drop, Unused, Live
<1>3. /\ \A g \in Live : g # h /\ ~Swapping(g) =>
            bytes'[buf[g].mem] = bytes[buf[g].mem]
      /\ \A w \in Workers : op[w].new # None => bytes'[op[w].new] = bytes[op[w].new]
  <2>1. PICK a : a = buf[h].mem
    OBVIOUS
  <2>2. Release(a)
    BY <2>1 DEF Drop
  <2>3. QED
    BY <1>2, <2>1, <2>2, LetGo DEF VInv
<1>4. \A g \in Live : g # h => Calm(g)
  <2>1. \A g : Swapping(g)' <=> Swapping(g)
    BY <1>2 DEF Swapping
  <2>2. QED
    BY <1>2, <1>3, <2>1 DEF Calm
<1>5. VInv'
  BY <1>1, <1>2, <1>4, RestStands
<1>6. \A g \in Live : g # h => View(g)' = View(g)
  BY <1>1, <1>2, <1>4, CalmReadsTheSame DEF VInv
<1>7. Reads' = [g \in Live \ {h} |-> Reads[g]]
  <2>1. Reads' = [g \in Live \ {h} |-> View(g)']
    BY <1>2 DEF Reads
  <2>2. \A g \in Live \ {h} : View(g)' = Reads[g]
    BY <1>6, Mapped
  <2>3. QED
    BY <2>1, <2>2
<1>8. Asks' = Asks
  BY <1>2 DEF Asks
<1>9. QED
  BY <1>5, <1>7, <1>8, Mapped DEF Values!Free, Reads, Asks

LEMMA SetSizeIsResize ==
  ASSUME BufferAssumption, SizesAreBounded, VInv, NEW h \in Live,
         NEW n \in Sizes, SetSize(h, n)
  PROVE  VInv' /\ Values!Resize(h)
<1>1. n \in Nat /\ n <= Top /\ n \in 0 .. Top
  BY SizesAreNat, TopHolds
<1>2. IInv'
  BY <1>1, SetSizeKeeps DEF VInv
<1>3. /\ ~Swapping(h) /\ op' = op /\ bytes' = bytes /\ Live' = Live
      /\ \A w \in Workers : op[w].on # h
      /\ \A g \in Live : g # h => buf'[g] = buf[g]
      /\ buf'[h] = [buf[h] EXCEPT !.size = n, !.slack = @ \/ n < buf[h].size]
  BY Steady DEF VInv, IInv, Shape, SetSize, Unused, Live
<1>4. buf'[h].mem = buf[h].mem /\ buf'[h].offset = buf[h].offset /\ buf'[h].size = n
  BY <1>3 DEF VInv, IInv, Shape, BufferT
<1>5. \A g : Swapping(g)' <=> Swapping(g)
  BY <1>3 DEF Swapping
<1>6. \A g \in Live : g # h => Calm(g)
  BY <1>3, <1>5 DEF Calm
<1>7. VInv'
  BY <1>1, <1>2, <1>3, <1>4, <1>6, RestStands
<1>8. \A g \in Live : g # h => View(g)' = View(g)
  BY <1>2, <1>3, <1>6, CalmReadsTheSame DEF VInv
<1>9. View(h)' = [i \in 0 .. n - 1 |-> bytes[buf[h].mem][buf[h].offset + i]]
  <2>1. View(h)' = [i \in 0 .. buf'[h].size - 1 |->
                      bytes'[buf'[h].mem][buf'[h].offset + i]]
    BY <1>3, <1>5, ViewSteady
  <2>2. bytes' = bytes
    BY <1>3
  <2>3. QED
    BY <1>4, <2>1, <2>2
<1>10. View(h) = [i \in 0 .. buf[h].size - 1 |->
                    bytes[buf[h].mem][buf[h].offset + i]]
  BY <1>3, ViewSteady
<1>11. \A i \in DOMAIN View(h)' \cap DOMAIN Reads[h] : View(h)'[i] = Reads[h][i]
  <2>1. Reads[h] = View(h)
    BY Mapped
  <2>2. \A i \in DOMAIN View(h)' : View(h)'[i] = bytes[buf[h].mem][buf[h].offset + i]
    BY <1>9
  <2>3. \A i \in DOMAIN View(h) : View(h)[i] = bytes[buf[h].mem][buf[h].offset + i]
    BY <1>10
  <2>4. QED
    BY <2>1, <2>2, <2>3
<1>12. View(h)' \in Values!Strings
  BY <1>1, <1>2, <1>3, <1>4, ViewsAreStrings, StringsAre
<1>13. Reads' = [Reads EXCEPT ![h] = View(h)']
  BY <1>3, <1>8 DEF Reads
<1>14. Asks' = Asks
  BY <1>3 DEF Asks
<1>15. QED
  BY <1>7, <1>11, <1>12, <1>13, <1>14 DEF Values!Resize, Reads, Asks
-----------------------------------------------------------------------------
LEMMA AskIsAsk ==
  ASSUME BufferAssumption, VInv, NEW w \in Workers, NEW h \in Live,
         NEW why \in {"write", "zero", "private"}, Ask(w, h, why)
  PROVE  VInv' /\ Values!Ask(w, h, why)
<1>1. IInv'
  BY AskKeeps DEF VInv
<1>2. op[w].pc = "idle" /\ buf' = buf /\ bytes' = bytes /\ Live' = Live
  BY DEF Ask, Live
<1>3. /\ op'[w] = [pc |-> IF Alone(h) THEN "ready" ELSE "copy",
                   on |-> h, why |-> why, new |-> None]
      /\ \A v \in Workers : v # w => op'[v] = op[v]
      /\ op' = [v \in Workers |-> op'[v]]
  BY DEF VInv, IInv, Shape, Ask
<1>4. /\ op'[w].on = h /\ op'[w].why = why
      /\ op'[w].pc = IF Alone(h) THEN "ready" ELSE "copy"
  BY <1>3
<1>5. op[w] = Idle /\ op[w].on = None /\ op[w].why = "none" /\ op[w].new = None
  BY <1>2 DEF VInv, Purposes, Idle
<1>6. \A g : Swapping(g)' <=> Swapping(g)
  BY <1>2, <1>3, <1>4 DEF Swapping
<1>7. \A g \in Live : Calm(g)
  BY <1>2, <1>3, <1>5, <1>6 DEF Calm
<1>8. VInv'
  <2>1. Fits'
    BY <1>2 DEF VInv, Fits
  <2>2. Purposes'
    BY <1>3, <1>4 DEF VInv, Purposes
  <2>3. \A v \in Workers : op'[v].pc = "release" => op'[v] = op[v]
    BY <1>3, <1>4
  <2>4. Copied'
    BY <1>2, <2>3 DEF VInv, Copied
  <2>5. QED
    BY <1>1, <2>1, <2>2, <2>4 DEF VInv
<1>9. \A g \in Live : View(g)' = View(g)
  BY <1>1, <1>2, <1>7, CalmReadsTheSame DEF VInv
<1>10. Reads' = Reads
  BY <1>2, <1>9 DEF Reads
<1>11. Asks[w] = Values!Nothing
  BY <1>5, Mapped DEF Values!Nothing
<1>12. Asks' = [Asks EXCEPT ![w] = [on |-> h, why |-> why]]
  BY <1>3, <1>4 DEF Asks
<1>13. QED
  BY <1>8, <1>10, <1>11, <1>12 DEF Values!Ask, Reads, Asks

\* The steps of _unshare.
LEMMA CopyOutIsUnseen ==
  ASSUME BufferAssumption, VInv, NEW w \in Workers, CopyOut(w)
  PROVE  VInv' /\ UNCHANGED Values!vars
<1>1. IInv'
  BY CopyOutKeeps DEF VInv
<1>2. PICK h, b : h = op[w].on /\ b = buf[h]
  OBVIOUS
<1>3. PICK a \in Allocs :
         /\ count[a] = 0
         /\ bytes' = [bytes EXCEPT ![a] = [i \in 0 .. b.capacity - 1 |->
                        IF i < b.size THEN SourceByte(b, i) ELSE 0]]
         /\ op' = [op EXCEPT ![w].pc = "release", ![w].new = a]
  BY <1>2 DEF CopyOut
<1>4. /\ op[w].pc = "copy" /\ op[w].new = None /\ buf' = buf /\ Live' = Live
      /\ h \in Live
  BY <1>2 DEF VInv, IInv, Uses, CopyOut, Live
<1>5. /\ op'[w] = [op[w] EXCEPT !.pc = "release", !.new = a]
      /\ \A v \in Workers : v # w => op'[v] = op[v]
  BY <1>3 DEF VInv, IInv, Shape
<1>6. /\ op'[w].pc = "release" /\ op'[w].new = a /\ op'[w].on = h
      /\ op'[w].why = op[w].why
  BY <1>2, <1>5 DEF VInv, IInv, Shape, OpT
<1>7. \A g : Swapping(g)' <=> Swapping(g)
  BY <1>4, <1>5, <1>6 DEF Swapping
<1>8. /\ \A g \in Live : ~Swapping(g) => buf[g].mem # a
      /\ \A v \in Workers : op[v].new # a
  BY <1>3, UncountedIsUnheld DEF VInv, IInv
<1>9. /\ \A i \in 0 .. b.capacity - 1 :
            bytes'[a][i] = IF i < b.size THEN SourceByte(b, i) ELSE 0
      /\ \A x \in Allocs : x # a => bytes'[x] = bytes[x]
  BY <1>3 DEF VInv, IInv, Shape
<1>10. \A g \in Live : ~Swapping(g) => bytes'[buf[g].mem] = bytes[buf[g].mem]
  BY <1>8, <1>9 DEF VInv, IInv, Shape, BufferT
<1>11. \A v \in Workers : op[v].new # None =>
         op'[v] = op[v] /\ bytes'[op[v].new] = bytes[op[v].new]
  BY <1>4, <1>5, <1>8, <1>9 DEF VInv, IInv, Shape, OpT
<1>12. \A g \in Live : Calm(g)
  BY <1>4, <1>7, <1>10, <1>11 DEF Calm
<1>13. Copied'
  <2>1. ~Swapping(h) /\ b \in BufferT /\ b.size <= b.capacity
    BY <1>2, <1>4, Steady DEF VInv, IInv, Shape, Room
  <2>2. ASSUME NEW i \in 0 .. b.size - 1
        PROVE  bytes'[a][i] = bytes'[b.mem][b.offset + i]
    <3>1. i \in 0 .. b.capacity - 1 /\ i < b.size
      BY <2>1 DEF BufferT
    <3>2. b.offset + i \in DOMAIN bytes[b.mem]
      BY <1>2, <1>4, <2>1, <3>1 DEF VInv, IInv, Room
    <3>3. bytes'[a][i] = bytes[b.mem][b.offset + i]
      BY <1>9, <3>1, <3>2 DEF SourceByte
    <3>4. QED
      BY <1>2, <1>4, <1>10, <2>1, <3>3
  <2>3. ASSUME NEW v \in Workers, op'[v].pc = "release"
        PROVE  \A i \in 0 .. buf'[op'[v].on].size - 1 :
                  bytes'[op'[v].new][i] =
                    bytes'[buf'[op'[v].on].mem][buf'[op'[v].on].offset + i]
    <3>1. CASE v = w
      BY <1>2, <1>4, <1>6, <2>2, <3>1
    <3>2. CASE v # w
      <4>1. op'[v] = op[v] /\ op[v].pc = "release" /\ op[v].on \in Live
        BY <1>5, <2>3, <3>2 DEF VInv, IInv, Uses
      <4>2. QED
        BY <1>12, <4>1, CopiedStands
    <3>3. QED
      BY <3>1, <3>2
  <2>4. QED
    BY <2>3 DEF Copied
<1>14. VInv'
  <2>1. Fits'
    BY <1>4 DEF VInv, Fits
  <2>2. Purposes'
    BY <1>4, <1>5, <1>6 DEF VInv, Purposes
  <2>3. QED
    BY <1>1, <1>13, <2>1, <2>2 DEF VInv
<1>15. \A g \in Live : View(g)' = View(g)
  BY <1>1, <1>4, <1>12, CalmReadsTheSame DEF VInv
<1>16. \A v \in Workers : op'[v].on = op[v].on /\ op'[v].why = op[v].why
  BY <1>2, <1>5, <1>6
<1>17. QED
  BY <1>1, <1>4, <1>14, <1>15, <1>16, Unseen DEF VInv

LEMMA ReleaseOldIsUnseen ==
  ASSUME BufferAssumption, VInv, NEW w \in Workers, ReleaseOld(w)
  PROVE  VInv' /\ UNCHANGED Values!vars
<1>1. IInv'
  BY ReleaseOldKeeps DEF VInv
<1>2. PICK h, a : h = op[w].on /\ a = buf[h].mem
  OBVIOUS
<1>3. /\ op[w].pc = "release" /\ buf' = buf /\ Live' = Live /\ Release(a)
  BY <1>2 DEF ReleaseOld, Live
<1>4. /\ h \in Live /\ op[w].new # None
      /\ \A v \in Workers : v # w => op[v].on # h
  BY <1>2, <1>3 DEF VInv, IInv, Uses, Unsharing
<1>5. ~Swapping(h)
  BY <1>2, <1>3, <1>4 DEF Swapping
<1>6. /\ \A g \in Live : g # h /\ ~Swapping(g) =>
            bytes'[buf[g].mem] = bytes[buf[g].mem]
      /\ \A v \in Workers : op[v].new # None => bytes'[op[v].new] = bytes[op[v].new]
  BY <1>2, <1>3, <1>4, <1>5, LetGo DEF VInv
<1>7. /\ op'[w] = [op[w] EXCEPT !.pc = "store"]
      /\ \A v \in Workers : v # w => op'[v] = op[v]
  BY DEF VInv, IInv, Shape, ReleaseOld
<1>8. /\ op'[w].pc = "store" /\ op'[w].new = op[w].new /\ op'[w].on = h
      /\ op'[w].why = op[w].why
  BY <1>2, <1>7 DEF VInv, IInv, Shape, OpT
<1>9. \A g : g # h => (Swapping(g)' <=> Swapping(g))
  BY <1>2, <1>7, <1>8 DEF Swapping
<1>10. \A g \in Live : g # h => Calm(g)
  BY <1>2, <1>3, <1>6, <1>7, <1>9 DEF Calm
<1>11. View(h)' = View(h)
  <2>1. View(h) = [i \in 0 .. buf[h].size - 1 |->
                     bytes[buf[h].mem][buf[h].offset + i]]
    BY <1>5, ViewSteady
  <2>2. View(h)' = [i \in 0 .. buf'[h].size - 1 |-> bytes'[op'[w].new][i]]
    BY <1>1, <1>8, ViewSwapping DEF IInv
  <2>3. bytes'[op'[w].new] = bytes[op[w].new] /\ buf'[h] = buf[h]
    BY <1>3, <1>4, <1>6, <1>8
  <2>4. \A i \in 0 .. buf[h].size - 1 :
          bytes[op[w].new][i] = bytes[buf[h].mem][buf[h].offset + i]
    BY <1>2, <1>3 DEF VInv, Copied
  <2>5. QED
    BY <2>1, <2>2, <2>3, <2>4
<1>12. Copied'
  <2>1. ASSUME NEW v \in Workers, op'[v].pc = "release"
        PROVE  \A i \in 0 .. buf'[op'[v].on].size - 1 :
                  bytes'[op'[v].new][i] =
                    bytes'[buf'[op'[v].on].mem][buf'[op'[v].on].offset + i]
    <3>1. v # w
      BY <1>8, <2>1
    <3>2. op'[v] = op[v] /\ op[v].pc = "release"
      BY <1>7, <2>1, <3>1
    <3>3. op[v].on \in Live /\ op[v].on # h
      BY <1>4, <3>1, <3>2 DEF VInv, IInv, Uses
    <3>4. QED
      BY <1>10, <3>2, <3>3, CopiedStands
  <2>2. QED
    BY <2>1 DEF Copied
<1>13. VInv'
  <2>1. Fits'
    BY <1>3 DEF VInv, Fits
  <2>2. Purposes'
    BY <1>3, <1>7, <1>8 DEF VInv, Purposes
  <2>3. QED
    BY <1>1, <1>12, <2>1, <2>2 DEF VInv
<1>14. \A g \in Live : View(g)' = View(g)
  BY <1>1, <1>3, <1>10, <1>11, CalmReadsTheSame DEF VInv
<1>15. \A v \in Workers : op'[v].on = op[v].on /\ op'[v].why = op[v].why
  BY <1>2, <1>7, <1>8
<1>16. QED
  BY <1>1, <1>3, <1>13, <1>14, <1>15, Unseen DEF VInv

LEMMA StoreNewIsUnseen ==
  ASSUME BufferAssumption, VInv, NEW w \in Workers, StoreNew(w)
  PROVE  VInv' /\ UNCHANGED Values!vars
<1>1. IInv'
  BY StoreNewKeeps DEF VInv
<1>2. PICK h, a : h = op[w].on /\ a = op[w].new
  OBVIOUS
<1>3. op[w].pc = "store" /\ bytes' = bytes
  BY DEF StoreNew
<1>4. /\ h \in Live /\ buf[h] \in BufferT
      /\ \A v \in Workers : v # w => op[v].on # h
  BY <1>2, <1>3 DEF VInv, IInv, Shape, Uses, Unsharing
<1>5. /\ buf'[h] = [buf[h] EXCEPT !.mem = a, !.offset = 0, !.slack = FALSE]
      /\ \A g \in Live : g # h => buf'[g] = buf[g]
      /\ Live' = Live
  BY <1>2, <1>4 DEF VInv, IInv, Shape, StoreNew, Live
<1>6. buf'[h].mem = a /\ buf'[h].offset = 0 /\ buf'[h].size = buf[h].size
  <2>1. PICK m : m = [buf[h] EXCEPT !.mem = a]
    OBVIOUS
  <2>2. m \in BufferT /\ m.mem = a /\ m.size = buf[h].size
    <3>1. a \in Allocs
      BY <1>2, <1>3 DEF VInv, IInv, Shape, OpT, Uses
    <3>2. QED
      BY <1>4, <2>1, <3>1 DEF BufferT
  <2>3. PICK o : o = [m EXCEPT !.offset = 0]
    OBVIOUS
  <2>4. o \in BufferT /\ o.mem = a /\ o.offset = 0 /\ o.size = buf[h].size
    BY <2>2, <2>3 DEF BufferT
  <2>5. buf'[h] = [o EXCEPT !.slack = FALSE]
    BY <1>5, <2>1, <2>3
  <2>6. QED
    BY <2>4, <2>5 DEF BufferT
<1>7. /\ op'[w] = [op[w] EXCEPT !.pc = "ready", !.new = None]
      /\ \A v \in Workers : v # w => op'[v] = op[v]
  BY DEF VInv, IInv, Shape, StoreNew
<1>8. op'[w].pc = "ready" /\ op'[w].on = h /\ op'[w].why = op[w].why
  BY <1>2, <1>7 DEF VInv, IInv, Shape, OpT
<1>9. ~Swapping(h)' /\ \A g : g # h => (Swapping(g)' <=> Swapping(g))
  <2>1. \A v \in Workers : ~(op'[v].on = h /\ op'[v].pc = "store")
    BY <1>4, <1>7, <1>8
  <2>2. \A g : g # h => (Swapping(g)' <=> Swapping(g))
    BY <1>2, <1>7, <1>8 DEF Swapping
  <2>3. QED
    BY <2>1, <2>2 DEF Swapping
<1>10. \A g \in Live : g # h => Calm(g)
  BY <1>2, <1>3, <1>5, <1>7, <1>9 DEF Calm
<1>11. View(h)' = View(h)
  <2>1. View(h) = [i \in 0 .. buf[h].size - 1 |-> bytes[a][i]]
    <3>1. Uses /\ op[w].on = h
      BY <1>2 DEF VInv, IInv
    <3>2. View(h) = [i \in 0 .. buf[h].size - 1 |-> bytes[op[w].new][i]]
      BY <1>3, <3>1, ViewSwapping
    <3>3. QED
      BY <1>2, <3>2
  <2>2. View(h)' = [i \in 0 .. buf'[h].size - 1 |->
                      bytes'[buf'[h].mem][buf'[h].offset + i]]
    BY <1>9, ViewSteady
  <2>3. View(h)' = [i \in 0 .. buf[h].size - 1 |-> bytes[a][0 + i]]
    <3>1. \A i \in 0 .. buf[h].size - 1 :
            bytes'[buf'[h].mem][buf'[h].offset + i] = bytes[a][0 + i]
      BY <1>3, <1>6
    <3>2. 0 .. buf'[h].size - 1 = 0 .. buf[h].size - 1
      BY <1>6
    <3>3. QED
      BY <2>2, <3>1, <3>2
  <2>4. \A i \in 0 .. buf[h].size - 1 : 0 + i = i
    BY <1>4 DEF BufferT
  <2>5. QED
    BY <2>1, <2>3, <2>4
<1>12. Copied'
  <2>1. ASSUME NEW v \in Workers, op'[v].pc = "release"
        PROVE  \A i \in 0 .. buf'[op'[v].on].size - 1 :
                  bytes'[op'[v].new][i] =
                    bytes'[buf'[op'[v].on].mem][buf'[op'[v].on].offset + i]
    <3>1. v # w
      BY <1>8, <2>1
    <3>2. op'[v] = op[v] /\ op[v].pc = "release"
      BY <1>7, <2>1, <3>1
    <3>3. op[v].on \in Live /\ op[v].on # h
      BY <1>4, <3>1, <3>2 DEF VInv, IInv, Uses
    <3>4. QED
      BY <1>10, <3>2, <3>3, CopiedStands
  <2>2. QED
    BY <2>1 DEF Copied
<1>13. VInv'
  <2>1. Fits'
    BY <1>5, <1>6 DEF VInv, Fits
  <2>2. Purposes'
    BY <1>3, <1>7, <1>8 DEF VInv, Purposes
  <2>3. QED
    BY <1>1, <1>12, <2>1, <2>2 DEF VInv
<1>14. \A g \in Live : View(g)' = View(g)
  BY <1>1, <1>5, <1>10, <1>11, CalmReadsTheSame DEF VInv
<1>15. \A v \in Workers : op'[v].on = op[v].on /\ op'[v].why = op[v].why
  BY <1>2, <1>7, <1>8
<1>16. QED
  BY <1>1, <1>5, <1>13, <1>14, <1>15, Unseen DEF VInv
-----------------------------------------------------------------------------
LEMMA OutcomesAre ==
  ASSUME NEW v
  PROVE  /\ \A j \in DOMAIN v, x \in Byte :
              v # <<>> => [v EXCEPT ![j] = x] \in Values!Outcome(v, "write")
         /\ v = <<>> => v \in Values!Outcome(v, "write")
         /\ [i \in DOMAIN v |-> 0] \in Values!Outcome(v, "zero")
         /\ v \in Values!Outcome(v, "private")
<1>1. Values!Outcome(v, "write") =
        IF v = <<>> THEN {v} ELSE {[v EXCEPT ![j] = x] : j \in DOMAIN v, x \in Byte}
  BY DEF Values!Outcome
<1>2. /\ Values!Outcome(v, "zero") = {[i \in DOMAIN v |-> 0]}
      /\ Values!Outcome(v, "private") = {v}
  BY DEF Values!Outcome
<1>3. QED
  BY <1>1, <1>2

\* The last step of a use: only its buffer's value moves.
LEMMA LastStepFinishes ==
  ASSUME BufferAssumption, VInv, IInv', NEW w \in Workers, op[w].pc = "ready",
         NEW h, h = op[w].on, op' = [op EXCEPT ![w] = Idle], Live' = Live,
         buf'[h].size = buf[h].size,
         \A g \in Live : g # h => buf'[g] = buf[g],
         \A g \in Live : g # h /\ ~Swapping(g) =>
            bytes'[buf[g].mem] = bytes[buf[g].mem],
         \A v \in Workers : op[v].new # None => bytes'[op[v].new] = bytes[op[v].new],
         View(h)' \in Values!Outcome(View(h), op[w].why)
  PROVE  VInv' /\ Values!Finish(w)
<1>1. /\ op'[w] = Idle /\ \A v \in Workers : v # w => op'[v] = op[v]
      /\ op' = [v \in Workers |-> op'[v]]
  BY DEF VInv, IInv, Shape
<1>2. h \in Live /\ h # None /\ op[w].new = None
  BY DEF VInv, IInv, Uses, Shape, BufferAssumption
<1>3. \A g : Swapping(g)' <=> Swapping(g)
  BY <1>1 DEF Swapping, Idle
<1>4. \A g \in Live : g # h => Calm(g)
  BY <1>1, <1>2, <1>3 DEF Calm
<1>5. Copied'
  <2>1. ASSUME NEW v \in Workers, op'[v].pc = "release"
        PROVE  \A i \in 0 .. buf'[op'[v].on].size - 1 :
                  bytes'[op'[v].new][i] =
                    bytes'[buf'[op'[v].on].mem][buf'[op'[v].on].offset + i]
    <3>1. v # w
      BY <1>1, <2>1 DEF Idle
    <3>2. op'[v] = op[v] /\ op[v].pc = "release"
      BY <1>1, <2>1, <3>1
    <3>3. op[v].on \in Live /\ op[v].on # h
      BY <3>1, <3>2 DEF VInv, IInv, Uses, Unsharing
    <3>4. QED
      BY <1>4, <3>2, <3>3, CopiedStands
  <2>2. QED
    BY <2>1 DEF Copied
<1>6. VInv'
  <2>1. Fits'
    <3>1. \A g \in Live : buf'[g].size = buf[g].size
      OBVIOUS
    <3>2. QED
      BY <3>1 DEF VInv, Fits
  <2>2. Purposes'
    BY <1>1 DEF VInv, Purposes, Idle
  <2>3. QED
    BY <1>5, <2>1, <2>2 DEF VInv
<1>7. \A g \in Live : g # h => View(g)' = View(g)
  BY <1>4, CalmReadsTheSame DEF VInv
<1>8. Reads' = [Reads EXCEPT ![h] = View(h)']
  BY <1>2, <1>7 DEF Reads
<1>9. Asks' = [Asks EXCEPT ![w] = Values!Nothing]
  <2>1. \A v \in Workers : [on |-> op'[v].on, why |-> op'[v].why] =
                             IF v = w THEN Values!Nothing ELSE Asks[v]
    BY <1>1, Mapped DEF Values!Nothing, Idle
  <2>2. Asks' = [v \in Workers |-> [on |-> op'[v].on, why |-> op'[v].why]]
    BY DEF Asks
  <2>3. Asks = [v \in Workers |-> Asks[v]]
    BY DEF Asks
  <2>4. QED
    BY <2>1, <2>2, <2>3
<1>10. /\ Asks[w] # Values!Nothing /\ Asks[w].on = h /\ Asks[w].why = op[w].why
       /\ Reads[Asks[w].on] = View(h)
  <2>1. Asks[w] = [on |-> op[w].on, why |-> op[w].why]
    BY Mapped
  <2>2. Asks[w].on = h /\ Asks[w].why = op[w].why
    BY <2>1
  <2>3. Values!Nothing.on = None
    BY DEF Values!Nothing
  <2>4. Asks[w] # Values!Nothing
    BY <1>2, <2>2, <2>3
  <2>5. Reads[h] = View(h)
    BY <1>2, Mapped
  <2>6. QED
    BY <2>2, <2>4, <2>5
<1>11. \E v \in Values!Outcome(Reads[Asks[w].on], Asks[w].why) :
          Reads' = [Reads EXCEPT ![Asks[w].on] = v]
  BY <1>8, <1>10
<1>12. QED
  BY <1>6, <1>9, <1>10, <1>11 DEF Values!Finish, Reads, Asks

LEMMA WriteByteFinishes ==
  ASSUME BufferAssumption, VInv, NEW w \in Workers, WriteByte(w)
  PROVE  VInv' /\ Values!Finish(w)
<1>1. IInv'
  BY WriteByteKeeps DEF VInv
<1>2. PICK h, m : h = op[w].on /\ m = buf[h].mem
  OBVIOUS
<1>3. /\ op[w].pc = "ready" /\ op[w].why = "write"
      /\ op' = [op EXCEPT ![w] = Idle] /\ buf' = buf /\ Live' = Live
  BY DEF WriteByte, Live
<1>4. /\ h \in Live /\ buf[h] \in BufferT /\ ~Swapping(h)
      /\ m \in Allocs /\ buf[h].offset = 0
      /\ \A g \in Live : g # h /\ ~Swapping(g) => buf[g].mem # m
      /\ \A v \in Workers : op[v].new # m
  BY <1>2, <1>3, ReadyIsAlone DEF VInv
<1>5. ~Swapping(h)'
  BY <1>3, <1>4 DEF Swapping, Idle, VInv, IInv, Shape
<1>6. /\ View(h) = [i \in 0 .. buf[h].size - 1 |-> bytes[m][0 + i]]
      /\ View(h)' = [i \in 0 .. buf[h].size - 1 |-> bytes'[m][0 + i]]
  <2>1. View(h) = [i \in 0 .. buf[h].size - 1 |->
                     bytes[buf[h].mem][buf[h].offset + i]]
    BY <1>4, ViewSteady
  <2>2. View(h)' = [i \in 0 .. buf'[h].size - 1 |->
                      bytes'[buf'[h].mem][buf'[h].offset + i]]
    BY <1>5, ViewSteady
  <2>3. buf'[h] = buf[h]
    BY <1>3
  <2>4. QED
    BY <1>2, <1>4, <2>1, <2>2, <2>3
<1>7. /\ \A x \in Allocs : x # m => bytes'[x] = bytes[x]
      /\ View(h)' \in Values!Outcome(View(h), "write")
  <2>1. CASE buf[h].size > 0
    <3>1. PICK i \in 0 .. buf[h].size - 1, v \in Byte :
            bytes' = [bytes EXCEPT ![m] = [bytes[m] EXCEPT ![0 + i] = v]]
      <4>1. buf[op[w].on].size > 0 /\ buf[op[w].on].size = buf[h].size
        BY <1>2, <2>1
      <4>2. \E i \in 0 .. buf[op[w].on].size - 1, v \in Byte :
              bytes' = [bytes EXCEPT ![buf[op[w].on].mem]
                                     [buf[op[w].on].offset + i] = v]
        BY <4>1 DEF WriteByte
      <4>3. buf[op[w].on].mem = m /\ buf[op[w].on].offset = 0
        BY <1>2, <1>4
      <4>4. QED
        BY <4>1, <4>2, <4>3
    <3>2. /\ bytes'[m] = [bytes[m] EXCEPT ![0 + i] = v]
          /\ \A x \in Allocs : x # m => bytes'[x] = bytes[x]
      BY <1>4, <3>1 DEF VInv, IInv, Shape
    <3>3. 0 + i \in DOMAIN bytes[m]
      <4>1. i \in 0 .. buf[h].capacity - 1
        BY <1>4 DEF VInv, IInv, Room, BufferT
      <4>2. QED
        BY <1>2, <1>4, <4>1 DEF VInv, IInv, Room
    <3>4. \A j \in 0 .. buf[h].size - 1 :
            bytes'[m][0 + j] = IF j = i THEN v ELSE bytes[m][0 + j]
      <4>1. TAKE j \in 0 .. buf[h].size - 1
      <4>2. 0 + j \in DOMAIN bytes[m]
        <5>1. j \in 0 .. buf[h].capacity - 1
          BY <1>4 DEF VInv, IInv, Room, BufferT
        <5>2. QED
          BY <1>2, <1>4, <5>1 DEF VInv, IInv, Room
      <4>3. 0 + j = 0 + i <=> j = i
        BY <1>4 DEF BufferT
      <4>4. QED
        BY <3>2, <3>3, <4>2, <4>3
    <3>5. View(h)' = [View(h) EXCEPT ![i] = v]
      BY <1>6, <3>4
    <3>6. View(h) # <<>> /\ i \in DOMAIN View(h)
      BY <1>6
    <3>7. QED
      <4>1. PICK f : f = View(h)
        OBVIOUS
      <4>2. f # <<>> /\ i \in DOMAIN f
        BY <3>6, <4>1
      <4>3. [f EXCEPT ![i] = v] \in Values!Outcome(f, "write")
        BY <4>2, OutcomesAre
      <4>4. View(h)' = [f EXCEPT ![i] = v]
        BY <3>5, <4>1
      <4>5. View(h)' \in Values!Outcome(f, "write")
        BY <4>3, <4>4
      <4>6. QED
        BY <3>2, <4>1, <4>5
  <2>2. CASE buf[h].size = 0
    <3>1. bytes' = bytes
      BY <1>2, <2>2 DEF WriteByte
    <3>2. View(h) = <<>> /\ View(h)' = View(h)
      BY <1>6, <2>2, <3>1
    <3>3. QED
      BY <3>1, <3>2, OutcomesAre
  <2>3. QED
    BY <1>4, <2>1, <2>2 DEF BufferT
<1>8. /\ \A g \in Live : g # h /\ ~Swapping(g) =>
            bytes'[buf[g].mem] = bytes[buf[g].mem]
      /\ \A v \in Workers : op[v].new # None => bytes'[op[v].new] = bytes[op[v].new]
  BY <1>4, <1>7 DEF VInv, IInv, Shape, BufferT, OpT
<1>9. View(h)' \in Values!Outcome(View(h), op[w].why)
  BY <1>3, <1>7
<1>10. QED
  BY <1>1, <1>2, <1>3, <1>8, <1>9, LastStepFinishes

LEMMA ZeroFinishes ==
  ASSUME BufferAssumption, VInv, NEW w \in Workers, Zero(w)
  PROVE  VInv' /\ Values!Finish(w)
<1>1. IInv'
  BY ZeroKeeps DEF VInv
<1>2. PICK h, m : h = op[w].on /\ m = buf[h].mem
  OBVIOUS
<1>3. /\ op[w].pc = "ready" /\ op[w].why = "zero"
      /\ op' = [op EXCEPT ![w] = Idle]
  BY DEF Zero
<1>4. /\ h \in Live /\ buf[h] \in BufferT /\ ~Swapping(h)
      /\ m \in Allocs /\ buf[h].offset = 0
      /\ \A g \in Live : g # h /\ ~Swapping(g) => buf[g].mem # m
      /\ \A v \in Workers : op[v].new # m
  BY <1>2, <1>3, ReadyIsAlone DEF VInv
<1>5. /\ buf'[h] = [buf[h] EXCEPT !.slack = FALSE]
      /\ \A g \in Live : g # h => buf'[g] = buf[g]
      /\ Live' = Live
  BY <1>2, <1>4 DEF VInv, IInv, Shape, Zero, Live
<1>6. buf'[h].mem = m /\ buf'[h].offset = 0 /\ buf'[h].size = buf[h].size
  BY <1>2, <1>4, <1>5 DEF BufferT
<1>7. /\ \A x \in Allocs : x # m => bytes'[x] = bytes[x]
      /\ bytes'[m] = [i \in DOMAIN bytes[m] |->
                        IF i \in buf[h].offset .. buf[h].offset + buf[h].capacity - 1
                        THEN 0 ELSE bytes[m][i]]
  BY <1>2, <1>4 DEF VInv, IInv, Shape, Zero
<1>8. \A i \in 0 .. buf[h].size - 1 : bytes'[m][0 + i] = 0
  <2>1. TAKE i \in 0 .. buf[h].size - 1
  <2>2. i \in 0 .. buf[h].capacity - 1
    BY <1>4 DEF VInv, IInv, Room, BufferT
  <2>3. 0 + i \in DOMAIN bytes[m]
    BY <1>2, <1>4, <2>2 DEF VInv, IInv, Room
  <2>4. 0 + i \in buf[h].offset .. buf[h].offset + buf[h].capacity - 1
    BY <1>4, <2>2 DEF BufferT
  <2>5. QED
    BY <1>7, <2>3, <2>4
<1>9. ~Swapping(h)'
  BY <1>3, <1>4 DEF Swapping, Idle, VInv, IInv, Shape
<1>10. View(h)' = [i \in DOMAIN View(h) |-> 0]
  <2>1. DOMAIN View(h) = 0 .. buf[h].size - 1
    BY <1>4, ViewSteady
  <2>2. View(h)' = [i \in 0 .. buf'[h].size - 1 |->
                      bytes'[buf'[h].mem][buf'[h].offset + i]]
    BY <1>9, ViewSteady
  <2>3. \A i \in 0 .. buf[h].size - 1 :
          bytes'[buf'[h].mem][buf'[h].offset + i] = 0
    BY <1>6, <1>8
  <2>4. 0 .. buf'[h].size - 1 = 0 .. buf[h].size - 1
    BY <1>6
  <2>5. QED
    BY <2>1, <2>2, <2>3, <2>4
<1>11. View(h)' \in Values!Outcome(View(h), op[w].why)
  BY <1>3, <1>10, OutcomesAre
<1>12. /\ \A g \in Live : g # h /\ ~Swapping(g) =>
             bytes'[buf[g].mem] = bytes[buf[g].mem]
       /\ \A v \in Workers : op[v].new # None => bytes'[op[v].new] = bytes[op[v].new]
  BY <1>4, <1>7 DEF VInv, IInv, Shape, BufferT, OpT
<1>13. /\ op[w].pc = "ready" /\ op' = [op EXCEPT ![w] = Idle] /\ h = op[w].on
       /\ Live' = Live /\ buf'[h].size = buf[h].size
       /\ \A g \in Live : g # h => buf'[g] = buf[g]
  BY <1>2, <1>3, <1>5, <1>6
<1>14. QED
  BY <1>1, <1>11, <1>12, <1>13, LastStepFinishes

LEMMA StartRegionFinishes ==
  ASSUME BufferAssumption, VInv, NEW w \in Workers, StartRegion(w)
  PROVE  VInv' /\ Values!Finish(w)
<1>1. IInv'
  BY StartRegionKeeps DEF VInv
<1>2. PICK h : h = op[w].on
  OBVIOUS
<1>3. /\ op[w].pc = "ready" /\ op[w].why = "private"
      /\ op' = [op EXCEPT ![w] = Idle] /\ buf' = buf /\ bytes' = bytes
      /\ Live' = Live
  BY DEF StartRegion, Live
<1>4. h \in Live /\ ~Swapping(h)
  BY <1>2, <1>3, ReadyIsAlone DEF VInv
<1>5. ~Swapping(h)'
  BY <1>3, <1>4 DEF Swapping, Idle, VInv, IInv, Shape
<1>6. View(h)' = View(h)
  <2>1. View(h) = [i \in 0 .. buf[h].size - 1 |->
                     bytes[buf[h].mem][buf[h].offset + i]]
    BY <1>4, ViewSteady
  <2>2. View(h)' = [i \in 0 .. buf'[h].size - 1 |->
                      bytes'[buf'[h].mem][buf'[h].offset + i]]
    BY <1>5, ViewSteady
  <2>3. QED
    BY <1>3, <2>1, <2>2
<1>7. View(h)' \in Values!Outcome(View(h), op[w].why)
  BY <1>3, <1>6, OutcomesAre
<1>8. QED
  BY <1>1, <1>2, <1>3, <1>7, LastStepFinishes

LEMMA EndRegionIsUnseen ==
  ASSUME BufferAssumption, VInv, EndRegion
  PROVE  VInv' /\ UNCHANGED Values!vars
<1>1. IInv'
  BY EndRegionKeeps DEF VInv
<1>2. buf' = buf /\ bytes' = bytes /\ op' = op /\ Live' = Live
  BY DEF EndRegion, Live
<1>3. \A g \in Live : Calm(g)
  <2>1. \A g : Swapping(g)' <=> Swapping(g)
    BY <1>2 DEF Swapping
  <2>2. QED
    BY <1>2, <2>1 DEF Calm
<1>4. VInv'
  BY <1>1, <1>2, <1>3, RestStands
<1>5. \A g \in Live : View(g)' = View(g)
  BY <1>1, <1>2, <1>3, CalmReadsTheSame DEF VInv
<1>6. QED
  BY <1>1, <1>2, <1>4, <1>5, Unseen DEF VInv
-----------------------------------------------------------------------------
LEMMA InitMaps ==
  ASSUME BufferAssumption, Init
  PROVE  VInv /\ Values!Init
<1>1. IInv /\ Live = {}
  BY InitGivesIInv DEF Init, Live
<1>2. VInv
  BY <1>1 DEF VInv, Fits, Purposes, Copied, Init, Idle
<1>3. Reads = [h \in {} |-> <<>>]
  BY <1>1 DEF Reads
<1>4. Asks = [w \in Workers |-> Values!Nothing]
  BY DEF Asks, Init, Idle, Values!Nothing
<1>5. QED
  BY <1>2, <1>3, <1>4 DEF Values!Init, Reads, Asks

LEMMA StepMaps ==
  ASSUME BufferAssumption, SizesAreBounded, VInv, [Next]_vars
  PROVE  VInv' /\ [Values!Next]_(Values!vars)
<1>1. ASSUME NEW h \in Handles, Make(h)
      PROVE  VInv' /\ Values!Next
  <2>1. ASSUME NEW n \in Sizes, NewZeroed(h, n)
        PROVE  VInv' /\ Values!New(h)
    BY <2>1, ByteHasZero, AllocateIsNew DEF NewZeroed
  <2>2. ASSUME NEW n \in Sizes, NewOverwritten(h, n)
        PROVE  VInv' /\ Values!New(h)
    <3>1. PICK fill \in [0 .. n - 1 -> Byte] : Allocate(h, n, fill)
      BY <2>2 DEF NewOverwritten
    <3>2. \A i \in 0 .. n - 1 : fill[i] \in Byte
      OBVIOUS
    <3>3. QED
      BY <3>1, <3>2, AllocateIsNew
  <2>3. ASSUME NEW g \in Live, CopyOf(h, g)
        PROVE  VInv' /\ Values!Cut(h, g)
    BY <2>3, CopyOfIsCut
  <2>4. ASSUME NEW g \in Live, NEW at \in 0 .. buf[g].size,
               NEW n \in 0 .. buf[g].size, WindowOf(h, g, at, n)
        PROVE  VInv' /\ Values!Cut(h, g)
    BY <2>4, WindowOfIsCut
  <2>5. VInv' /\ (Values!New(h) \/ \E g \in Values!Live : Values!Cut(h, g))
    BY <1>1, <2>1, <2>2, <2>3, <2>4, Mapped DEF Make
  <2>6. QED
    BY <2>5 DEF Values!Next
<1>2. ASSUME NEW h \in Live, Drop(h)
      PROVE  VInv' /\ Values!Next
  <2>1. VInv' /\ Values!Free(h) /\ h \in Values!Live
    BY <1>2, DropIsFree, Mapped
  <2>2. QED
    BY <2>1 DEF Values!Next
<1>3. ASSUME NEW h \in Live, NEW n \in Sizes, SetSize(h, n)
      PROVE  VInv' /\ Values!Next
  <2>1. VInv' /\ Values!Resize(h) /\ h \in Values!Live
    BY <1>3, SetSizeIsResize, Mapped
  <2>2. QED
    BY <2>1 DEF Values!Next
<1>4. ASSUME NEW w \in Workers, Mutate(w)
      PROVE  VInv' /\ (Values!Next \/ UNCHANGED Values!vars)
  <2>1. ASSUME NEW h \in Live, NEW why \in {"write", "zero", "private"},
               Ask(w, h, why)
        PROVE  VInv' /\ Values!Next
    <3>1. VInv' /\ Values!Ask(w, h, why) /\ h \in Values!Live
      BY <2>1, AskIsAsk, Mapped
    <3>2. QED
      BY <3>1 DEF Values!Next
  <2>2. CASE Unshare(w)
    BY <2>2, CopyOutIsUnseen, ReleaseOldIsUnseen, StoreNewIsUnseen DEF Unshare
  <2>3. CASE WriteByte(w) \/ Zero(w) \/ StartRegion(w)
    <3>1. VInv' /\ Values!Finish(w)
      BY <2>3, WriteByteFinishes, ZeroFinishes, StartRegionFinishes
    <3>2. QED
      BY <3>1 DEF Values!Next
  <2>4. QED
    BY <1>4, <2>1, <2>2, <2>3 DEF Mutate
<1>5. CASE EndRegion
  BY <1>5, EndRegionIsUnseen
<1>6. CASE UNCHANGED vars
  <2>1. /\ buf' = buf /\ bytes' = bytes /\ op' = op /\ Live' = Live
    BY <1>6 DEF vars, Live
  <2>2. IInv'
    BY <1>6, StepKeepsIInv DEF VInv
  <2>3. \A g \in Live : Calm(g)
    <3>1. \A g : Swapping(g)' <=> Swapping(g)
      BY <2>1 DEF Swapping
    <3>2. QED
      BY <2>1, <3>1 DEF Calm
  <2>4. VInv'
    BY <2>1, <2>2, <2>3, RestStands
  <2>5. \A g \in Live : View(g)' = View(g)
    BY <2>1, <2>2, <2>3, CalmReadsTheSame DEF VInv
  <2>6. QED
    BY <2>1, <2>2, <2>4, <2>5, Unseen DEF VInv
<1>7. QED
  BY <1>1, <1>2, <1>3, <1>4, <1>5, <1>6 DEF Next

(***************************************************************************)
(* A Buffer is a value: copies and windows that share an allocation, the   *)
(* refcount and the steps of going private, in any order of the threads'   *)
(* steps, are never seen in what a buffer reads as.                        *)
(***************************************************************************)
THEOREM BuffersAreValues ==
  ASSUME BufferAssumption, SizesAreBounded
  PROVE  Spec => SharingIsInvisible
<1>1. Init => VInv /\ Values!Init
  BY InitMaps
<1>2. VInv /\ [Next]_vars => VInv' /\ [Values!Next]_(Values!vars)
  BY StepMaps
<1>3. QED
  BY <1>1, <1>2, PTL DEF Spec, SharingIsInvisible, Values!Spec
-----------------------------------------------------------------------------
(* The pool, as the proofs about it see it. *)

PP == INSTANCE BufferPoolProofs WITH Allocs <- PoolAllocs

LEMMA PoolCounts ==
  /\ \A x : Pool!HeldOn(x) = PP!HeldOn(x) /\ Pool!Holders(x) = PP!Holders(x)
  /\ Pool!Class = PP!Class /\ Pool!Live = PP!Live
<1>1. Pool!Class = PP!Class /\ Pool!Live = PP!Live
  BY DEF Pool!Class, PP!Class, Pool!Live, PP!Live
<1>2. \A x : Pool!HeldOn(x) = PP!HeldOn(x) /\ Pool!PooledOn(x) = PP!PooledOn(x)
  BY <1>1 DEF Pool!HeldOn, PP!HeldOn, Pool!PooledOn, PP!PooledOn
<1>3. \A s : Pool!Cardinality(s) = PP!Cardinality(s)
  BY DEF Pool!Cardinality, PP!Cardinality
<1>4. QED
  BY <1>1, <1>2, <1>3 DEF Pool!Holders, PP!Holders

LEMMA PoolSizes ==
  /\ \A i : Pool!class_capacity(i) = PP!class_capacity(i)
  /\ \A n : Pool!size_class(n) = PP!size_class(n)
  /\ \A list : Pool!Last(list) = PP!Last(list) /\ Pool!Front(list) = PP!Front(list)
  /\ \A m, capacity, size :
       Pool!NewBuffer(m, capacity, size) = PP!NewBuffer(m, capacity, size)
<1>1. \A i : Pool!class_capacity(i) = PP!class_capacity(i)
  BY DEF Pool!class_capacity, PP!class_capacity
<1>2. \A n : Pool!size_class(n) = PP!size_class(n)
  BY DEF Pool!size_class, PP!size_class, Pool!class_capacity,
         PP!class_capacity, Pool!Class, PP!Class
<1>3. QED
  BY <1>1, <1>2 DEF Pool!Last, PP!Last, Pool!Front, PP!Front,
                    Pool!NewBuffer, PP!NewBuffer

LEMMA PoolWrites ==
  /\ \A h, x : Pool!Hold(h, x) <=> PP!Hold(h, x)
  /\ \A h : Pool!Let_go(h) <=> PP!Let_go(h)
  /\ \A x, m : Pool!Private(x, m) <=> PP!Private(x, m)
  /\ \A m : Pool!Fresh(m) <=> PP!Fresh(m)
  /\ \A i : Pool!HasRoom(i) <=> PP!HasRoom(i)
<1>1. \A m : Pool!Fresh(m) <=> PP!Fresh(m)
  BY PoolCounts DEF Pool!Fresh, PP!Fresh
<1>2. QED
  BY <1>1, PoolCounts
     DEF Pool!Hold, PP!Hold, Pool!Let_go, PP!Let_go, Pool!Private, PP!Private,
         Pool!HasRoom, PP!HasRoom

LEMMA PoolTakes ==
  ASSUME NEW h, NEW n
  PROVE  /\ Pool!TakeRecycled(h, n) <=> PP!TakeRecycled(h, n)
         /\ Pool!TakeNew(h, n) <=> PP!TakeNew(h, n)
BY PoolCounts, PoolSizes, PoolWrites
   DEF Pool!TakeRecycled, PP!TakeRecycled, Pool!TakeNew, PP!TakeNew

LEMMA PoolStep ==
  /\ Pool!Init <=> PP!Init
  /\ \A h : Pool!Write(h) <=> PP!Write(h)
  /\ Pool!Next <=> PP!Next
<1>1. Pool!Init <=> PP!Init
  BY PoolCounts DEF Pool!Init, PP!Init
<1>2. \A h, n : Pool!Make(h, n) <=> PP!Make(h, n)
  BY PoolCounts, PoolSizes, PoolWrites DEF Pool!Make, PP!Make
<1>3. \A h, g : Pool!Copy(h, g) <=> PP!Copy(h, g)
  BY PoolCounts, PoolWrites DEF Pool!Copy, PP!Copy
<1>4. \A h, g, n : Pool!Window(h, g, n) <=> PP!Window(h, g, n)
  BY PoolCounts, PoolWrites DEF Pool!Window, PP!Window
<1>5. \A h : Pool!Give(h) <=> PP!Give(h)
  BY PoolCounts, PoolSizes, PoolWrites DEF Pool!Give, PP!Give
<1>6. \A h : Pool!Write(h) <=> PP!Write(h)
  BY PoolWrites DEF Pool!Write, PP!Write
<1>7. \A h : Pool!Drop(h) <=> PP!Drop(h)
  BY PoolWrites DEF Pool!Drop, PP!Drop
<1>8. Pool!Clear <=> PP!Clear
  BY PoolCounts DEF Pool!Clear, PP!Clear
<1>9. Pool!Next <=> PP!Next
  BY <1>2, <1>3, <1>4, <1>5, <1>6, <1>7, <1>8, PoolCounts, PoolTakes
     DEF Pool!Next, PP!Next
<1>10. QED
  BY <1>1, <1>6, <1>9

LEMMA RunParts ==
  /\ MemorySpec => Spec
  /\ MemorySpec => PP!Spec
<1>1. MemoryInit => Init /\ PP!Init
  BY PoolStep DEF MemoryInit
<1>2. [MemoryNext]_<<memory, vars, pool_vars>> => [Next]_vars
  BY DEF MemoryNext
<1>3. [MemoryNext]_<<memory, vars, pool_vars>> => [PP!Next]_(PP!vars)
  BY PoolStep DEF MemoryNext, pool_vars, PP!vars
<1>4. QED
  BY <1>1, <1>2, <1>3, PTL DEF MemorySpec, Spec, PP!Spec

(***************************************************************************)
(* What a kernel may read through the pointer of any buffer, at every step *)
(* of every thread: memory nobody has freed, counted by its holders, whose *)
(* pad is zero; and the pool keeps to its lists.                           *)
(***************************************************************************)
THEOREM BytesStayHeld ==
  ASSUME BufferAssumption, PP!PoolAssumption
  PROVE  MemorySpec => []BytesAreHeld
<1>1. PP!TypeOK <=> Pool!TypeOK
  BY PoolCounts DEF PP!TypeOK, Pool!TypeOK, PP!Buffers, Pool!Buffers
<1>2. QED
  BY <1>1, RunParts, BuffersKeepTypes, CountsAreTrue, PointersStayValid,
     PadsStayZero, PP!PoolIsWellFormed, PTL DEF BytesAreHeld

(***************************************************************************)
(* What take hands out is zero and shared with nobody, and no operation of *)
(* the pool or of another caller changes what a buffer reads: whatever was *)
(* given to the pool, kept copies and windows of it included.              *)
(***************************************************************************)
THEOREM PoolStaysApart ==
  ASSUME PP!PoolAssumption
  PROVE  MemorySpec => PoolKeepsApart
<1>1. [\A h \in Handles, n \in Requests :
         PP!TakeRecycled(h, n) \/ PP!TakeNew(h, n) =>
            /\ held'[h].mem \notin data'
            /\ ~held'[h].window
            /\ \A g \in PP!Live : held[g].mem # held'[h].mem
            /\ \A c \in PP!Class : \A k \in DOMAIN free'[c] :
                  free'[c][k].mem # held'[h].mem]_(PP!vars)
      => [\A h \in Handles, n \in Requests :
            Pool!TakeRecycled(h, n) \/ Pool!TakeNew(h, n) =>
               /\ held'[h].mem \notin data'
               /\ ~held'[h].window
               /\ \A g \in Pool!Live : held[g].mem # held'[h].mem
               /\ \A c \in Pool!Class : \A k \in DOMAIN free'[c] :
                     free'[c][k].mem # held'[h].mem]_(Pool!vars)
  BY PoolTakes, PoolCounts DEF PP!vars, Pool!vars
<1>2. [\A h \in PP!Live : (h \in DOMAIN held' /\ ~PP!Write(h)) =>
         /\ held'[h] = held[h]
         /\ held[h].mem \in data' <=> held[h].mem \in data]_(PP!vars)
      => [\A h \in Pool!Live : (h \in DOMAIN held' /\ ~Pool!Write(h)) =>
            /\ held'[h] = held[h]
            /\ held[h].mem \in data' <=> held[h].mem \in data]_(Pool!vars)
  BY PoolStep, PoolCounts DEF PP!vars, Pool!vars
<1>3. PP!TakenIsZeroAndPrivate => Pool!TakenIsZeroAndPrivate
  BY <1>1, PTL DEF PP!TakenIsZeroAndPrivate, Pool!TakenIsZeroAndPrivate
<1>4. PP!TenantsKeepTheirBytes => Pool!TenantsKeepTheirBytes
  BY <1>2, PTL DEF PP!TenantsKeepTheirBytes, Pool!TenantsKeepTheirBytes
<1>5. QED
  BY <1>3, <1>4, RunParts, PP!TakenBuffersArePrivate, PP!TenantsAreUndisturbed,
     PTL DEF PoolKeepsApart
=============================================================================
