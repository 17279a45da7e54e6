----------------------------- MODULE BufferPool -----------------------------
(***************************************************************************)
(* buffer/pool.mojo: a size-class free list of retired buffers, with its   *)
(* callers.  A pool belongs to one thread, so each operation is one step.  *)
(* The callers also make buffers of their own, copy and window them, write *)
(* to them and give any of them to the pool: give takes one handle and not *)
(* the allocation, so a pooled buffer may share its bytes with a column    *)
(* that outlived it.                                                       *)
(*                                                                         *)
(* Sizes and capacities are counted in blocks of ALIGNMENT bytes, and the  *)
(* bytes of an allocation are told apart only as all zero or not.          *)
(***************************************************************************)
EXTENDS Integers, Sequences, FiniteSets, SequencesExt

CONSTANTS Handles,      \* the variables of the callers
          Allocs,       \* the allocations the allocator can hand out
          Requests,     \* the sizes callers ask the pool for
          OwnSizes,     \* the sizes of the buffers callers make themselves
          WindowSizes,  \* the sizes of the windows they cut
          NUM_CLASSES,  \* how many size classes there are
          LimitPerClass \* how many retired buffers a class keeps

VARIABLES held,         \* the buffers callers hold
          free,         \* the free list of each class, last in first out
          data          \* the allocations with a byte that is not zero

vars == <<held, free, data>>

Class == 0 .. NUM_CLASSES - 1
Live == DOMAIN held

class_capacity(i) == 2 ^ i

\* The first class that holds n blocks, or -1 for a size too large to pool.
size_class(n) ==
  IF n > class_capacity(NUM_CLASSES - 1)
  THEN -1
  ELSE CHOOSE i \in Class : /\ n <= class_capacity(i)
                            /\ \A j \in 0 .. i - 1 : class_capacity(j) < n

\* The buffers on an allocation, held and in a list: its refcount.
HeldOn(a) == {h \in Live : held[h].mem = a}
PooledOn(a) == {ck \in Class \X (1 .. LimitPerClass) :
                  /\ ck[2] <= Len(free[ck[1]])
                  /\ free[ck[1]][ck[2]].mem = a}
Holders(a) == Cardinality(HeldOn(a)) + Cardinality(PooledOn(a))

Fresh(a) == Holders(a) = 0

\* Buffer(size): at least one block, all zero.
NewBuffer(a, capacity, size) ==
  [mem |-> a, window |-> FALSE, size |-> size,
   capacity |-> IF capacity = 0 THEN 1 ELSE capacity]

Hold(h, b) == held' = [g \in Live \cup {h} |-> IF g = h THEN b ELSE held[g]]

\* Slip: a pooled buffer is zeroed where it lies.
PrivateInPlace(b, a) == a = b.mem

\* _unshare: a buffer that is alone keeps its allocation.
Private(b, a) == IF Holders(b.mem) = 1 /\ ~b.window
                 THEN a = b.mem
                 ELSE Fresh(a)

Init == /\ held = [h \in {} |-> <<>>]
        /\ free = [c \in Class |-> <<>>]
        /\ data = {}
-----------------------------------------------------------------------------
\* Slip: the buffer is handed out without being zeroed.
TakeRecycledDirty(h, n) ==
  LET c == size_class(n) IN
  /\ h \notin Live
  /\ c >= 0
  /\ free[c] # <<>>
  /\ Hold(h, [Last(free[c]) EXCEPT !.size = n])
  /\ free' = [free EXCEPT ![c] = Front(@)]
  /\ UNCHANGED data

\* take(), from a free list: pop, zero() - which goes private - and set_size.
TakeRecycled(h, n) ==
  LET c == size_class(n) IN
  /\ h \notin Live
  /\ c >= 0
  /\ free[c] # <<>>
  /\ \E a \in Allocs :
        /\ Private(Last(free[c]), a)
        /\ Hold(h, [Last(free[c]) EXCEPT !.mem = a, !.window = FALSE,
                                         !.size = n])
        /\ data' = data \ {a}
  /\ free' = [free EXCEPT ![c] = Front(@)]

\* take(), from the allocator: a whole class, or the exact size when too large.
TakeNew(h, n) ==
  LET c == size_class(n) IN
  /\ h \notin Live
  /\ c >= 0 => free[c] = <<>>
  /\ \E a \in Allocs :
        /\ Fresh(a)
        /\ Hold(h, NewBuffer(a, IF c < 0 THEN n ELSE class_capacity(c), n))
        /\ data' = data \ {a}
  /\ UNCHANGED free

Let_go(h) == held' = [g \in Live \ {h} |-> held[g]]

HasRoom(c) == Len(free[c]) < LimitPerClass

\* give(): kept when its class has room, dropped otherwise.
Give(h) ==
  LET c == size_class(held[h].capacity) IN
  /\ Let_go(h)
  /\ free' = IF c >= 0 /\ HasRoom(c)
             THEN [free EXCEPT ![c] = Append(@, held[h])]
             ELSE free
  /\ UNCHANGED data

Clear == /\ free' = [c \in Class |-> <<>>]
         /\ UNCHANGED <<held, data>>
-----------------------------------------------------------------------------
\* What callers do to buffers without the pool.
Make(h, n) == /\ h \notin Live
              /\ \E a \in Allocs : /\ Fresh(a)
                                   /\ Hold(h, NewBuffer(a, n, n))
                                   /\ data' = data \ {a}
              /\ UNCHANGED free

Copy(h, g) == /\ h \notin Live
              /\ Hold(h, held[g])
              /\ UNCHANGED <<free, data>>

\* A window that starts past the first block and runs to the end.
Window(h, g, n) ==
  /\ h \notin Live
  /\ n < held[g].size
  /\ Hold(h, [mem |-> held[g].mem, window |-> TRUE, size |-> n, capacity |-> n])
  /\ UNCHANGED <<free, data>>

Write(h) == /\ held[h].size > 0
            /\ \E a \in Allocs :
                  /\ Private(held[h], a)
                  /\ held' = [held EXCEPT ![h].mem = a, ![h].window = FALSE]
                  /\ data' = data \cup {a}
            /\ UNCHANGED free

Drop(h) == Let_go(h) /\ UNCHANGED <<free, data>>

Next == \/ \E h \in Handles : \/ \E n \in Requests : \/ TakeRecycled(h, n)
                                                     \/ TakeNew(h, n)
                              \/ \E n \in OwnSizes : Make(h, n)
                              \/ \E g \in Live : \/ Copy(h, g)
                                                 \/ \E n \in WindowSizes :
                                                       Window(h, g, n)
        \/ \E h \in Live : Give(h) \/ Write(h) \/ Drop(h)
        \/ Clear

Spec == Init /\ [][Next]_vars
-----------------------------------------------------------------------------
Buffers == [mem : Allocs, window : BOOLEAN, size : Nat, capacity : Nat]

\* Every variable keeps the shape the code's declarations give it.
TypeOK == /\ Live \subseteq Handles
          /\ \A h \in Live : held[h] \in Buffers
          /\ \A c \in Class : /\ Len(free[c]) <= LimitPerClass
                              /\ \A k \in DOMAIN free[c] : free[c][k] \in Buffers
          /\ data \subseteq Allocs

(***************************************************************************)
(* "Returns a zeroed buffer", and "a private allocation either way": what  *)
(* take hands out has no byte of its previous tenant and shares with       *)
(* nobody, whatever was given to the pool before.                          *)
(***************************************************************************)
TakenIsZeroAndPrivate ==
  [][\A h \in Handles, n \in Requests :
       TakeRecycled(h, n) \/ TakeNew(h, n) =>
          /\ held'[h].mem \notin data'
          /\ ~held'[h].window
          /\ \A g \in Live : held[g].mem # held'[h].mem
          /\ \A c \in Class : \A k \in DOMAIN free'[c] :
                free'[c][k].mem # held'[h].mem]_vars

(***************************************************************************)
(* The pool "never writes over bytes someone is reading": an operation of  *)
(* the pool or of another caller leaves what a held buffer reads as it is. *)
(***************************************************************************)
TenantsKeepTheirBytes ==
  [][\A h \in Live : (h \in DOMAIN held' /\ ~Write(h)) =>
        /\ held'[h] = held[h]
        /\ held[h].mem \in data' <=> held[h].mem \in data]_vars

(***************************************************************************)
(* set_size: the size "must not exceed capacity()", the doc of the pool    *)
(* being that "a request is served from the class whose capacity is at     *)
(* least the request".                                                     *)
(***************************************************************************)
SizeWithinCapacity == \A h \in Live : held[h].size <= held[h].capacity
=============================================================================
