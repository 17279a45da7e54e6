---------------------------- MODULE SharedBuffer ----------------------------
(***************************************************************************)
(* buffer/buffer.mojo: buffers that share an allocation until one of them  *)
(* is written.                                                             *)
(*                                                                         *)
(* Buffers live on several threads.  Handing out a mutable pointer is not  *)
(* atomic: a worker looks at the refcount, allocates and copies, takes the *)
(* old allocation's count down and stores the new pointer, and the threads *)
(* that hold the other buffers on the same allocation run in between.  The *)
(* language lets one thread at a time use a buffer mutably.  The exception *)
(* is a parallel kernel whose workers all write one output through its     *)
(* mutable pointer, and the kernels that start from a copy call            *)
(* make_private before they start the workers.                             *)
(***************************************************************************)
EXTENDS Integers, FiniteSets

CONSTANTS Handles,      \* the variables that can hold a buffer
          Allocs,       \* the allocations the allocator can hand out
          Workers,      \* the threads
          Byte,         \* the values of a byte, zero among them
          Sizes,        \* the sizes callers ask for
          ALIGNMENT,    \* bytes in a block
          None          \* no buffer, no allocation

ASSUME ByteHasZero == 0 \in Byte
ASSUME SizesAreNat == Sizes \subseteq Nat /\ ALIGNMENT \in Nat \ {0}

VARIABLES buf,          \* the fields of each live buffer
          count,        \* the refcount of each allocation; zero is freed
          bytes,        \* the bytes of each allocation
          op,           \* how far each worker is with a mutable use
          region        \* the buffer a parallel kernel is writing

vars == <<buf, count, bytes, op, region>>

round_up(n) == ((n + ALIGNMENT - 1) \div ALIGNMENT) * ALIGNMENT

Live == DOMAIN buf
Smaller(a, b) == IF a < b THEN a ELSE b
With(h, b) == [g \in Live \cup {h} |-> IF g = h THEN b ELSE buf[g]]

Idle == [pc |-> "idle", on |-> None, why |-> "none", new |-> None]

\* No thread is using the buffer mutably.
Unused(h) == region # h /\ \A w \in Workers : op[w].on # h

Init == /\ buf = [h \in {} |-> None]
        /\ count = [a \in Allocs |-> 0]
        /\ bytes = [a \in Allocs |-> <<>>]
        /\ op = [w \in Workers |-> Idle]
        /\ region = None
-----------------------------------------------------------------------------
\* The capacity of an allocation for n bytes: whole blocks, at least one.
AllocCapacity(n) == IF round_up(n) = 0 THEN ALIGNMENT ELSE round_up(n)

Allocate(h, n, fill) ==
  \E a \in Allocs :
     /\ h \notin Live
     /\ count[a] = 0
     /\ count' = [count EXCEPT ![a] = 1]
     /\ bytes' = [bytes EXCEPT ![a] = [i \in 0 .. AllocCapacity(n) - 1 |->
                                         IF i < n THEN fill[i] ELSE 0]]
     /\ buf' = With(h, [mem |-> a, offset |-> 0, size |-> n,
                        capacity |-> AllocCapacity(n), slack |-> FALSE])
     /\ UNCHANGED <<op, region>>

\* Buffer(size): every byte zero.
NewZeroed(h, n) == Allocate(h, n, [i \in 0 .. n - 1 |-> 0])

\* Buffer(overwritten=): the caller's own bytes are whatever was there.
NewOverwritten(h, n) == \E fill \in [0 .. n - 1 -> Byte] : Allocate(h, n, fill)

Retain(a) == count' = [count EXCEPT ![a] = @ + 1]

\* Buffer(copy=)
CopyOf(h, g) == /\ h \notin Live
                /\ Unused(g)
                /\ buf' = With(h, buf[g])
                /\ Retain(buf[g].mem)
                /\ UNCHANGED <<bytes, op, region>>

\* Slip: the capacity of a window is what is left of its parent.
WindowRoom(g, at, n) == buf[g].capacity - at

\* The room of a window: its own size in whole blocks, or what is left.
WindowCapacity(g, at, n) == Smaller(round_up(n), buf[g].capacity - at)

\* Buffer(window_of=, at=, size=), with the promises the caller owes it.
WindowOf(h, g, at, n) ==
  /\ h \notin Live
  /\ Unused(g)
  /\ at % ALIGNMENT = 0
  /\ n % ALIGNMENT = 0 \/ at + n = buf[g].size
  /\ at + n <= buf[g].size
  /\ buf' = With(h, [mem |-> buf[g].mem,
                     offset |-> buf[g].offset + at,
                     size |-> n,
                     capacity |-> WindowCapacity(g, at, n),
                     slack |-> buf[g].slack])
  /\ Retain(buf[g].mem)
  /\ UNCHANGED <<bytes, op, region>>

\* Take one off a refcount; the last holder frees the bytes.
Release(a) == /\ count' = [count EXCEPT ![a] = @ - 1]
              /\ bytes' = [bytes EXCEPT ![a] = IF count[a] = 1 THEN <<>> ELSE @]

\* The destructor.
Drop(h) == /\ Unused(h)
           /\ buf' = [g \in Live \ {h} |-> buf[g]]
           /\ Release(buf[h].mem)
           /\ UNCHANGED <<op, region>>

\* set_size, with the promise that n does not exceed capacity().
SetSize(h, n) == /\ Unused(h)
                 /\ n <= buf[h].capacity
                 /\ buf' = [buf EXCEPT ![h].size = n,
                                       ![h].slack = @ \/ n < buf[h].size]
                 /\ UNCHANGED <<count, bytes, op, region>>
-----------------------------------------------------------------------------
\* The early return of _unshare.
Alone(h) == count[buf[h].mem] = 1 /\ buf[h].offset = 0

\* Slip: the kernel starts its workers on a copy it has not made private.
AskUnprepared(w, h, why) ==
  /\ op[w].pc = "idle"
  /\ \A v \in Workers : op[v].on = h => why = "write" /\ op[v].why = "write"
  /\ op' = [op EXCEPT ![w] = [pc |-> IF Alone(h) THEN "ready" ELSE "copy",
                              on |-> h, why |-> why, new |-> None]]
  /\ UNCHANGED <<buf, count, bytes, region>>

\* A thread asks for a mutable pointer, to write, to zero or to make private.
\* Several may only where a parallel kernel has made the buffer private.
Ask(w, h, why) ==
  /\ op[w].pc = "idle"
  /\ Unused(h) \/ (region = h /\ why = "write")
  /\ op' = [op EXCEPT ![w] = [pc |-> IF Alone(h) THEN "ready" ELSE "copy",
                              on |-> h, why |-> why, new |-> None]]
  /\ UNCHANGED <<buf, count, bytes, region>>

\* Slip: the bytes are copied from the allocation's start, not the window's.
SourceByte0(b, i) == bytes[b.mem][i]

\* A freed allocation has no bytes of its own to read.
SourceByte(b, i) == IF b.offset + i \in DOMAIN bytes[b.mem]
                    THEN bytes[b.mem][b.offset + i]
                    ELSE 0

\* _unshare: alloc, memcpy of the logical size, memset of the pad.
CopyOut(w) ==
  LET b == buf[op[w].on] IN
  /\ op[w].pc = "copy"
  /\ \E a \in Allocs :
        /\ count[a] = 0
        /\ count' = [count EXCEPT ![a] = 1]
        /\ bytes' = [bytes EXCEPT ![a] = [i \in 0 .. b.capacity - 1 |->
                       IF i < b.size THEN SourceByte(b, i) ELSE 0]]
        /\ op' = [op EXCEPT ![w].pc = "release", ![w].new = a]
  /\ UNCHANGED <<buf, region>>

\* _unshare: assigning _mem lets go of the old allocation ...
ReleaseOld(w) ==
  /\ op[w].pc = "release"
  /\ Release(buf[op[w].on].mem)
  /\ op' = [op EXCEPT ![w].pc = "store"]
  /\ UNCHANGED <<buf, region>>

\* Slip: the offset of the window survives the move to an allocation of its own.
StoreNewKeepOffset(w) ==
  /\ op[w].pc = "store"
  /\ buf' = [buf EXCEPT ![op[w].on].mem = op[w].new,
                        ![op[w].on].slack = FALSE]
  /\ op' = [op EXCEPT ![w].pc = "ready", ![w].new = None]
  /\ UNCHANGED <<count, bytes, region>>

\* ... and then takes hold of the new one.
StoreNew(w) ==
  /\ op[w].pc = "store"
  /\ buf' = [buf EXCEPT ![op[w].on].mem = op[w].new,
                        ![op[w].on].offset = 0,
                        ![op[w].on].slack = FALSE]
  /\ op' = [op EXCEPT ![w].pc = "ready", ![w].new = None]
  /\ UNCHANGED <<count, bytes, region>>

\* A byte inside the logical size is written through the pointer.
WriteByte(w) ==
  LET b == buf[op[w].on] IN
  /\ op[w].pc = "ready"
  /\ op[w].why = "write"
  /\ b.size > 0 => \E i \in 0 .. b.size - 1, v \in Byte :
        bytes' = [bytes EXCEPT ![b.mem][b.offset + i] = v]
  /\ b.size = 0 => bytes' = bytes
  /\ op' = [op EXCEPT ![w] = Idle]
  /\ UNCHANGED <<buf, count, region>>

\* zero(): the whole capacity, padding included.
Zero(w) ==
  LET b == buf[op[w].on] IN
  /\ op[w].pc = "ready"
  /\ op[w].why = "zero"
  /\ bytes' = [bytes EXCEPT ![b.mem] = [i \in DOMAIN @ |->
                 IF i \in b.offset .. b.offset + b.capacity - 1
                 THEN 0 ELSE @[i]]]
  /\ buf' = [buf EXCEPT ![op[w].on].slack = FALSE]
  /\ op' = [op EXCEPT ![w] = Idle]
  /\ UNCHANGED <<count, region>>

\* make_private() has returned: the workers of the kernel may start.
StartRegion(w) == /\ op[w].pc = "ready"
                  /\ op[w].why = "private"
                  /\ region = None
                  /\ region' = op[w].on
                  /\ op' = [op EXCEPT ![w] = Idle]
                  /\ UNCHANGED <<buf, count, bytes>>

EndRegion == /\ region # None
             /\ \A w \in Workers : op[w].on # region
             /\ region' = None
             /\ UNCHANGED <<buf, count, bytes, op>>
-----------------------------------------------------------------------------
Make(h) == \/ \E n \in Sizes : NewZeroed(h, n) \/ NewOverwritten(h, n)
           \/ \E g \in Live : \/ CopyOf(h, g)
                              \/ \E at, n \in 0 .. buf[g].size :
                                    WindowOf(h, g, at, n)

Unshare(w) == CopyOut(w) \/ ReleaseOld(w) \/ StoreNew(w)

Mutate(w) == \/ \E h \in Live, why \in {"write", "zero", "private"} :
                   Ask(w, h, why)
             \/ Unshare(w)
             \/ WriteByte(w)
             \/ Zero(w)
             \/ StartRegion(w)

Next == \/ \E h \in Handles : Make(h)
        \/ \E h \in Live : Drop(h) \/ \E n \in Sizes : SetSize(h, n)
        \/ \E w \in Workers : Mutate(w)
        \/ EndRegion

Spec == Init /\ [][Next]_vars
-----------------------------------------------------------------------------
\* Every variable keeps the shape the code's declarations give it.
TypeOK ==
  /\ Live \subseteq Handles
  /\ \A h \in Live : buf[h] \in [mem : Allocs, offset : Nat, size : Nat,
                                 capacity : Nat, slack : BOOLEAN]
  /\ count \in [Allocs -> Nat]
  /\ \A a \in Allocs : \A i \in DOMAIN bytes[a] : bytes[a][i] \in Byte
  /\ \A w \in Workers :
        op[w] \in [pc : {"idle", "copy", "release", "store", "ready"},
                   on : Handles \cup {None},
                   why : {"none", "write", "zero", "private"},
                   new : Allocs \cup {None}]
  /\ region \in Handles \cup {None}

\* The buffer has let go of its old allocation and not stored the new one.
Swapping(h) == \E w \in Workers : op[w].on = h /\ op[w].pc = "store"

(***************************************************************************)
(* The refcount is the number of holders at every step of every thread:    *)
(* the buffers on the allocation, less those part way through a swap, and  *)
(* the unshare that has just made it.  A count that is torn is "a free of  *)
(* memory somebody is still reading", or a leak.                           *)
(***************************************************************************)
CountIsHolders ==
  \A a \in Allocs :
     count[a] = Cardinality({h \in Live : buf[h].mem = a /\ ~Swapping(h)})
              + Cardinality({w \in Workers : op[w].new = a})

(***************************************************************************)
(* Every pointer handed out is "valid for capacity() bytes" of memory that *)
(* is still allocated, and the logical size is inside them.                *)
(***************************************************************************)
PointersAreValid ==
  \A h \in Live : ~Swapping(h) =>
     /\ count[buf[h].mem] > 0
     /\ buf[h].size <= buf[h].capacity
     /\ \A i \in 0 .. buf[h].capacity - 1 :
           buf[h].offset + i \in DOMAIN bytes[buf[h].mem]

(***************************************************************************)
(* "The pad up to the 64-byte boundary is guaranteed to be zero and a      *)
(* kernel is allowed to read a full register past the end": true of every  *)
(* buffer, copy and window, before and after it goes private, unless its   *)
(* logical size was lowered over bytes already written.                    *)
(***************************************************************************)
PadIsZero ==
  \A h \in Live : ~Swapping(h) /\ ~buf[h].slack =>
     \A i \in buf[h].size .. buf[h].capacity - 1 :
        bytes[buf[h].mem][buf[h].offset + i] = 0
-----------------------------------------------------------------------------
\* What a buffer reads as, part way through a swap too.
View(h) ==
  LET swaps == {w \in Workers : op[w].on = h /\ op[w].pc = "store"}
  IN  IF swaps = {}
      THEN [i \in 0 .. buf[h].size - 1 |->
              bytes[buf[h].mem][buf[h].offset + i]]
      ELSE LET w == CHOOSE w \in swaps : TRUE
           IN  [i \in 0 .. buf[h].size - 1 |-> bytes[op[w].new][i]]

(***************************************************************************)
(* Sharing is invisible: the buffers behave as values of their own.        *)
(***************************************************************************)
Values == INSTANCE ValueBuffers WITH
  MaxBytes <- CHOOSE m \in {round_up(n) + ALIGNMENT : n \in Sizes} :
                 \A n \in Sizes : round_up(n) + ALIGNMENT <= m,
  value <- [h \in Live |-> View(h)],
  asked <- [w \in Workers |-> [on |-> op[w].on, why |-> op[w].why]]

SharingIsInvisible == Values!Spec
=============================================================================
