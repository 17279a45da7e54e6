------------------------------ MODULE MCMemory ------------------------------
(***************************************************************************)
(* The buffers that share an allocation and the pool that recycles them; a *)
(* behaviour is of one of the two.  Shared buffers have blocks of two      *)
(* bytes: a whole block, a padded one and two blocks, so that a window can *)
(* start inside.  The pool has classes of one, two and four blocks and a   *)
(* request too large for any.  In the passing run every capacity given to  *)
(* it is a class capacity; in pool_odd_capacity callers also make and give *)
(* buffers of three blocks.                                                *)
(***************************************************************************)
EXTENDS SharedBuffer, TLC

CONSTANTS Memories,     \* "buffers", "pool" or both
          PoolAllocs, Requests, OwnSizes, WindowSizes, NUM_CLASSES,
          LimitPerClass

VARIABLES memory,       \* which of the two runs
          held, free, data

pool_vars == <<held, free, data>>

Pool == INSTANCE BufferPool WITH Allocs <- PoolAllocs

MemoryInit == memory \in Memories /\ Init /\ Pool!Init

MemoryNext ==
  \/ memory = "buffers" /\ Next /\ UNCHANGED <<memory, pool_vars>>
  \/ memory = "pool" /\ Pool!Next /\ UNCHANGED <<memory, vars>>

MemorySpec == MemoryInit /\ [][MemoryNext]_<<memory, vars, pool_vars>>

Symmetry == Permutations(Allocs) \cup Permutations(Workers)
              \cup Permutations(Handles)
-----------------------------------------------------------------------------
(***************************************************************************)
(* At every step of every thread a pointer that can be handed out is valid *)
(* for capacity() bytes of memory nobody has freed, its allocation counts  *)
(* just the buffers and unshares that hold it, and the pad past the        *)
(* logical size is zero, unless the size was lowered over written bytes.   *)
(***************************************************************************)
BytesAreHeld ==
  TypeOK /\ Pool!TypeOK /\ CountIsHolders /\ PointersAreValid /\ PadIsZero

(***************************************************************************)
(* What take hands out is zero and shared with nobody, and nothing the     *)
(* pool or another caller does changes what a buffer reads.                *)
(***************************************************************************)
PoolKeepsApart == Pool!TakenIsZeroAndPrivate /\ Pool!TenantsKeepTheirBytes

(***************************************************************************)
(* A buffer out of the pool is no larger than its capacity.                *)
(***************************************************************************)
SizeWithinCapacity == Pool!SizeWithinCapacity
=============================================================================
