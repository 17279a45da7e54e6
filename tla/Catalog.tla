------------------------------- MODULE Catalog -------------------------------
(***************************************************************************)
(* sql/catalog.mojo: the names of a session, as operators on its state.    *)
(*                                                                         *)
(* A catalog is parallel lists with an entry per name - its folded key, its *)
(* kind and its slot - and packed lists of payloads, frames with the keys  *)
(* their rows hold to on one side and views on the other.  A slot is an    *)
(* index into the payload list of the entry's kind.  The spelling kept for *)
(* messages follows the key in every operation and is left out.            *)
(***************************************************************************)
EXTENDS Integers, Sequences, SequencesExt

KIND_FRAME == "frame"
KIND_VIEW == "view"
NOT_FOUND == 0

EmptyCatalog == [keys |-> <<>>, kinds |-> <<>>, slots |-> <<>>,
                 frames |-> <<>>, uniques |-> <<>>, views |-> <<>>,
                 generation |-> 0]

\* The first entry under a folded name.
find(c, n) ==
  IF \E at \in DOMAIN c.keys : c.keys[at] = n
  THEN CHOOSE at \in DOMAIN c.keys :
         c.keys[at] = n /\ \A j \in 1 .. at - 1 : c.keys[j] # n
  ELSE NOT_FOUND

frame_at(c, at) == c.frames[c.slots[at]]
view_at(c, at) == c.views[c.slots[at]]
uniques_at(c, at) == c.uniques[c.slots[at]]

IsKind(c, n, kind) == find(c, n) # NOT_FOUND /\ c.kinds[find(c, n)] = kind

\* Slip: every entry past the slot moves, whatever its kind.
forget_any_kind(c, at) ==
  LET kind == c.kinds[at]
      slot == c.slots[at]
      Packed(list, k) == IF kind = k THEN RemoveAt(list, slot) ELSE list
  IN  [c EXCEPT !.frames = Packed(@, KIND_FRAME),
                !.uniques = Packed(@, KIND_FRAME),
                !.views = Packed(@, KIND_VIEW),
                !.slots = [other \in DOMAIN @ |->
                             IF @[other] > slot THEN @[other] - 1 ELSE @[other]]]

\* Slip: the keys that go with a frame are the last ones, not its own.
forget_last_keys(c, at) ==
  LET kind == c.kinds[at]
      slot == c.slots[at]
      Packed(list, k) == IF kind = k THEN RemoveAt(list, slot) ELSE list
      Past(other) == other # at /\ c.kinds[other] = kind /\ c.slots[other] > slot
  IN  [c EXCEPT !.frames = Packed(@, KIND_FRAME),
                !.uniques = IF kind = KIND_FRAME THEN Front(@) ELSE @,
                !.views = Packed(@, KIND_VIEW),
                !.slots = [other \in DOMAIN @ |->
                             IF Past(other) THEN @[other] - 1 ELSE @[other]]]

\* Drop the payload of an entry and close the gap it leaves.
forget(c, at) ==
  LET kind == c.kinds[at]
      slot == c.slots[at]
      Packed(list, k) == IF kind = k THEN RemoveAt(list, slot) ELSE list
      Past(other) == other # at /\ c.kinds[other] = kind /\ c.slots[other] > slot
  IN  [c EXCEPT !.frames = Packed(@, KIND_FRAME),
                !.uniques = Packed(@, KIND_FRAME),
                !.views = Packed(@, KIND_VIEW),
                !.slots = [other \in DOMAIN @ |->
                             IF Past(other) THEN @[other] - 1 ELSE @[other]]]

drop(c, n) ==
  LET at == find(c, n) IN
  IF at = NOT_FOUND
  THEN c
  ELSE [forget(c, at) EXCEPT !.keys = RemoveAt(@, at),
                             !.kinds = RemoveAt(@, at),
                             !.slots = RemoveAt(@, at),
                             !.generation = @ + 1]

\* A new entry at the end of the list.
Entered(c, n, kind, slot) ==
  [c EXCEPT !.keys = Append(@, n), !.kinds = Append(@, kind),
            !.slots = Append(@, slot), !.generation = @ + 1]

\* A frame takes the place of a frame, and the end of the list otherwise.
register(c, n, f) ==
  IF IsKind(c, n, KIND_FRAME)
  THEN LET slot == c.slots[find(c, n)] IN
       [c EXCEPT !.frames[slot] = f, !.uniques[slot] = <<>>,
                 !.generation = @ + 1]
  ELSE LET room == drop(c, n) IN
       [Entered(room, n, KIND_FRAME, Len(room.frames) + 1) EXCEPT
          !.frames = Append(@, f), !.uniques = Append(@, <<>>)]

define(c, n, v) ==
  IF IsKind(c, n, KIND_VIEW)
  THEN [c EXCEPT !.views[c.slots[find(c, n)]] = v, !.generation = @ + 1]
  ELSE LET room == drop(c, n) IN
       [Entered(room, n, KIND_VIEW, Len(room.views) + 1) EXCEPT
          !.views = Append(@, v)]

\* New rows in a frame's place, under the keys it has.
refill(c, at, f) ==
  [c EXCEPT !.frames[c.slots[at]] = f, !.generation = @ + 1]

\* Keys for a frame.  The generation does not move.
constrain(c, at, u) == [c EXCEPT !.uniques[c.slots[at]] = u]

\* A setting has changed: only the generation says so.
moved(c) == [c EXCEPT !.generation = @ + 1]

\* _Saved: everything but the generation, which never goes back.
Save(c) == [field \in DOMAIN c \ {"generation"} |-> c[field]]

\* Slip: the names go back and the generation stays.
restore_without_moving(c, saved) ==
  [field \in DOMAIN c |->
     IF field = "generation" THEN c.generation ELSE saved[field]]

\* _restore: what was saved, under a generation of its own.
restore(c, saved) ==
  [field \in DOMAIN c |->
     IF field = "generation" THEN c.generation + 1 ELSE saved[field]]
-----------------------------------------------------------------------------
\* The lists agree: one entry a name, and the entries of a kind are in
\* one-to-one correspondence with the payloads of that kind.
WellPacked(c) ==
  /\ IsInjective(c.keys)
  /\ Len(c.kinds) = Len(c.keys) /\ Len(c.slots) = Len(c.keys)
  /\ Len(c.uniques) = Len(c.frames)
  /\ \A kind \in {KIND_FRAME, KIND_VIEW} :
       LET at == {i \in DOMAIN c.keys : c.kinds[i] = kind}
           payloads == IF kind = KIND_FRAME THEN c.frames ELSE c.views
       IN  /\ {c.slots[i] : i \in at} = DOMAIN payloads
           /\ \A i, j \in at : c.slots[i] = c.slots[j] => i = j

\* What a name holds.
Entry(c, n) ==
  LET at == find(c, n) IN
  IF c.kinds[at] = KIND_FRAME
  THEN [kind |-> KIND_FRAME, frame |-> frame_at(c, at),
        keys |-> uniques_at(c, at)]
  ELSE [kind |-> KIND_VIEW, view |-> view_at(c, at)]

\* The catalog as the map from names it stands for.
Held(c) == [n \in ToSet(c.keys) |-> Entry(c, n)]
=============================================================================
