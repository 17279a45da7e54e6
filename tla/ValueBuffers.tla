---------------------------- MODULE ValueBuffers ----------------------------
(***************************************************************************)
(* What buffer/buffer.mojo promises the owner of a Buffer, with the shared *)
(* allocation, the refcount and the windows left out: every buffer is a    *)
(* value of its own.  A copy or a window starts with the bytes it was made *)
(* from, and from then on a write through one buffer is seen by no other.  *)
(* A worker asks for a use of a buffer and finishes it; a buffer's bytes   *)
(* change in the one step that finishes a write and in no other.           *)
(***************************************************************************)
EXTENDS Integers

CONSTANTS Handles, Workers, Byte, MaxBytes, None

VARIABLES value,        \* the bytes of each live buffer
          asked         \* the buffer each worker is using, and what for

vars == <<value, asked>>

Live == DOMAIN value
Strings == UNION {[0 .. n - 1 -> Byte] : n \in 0 .. MaxBytes}
Length(v) == CHOOSE n \in 0 .. MaxBytes : DOMAIN v = 0 .. n - 1
Slice(v, at, n) == [i \in 0 .. n - 1 |-> v[at + i]]

With(h, v) == [g \in Live \cup {h} |-> IF g = h THEN v ELSE value[g]]

Nothing == [on |-> None, why |-> "none"]

Init == /\ value = [h \in {} |-> <<>>]
        /\ asked = [w \in Workers |-> Nothing]

New(h) == /\ h \notin Live
          /\ \E v \in Strings : value' = With(h, v)
          /\ UNCHANGED asked

Cut(h, g) == /\ h \notin Live
             /\ \E at \in 0 .. Length(value[g]) :
                  \E n \in 0 .. Length(value[g]) - at :
                     value' = With(h, Slice(value[g], at, n))
             /\ UNCHANGED asked

Resize(h) == /\ \E v \in Strings :
                   /\ \A i \in DOMAIN v \cap DOMAIN value[h] : v[i] = value[h][i]
                   /\ value' = [value EXCEPT ![h] = v]
             /\ UNCHANGED asked

Free(h) == /\ value' = [g \in Live \ {h} |-> value[g]]
           /\ UNCHANGED asked

Ask(w, h, why) == /\ asked[w] = Nothing
                  /\ asked' = [asked EXCEPT ![w] = [on |-> h, why |-> why]]
                  /\ UNCHANGED value

\* What a finished use leaves in the buffer.
Outcome(v, why) == CASE why = "zero" -> {[i \in DOMAIN v |-> 0]}
                     [] why = "private" -> {v}
                     [] why = "write" ->
                          IF v = <<>> THEN {v}
                          ELSE {[v EXCEPT ![i] = b] : i \in DOMAIN v, b \in Byte}

Finish(w) == /\ asked[w] # Nothing
             /\ \E v \in Outcome(value[asked[w].on], asked[w].why) :
                   value' = [value EXCEPT ![asked[w].on] = v]
             /\ asked' = [asked EXCEPT ![w] = Nothing]

Next == \/ \E h \in Handles : New(h)
        \/ \E h \in Handles, g \in Live : Cut(h, g)
        \/ \E h \in Live : Resize(h) \/ Free(h)
        \/ \E w \in Workers, h \in Live, why \in {"write", "zero", "private"} :
              Ask(w, h, why)
        \/ \E w \in Workers : Finish(w)

Spec == Init /\ [][Next]_vars
=============================================================================
