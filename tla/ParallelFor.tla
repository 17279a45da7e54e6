---------------------------- MODULE ParallelFor -----------------------------
(***************************************************************************)
(* exec/parallel.mojo: one call of parallel_for(body, count).  The caller  *)
(* leaves at once, runs the only index on its own stack, or creates one    *)
(* task per index, waits for all of them and raises the first failure by   *)
(* index.  A body is two steps, its start and its end, so that bodies      *)
(* overlap with each other and with the creation of later tasks.           *)
(***************************************************************************)
EXTENDS Integers

CONSTANTS Counts,       \* the values of count a caller may pass
          Messages      \* the texts an Error may carry

NoText == ""            \* an unwritten failure slot

VARIABLES count,        \* the argument of the call
          phase,        \* where the caller is
          error,        \* the text the call raised, if it raised
          created,      \* how many tasks have been created
          mode,         \* what the body of each index is doing
          failures,     \* one failure slot per index
          runs          \* how often the body of an index has completed

vars == <<count, phase, error, created, mode, failures, runs>>

Index == 0 .. count - 1
Left == phase \in {"returned", "raised"}

Init == /\ count \in Counts
        /\ phase = "call"
        /\ error = NoText
        /\ created = 0
        /\ mode = [i \in Index |-> "absent"]
        /\ failures = [i \in Index |-> NoText]
        /\ runs = [i \in Index |-> 0]
-----------------------------------------------------------------------------
CallNone == /\ phase = "call"
            /\ count <= 0
            /\ phase' = "returned"
            /\ UNCHANGED <<count, error, created, mode, failures, runs>>

\* if count == 1: body(0), on the caller's stack.
CallInline == /\ phase = "call"
              /\ count = 1
              /\ phase' = "inline"
              /\ mode' = [mode EXCEPT ![0] = "busy"]
              /\ UNCHANGED <<count, error, created, failures, runs>>

CallFork == /\ phase = "call"
            /\ count > 1
            /\ phase' = "fork"
            /\ UNCHANGED <<count, error, created, mode, failures, runs>>

\* Slip: the last task is never created.
CreateTaskOneShort == /\ phase = "fork"
                      /\ created + 1 < count
                      /\ mode' = [mode EXCEPT ![created] = "ready"]
                      /\ created' = created + 1
                      /\ UNCHANGED <<count, phase, error, failures, runs>>

\* group.create_task
CreateTask == /\ phase = "fork"
              /\ created < count
              /\ mode' = [mode EXCEPT ![created] = "ready"]
              /\ created' = created + 1
              /\ UNCHANGED <<count, phase, error, failures, runs>>

\* group.wait()
Joined == /\ phase = "fork"
          /\ created = count
          /\ \A i \in Index : mode[i] \in {"done", "failed"}

Told == {i \in Index : failures[i] # NoText}

Return == /\ Joined
          /\ Told = {}
          /\ phase' = "returned"
          /\ UNCHANGED <<count, error, created, mode, failures, runs>>

\* Slip: the scan stops at any slot that holds a text.
AnyTold(i) == i \in Told

FirstTold(i) == i \in Told /\ \A j \in Told : i <= j

Raise == /\ Joined
         /\ \E i \in Told : FirstTold(i) /\ error' = failures[i]
         /\ phase' = "raised"
         /\ UNCHANGED <<count, created, mode, failures, runs>>
-----------------------------------------------------------------------------
\* Slip: a task looks at the other slots and gives up when one is written.
BodyStartsUnlessFailed(i) ==
  /\ mode[i] = "ready"
  /\ mode' = [mode EXCEPT ![i] = IF Told = {} THEN "busy" ELSE "done"]
  /\ UNCHANGED <<count, phase, error, created, failures, runs>>

BodyStarts(i) == /\ mode[i] = "ready"
                 /\ mode' = [mode EXCEPT ![i] = "busy"]
                 /\ UNCHANGED <<count, phase, error, created, failures, runs>>

BodyReturns(i) == /\ mode[i] = "busy"
                  /\ mode' = [mode EXCEPT ![i] = "done"]
                  /\ runs' = [runs EXCEPT ![i] = @ + 1]
                  /\ UNCHANGED <<count, phase, error, created, failures>>

\* Slip: the failure is not written to the slot.
BodyRaisesUnheard(i, m) ==
  /\ phase # "inline"
  /\ mode[i] = "busy"
  /\ mode' = [mode EXCEPT ![i] = "failed"]
  /\ UNCHANGED <<count, phase, error, created, failures, runs>>

\* except e: the text goes into this index's slot.
BodyRaises(i, m) == /\ phase # "inline"
                    /\ mode[i] = "busy"
                    /\ mode' = [mode EXCEPT ![i] = "failed"]
                    /\ failures' = [failures EXCEPT ![i] = m]
                    /\ UNCHANGED <<count, phase, error, created, runs>>

InlineReturns == /\ phase = "inline"
                 /\ mode[0] = "done"
                 /\ phase' = "returned"
                 /\ UNCHANGED <<count, error, created, mode, failures, runs>>

InlineRaises(m) == /\ phase = "inline"
                   /\ mode[0] = "busy"
                   /\ phase' = "raised"
                   /\ error' = m
                   /\ mode' = [mode EXCEPT ![0] = "failed"]
                   /\ UNCHANGED <<count, created, failures, runs>>
-----------------------------------------------------------------------------
CallerNext == \/ CallNone
              \/ CallInline
              \/ CallFork
              \/ CreateTask
              \/ Return
              \/ Raise
              \/ InlineReturns
              \/ \E m \in Messages : InlineRaises(m)

TaskNext(i) == \/ BodyStarts(i)
               \/ BodyReturns(i)
               \/ \E m \in Messages : BodyRaises(i, m)

Next == CallerNext \/ \E i \in Index : TaskNext(i)

Spec == Init /\ [][Next]_vars

\* The runtime runs every task it was given, and bodies return.
Fairness == /\ WF_vars(CallerNext)
            /\ WF_vars(\E i \in Index : TaskNext(i))

FairSpec == Spec /\ Fairness
-----------------------------------------------------------------------------
\* Every variable keeps the shape the code's declarations give it.
TypeOK ==
  /\ count \in Counts
  /\ phase \in {"call", "inline", "fork", "returned", "raised"}
  /\ error \in Messages \cup {NoText}
  /\ created \in Nat
  /\ created <= (IF count > 0 THEN count ELSE 0)
  /\ mode \in [Index -> {"absent", "ready", "busy", "done", "failed"}]
  /\ failures \in [Index -> Messages \cup {NoText}]
  /\ runs \in [Index -> Nat]

(***************************************************************************)
(* "Every index is run either way": when the call leaves, each index has   *)
(* been run to its end exactly once or is one whose own body raised,       *)
(* whatever the others did.                                                *)
(***************************************************************************)
EveryIndexRun ==
  Left => \A i \in Index : \/ mode[i] = "done" /\ runs[i] = 1
                           \/ mode[i] = "failed" /\ runs[i] = 0

(***************************************************************************)
(* "The first failure, by index": a lower index that also failed with a    *)
(* text wins, whichever failed first in time, and the text is the one its  *)
(* own body raised.                                                        *)
(***************************************************************************)
RaisesFirstByIndex ==
  (phase = "raised" /\ count > 1) =>
     \E i \in Index : /\ mode[i] = "failed"
                      /\ error = failures[i]
                      /\ \A j \in 0 .. i - 1 : failures[j] = NoText

(***************************************************************************)
(* A call always leaves, whatever its bodies raise.                        *)
(***************************************************************************)
EventuallyLeaves == <>Left
-----------------------------------------------------------------------------
(***************************************************************************)
(* The call implements the fork and join its callers are promised.         *)
(***************************************************************************)
Promise == INSTANCE ForkJoin WITH
  Units <- UNION {0 .. n - 1 : n \in Counts},
  work <- Index,
  broke <- \E i \in Index : mode[i] = "failed",
  call <- IF Left THEN phase ELSE "open"

ImplementsForkJoin == Promise!Spec

(***************************************************************************)
(* All that a caller of parallel_for is promised, together.                *)
(***************************************************************************)
ForKeepsItsPromise ==
  ImplementsForkJoin /\ [](TypeOK /\ EveryIndexRun /\ RaisesFirstByIndex)
=============================================================================
