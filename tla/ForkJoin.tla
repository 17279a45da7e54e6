------------------------------ MODULE ForkJoin ------------------------------
(***************************************************************************)
(* What exec/parallel.mojo and exec/morsel.mojo promise their callers,     *)
(* with the tasks, the queue and the failure slots left out: a caller      *)
(* hands over a set of units of work and is blocked until the call leaves. *)
(* Each unit is run at most once.  The call returns only when every unit   *)
(* has been run, raises only when some body raised, and nothing is run     *)
(* once it has left, since the body captures state of the caller's frame.  *)
(***************************************************************************)
EXTENDS Naturals

CONSTANT Units          \* every unit of work any call may be given

VARIABLES work,         \* the units this call was given
          runs,         \* how often each of them has been run
          broke,        \* whether a body has raised
          call          \* "open", "returned" or "raised"

vars == <<work, runs, broke, call>>

Init == /\ work \in SUBSET Units
        /\ runs = [u \in work |-> 0]
        /\ broke = FALSE
        /\ call = "open"

Run(u) == /\ call = "open"
          /\ runs[u] = 0
          /\ runs' = [runs EXCEPT ![u] = 1]
          /\ UNCHANGED <<work, broke, call>>

Break == /\ call = "open"
         /\ broke' = TRUE
         /\ UNCHANGED <<work, runs, call>>

Return == /\ call = "open"
          /\ ~broke
          /\ \A u \in work : runs[u] = 1
          /\ call' = "returned"
          /\ UNCHANGED <<work, runs, broke>>

\* A task's failure is raised after the join, when broke already holds.  A
\* body on the caller's own stack breaks the call and leaves it in one step.
Raise == /\ call = "open"
         /\ broke' = TRUE
         /\ call' = "raised"
         /\ UNCHANGED <<work, runs>>

Next == \/ \E u \in work : Run(u)
        \/ Break
        \/ Return
        \/ Raise

Spec == Init /\ [][Next]_vars
=============================================================================
