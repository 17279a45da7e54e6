------------------------------ MODULE MCForks -------------------------------
(***************************************************************************)
(* The two ways the engine forks: a call of parallel_morsels, or a call of *)
(* parallel_for.  A behaviour is one call of one of them.  The totals      *)
(* cover no rows, one morsel, a whole number of morsels and a short last   *)
(* one, the row sizes the two values the queue clamps, and the counts no   *)
(* index, the one run inline and up to four tasks.                         *)
(***************************************************************************)
EXTENDS ParallelMorsels

CONSTANT Counts         \* the values of count a caller of parallel_for passes

VARIABLES forks,        \* which of the two is called
          count, for_phase, for_error, for_created, for_mode, for_failures,
          for_runs      \* the variables of the call of parallel_for

for_vars == <<count, for_phase, for_error, for_created, for_mode,
              for_failures, for_runs>>

For == INSTANCE ParallelFor WITH
  phase <- for_phase, error <- for_error, created <- for_created,
  mode <- for_mode, failures <- for_failures, runs <- for_runs

MCTotals == {-1, 0, 1, 3, 5}
MCRowSizes == {-1, 0, 1, 2}
MCCounts == {-1, 0, 1, 2, 4}

ForksInit == /\ forks \in {"morsels", "for"}
             /\ Init /\ For!Init
             /\ forks = "morsels" => count = 0
             /\ forks = "for" => total = 0 /\ rows = 1

ForksNext == \/ forks = "morsels" /\ Next /\ UNCHANGED <<forks, for_vars>>
             \/ forks = "for" /\ For!Next /\ UNCHANGED <<forks, vars>>

\* The fairness of ParallelMorsels and of ParallelFor, for the one called.
ForksFairness ==
  /\ WF_vars(forks = "morsels" /\ CallerNext)
  /\ WF_vars(forks = "morsels" /\ InlineNext)
  /\ \A w \in Workers : WF_vars(forks = "morsels" /\ WorkerNext(w))
  /\ WF_for_vars(forks = "for" /\ For!CallerNext)
  /\ WF_for_vars(forks = "for" /\ \E i \in For!Index : For!TaskNext(i))

ForksSpec == /\ ForksInit
             /\ [][ForksNext]_<<forks, vars, for_vars>>
             /\ ForksFairness
-----------------------------------------------------------------------------
(***************************************************************************)
(* Liveness: a call leaves, whatever its bodies raise and however the size *)
(* of a morsel was clamped (zero rows would never drain).                  *)
(***************************************************************************)
CallsLeave == <>(IF forks = "morsels" THEN Left ELSE For!Left)

(***************************************************************************)
(* parallel_for is the fork and join its callers are promised; and when a  *)
(* call leaves, every index has been run to its end or is one whose body   *)
(* raised, and the error is the text of the lowest index that left one,    *)
(* whichever failed first in time.                                         *)
(***************************************************************************)
ForKeepsItsPromise == For!ForKeepsItsPromise
=============================================================================
