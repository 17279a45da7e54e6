-------------------------- MODULE ParallelMorsels ---------------------------
(***************************************************************************)
(* exec/morsel.mojo: one call of parallel_morsels(body, total, rows).      *)
(*                                                                         *)
(* The processes are the caller and its drain tasks.  The caller either    *)
(* leaves at once (no rows), runs the body on its own stack (one morsel)   *)
(* or makes a queue, starts one _drain task per worker, waits for all of   *)
(* them and raises the first failure it finds in the slots.  A drain task  *)
(* takes morsels from the shared cursor until it draws an empty one or its *)
(* body raises.  A task may run as soon as it is created, so it interleaves*)
(* with the creation of the others.                                        *)
(*                                                                         *)
(* The body is the caller's: it is modelled as touching the rows of its    *)
(* range one by one, and as free to raise before any of them.              *)
(***************************************************************************)
EXTENDS Integers, FiniteSets

CONSTANTS Totals,       \* the values of total a caller may pass
          RowSizes,     \* the values of rows a caller may pass
          Level,        \* parallelism_level(), the runtime's own count
          Messages,     \* the texts an Error may carry
          MaxInt        \* the largest value of the Int64 cursor

NoText == ""            \* an unwritten failure slot

\* worker_count(): the runtime's count, at least one.
WorkerCount == IF Level > 0 THEN Level ELSE 1

\* The clamped fields of MorselQueue.__init__.
QueueTotal(t) == IF t > 0 THEN t ELSE 0
QueueRows(n) == IF n > 0 THEN n ELSE 1

Workers == 0 .. WorkerCount - 1
Caller == -1
Procs == Workers \cup {Caller}

\* Every worker overruns the cursor at most once, so a job whose rows leave
\* this much room below the largest Int64 cannot wrap it.
ASSUME JobsFit ==
  /\ Totals \subseteq Int
  /\ RowSizes \subseteq Int
  /\ Level \in Int
  /\ MaxInt \in Nat
  /\ \A t \in Totals, n \in RowSizes :
        QueueTotal(t) + (WorkerCount + 1) * QueueRows(n) <= MaxInt

VARIABLES total,        \* the arguments of the call
          rows,
          phase,        \* where the caller is
          error,        \* the text the call raised, if it raised
          cursor,       \* MorselQueue.cursor
          created,      \* how many tasks create_task has been called for
          mode,         \* what each process is doing
          at,           \* the next row the body of a process will touch
          stop,         \* one past the last row of its morsel
          failures,     \* one failure slot per worker
          runs          \* how often the body has touched each row

job == <<total, rows>>
span == <<at, stop>>
vars == <<total, rows, phase, error, cursor, created, mode, at, stop,
          failures, runs>>

Row == 0 .. total - 1

\* MorselQueue.morsels(), for the queue parallel_morsels makes.
Morsels == (QueueTotal(total) + QueueRows(rows) - 1) \div QueueRows(rows)

\* How many tasks the call starts.
Crew == IF Morsels < WorkerCount THEN Morsels ELSE WorkerCount

\* Int64 addition.
Wrap(n) == IF n > MaxInt THEN n - 2 * (MaxInt + 1) ELSE n

\* Slip: the fetch_add advances the cursor by a row too few.
AdvanceShort == Wrap(cursor + QueueRows(rows) - 1)

\* What the fetch_add of take() leaves in the cursor.
Advance == Wrap(cursor + QueueRows(rows))

\* Slip: the short last morsel loses its last row.
MorselEndShort == IF cursor + QueueRows(rows) < QueueTotal(total)
                  THEN cursor + QueueRows(rows)
                  ELSE QueueTotal(total) - 1

\* One past the last row of the morsel at the cursor.
MorselEnd == IF cursor + QueueRows(rows) < QueueTotal(total)
             THEN cursor + QueueRows(rows)
             ELSE QueueTotal(total)

Left == phase \in {"returned", "raised"}
Live(p) == mode[p] \in {"busy", "failed"}
\* Rows a process has taken and its body has not touched.
Unrun(p) == IF Live(p) THEN at[p] .. stop[p] - 1 ELSE {}

Init == /\ total \in Totals
        /\ rows \in RowSizes
        /\ phase = "call"
        /\ error = NoText
        /\ cursor = 0
        /\ created = 0
        /\ mode = [p \in Procs |-> "absent"]
        /\ at = [p \in Procs |-> 0]
        /\ stop = [p \in Procs |-> 0]
        /\ failures = [w \in Workers |-> NoText]
        /\ runs = [r \in Row |-> 0]
-----------------------------------------------------------------------------
\* if total <= 0: return
CallEmpty == /\ phase = "call"
             /\ total <= 0
             /\ phase' = "returned"
             /\ UNCHANGED <<job, error, cursor, created, mode, span,
                            failures, runs>>

\* if total <= rows: body(0, total), on the caller's stack.
CallInline == /\ phase = "call"
              /\ total > 0
              /\ total <= rows
              /\ phase' = "inline"
              /\ mode' = [mode EXCEPT ![Caller] = "busy"]
              /\ stop' = [stop EXCEPT ![Caller] = total]
              /\ UNCHANGED <<job, error, cursor, created, at, failures, runs>>

CallFork == /\ phase = "call"
            /\ total > 0
            /\ total > rows
            /\ phase' = "fork"
            /\ UNCHANGED <<job, error, cursor, created, mode, span,
                           failures, runs>>

\* Slip: the last task is never started.
CreateTaskOneShort ==
  /\ phase = "fork"
  /\ created + 1 < Crew
  /\ mode' = [mode EXCEPT ![created] = "ready"]
  /\ created' = created + 1
  /\ UNCHANGED <<job, phase, error, cursor, span, failures, runs>>

\* group.create_task: the task is ready to run from here on.
CreateTask == /\ phase = "fork"
              /\ created < Crew
              /\ mode' = [mode EXCEPT ![created] = "ready"]
              /\ created' = created + 1
              /\ UNCHANGED <<job, phase, error, cursor, span, failures, runs>>

\* Slip: the wait ends at the first failure instead of the last task.
JoinedAtFailure ==
  /\ phase = "fork"
  /\ created = Crew
  /\ \/ \A w \in 0 .. Crew - 1 : mode[w] \in {"drained", "failed"}
     \/ \E w \in 0 .. Crew - 1 : mode[w] = "failed"

\* group.wait() and the scan of the slots, which nobody writes any longer.
Joined == /\ phase = "fork"
          /\ created = Crew
          /\ \A w \in 0 .. Crew - 1 : mode[w] \in {"drained", "failed"}

Told == {w \in 0 .. Crew - 1 : failures[w] # NoText}

\* Slip: the scan keeps the last failure it sees.
LastOf(S, w) == w \in S /\ \A v \in S : v <= w

FirstOf(S, w) == w \in S /\ \A v \in S : w <= v

Return == /\ Joined
          /\ Told = {}
          /\ phase' = "returned"
          /\ UNCHANGED <<job, error, cursor, created, mode, span, failures,
                         runs>>

Raise == /\ Joined
         /\ \E w \in Workers : FirstOf(Told, w) /\ error' = failures[w]
         /\ phase' = "raised"
         /\ UNCHANGED <<job, cursor, created, mode, span, failures, runs>>
-----------------------------------------------------------------------------
\* queue.take() hands out rows: fetch_add returns the old cursor.
TakeMorsel(w) ==
  /\ mode[w] = "ready"
  /\ cursor < QueueTotal(total)
  /\ cursor' = Advance
  /\ at' = [at EXCEPT ![w] = cursor]
  /\ stop' = [stop EXCEPT ![w] = MorselEnd]
  /\ mode' = [mode EXCEPT ![w] = "busy"]
  /\ UNCHANGED <<job, phase, error, created, failures, runs>>

\* Slip: the task asks again after an empty morsel.
TakeNothingAgain(w) ==
  /\ mode[w] = "ready"
  /\ cursor >= QueueTotal(total)
  /\ cursor' = Advance
  /\ UNCHANGED <<job, phase, error, created, mode, span, failures, runs>>

\* queue.take() past the end: the cursor is left there, the task ends.
TakeNothing(w) ==
  /\ mode[w] = "ready"
  /\ cursor >= QueueTotal(total)
  /\ cursor' = Advance
  /\ mode' = [mode EXCEPT ![w] = "drained"]
  /\ UNCHANGED <<job, phase, error, created, span, failures, runs>>

\* The body of a process touches its next row.
RunRow(p) ==
  /\ mode[p] = "busy"
  /\ at[p] < stop[p]
  /\ runs' = [runs EXCEPT ![at[p]] = @ + 1]
  /\ at' = [at EXCEPT ![p] = @ + 1]
  /\ UNCHANGED <<job, phase, error, cursor, created, mode, stop, failures>>

\* The body returns to the loop of _drain.
BodyReturns(w) ==
  /\ mode[w] = "busy"
  /\ at[w] = stop[w]
  /\ mode' = [mode EXCEPT ![w] = "ready"]
  /\ UNCHANGED <<job, phase, error, cursor, created, span, failures, runs>>

\* Slip: the failure is not written to the slot.
BodyRaisesUnheard(w, m) ==
  /\ mode[w] = "busy"
  /\ mode' = [mode EXCEPT ![w] = "failed"]
  /\ UNCHANGED <<job, phase, error, cursor, created, span, failures, runs>>

\* except e: the text goes into this worker's slot and the task ends.
BodyRaises(w, m) ==
  /\ mode[w] = "busy"
  /\ mode' = [mode EXCEPT ![w] = "failed"]
  /\ failures' = [failures EXCEPT ![w] = m]
  /\ UNCHANGED <<job, phase, error, cursor, created, span, runs>>

InlineReturns ==
  /\ mode[Caller] = "busy"
  /\ at[Caller] = stop[Caller]
  /\ mode' = [mode EXCEPT ![Caller] = "drained"]
  /\ phase' = "returned"
  /\ UNCHANGED <<job, error, cursor, created, span, failures, runs>>

\* The inline body's error is the caller's: no slot is involved.
InlineRaises(m) ==
  /\ mode[Caller] = "busy"
  /\ mode' = [mode EXCEPT ![Caller] = "failed"]
  /\ phase' = "raised"
  /\ error' = m
  /\ UNCHANGED <<job, cursor, created, span, failures, runs>>
-----------------------------------------------------------------------------
CallerNext == \/ CallEmpty
              \/ CallInline
              \/ CallFork
              \/ CreateTask
              \/ Return
              \/ Raise

WorkerNext(w) == \/ TakeMorsel(w)
                 \/ TakeNothing(w)
                 \/ RunRow(w)
                 \/ BodyReturns(w)
                 \/ \E m \in Messages : BodyRaises(w, m)

InlineNext == \/ RunRow(Caller)
              \/ InlineReturns
              \/ \E m \in Messages : InlineRaises(m)

Next == \/ CallerNext
        \/ InlineNext
        \/ \E w \in Workers : WorkerNext(w)

Spec == Init /\ [][Next]_vars

\* The runtime runs every task it was given, and bodies return.
Fairness == /\ WF_vars(CallerNext)
            /\ WF_vars(InlineNext)
            /\ \A w \in Workers : WF_vars(WorkerNext(w))

FairSpec == Spec /\ Fairness
-----------------------------------------------------------------------------
\* Every variable keeps the shape the code's declarations give it.
TypeOK ==
  /\ total \in Totals
  /\ rows \in RowSizes
  /\ phase \in {"call", "inline", "fork", "returned", "raised"}
  /\ error \in Messages \cup {NoText}
  /\ cursor \in Int
  /\ created \in 0 .. WorkerCount
  /\ mode \in [Procs -> {"absent", "ready", "busy", "drained", "failed"}]
  /\ at \in [Procs -> Int]
  /\ stop \in [Procs -> Int]
  /\ failures \in [Workers -> Messages \cup {NoText}]
  /\ runs \in [Row -> Nat]

(***************************************************************************)
(* MorselQueue.take is "safe to call from every worker at once": whatever  *)
(* the interleaving, no row is given to two bodies, so the kernels that    *)
(* write one output cell per row never write a cell twice or concurrently. *)
(***************************************************************************)
RowsRunOnce ==
  /\ \A r \in Row : runs[r] <= 1
  /\ \A p, q \in Procs : p # q => Unrun(p) \cap Unrun(q) = {}
  /\ \A p \in Procs : \A r \in Unrun(p) : r \in Row /\ runs[r] = 0

(***************************************************************************)
(* "Stop at the first failure in this worker but let the others drain":    *)
(* when the call leaves and some worker did not fail, the only rows no     *)
(* body touched are the rest of the morsels whose own body raised.  With   *)
(* no failure at all every row has been touched.                           *)
(***************************************************************************)
OthersDrain ==
  (Left /\ \E p \in Procs : mode[p] = "drained") =>
     \A r \in Row : runs[r] = 1 \/ \E p \in Procs :
                                      mode[p] = "failed" /\ r \in Unrun(p)

(***************************************************************************)
(* The fetch_add never wraps: a worker leaves the loop at its first empty  *)
(* morsel, so the cursor overruns the rows by one step per worker at most  *)
(* and the test at >= total never sees a negative value.                   *)
(***************************************************************************)
CursorNeverWraps ==
  /\ 0 <= cursor
  /\ cursor < QueueTotal(total) + (WorkerCount + 1) * QueueRows(rows)

(***************************************************************************)
(* "Callers sizing a per morsel result list up front" index it by          *)
(* start // rows: every morsel handed out falls inside morsels() slots,    *)
(* at a multiple of the morsel size.                                       *)
(***************************************************************************)
MorselsInRange ==
  [][\A w \in Workers : TakeMorsel(w) =>
        /\ at'[w] % QueueRows(rows) = 0
        /\ at'[w] \div QueueRows(rows) < Morsels]_vars

(***************************************************************************)
(* The captured state of the body lives in the caller's frame: once the    *)
(* call has left, no row is touched, no slot is written and no cursor is   *)
(* moved by a task that is still running.                                  *)
(***************************************************************************)
NothingRunsAfterLeaving ==
  [][Left => UNCHANGED <<cursor, runs, failures>>]_vars

(***************************************************************************)
(* "The first failure, by worker": the error raised is the text of the     *)
(* lowest worker that has one, whichever failed first in time; an error    *)
(* is never invented.                                                      *)
(***************************************************************************)
RaisesFirstByWorker ==
  (phase = "raised" /\ mode[Caller] = "absent") =>
     \E w \in Workers : /\ mode[w] = "failed"
                        /\ error = failures[w]
                        /\ \A v \in 0 .. w - 1 : mode[v] = "failed" =>
                                                   failures[v] = NoText

(***************************************************************************)
(* Liveness: a call always leaves, whatever its bodies raise and however   *)
(* the size of a morsel was clamped (zero rows would never drain).         *)
(***************************************************************************)
EventuallyLeaves == <>Left
-----------------------------------------------------------------------------
(***************************************************************************)
(* The call implements the fork and join its callers are promised.         *)
(***************************************************************************)
Promise == INSTANCE ForkJoin WITH
  Units <- UNION {0 .. t - 1 : t \in Totals},
  work <- Row,
  broke <- \E p \in Procs : mode[p] = "failed",
  call <- IF Left THEN phase ELSE "open"

ImplementsForkJoin == Promise!Spec
=============================================================================
