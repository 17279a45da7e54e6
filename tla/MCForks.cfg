SPECIFICATION ForksSpec
CONSTANTS
  Totals <- MCTotals
  RowSizes <- MCRowSizes
  Counts <- MCCounts
  Level = 3
  Messages = {"a", "b"}
  MaxInt = 16
INVARIANTS RowsRunOnce OthersDrain CursorNeverWraps RaisesFirstByWorker
PROPERTIES NothingRunsAfterLeaving CallsLeave ImplementsForkJoin ForKeepsItsPromise
CHECK_DEADLOCK FALSE
