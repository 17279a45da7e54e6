SPECIFICATION FairSpec
CONSTANTS
  Lines <- MCLines
  Frames <- MCFrames
  WorkerCount = 2
  BATCH_CHUNKS_PER_WORKER = 1
  MORSEL_ROWS = 2
  TOPN_FLOOR = 2
INVARIANT NodesStayInBounds
PROPERTIES LimitStopsTheSource EventuallyEnds ImplementsRowQuery
CHECK_DEADLOCK FALSE
