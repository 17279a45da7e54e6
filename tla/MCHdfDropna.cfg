SPECIFICATION FacadeSpec
CONSTANTS
  Parts = {"store"}
  Numbers = {1, 4}
  MaxRows = 4
  Mins = {0, 1}
  Tables = {"t", "u"}
  Lengths = {0, 1, 3}
  Chunks <- MCChunks
  MaxCalls = 2
  Legal <- MCLegal
  Default <- MCDefault
  Patterns <- MCPatterns
  Short <- MCShort
  OptionCalls <- MCOptionCalls
  MaxDepth = 3
  StoreKeys <- MCStoreKeys
  Selector <- Key
  Other <- KeyBelow
  StoreFrames <- MCLabelled
  StoreDroppable <- MCLabelled
  Wheres = {{0, 2}, {0, 1, 3}, {1}}
  Spans <- MCSpans
  Sizes = {1, 2}
  StoreCalls = 2
  Ranges <- MCRanges
  Others <- MCOthers
  MaxSteps = 2
  MaxLength = 4
  Far = 12
  Sides <- MCSides
  Frames <- MCFrames
  Tolerances <- MCTolerances
  Owners <- MCOwners
  Targets <- MCTargets
INVARIANT StoreReadsAsTold
CHECK_DEADLOCK FALSE
