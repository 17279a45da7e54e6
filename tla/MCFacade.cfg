SPECIFICATION FacadeSpec
CONSTANTS
  Parts = {"sql", "options", "mean", "store", "range", "join", "merge", "lookup"}
  Numbers = {1, 4}
  MaxRows = 4
  Mins = {0, 1, 2}
  Tables = {"t", "u"}
  Lengths = {0, 1, 3}
  Chunks <- MCChunks
  MaxCalls = 2
  Legal <- MCLegal
  Default <- MCDefault
  Patterns <- MCPatterns
  Short <- MCShort
  OptionCalls <- MCOptionCalls
  MaxDepth = 3
  StoreKeys <- MCStoreKeys
  Selector <- Key
  Other <- KeyBelow
  StoreFrames <- MCStoreFrames
  StoreDroppable <- MCFloats
  Wheres = {{0, 2}, {0, 1, 3}, {1}}
  Spans <- MCSpans
  Sizes = {1, 2}
  StoreCalls = 2
  Ranges <- MCRanges
  Others <- MCOthers
  MaxSteps = 2
  MaxLength = 4
  Far = 12
  Sides <- MCSides
  Frames <- MCFrames
  Tolerances <- MCTolerances
  Owners <- MCOwners
  Targets <- MCTargets
INVARIANTS
  CarriesOn
  CallsLandWhole
  CallsEndAsAsked
  StoreReadsAsTold
  ChunksAreTheSelection
  CopiesReadTheSame
  HalvesMatch
  RangeIsItsLabels
  JoinsLineUp
  MergesReadTheirRows
  ReindexReadsTheNearest
  LabelsReadTheirRows
PROPERTY ContextsPutBack
CHECK_DEADLOCK FALSE
