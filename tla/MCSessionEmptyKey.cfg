SPECIFICATION SqlSpec
CONSTANTS
  Parts = {"session"}
  t = t
  u = u
  w = w
  a = a
  b = b
  q = q
  Names = {t, u}
  Columns = {"C", "D"}
  Values = {a, Empty}
  Prepared = {q}
  Null = Null
  Empty = Empty
  Statements <- EmptyKeyStatements
  Queries <- None
  Bodies <- None
  Handed <- None
  SharedQueries <- PlainShared
  SharedFrames <- None
  SharedCapacity = 3
  Capacity = 2
  MaxRows = 2
  MaxGeneration = 6
  ListNames <- ThreeNames
  ListFrames <- TwoFrames
  ListViews <- TwoViews
  ListKeys <- PrimaryKey
  ListChanges = 5
INVARIANT KeysHold
CHECK_DEADLOCK FALSE
