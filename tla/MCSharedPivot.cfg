SPECIFICATION SqlSpec
CONSTANTS
  Parts = {"shared"}
  t = t
  u = u
  w = w
  a = a
  b = b
  q = q
  Names = {t, u}
  Columns = {"C", "D"}
  Values = {a, b}
  Prepared = {q}
  Null = Null
  Empty = Empty
  Statements <- None
  Queries <- None
  Bodies <- None
  Handed <- None
  SharedQueries <- PivotShared
  SharedFrames <- OneRowFrames
  SharedCapacity = 3
  Capacity = 2
  MaxRows = 2
  MaxGeneration = 4
  ListNames <- ThreeNames
  ListFrames <- TwoFrames
  ListViews <- TwoViews
  ListKeys <- PrimaryKey
  ListChanges = 5
INVARIANT RunsItsOwnPlan
CHECK_DEADLOCK FALSE
