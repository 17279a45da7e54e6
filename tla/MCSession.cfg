SPECIFICATION SqlSpec
CONSTANTS
  Parts = {"session", "lists", "shared"}
  t = t
  u = u
  w = w
  a = a
  b = b
  q = q
  Names = {t, u}
  Columns = {"C", "D"}
  Values = {a, b, Null}
  Prepared = {q}
  Null = Null
  Empty = Empty
  Statements <- SessionStatements
  Queries <- PlanQueries
  Bodies <- KeyBodies
  Handed <- SessionHanded
  SharedQueries <- PlainShared
  SharedFrames <- OneRowFrames
  SharedCapacity = 3
  Capacity = 2
  MaxRows = 2
  MaxGeneration = 4
  ListNames <- ThreeNames
  ListFrames <- TwoFrames
  ListViews <- TwoViews
  ListKeys <- PrimaryKey
  ListChanges = 5
INVARIANTS KeysHold RunsItsOwnPlan
PROPERTIES PlansFollowChanges RollbackRestores RefusedChangesNothing ImplementsNameMap
CHECK_DEADLOCK FALSE
