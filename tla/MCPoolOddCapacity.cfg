SPECIFICATION MemorySpec
CONSTANTS
  Memories = {"pool"}
  Handles = {h1, h2}
  Allocs = {a1}
  Workers = {w1}
  Byte = {0, 1}
  Sizes = {1}
  ALIGNMENT = 2
  None = None
  PoolAllocs = {a1, a2, a3}
  Requests = {3, 4}
  OwnSizes = {3}
  WindowSizes = {1, 2}
  NUM_CLASSES = 3
  LimitPerClass = 2
INVARIANT SizeWithinCapacity
CHECK_DEADLOCK FALSE
