SPECIFICATION MemorySpec
CONSTANTS
  Memories = {"buffers", "pool"}
  Handles = {h1, h2}
  Allocs = {a1, a2, a3}
  Workers = {w1, w2}
  Byte = {0, 1}
  Sizes = {1, 3}
  ALIGNMENT = 2
  None = None
  PoolAllocs = {a1, a2, a3}
  Requests = {3, 5}
  OwnSizes = {2}
  WindowSizes = {2}
  NUM_CLASSES = 3
  LimitPerClass = 2
INVARIANT BytesAreHeld
PROPERTIES SharingIsInvisible PoolKeepsApart
SYMMETRY Symmetry
CHECK_DEADLOCK FALSE
