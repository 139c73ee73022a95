SPECIFICATION Spec
CONSTANTS
  PoolSize <- MCPoolSize
  PoolNum <- MCPoolNum
  HEADER_SIZE = 8
  Sizes <- MCSizes
  STATIC = STATIC
  NULL = NULL
INVARIANTS TypeOK FreeListsExact
PROPERTIES SmallestFit NoDoubleAlloc
