SPECIFICATION Spec
CONSTANTS
  RowSet <- MCRowSet
  RowBytes <- MCRowBytes
  SortKeys <- MCSortKeys
  KeyCount = 2
  SmallBytes = 40000
  LargeBytes = 91000
  SortRunBytes = 720896
  BlockSize = 65536
  MaxInput = 5
  NoRow = NoRow
  NoRun = NoRun
INVARIANTS
  TypeOK
  LiveRunsReferenced
  MemoryWithinBudget
PROPERTIES
  ImplementsSortedStream
  EventuallyDrained
