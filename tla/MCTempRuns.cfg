SPECIFICATION Spec
CONSTANTS
  small = small
  large = large
  Rows <- MCRows
  RowSize <- MCRowSize
  PageCapacity = 2
  RowCountLimit = 3
  WriteBatches = {1, 2}
  ReadBatches = {2}
  Readers = {r1}
  MaxRunRows = 3
  Unwritten = Unwritten
  None = None
  AnonStart = 3
  MaxBlock = 7
  MaxFiles = 2
  MaxExtent = 2
INVARIANTS
  TypeOK
  NoEmptyPages
  BuffersBounded
PROPERTY
  ImplementsRunStore
CHECK_DEADLOCK FALSE
