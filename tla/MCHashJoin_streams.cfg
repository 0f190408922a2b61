SPECIFICATION Spec
CONSTANTS
  Keys = {1, 2}
  Residual <- MCResidual
  NumPartitions = 2
  MaxDepth = 1
  HashFunctions <- AllHashFunctions
  BuildBudget = 1
  RowCost = 1
  BlockSize = 1
  RowsPerPage = 1
  InMemBudget = 1
  InMemRowCost = 1
  InMemMaxHint = 1
  OuterBatchRows = 2
  Hints = {1, 2, NoHint}
  NoHint = NoHint
  MaxInput = 3
INVARIANTS
  LiveFilesReferenced
  EveryMatchInOnePlace
PROPERTIES
  ImplementsJoinStream
  EventuallyJoined
