SPECIFICATION Spec
CONSTANTS
  Values = {0, 1}
  Predicate <- MCPredicate
  RowBytes <- MCRowBytes
  OuterBatchBytes = 2
  Hints = {1, 2, NoHint}
  NoHint = NoHint
  NoFile = NoFile
  MaxInput = 3
PROPERTIES
  ImplementsJoinStream
  EventuallyJoined
