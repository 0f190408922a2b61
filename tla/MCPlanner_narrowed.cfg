SPECIFICATION Spec
CONSTANTS
  Tables <- MCTables
  Queries <- NarrowedQueries
  Literal = Literal
  AllColumns = AllColumns
  Refused = Refused
  NoPlan = NoPlan
  MaxDpLeaves = 20
INVARIANT
  SupportedQueryPlanned
