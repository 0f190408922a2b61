SPECIFICATION Spec
CONSTANTS
  Tables <- MCTables
  Queries <- MCQueries
  Literal = Literal
  AllColumns = AllColumns
  Refused = Refused
  NoPlan = NoPlan
  MaxDpLeaves = 20
INVARIANTS
  OrdersWellJoined
  NoNeedlessCross
  AnswerIsQuery
  SupportedQueryPlanned
  EveryPredicateHolds
