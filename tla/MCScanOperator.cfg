SPECIFICATION Spec
CONSTANTS
  Tables <- MCTables
  PredicateLists <- MCPredicateLists
  OtherHolds <- MCOtherHolds
  PrefetchBlocks = 2
  NoBound = NoBound
  MaxKey = 2
  MaxBlocks = 3
INVARIANTS
  TypeOK
  NoMatchSkipped
  RangeIsTight
PROPERTIES
  ImplementsFilteredScan
  EventuallyScanned
