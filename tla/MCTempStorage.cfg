SPECIFICATION Spec
CONSTANTS
  Pages = {p1, p2}
  Unwritten = Unwritten
  None = None
  AnonStart = 4
  MaxBlock = 8
  MaxFiles = 3
  MaxExtent = 2
SYMMETRY PageSymmetry
INVARIANTS
  TypeOK
  NoBlockSharedTwice
  NoBlockLost
  EveryPageLocated
PROPERTY
  ImplementsPageStore
CHECK_DEADLOCK FALSE
