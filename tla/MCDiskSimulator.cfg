SPECIFICATION Spec
CONSTANTS
  FileLists <- MCFileLists
  BlockSize = 4
  MinGapBytes = 18
  BlocksPerCylinder = 3
  Region = Region
  Contents = {x, y}
  Unknown = Unknown
  MaxPages = 3
  MaxCount = 2
  MaxCommands = 3
INVARIANTS
  TypeOK
  FilesApart
  MetricsFollowHead
PROPERTY
  ImplementsBlockDevice
