SPECIFICATION LiveSpec
CONSTANTS
  Positions <- MCPositions
  MaxRegisters = 2
  MaxNodes = 3
INVARIANTS
  TypeOK
  TreesIntact
  WalkOnPath
PROPERTIES
  PromiseSpec
  ReadsEnd
