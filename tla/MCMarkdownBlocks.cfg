SPECIFICATION Spec
CONSTANTS
  Lines <- MCLines
  MaxLines = 5
INVARIANTS
  WellFormed
  NothingIsDropped
  EmptyLinesEndBlocks
  BrokenTables
CHECK_DEADLOCK FALSE
