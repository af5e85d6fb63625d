SPECIFICATION Spec
CONSTANTS
  Lines <- MCLines
  MaxLines = 2
INVARIANTS
  EveryParserFinishes
CHECK_DEADLOCK FALSE
