SPECIFICATION FairSpec
CONSTANTS
  NumTasks = 3
  MayThrow <- MCMayThrow
INVARIANTS
  OneTaskAtATime
  NoUseAfterErase
  NobodyLeavesEarly
PROPERTIES
  ImplementsSerialRunner
  ShutdownCompletes
  EveryTaskKeepsRunning
CHECK_DEADLOCK FALSE
