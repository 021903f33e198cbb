SPECIFICATION FairSpec
CHECK_DEADLOCK FALSE
CONSTANTS
  cli = cli
  k1 = k1
  Proc <- TwoProc
  Cli = cli
  Units <- AllUnits
  EarlyFork = FALSE
  HasInput = TRUE
  Chunks = 2
  ThreadFaults = TRUE
INVARIANTS
  CallSound
PROPERTIES
  KeepsPromise
  CallsReturn
