SPECIFICATION Spec
CHECK_DEADLOCK FALSE
CONSTANTS
  cli = cli
  k1 = k1
  Proc <- TwoProc
  Cli = cli
  Units <- Job
  EarlyFork = TRUE
  HasInput = TRUE
  Chunks = 2
  ThreadFaults = FALSE
INVARIANT ConfirmedIsOver
