CONSTANTS
  Run <- RevisingRun
  Part <- RevisingPart
  RunOf <- RevisingRunOf
  Mode <- RevisingMode
  Policy <- RevisingPolicy
  MinIndependent <- RevisingMin
  Transport <- RevisingTransport
  Unverified <- RevisingUnverified
  Row <- RevisingRow
  Board <- R1
  Refinement <- Nothing
  Split <- S1
  Supervised <- Nothing
  Orchestrated <- R1
  MaxTurns = 2
  MaxPerRun = 1
  MaxRevisions = 2
  MaxChecks = 1
  CallCap = 6
  MaxParallel = 1
  UnsettledLimit = 1
  MaxSyntheses = 0
  MaxRequests = 1
  MaxPrepared = 1
  StoreFaults = FALSE
  StartFaults = TRUE
SPECIFICATION Spec
INVARIANTS
  RevisionsRechecked
