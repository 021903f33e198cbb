CONSTANTS
  Run <- PlanningRun
  Part <- RoundsPart
  RunOf <- RoundsRunOf
  Mode <- RoundsMode
  Policy <- RoundsPolicy
  MinIndependent <- RoundsMin
  Transport <- RoundsTransport
  Unverified <- RoundsUnverified
  Row <- RoundsRow
  Board <- R1
  Refinement <- Nothing
  Split <- Nothing
  Supervised <- Nothing
  Orchestrated <- Nothing
  MaxTurns = 2
  MaxPerRun = 1
  MaxRevisions = 0
  MaxChecks = 0
  CallCap = 6
  MaxParallel = 2
  UnsettledLimit = 2
  MaxSyntheses = 1
  MaxRequests = 1
  MaxPrepared = 1
  StoreFaults = FALSE
  StartFaults = FALSE
SPECIFICATION Spec
INVARIANTS
  EveryEndingIsNews
