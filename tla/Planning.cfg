CONSTANTS
  Run <- PlanningRun
  Part <- PlanningPart
  RunOf <- PlanningRunOf
  Mode <- PlanningMode
  Policy <- PlanningPolicy
  MinIndependent <- PlanningMin
  Transport <- PlanningTransport
  Unverified <- PlanningUnverified
  Row <- PlanningRow
  Board <- Both
  Refinement <- Q1
  Split <- Nothing
  Supervised <- Both
  Orchestrated <- Nothing
  MaxTurns = 2
  MaxPerRun = 1
  MaxRevisions = 0
  MaxChecks = 0
  CallCap = 3
  MaxParallel = 2
  UnsettledLimit = 2
  MaxSyntheses = 0
  MaxRequests = 1
  MaxPrepared = 2
  StoreFaults = FALSE
  StartFaults = FALSE
SPECIFICATION Spec
INVARIANTS
  PlanningSound
PROPERTIES
  PlanningStarts
