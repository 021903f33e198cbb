CONSTANTS
  Run <- TwoRun
  Part <- TwoPart
  RunOf <- TwoRunOf
  Mode <- TwoMode
  Policy <- TwoPolicy
  MinIndependent <- TwoMin
  Transport <- TwoTransport
  Unverified <- TwoUnverified
  Row <- TwoRow
  Adapter <- TwoAdapter
  Board <- TwoBoard
  RealCalls = FALSE
  CallCap = 2
  ProviderCap <- NoCaps
  MaxParallel = 1
  UnsettledLimit = 2
  MaxRequests = 1
  LingerPerCall = 2
  StoreFaults = FALSE
SPECIFICATION Spec
INVARIANTS
  WorkingMovesByItself
