CONSTANTS
  Run <- TwoRun
  Part <- TwoPart
  RunOf <- TwoRunOf
  Mode <- TwoMode
  Policy <- TwoPolicy
  MinIndependent <- TwoMin
  Transport <- TwoTransport
  Unverified <- TwoUnverified
  Row <- TwoRow
  Adapter <- TwoAdapter
  Board <- TwoBoard
  RealCalls = TRUE
  CallCap = 2
  ProviderCap <- OnceEach
  MaxParallel = 1
  UnsettledLimit = 2
  MaxRequests = 2
  LingerPerCall = 1
  StoreFaults = FALSE
SPECIFICATION Spec
INVARIANTS
  CallsBounded
  WorkersInCharge
PROPERTIES
  QueueMoves
