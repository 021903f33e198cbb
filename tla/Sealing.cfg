CONSTANTS
  Run <- OneRun
  Part <- OnePart
  RunOf <- OneRunOf
  Mode <- OneMode
  Policy <- OnePolicy
  MinIndependent <- OneMin
  Transport <- OneTransport
  Unverified <- OneUnverified
  Row <- OneRow
  Adapter <- OneAdapter
  Board <- NoBoard
  RealCalls = TRUE
  CallCap = 3
  ProviderCap <- OnceEach
  MaxParallel = 2
  UnsettledLimit = 2
  MaxRequests = 2
  LingerPerCall = 2
  StoreFaults = TRUE
SPECIFICATION Spec
INVARIANTS
  SealSound
  NoForgottenTree
PROPERTIES
  ImplementsBarrier
