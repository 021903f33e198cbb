CONSTANTS
  Run <- TwoRun
  Part <- PairPart
  RunOf <- PairRunOf
  Mode <- TwoMode
  Policy <- TwoPolicy
  MinIndependent <- TwoMin
  Transport <- PairTransport
  Unverified <- PairUnverified
  Row <- PairRow
  Adapter <- PairAdapter
  Board <- TwoBoard
  RealCalls = TRUE
  CallCap = 2
  ProviderCap <- NoCaps
  MaxParallel = 1
  UnsettledLimit = 2
  MaxRequests = 1
  LingerPerCall = 0
  StoreFaults = FALSE
SPECIFICATION FairSpec
PROPERTIES
  AttemptsSettle
  QueueDrains
