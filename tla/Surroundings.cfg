SPECIFICATION PartsSpec
CHECK_DEADLOCK FALSE
CONSTANTS
  Requested = {"p1", "p2", "p3"}
  Substitute = {"q1", "q2"}
  MinIndependent = 2
  Script = {"s1", "s2"}
  Process = {"p1", "p2", "p3"}
  Wants <- WantsOf
  Version <- VersionOf
  App = {"p1"}
  MaxCap = 3
  Newest = 2
  PhaseSchema = 1
  Thread = {"t1", "t2"}
  Viewer = {"t1"}
  LastMinute = 3
  Connection = {"c1", "c2"}
  MaxConnections = 1
  MaxInterrupts = 2
  Record <- Records
  Choice <- Models
  LastDay = 1
  MaxDays = 0
  MaxTime = 2
  RowName = {1, 2}
  MaxLimit = 2
  MaxWrites = 1
  MaxRuns = 2
  MaxPack = 4
  Candidates = 3
  Budgets <- SectionBytes
  Preferred <- SectionOrder
  HandoffBytes = 5
  AnswerBytes = 2
  HeadBytes = 1
  SourceBytes = 8
  MinQuote = 2
  MaxItems = 2
  MaxExcerpts = 2
  TooLong = 0
  MaxBody = 2
  Deadline = 2
  MaxHops = 2
  MaxPages = 2
  MaxLines = 2
  AnyOutput <- Outputs
  AnyMemory <- Memories
  AnyReply <- Replied
  AnySource <- Sourced
INVARIANTS
  LiveIsRecorded
  ServerEndsWhole
  GateIsExact
  SealHolds
  AnswersAreWhole
  MemoryIsBounded
  QuotesAreReal
  ExtractsAreWhole
PROPERTIES
  StopsOnlyAsked
  LedgerIsKept
  LimitsAreHonest
  PagesAreWhole
  RosterIsHonest
