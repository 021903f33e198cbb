SPECIFICATION WorkSpec
CHECK_DEADLOCK FALSE
CONSTANTS
  a = a
  b = b
  r1 = r1
  r2 = r2
  Task <- TwoTasks
  Run <- TwoRuns
  Mode <- RunMode
  Transport <- RunTransport
  OwnTask <- RunTask
  Board <- OnBoard
  UnsettledLimit = 2
  MaxSaves = 3
  MaxPrepared = 1
  MaxResults = 1
  Later <- OnBoard
  Participant = {"m1", "m2"}
  Name = {1, 2}
  Model = {1, 2}
  Roster <- Rosters
  Draft <- Drafts
  MaxTemplates = 1
  MaxDrafts = 2
  Member = {"a", "b"}
  Cli = {"a", "b"}
  Author = {"a"}
  Disposition = {"rejected"}
  MaxRevisions = 2
  MaxChecks = 2
  MaxCollations = 1
  MaxFindings = 2
  MaxMishaps = 1
  MaxCalls = 6
  Card = {"c1", "c2", "d1", "app"}
  CliCard = {"c1", "c2", "d1"}
  CardProvider <- ProviderOf
  MaxTask = 2
  MaxPoints = 1
  MaxSources = 2
  MaxBytes = 1
  MaxTotal = 1
  AnyGraph <- GraphsOfThree
  AnyFact <- FactsOfRuns
  AnyScreen <- Screens
  AnyApproval <- Proposals
INVARIANTS
  PlansAcyclic
  DraftsUnderCurrentPlan
  NobodyWaitsUnseen
  ProjectionsAgree
  SealIsKept
  StartsOnWhatWasFixed
  TemplatesAreKept
  ApprovalsHold
PROPERTIES
  StartsOnFinishedWork
  FindingsGoAlong
