\* Two workers with one request each, setup and teardown.
SPECIFICATION FairSpec
CONSTANTS
  a = a
  None = None
  Handlers = {h1, h2, h3}
  Ids <- MCIds
  Phases <- MCPhases
  MaxRequests = 1
  Setup <- MCSetup
  Teardown <- MCTeardown
  Loads <- MCLoads
INVARIANTS
  TeardownMeetsTheAbandoned
  ReportMatchesServer
  FirstAnswerCounts
PROPERTIES
  PhaseEndsUnlessLockLost
