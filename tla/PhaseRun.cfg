\* Two workers in one or two groups, ordinary and unusual phases.
SPECIFICATION AnsweringSpec
CONSTANTS
  Phases <- MCPhases
  MaxRequests = 2
  Codes = {400, 500}
  Word = 256
INVARIANTS
  GroupsInSequence
  QuietAfterReport
  ReportComplete
  ResultTells
PROPERTIES
  TeardownFollowsWork
  PhaseEnds
