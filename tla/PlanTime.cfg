\* A phase lasts 1 to 7 units; up to 3 phases with 1 to 3 repeats each, so that
\* the executions need more than the maximum runtime in some plans; the totals
\* of some do not fit.
SPECIFICATION TimedSpec
CONSTANTS
  MinPhaseDuration = 1
  MaxPhaseDuration = 7
  Int64 = 16
  MaxRepeatsPerPhase = 3
  MaxPhases = 3
  PlanRepeats = {1, 2, 4}
  PlanPatterns = {"sequence", "cycle", "random"}
  RepeatFlags <- MCRepeatFlags
  PatternFlags = {""}
  Defects = {"none", "header"}
  PlanWorkers <- MCPlanWorkers
  Runtimes = {0, 2, 5, 7}
INVARIANTS
  BudgetKept
  GroupsFitTheirPhase
