\* Every accepted and rejected combination of flags and plans of up to three
\* phases, under the three patterns.
SPECIFICATION FairSpec
CONSTANTS
  MaxRepeatsPerPhase = 3
  MaxPhases = 3
  PlanRepeats = {0, 1, 2, 4}
  PlanPatterns = {"", "sequence", "cycle", "random", "zigzag"}
  RepeatFlags <- MCRepeatFlags
  PatternFlags = {"", "cycle", "zigzag"}
  Defects = {"none", "duration", "plan", "header"}
INVARIANTS
  RepeatsExact
PROPERTIES
  ImplementsSchedule
  LoopAdvances
  CommandReturns
