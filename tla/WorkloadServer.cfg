\* Two requests and a consumer at a time over bracketed workloads.
SPECIFICATION Spec
CONSTANTS
  a = a
  b = b
  c = c
  None = None
  Handlers = {h1, h2, c1}
  Background = {c1}
  Ids <- MCIds
  Workloads <- MCWorkloads
  Scripts <- MCScripts
  Allocations <- MCAllocations
SYMMETRY MCSymmetry
INVARIANTS
  MutualExclusion
  NoFatalUnlock
  LeakBounded
PROPERTIES
  OrphanedByFailure
  OrphanedUntilRestart
