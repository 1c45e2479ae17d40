\* Two requests that may get stuck, with each other or behind an orphan, and a
\* consumer, who may unlock what it never locked.
SPECIFICATION FairSpec
CONSTANTS
  a = a
  b = b
  c = c
  None = None
  Handlers = {h1, h2, c1}
  Background = {c1}
  Ids <- MCLockingIds
  Workloads <- MCLockingWorkloads
  Scripts <- MCLockingScripts
  Allocations = {}
PROPERTIES
  RequestsEnd
