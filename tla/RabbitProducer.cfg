\* A request and a background service's script, three messages each.
SPECIFICATION Spec
CONSTANTS
  Requests = {r1}
  Background = {b1}
  MaxProduces = 3
  MaxFailures = 1
INVARIANTS
  PanicNeedsRace
  FailureCostsTwo
  LeakNeedsRace
  HealsUnlessWedged
