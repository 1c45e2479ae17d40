\* One worker whose requests fail.
SPECIFICATION Spec
CONSTANTS
  Phases <- MCOneWorker
  MaxRequests = 1
  Codes = {400, 500}
  Word = 256
INVARIANTS
  SuccessesAreRequests
