\* Three requests at a time, four in all.
SPECIFICATION DatabaseSpec
CONSTANTS
  Handlers = {h1, h2, h3}
  MaxRequests = 4
SYMMETRY Symmetry
INVARIANTS
  FieldsAreFresh
  ClosedByCompany
  LeaksNeedOvertaking
  NilAfterOneError
