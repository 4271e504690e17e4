SPECIFICATION Spec
CONSTANTS
  Calls = {c1, c2, c3}
  Ids = {i1}
  None = None
CHECK_DEADLOCK FALSE
INVARIANTS
  RequestsAppear
