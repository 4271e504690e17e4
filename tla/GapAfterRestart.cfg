SPECIFICATION Spec
CONSTANTS
  s1 = s1
  s2 = s2
  c1 = c1
  c2 = c2
  Sessions = {s1, s2}
  Clients = {c1}
  SessionOf <- MCOneClient
  MaxLen = 4
  MaxEvents = 4
  MaxRestarts = 1
CHECK_DEADLOCK FALSE
INVARIANTS
  NoGap
