SPECIFICATION FairSpec
CONSTANTS
  s1 = s1
  s2 = s2
  c1 = c1
  c2 = c2
  Sessions = {s1, s2}
  Clients = {c1, c2}
  SessionOf <- MCTwoClients
  MaxLen = 2
  MaxEvents = 4
  MaxRestarts = 1
CHECK_DEADLOCK FALSE
INVARIANTS
  TypeOK
  OnceInOrder
  NoGapInOneLife
PROPERTIES
  EventuallySeen
