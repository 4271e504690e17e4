SPECIFICATION OverlapSpec
CONSTANTS
  None = None
  r1 = r1
  r2 = r2
  r3 = r3
  s1 = s1
  s2 = s2
  Runs = {r1, r2, r3}
  Sessions = {s1, s2}
  Actors <- MCOps
  RolesOf <- MCRolesOf
  EnvOf <- MCEnvOf
  People <- MCOps
  ToolNames <- MCToolNames
  Policy <- MCPolicy
  Registry <- MCRegistry
  Handlers <- MCHandlers
  Replies <- MCAnswer
  StepLimit = 4
  MaxActive = 2
SYMMETRY Symmetry
CHECK_DEADLOCK FALSE
INVARIANTS
  EventsOfUndisturbed
  TraceOfUndisturbed
  WriterRestoredIfNested
PROPERTIES
  HistoryAccumulates
