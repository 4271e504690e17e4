SPECIFICATION Spec
CONSTANTS
  None = None
  r1 = r1
  r2 = r2
  s1 = s1
  s2 = s2
  Runs = {r1, r2}
  Sessions = {s1}
  Actors <- MCOps
  RolesOf <- MCRolesOf
  EnvOf <- MCEnvOf
  People <- MCOps
  ToolNames <- MCToolNames
  Policy <- MCPolicy
  Registry <- MCRegistry
  Handlers <- MCHandlers
  Replies <- MCFewReplies
  StepLimit = 8
  MaxActive = 1
SYMMETRY Symmetry
CHECK_DEADLOCK FALSE
PROPERTIES
  ApprovedIsReleased
