SPECIFICATION OverlapFairSpec
CONSTANTS
  None = None
  r1 = r1
  r2 = r2
  r3 = r3
  s1 = s1
  s2 = s2
  Runs = {r1, r2}
  Sessions = {s1}
  Actors <- MCOps
  RolesOf <- MCRolesOf
  EnvOf <- MCEnvOf
  People <- MCOps
  ToolNames <- MCHiddenNames
  Policy <- MCHiddenPolicy
  Registry <- MCShortRegistry
  Handlers <- MCHiddenHandlers
  Replies <- MCHiddenReplies
  StepLimit = 7
  MaxActive = 2
CHECK_DEADLOCK FALSE
INVARIANTS
  TypeOK
  ApprovalCoversBatch
  DetailOfUndisturbed
  GatedExecution
  EveryHandlerRecorded
  PendingReplyIsQueued
PROPERTIES
  EveryTurnEnds
  ApprovalStopsRun
