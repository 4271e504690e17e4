SPECIFICATION FairSpec
CONSTANTS
  Actors <- MCActors
  RolesOf <- MCRolesOf
  EnvOf <- MCEnvOf
  ToolNames <- MCToolNames
  Policy <- MCPolicy
  Routing <- MCRouting
  NoProvider = NoProvider
  Jobs <- MCJobs
  None = None
CHECK_DEADLOCK FALSE
INVARIANTS
  WorkflowsTypeOK
  CallsRecorded
  PageMatchesReport
  NoAnswerWithoutEvidence
  StepsArePrefix
  ClientReleased
  CashbackReportSound
  LogisticsReportSound
PROPERTIES
  JobEnds
