SPECIFICATION SubmitSpec
CONSTANTS
  Ids = {id1, id2}
  People = {alice, bob, carol}
  None = None
  reconcile = reconcile
  submit = submit
  Subjects <- MCSubjects
  RiskOf <- MCRiskOf
  Submitters = {w1}
  Tools = {"cashback_submit", "logistics_submit"}
INVARIANTS
  SubmitTypeOK
  QuorumReached
  WriteNeedsQuorum
  AuditedSubmitApproved
PROPERTIES
  DecisionIsFinal
  ImplementsLifecycle
CHECK_DEADLOCK FALSE
