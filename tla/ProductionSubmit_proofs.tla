----------------------- MODULE ProductionSubmit_proofs -----------------------
(***************************************************************************)
(* Proofs about ProductionSubmit, for any number of requests, people and   *)
(* submitting tasks.  The composition does to the queue only what the      *)
(* queue allows, so what is proved of ApprovalService carries over; the    *)
(* guarantee about writes then rests on the finality of decisions.         *)
(***************************************************************************)
EXTENDS ProductionSubmit, ApprovalService_proofs

\* A step that only submits or writes leaves the queue alone.
LEMMA SubmitLeavesQueue ==
  ASSUME SubmitStep \/ WriteStep
  PROVE  UNCHANGED vars
  BY DEF SubmitStep, WriteStep, WorkflowSubmit, BeginWrite, EndWrite,
         AbortWrite, vars

\* Seen from the queue, every step of the composition is one of its own.
LEMMA QueueStep ==
  ASSUME [SubmitNext]_allVars
  PROVE  [Next]_vars
  BY SubmitLeavesQueue DEF SubmitNext, allVars, vars

\* The composition is an approval queue: all its theorems hold here.
THEOREM SubmitImplementsQueue == SubmitSpec => Spec
<1>1. SubmitInit => Init
  BY DEF SubmitInit
<1>2. [SubmitNext]_allVars => [Next]_vars
  BY QueueStep
<1>. QED
  BY <1>1, <1>2, PTL DEF SubmitSpec, Spec

-----------------------------------------------------------------------------
\* One step per kind of step; the queue's part is the queue's own theorem.
LEMMA SubmitTypeStep ==
  ASSUME SubmitTypeOK, TypeOK', [SubmitNext]_allVars
  PROVE  SubmitTypeOK'
<1>. USE DEF SubmitTypeOK
<1>1. CASE UNCHANGED submitVars
  BY <1>1 DEF submitVars
<1>2. ASSUME NEW i \in Ids, NEW w \in Submitters, NEW s \in Subjects,
             BeginWrite(w, i, s)
      PROVE  SubmitTypeOK'
  BY <1>2 DEF BeginWrite, Write
<1>3. ASSUME NEW i \in Ids, NEW t \in Tools, WorkflowSubmit(t, i)
      PROVE  SubmitTypeOK'
  <2>1. [tool |-> t, approval |-> i, allowed |-> FALSE] \in AuditEvent
    BY DEF AuditEvent
  <2>. QED
    BY <1>3, <2>1 DEF WorkflowSubmit
<1>4. ASSUME NEW w \in Submitters, EndWrite(w)
      PROVE  SubmitTypeOK'
  BY <1>4 DEF EndWrite
<1>5. ASSUME NEW w \in Submitters, AbortWrite(w)
      PROVE  SubmitTypeOK'
  BY <1>5 DEF AbortWrite
<1>. QED
  BY <1>1, <1>2, <1>3, <1>4, <1>5
  DEF SubmitNext, SubmitStep, WriteStep, allVars, submitVars

\* The state of the guard, of its writes and of the audit trail is well formed.
THEOREM SubmitTypeCorrect == SubmitSpec => []SubmitTypeOK
<1>1. SubmitInit => SubmitTypeOK
  <2>1. Init => TypeOK
    BY DEF Init, TypeOK
  <2>. QED
    BY <2>1 DEF SubmitInit, SubmitTypeOK
<1>2. SubmitTypeOK /\ TypeOK' /\ [SubmitNext]_allVars => SubmitTypeOK'
  BY SubmitTypeStep
<1>3. SubmitSpec => []TypeOK
  BY SubmitImplementsQueue, TypeCorrect, PTL
<1>. QED
  BY <1>1, <1>2, <1>3, PTL DEF SubmitSpec

-----------------------------------------------------------------------------
\* What the gate saw is a quorum ...
LEMMA GateSeesQuorum ==
  ASSUME QuorumReached, NEW i \in Ids, EnsureApproved(i)
  PROVE  HasQuorum(i)
  BY DEF QuorumReached, EnsureApproved, HasQuorum

\* ... and a quorum is never lost: the request is decided, and endorsements
\* only grow.
LEMMA QuorumStays ==
  ASSUME TypeOK, [Next]_vars, NEW i \in Ids, HasQuorum(i)
  PROVE  HasQuorum(i)'
<1>1. store'[i] = store[i] /\ endorsed[i] \subseteq endorsed'[i]
  BY DEF TypeOK, HasQuorum, Next, Decide, Request, ApproveFirst,
         ApproveSecond, ApproveSingle, Reject, IsPending, vars
<1>. QED
  BY <1>1 DEF HasQuorum

\* The records a submission leaves, each with the quorum behind it, and the
\* switch that allowed it.
SubmitInv ==
  /\ SubmitTypeOK
  /\ WriteNeedsQuorum
  /\ AuditedSubmitApproved
  /\ ~enabled => written = {} /\ \A w \in Submitters : writing[w] = None
  /\ \A a \in audited : ~a.allowed

\* Every step preserves the invariant of the guard.
LEMMA SubmitInvStep ==
  ASSUME SubmitInv, QuorumReached, SubmitTypeOK', [SubmitNext]_allVars
  PROVE  SubmitInv'
<1>. USE DEF SubmitInv
<1>1. \A i \in Ids : HasQuorum(i) => HasQuorum(i)'
  BY QueueStep, QuorumStays DEF SubmitTypeOK
<1>2. CASE UNCHANGED submitVars
  <2>1. WriteNeedsQuorum' /\ AuditedSubmitApproved'
    BY <1>1, <1>2, SubmitAssumption
    DEF submitVars, WriteNeedsQuorum, AuditedSubmitApproved, SubmitTypeOK,
        Write, AuditEvent
  <2>. QED
    BY <1>2, <2>1 DEF submitVars
<1>3. ASSUME NEW i \in Ids, NEW w \in Submitters, NEW s \in Subjects,
             BeginWrite(w, i, s)
      PROVE  SubmitInv'
  <2>1. HasQuorum(i)'
    BY <1>1, <1>3, GateSeesQuorum DEF BeginWrite
  <2>2. ASSUME NEW v \in Submitters, writing'[v] # None
        PROVE  HasQuorum(writing[v].approval)'
    <3>1. CASE v = w
      <4>1. writing'[v].approval = i
        BY <1>3, <3>1 DEF BeginWrite, SubmitTypeOK
      <4>. QED
        BY <2>1, <4>1 DEF HasQuorum
    <3>2. CASE v # w
      <4>1. writing'[v] = writing[v]
        BY <1>3, <3>2 DEF BeginWrite, SubmitTypeOK
      <4>2. writing[v] \in Write
        BY <2>2, <4>1 DEF SubmitTypeOK
      <4>3. HasQuorum(writing[v].approval) /\ writing[v].approval \in Ids
        BY <2>2, <4>1, <4>2 DEF WriteNeedsQuorum, Write
      <4>. QED
        BY <1>1, <4>1, <4>3 DEF HasQuorum
    <3>. QED
      BY <3>1, <3>2
  <2>3. WriteNeedsQuorum'
    BY <1>1, <1>3, <2>2 DEF BeginWrite, WriteNeedsQuorum, SubmitTypeOK, Write
  <2>4. AuditedSubmitApproved'
    BY <1>1, <1>3
    DEF BeginWrite, AuditedSubmitApproved, SubmitTypeOK, AuditEvent
  <2>. QED
    BY <1>3, <2>3, <2>4 DEF BeginWrite, MayWrite
<1>4. ASSUME NEW i \in Ids, NEW t \in Tools, WorkflowSubmit(t, i)
      PROVE  SubmitInv'
  <2>1. HasQuorum(i)'
    BY <1>1, <1>4, GateSeesQuorum DEF WorkflowSubmit
  <2>2. AuditedSubmitApproved'
    BY <1>1, <1>4, <2>1
    DEF WorkflowSubmit, AuditedSubmitApproved, SubmitTypeOK, AuditEvent
  <2>3. WriteNeedsQuorum'
    BY <1>1, <1>4, SubmitAssumption
    DEF WorkflowSubmit, WriteNeedsQuorum, SubmitTypeOK, Write
  <2>. QED
    BY <1>4, <2>2, <2>3 DEF WorkflowSubmit
<1>5. ASSUME NEW w \in Submitters, EndWrite(w) \/ AbortWrite(w)
      PROVE  SubmitInv'
  <2>1. ASSUME NEW v \in Submitters, writing'[v] # None
        PROVE  HasQuorum(writing[v].approval)'
    <3>1. writing'[v] = writing[v]
      BY <1>5, <2>1 DEF EndWrite, AbortWrite, SubmitTypeOK
    <3>2. HasQuorum(writing[v].approval) /\ writing[v].approval \in Ids
      BY <2>1, <3>1 DEF WriteNeedsQuorum, SubmitTypeOK, Write
    <3>. QED
      BY <1>1, <3>1, <3>2 DEF HasQuorum
  <2>4. \A x \in written' : HasQuorum(x.approval)'
    BY <1>1, <1>5
    DEF EndWrite, AbortWrite, WriteNeedsQuorum, SubmitTypeOK, Write
  <2>2. AuditedSubmitApproved'
    BY <1>1, <1>5
    DEF EndWrite, AbortWrite, AuditedSubmitApproved, SubmitTypeOK, AuditEvent
  <2>3. ~enabled => FALSE
    BY <1>5 DEF EndWrite, AbortWrite
  <2>. QED
    BY <1>5, <2>1, <2>2, <2>3, <2>4 DEF EndWrite, AbortWrite, WriteNeedsQuorum
<1>. QED
  BY <1>2, <1>3, <1>4, <1>5
  DEF SubmitNext, SubmitStep, WriteStep, allVars, submitVars

\* The invariant of the guard holds throughout.
LEMMA SubmitInvCorrect == SubmitSpec => []SubmitInv
<1>1. SubmitInit /\ SubmitTypeOK => SubmitInv
  BY DEF SubmitInit, SubmitInv, WriteNeedsQuorum, AuditedSubmitApproved
<1>2. SubmitInv /\ QuorumReached /\ SubmitTypeOK' /\ [SubmitNext]_allVars
        => SubmitInv'
  BY SubmitInvStep
<1>3. SubmitSpec => []QuorumReached
  BY SubmitImplementsQueue, QuorumCorrect, PTL
<1>. QED
  BY <1>1, <1>2, <1>3, SubmitTypeCorrect, PTL DEF SubmitSpec

\* However many tasks submit and people decide, in whatever order, nothing is
\* written to production without the quorum its request needs.
THEOREM WriteNeedsQuorumCorrect == SubmitSpec => []WriteNeedsQuorum
<1>1. SubmitInv => WriteNeedsQuorum
  BY DEF SubmitInv
<1>. QED
  BY <1>1, SubmitInvCorrect, PTL

\* Every submission the audit trail names was approved by its quorum.
THEOREM AuditedCorrect == SubmitSpec => []AuditedSubmitApproved
<1>1. SubmitInv => AuditedSubmitApproved
  BY DEF SubmitInv
<1>. QED
  BY <1>1, SubmitInvCorrect, PTL
=============================================================================
