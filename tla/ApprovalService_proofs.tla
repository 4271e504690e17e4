----------------------- MODULE ApprovalService_proofs -----------------------
(***************************************************************************)
(* Proofs about ApprovalService, for any number of requests, people and    *)
(* subjects: type correctness, the quorum behind an approval, the finality *)
(* of a decision, and that the service implements ApprovalLifecycle.       *)
(***************************************************************************)
EXTENDS ApprovalService, TLAPS

(***************************************************************************)
(* How the fields of one stored request hang together.  The quorum is read *)
(* off the first, second and approver fields; the invariant ties each of   *)
(* them to an accepted call and says which may be set in which status.     *)
(***************************************************************************)
FieldsAgree(i) ==
  store[i] # None =>
    /\ store[i].dual = RequiresDualApproval(store[i].subject)
    /\ store[i].first # None => store[i].first \in endorsed[i] /\ store[i].dual
    /\ store[i].second # None =>
         /\ store[i].second \in endorsed[i]
         /\ store[i].first # None
         /\ store[i].second # store[i].first
    /\ store[i].status # "approved" => store[i].second = None
    /\ store[i].status = "approved" =>
         /\ store[i].approver # None
         /\ store[i].approver \in endorsed[i]
         /\ store[i].dual => store[i].second = store[i].approver

IInv == TypeOK /\ \A i \in Ids : FieldsAgree(i)

-----------------------------------------------------------------------------
\* Every stored request has the fields of Approval, whatever calls were made.
THEOREM TypeCorrect == Spec => []TypeOK
<1>. USE ApprovalAssumption DEF TypeOK, Approval, Statuses
<1>1. Init => TypeOK
  BY DEF Init
<1>2. TypeOK /\ [Next]_vars => TypeOK'
  <2>. SUFFICES ASSUME TypeOK, [Next]_vars PROVE TypeOK'
    OBVIOUS
  <2>1. ASSUME NEW i \in Ids, NEW p \in People, NEW s \in Subjects,
               Request(i, p, s)
        PROVE  TypeOK'
    BY <2>1 DEF Request, NewApproval, RequiresDualApproval
  <2>2. ASSUME NEW i \in Ids, NEW p \in People, ApproveFirst(i, p)
        PROVE  TypeOK'
    BY <2>2 DEF ApproveFirst, IsPending
  <2>3. ASSUME NEW i \in Ids, NEW p \in People, ApproveSecond(i, p)
        PROVE  TypeOK'
    BY <2>3 DEF ApproveSecond, IsPending
  <2>4. ASSUME NEW i \in Ids, NEW p \in People, ApproveSingle(i, p)
        PROVE  TypeOK'
    BY <2>4 DEF ApproveSingle, IsPending
  <2>5. ASSUME NEW i \in Ids, NEW p \in People, Reject(i, p)
        PROVE  TypeOK'
    BY <2>5 DEF Reject, IsPending
  <2>6. CASE UNCHANGED vars
    BY <2>6 DEF vars
  <2>. QED
    BY <2>1, <2>2, <2>3, <2>4, <2>5, <2>6 DEF Next, Decide
<1>. QED
  BY <1>1, <1>2, PTL DEF Spec

-----------------------------------------------------------------------------
(***************************************************************************)
(* One lemma per operation: what the call does to the request it names;    *)
(* every other request keeps its record and its endorsements.              *)
(***************************************************************************)
LEMMA RequestKeepsFields ==
  ASSUME IInv, NEW i \in Ids, NEW p \in People, NEW s \in Subjects,
         Request(i, p, s)
  PROVE  \A j \in Ids : FieldsAgree(j)'
  BY ApprovalAssumption
  DEF IInv, TypeOK, Approval, Statuses, FieldsAgree, Request, NewApproval,
      RequiresDualApproval

\* A first approval of two.
LEMMA ApproveFirstKeepsFields ==
  ASSUME IInv, NEW i \in Ids, NEW p \in People, ApproveFirst(i, p)
  PROVE  \A j \in Ids : FieldsAgree(j)'
  BY ApprovalAssumption
  DEF IInv, TypeOK, Approval, Statuses, FieldsAgree, ApproveFirst, IsPending,
      RequiresDualApproval

\* A second approval, by another person.
LEMMA ApproveSecondKeepsFields ==
  ASSUME IInv, NEW i \in Ids, NEW p \in People, ApproveSecond(i, p)
  PROVE  \A j \in Ids : FieldsAgree(j)'
  BY ApprovalAssumption
  DEF IInv, TypeOK, Approval, Statuses, FieldsAgree, ApproveSecond, IsPending,
      RequiresDualApproval

\* The one approval of a request that needs one.
LEMMA ApproveSingleKeepsFields ==
  ASSUME IInv, NEW i \in Ids, NEW p \in People, ApproveSingle(i, p)
  PROVE  \A j \in Ids : FieldsAgree(j)'
  BY ApprovalAssumption
  DEF IInv, TypeOK, Approval, Statuses, FieldsAgree, ApproveSingle, IsPending,
      RequiresDualApproval

\* A rejection.
LEMMA RejectKeepsFields ==
  ASSUME IInv, NEW i \in Ids, NEW p \in People, Reject(i, p)
  PROVE  \A j \in Ids : FieldsAgree(j)'
  BY ApprovalAssumption
  DEF IInv, TypeOK, Approval, Statuses, FieldsAgree, Reject, IsPending,
      RequiresDualApproval

\* The inductive invariant holds throughout.
LEMMA IInvCorrect == Spec => []IInv
<1>1. Init => \A i \in Ids : FieldsAgree(i)
  BY DEF Init, FieldsAgree
<1>2. IInv /\ [Next]_vars => (\A i \in Ids : FieldsAgree(i))'
  <2>. SUFFICES ASSUME IInv, [Next]_vars
                PROVE  \A i \in Ids : FieldsAgree(i)'
    OBVIOUS
  <2>1. CASE Next
    BY <2>1, RequestKeepsFields, ApproveFirstKeepsFields,
       ApproveSecondKeepsFields, ApproveSingleKeepsFields, RejectKeepsFields
    DEF Next, Decide
  <2>2. CASE UNCHANGED vars
    BY <2>2 DEF vars, IInv, FieldsAgree
  <2>. QED
    BY <2>1, <2>2
<1>. QED
  BY <1>1, <1>2, TypeCorrect, PTL DEF IInv, Spec

-----------------------------------------------------------------------------
\* An approved L5 request carries two different people's accepted approvals,
\* an approved request of a lower level at least one.
THEOREM QuorumCorrect == Spec => []QuorumReached
<1>1. IInv => QuorumReached
  BY ApprovalAssumption
  DEF IInv, TypeOK, Approval, Statuses, FieldsAgree, QuorumReached,
      RequiresDualApproval
<1>. QED
  BY <1>1, IInvCorrect, PTL

\* No call changes anything of a request that has been decided.
THEOREM FinalityCorrect == Spec => DecisionIsFinal
<1>1. TypeOK /\ [Next]_vars
        => [\A i \in Ids : Decided(i) => store'[i] = store[i]]_vars
  <2>. SUFFICES ASSUME TypeOK, [Next]_vars, NEW i \in Ids, Decided(i)
                PROVE  store'[i] = store[i]
    OBVIOUS
  <2>1. CASE Next
    BY <2>1 DEF TypeOK, Next, Decide, Request, ApproveFirst, ApproveSecond,
                ApproveSingle, Reject, IsPending, Decided
  <2>2. CASE UNCHANGED vars
    BY <2>2 DEF vars
  <2>. QED
    BY <2>1, <2>2
<1>. QED
  BY <1>1, TypeCorrect, PTL DEF Spec, DecisionIsFinal

-----------------------------------------------------------------------------
(***************************************************************************)
(* Refinement.  A pending dual request has been endorsed by nobody or by   *)
(* exactly its first approver, so its abstract votes are known.            *)
(***************************************************************************)
LEMMA VotesOfPending ==
  ASSUME IInv, NEW i \in Ids, IsPending(i)
  PROVE  /\ AbstractVotes[i] = IF store[i].first = None
                               THEN {} ELSE {store[i].first}
         /\ ~store[i].dual => store[i].first = None
  BY ApprovalAssumption
  DEF IInv, TypeOK, Approval, Statuses, FieldsAgree, IsPending, AbstractVotes

\* A request is asked for.
LEMMA RequestRefines ==
  ASSUME IInv, NEW i \in Ids, NEW p \in People, NEW s \in Subjects,
         Request(i, p, s)
  PROVE  Lifecycle!Ask(i, s)
<1>. USE ApprovalAssumption DEF IInv, TypeOK, Request
<1>1. NewApproval(p, s) # None
  <2>1. NewApproval(p, s) \in Approval
    BY DEF NewApproval, RequiresDualApproval, Approval, Statuses
  <2>. QED
    BY <2>1
<1>2. AbstractPhase' = [AbstractPhase EXCEPT ![i] = "pending"]
  BY <1>1 DEF AbstractPhase, NewApproval
<1>3. AbstractSubject' = [AbstractSubject EXCEPT ![i] = s]
  BY <1>1 DEF AbstractSubject, NewApproval
<1>4. AbstractVotes'[i] = {}
  BY <1>1 DEF AbstractVotes, NewApproval
<1>5. AbstractVotes' = AbstractVotes
  BY <1>4 DEF AbstractVotes
<1>. QED
  BY <1>2, <1>3, <1>5 DEF Lifecycle!Ask, AbstractPhase

\* A first approval of two is a vote.
LEMMA ApproveFirstRefines ==
  ASSUME IInv, NEW i \in Ids, NEW p \in People, ApproveFirst(i, p)
  PROVE  Lifecycle!Vote(i, p)
<1>. USE ApprovalAssumption
     DEF IInv, TypeOK, Approval, Statuses, ApproveFirst, IsPending
<1>1. AbstractPhase' = AbstractPhase /\ AbstractSubject' = AbstractSubject
  BY DEF AbstractPhase, AbstractSubject
<1>2. AbstractVotes[i] = {}
  BY VotesOfPending
<1>3. AbstractVotes' = [AbstractVotes EXCEPT ![i] = @ \cup {p}]
  <2>1. store[i].second = None /\ store[i].status = "pending"
    BY DEF FieldsAgree
  <2>2. AbstractVotes'[i] = {p}
    BY <2>1 DEF AbstractVotes
  <2>3. \A j \in Ids \ {i} : AbstractVotes'[j] = AbstractVotes[j]
    BY DEF AbstractVotes
  <2>4. /\ AbstractVotes = [j \in Ids |-> AbstractVotes[j]]
        /\ AbstractVotes' = [j \in Ids |-> AbstractVotes'[j]]
    BY DEF AbstractVotes
  <2>. HIDE DEF ApproveFirst, TypeOK
  <2>. QED
    BY <1>2, <2>2, <2>3, <2>4
<1>4. {p} \notin QuorumsOf[AbstractSubject[i]]
  BY DEF FieldsAgree, RequiresDualApproval, QuorumsOf, AbstractSubject
<1>. QED
  BY <1>1, <1>2, <1>3, <1>4 DEF Lifecycle!Vote, AbstractPhase

\* A second approval grants.
LEMMA ApproveSecondRefines ==
  ASSUME IInv, NEW i \in Ids, NEW p \in People, ApproveSecond(i, p)
  PROVE  Lifecycle!Grant(i, p)
<1>. USE ApprovalAssumption
     DEF IInv, TypeOK, Approval, Statuses, ApproveSecond, IsPending
<1>1. /\ AbstractPhase' = [AbstractPhase EXCEPT ![i] = "approved"]
      /\ AbstractSubject' = AbstractSubject
  BY DEF AbstractPhase, AbstractSubject
<1>2. AbstractVotes[i] = {store[i].first}
  BY VotesOfPending
<1>3. AbstractVotes' = [AbstractVotes EXCEPT ![i] = @ \cup {p}]
  <2>1. AbstractVotes'[i] = {store[i].first, p}
    BY DEF AbstractVotes
  <2>. QED
    BY <1>2, <2>1 DEF AbstractVotes
<1>4. {store[i].first, p} \in QuorumsOf[AbstractSubject[i]]
  BY DEF FieldsAgree, RequiresDualApproval, QuorumsOf, AbstractSubject
<1>. QED
  BY <1>1, <1>2, <1>3, <1>4 DEF Lifecycle!Grant, AbstractPhase

\* A single approval grants.
LEMMA ApproveSingleRefines ==
  ASSUME IInv, NEW i \in Ids, NEW p \in People, ApproveSingle(i, p)
  PROVE  Lifecycle!Grant(i, p)
<1>. USE ApprovalAssumption
     DEF IInv, TypeOK, Approval, Statuses, ApproveSingle, IsPending
<1>1. /\ AbstractPhase' = [AbstractPhase EXCEPT ![i] = "approved"]
      /\ AbstractSubject' = AbstractSubject
  BY DEF AbstractPhase, AbstractSubject
<1>2. AbstractVotes[i] = {}
  BY VotesOfPending
<1>3. AbstractVotes' = [AbstractVotes EXCEPT ![i] = @ \cup {p}]
  <2>1. store[i].first = None /\ store[i].second = None
    BY DEF FieldsAgree
  <2>2. AbstractVotes'[i] = {p}
    BY <2>1 DEF AbstractVotes
  <2>. QED
    BY <1>2, <2>2 DEF AbstractVotes
<1>4. {p} \in QuorumsOf[AbstractSubject[i]]
  BY DEF FieldsAgree, RequiresDualApproval, QuorumsOf, AbstractSubject
<1>. QED
  BY <1>1, <1>2, <1>3, <1>4 DEF Lifecycle!Grant, AbstractPhase

\* A rejection refuses.
LEMMA RejectRefines ==
  ASSUME IInv, NEW i \in Ids, NEW p \in People, Reject(i, p)
  PROVE  Lifecycle!Refuse(i)
  BY ApprovalAssumption
  DEF IInv, TypeOK, Approval, Statuses, Reject, IsPending, Lifecycle!Refuse,
      AbstractPhase, AbstractSubject, AbstractVotes

\* Every behaviour of the service is a life of requests as the abstract
\* specification allows it: asked once, frozen, decided once, by a quorum.
THEOREM RefinementCorrect == Spec => ImplementsLifecycle
<1>1. Init => Lifecycle!Init
  BY DEF Init, Lifecycle!Init, AbstractPhase, AbstractSubject, AbstractVotes
<1>2. IInv /\ [Next]_vars => [Lifecycle!Next]_(Lifecycle!vars)
  <2>. SUFFICES ASSUME IInv, [Next]_vars
                PROVE  [Lifecycle!Next]_(Lifecycle!vars)
    OBVIOUS
  <2>1. CASE Next
    <3>1. PICK i \in Ids, p \in People :
            (\E s \in Subjects : Request(i, p, s)) \/ Decide(i, p)
      BY <2>1 DEF Next
    <3>. QED
      BY <3>1, RequestRefines, ApproveFirstRefines, ApproveSecondRefines,
         ApproveSingleRefines, RejectRefines
      DEF Decide, Lifecycle!Next
  <2>2. CASE UNCHANGED vars
    BY <2>2 DEF vars, Lifecycle!vars, AbstractPhase, AbstractSubject,
                AbstractVotes
  <2>. QED
    BY <2>1, <2>2
<1>. QED
  BY <1>1, <1>2, IInvCorrect, PTL DEF Spec, ImplementsLifecycle, Lifecycle!Spec

=============================================================================
