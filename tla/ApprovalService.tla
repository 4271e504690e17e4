-------------------------- MODULE ApprovalService ---------------------------
(***************************************************************************)
(* fiat_agent/approvals: the approval queue shared by the agent graph, the *)
(* web console and the Lark bot.  The repository is a dictionary in memory *)
(* whose coroutines never suspend, so each operation of the service is one *)
(* action: nothing of the event loop runs between its lookup and its       *)
(* update.                                                                 *)
(***************************************************************************)
EXTENDS Naturals, FiniteSets

CONSTANTS
  Ids,           \* the uuid4 identifiers: an unused one is always fresh
  People,        \* requesters and approvers
  Subjects,      \* what a request freezes: tools, parameters, environment
  RiskOf,        \* RiskOf[s]: the highest risk level among the tools of s
  None           \* Python's None

Statuses == {"pending", "approved", "rejected"}

Approval ==
  [ requester : People,  subject : Subjects,  dual : BOOLEAN,
    status    : Statuses,
    first     : People \cup {None},    \* first_approver_id
    second    : People \cup {None},    \* second_approver_id
    approver  : People \cup {None} ]   \* approver_id: who decided

ASSUME ApprovalAssumption ==
  /\ None \notin People
  /\ None \notin Subjects
  /\ None \notin Approval
  /\ RiskOf \in [Subjects -> 1 .. 5]

VARIABLES
  store,         \* InMemoryApprovalRepository._store
  endorsed       \* history: endorsed[i] = whose approve call on i was accepted

vars == <<store, endorsed>>

TypeOK ==
  /\ store \in [Ids -> Approval \cup {None}]
  /\ endorsed \in [Ids -> SUBSET People]

Init ==
  /\ store = [i \in Ids |-> None]
  /\ endorsed = [i \in Ids |-> {}]

-----------------------------------------------------------------------------
\* Mutant: the comparison is strict.
RequiresDualAbove(s) == RiskOf[s] > 5

RequiresDualApproval(s) == RiskOf[s] = 5

\* Mutant: who asked is not recorded.
NewApprovalAnonymous(q, s) ==
  [ requester |-> None,  subject |-> s,  dual |-> RequiresDualApproval(s),
    status |-> "pending",  first |-> None,  second |-> None,
    approver |-> None ]

NewApproval(q, s) ==
  [ requester |-> q,  subject |-> s,  dual |-> RequiresDualApproval(s),
    status |-> "pending",  first |-> None,  second |-> None,
    approver |-> None ]

\* ApprovalService.request
Request(i, q, s) ==
  /\ store[i] = None
  /\ store' = [store EXCEPT ![i] = NewApproval(q, s)]
  /\ UNCHANGED endorsed

\* Mutant: only existence is checked.
IsKnown(i) == store[i] # None

\* approve and reject raise ApprovalError on an unknown id and
\* AlreadyDecidedError on a decided one: the store is then left as it was.
IsPending(i) == store[i] # None /\ store[i].status = "pending"

\* approve, dual approval, nobody has approved yet: the request stays pending.
ApproveFirst(i, p) ==
  /\ IsPending(i)
  /\ store[i].dual
  /\ store[i].first = None
  /\ store' = [store EXCEPT ![i].first = p]
  /\ endorsed' = [endorsed EXCEPT ![i] = @ \cup {p}]

\* Mutant: the second approver may be the first one.
ApproveSecondAnyone(i, p) ==
  /\ IsPending(i)
  /\ store[i].dual
  /\ store[i].first # None
  /\ store[i].second = None
  /\ store' = [store EXCEPT ![i].second = p, ![i].approver = p,
                            ![i].status = "approved"]
  /\ endorsed' = [endorsed EXCEPT ![i] = @ \cup {p}]

\* approve, dual approval, a second and different approver; the same one
\* again gets "dual approval requires two distinct approvers".
ApproveSecond(i, p) ==
  /\ IsPending(i)
  /\ store[i].dual
  /\ store[i].first # None
  /\ store[i].second = None
  /\ p # store[i].first
  /\ store' = [store EXCEPT ![i].second = p, ![i].approver = p,
                            ![i].status = "approved"]
  /\ endorsed' = [endorsed EXCEPT ![i] = @ \cup {p}]

\* approve, a single approver is enough.
ApproveSingle(i, p) ==
  /\ IsPending(i)
  /\ ~store[i].dual
  /\ store' = [store EXCEPT ![i].approver = p, ![i].status = "approved"]
  /\ endorsed' = [endorsed EXCEPT ![i] = @ \cup {p}]

\* reject: one person suffices, also after a first approval.
Reject(i, p) ==
  /\ IsPending(i)
  /\ store' = [store EXCEPT ![i].approver = p, ![i].status = "rejected"]
  /\ UNCHANGED endorsed

Decide(i, p) ==
  \/ ApproveFirst(i, p)
  \/ ApproveSecond(i, p)
  \/ ApproveSingle(i, p)
  \/ Reject(i, p)

Next ==
  \E i \in Ids, p \in People :
    \/ \E s \in Subjects : Request(i, p, s)
    \/ Decide(i, p)

Spec == Init /\ [][Next]_vars
-----------------------------------------------------------------------------
Decided(i) == store[i] # None /\ store[i].status # "pending"

(***************************************************************************)
(* An approved request of the highest risk level carries the accepted      *)
(* approvals of two different people; any other approved one carries at    *)
(* least one.  (approve, approvals/policies.py: L5 is dual.)               *)
(***************************************************************************)
QuorumReached ==
  \A i \in Ids :
    store[i] # None /\ store[i].status = "approved" =>
      IF RiskOf[store[i].subject] = 5
      THEN \E p, q \in endorsed[i] : p # q
      ELSE endorsed[i] # {}

(***************************************************************************)
(* A decision is final: no later call, from whichever channel, changes     *)
(* anything of a decided request -- its status, who decided it, or the     *)
(* frozen parameters.  (the AlreadyDecidedError guard of both operations)  *)
(***************************************************************************)
DecisionIsFinal == [][\A i \in Ids : Decided(i) => store'[i] = store[i]]_vars

(***************************************************************************)
(* The service implements the abstract life of a request.                  *)
(***************************************************************************)
AbstractPhase ==
  [i \in Ids |-> IF store[i] = None THEN "absent" ELSE store[i].status]

AbstractSubject ==
  [i \in Ids |-> IF store[i] = None THEN None ELSE store[i].subject]

AbstractVotes ==
  [i \in Ids |->
     IF store[i] = None THEN {}
     ELSE ({store[i].first, store[i].second}
             \cup (IF store[i].status = "approved" THEN {store[i].approver}
                                                   ELSE {})) \ {None}]

\* Two different people for L5, anyone for the rest.
QuorumsOf ==
  [s \in Subjects |->
     { V \in SUBSET People :
         IF RiskOf[s] = 5 THEN \E p, q \in V : p # q ELSE V # {} }]

Lifecycle == INSTANCE ApprovalLifecycle
               WITH Quorums <- QuorumsOf,
                    phase   <- AbstractPhase,
                    subject <- AbstractSubject,
                    votes   <- AbstractVotes

ImplementsLifecycle == Lifecycle!Spec
=============================================================================
