-------------------------- MODULE ProductionSubmit ---------------------------
(***************************************************************************)
(* fiat_agent/workflows/production_submit.py composed with the approval    *)
(* queue it asks, and with the submit() of the two table workflows.        *)
(*                                                                         *)
(* The guard looks the request up and only then awaits the write, so       *)
(* people go on deciding between the two; the queue itself never suspends. *)
(* A workflow never hands the guard a write (`do_submit`), and its audit   *)
(* record follows in the same step: both are coroutines that never         *)
(* suspend.                                                                *)
(***************************************************************************)
EXTENDS ApprovalService

CONSTANTS
  Submitters,    \* tasks that submit
  Tools          \* "cashback_submit" and "logistics_submit"

VARIABLES
  enabled,       \* ProductionSubmitGuard._enabled, fixed for a guard's life
  writing,       \* writing[w]: the write w awaits, None when it awaits none
  written,       \* history: the production writes that took effect
  audited        \* the production_submit events of the audit trail

submitVars == <<enabled, writing, written, audited>>
allVars    == <<store, endorsed, enabled, writing, written, audited>>

\* A write names the request that cleared it; its parameters come from the
\* caller, not from the request.
Write      == [approval : Ids, params : Subjects]
AuditEvent == [tool : Tools, approval : Ids, allowed : BOOLEAN]

ASSUME SubmitAssumption == None \notin Write

SubmitTypeOK ==
  /\ TypeOK
  /\ enabled \in BOOLEAN
  /\ writing \in [Submitters -> Write \cup {None}]
  /\ written \subseteq Write
  /\ audited \subseteq AuditEvent

SubmitInit ==
  /\ Init
  /\ enabled \in BOOLEAN
  /\ writing = [w \in Submitters |-> None]
  /\ written = {}
  /\ audited = {}

-----------------------------------------------------------------------------
\* ensure_approved raises ApprovalRequiredError in every other case; the
\* submission then ends without an effect.
EnsureApproved(i) == store[i] # None /\ store[i].status = "approved"

\* A real write needs the switch; a disabled guard answers with a fake one.
MayWrite(w) == enabled /\ writing[w] = None

\* Mutant: only a rejection stops the submission.
BeginWriteUnlessRejected(w, i, s) ==
  /\ store[i] # None /\ store[i].status # "rejected"
  /\ MayWrite(w)
  /\ writing' = [writing EXCEPT ![w] = [approval |-> i, params |-> s]]
  /\ UNCHANGED <<store, endorsed, enabled, written, audited>>

\* submit with a write: the gate is passed, the write is awaited.
BeginWrite(w, i, s) ==
  /\ EnsureApproved(i)
  /\ MayWrite(w)
  /\ writing' = [writing EXCEPT ![w] = [approval |-> i, params |-> s]]
  /\ UNCHANGED <<store, endorsed, enabled, written, audited>>

\* The write takes effect.  Whether the caller learns of it (an exception, a
\* cancellation after it) makes no difference to the guard.
EndWrite(w) ==
  /\ writing[w] # None
  /\ written' = written \cup {writing[w]}
  /\ writing' = [writing EXCEPT ![w] = None]
  /\ UNCHANGED <<store, endorsed, enabled, audited>>

\* It fails or is cancelled before it takes effect; nothing is compensated.
AbortWrite(w) ==
  /\ writing[w] # None
  /\ writing' = [writing EXCEPT ![w] = None]
  /\ UNCHANGED <<store, endorsed, enabled, written, audited>>

\* Mutant: the submission is recorded before it is gated.
WorkflowSubmitRecordedFirst(t, i) ==
  /\ ~enabled
  /\ audited' = audited \cup {[tool |-> t, approval |-> i, allowed |-> FALSE]}
  /\ UNCHANGED <<store, endorsed, enabled, writing, written>>

\* submit of a table workflow.  A disabled guard answers submitted = False,
\* which is recorded as an event that was not allowed; an enabled one raises
\* for want of a write, and nothing is recorded.
WorkflowSubmit(t, i) ==
  /\ EnsureApproved(i)
  /\ ~enabled
  /\ audited' = audited \cup {[tool |-> t, approval |-> i, allowed |-> FALSE]}
  /\ UNCHANGED <<store, endorsed, enabled, writing, written>>

SubmitStep ==
  \E i \in Ids :
    \/ \E t \in Tools : WorkflowSubmit(t, i)
    \/ \E w \in Submitters, s \in Subjects : BeginWrite(w, i, s)

WriteStep == \E w \in Submitters : EndWrite(w) \/ AbortWrite(w)

SubmitNext ==
  \/ Next /\ UNCHANGED submitVars
  \/ SubmitStep
  \/ WriteStep

SubmitSpec == SubmitInit /\ [][SubmitNext]_allVars
-----------------------------------------------------------------------------
\* Request i has the approvals its risk level asks for.
HasQuorum(i) ==
  /\ store[i] # None
  /\ store[i].status = "approved"
  /\ IF RiskOf[store[i].subject] = 5 THEN \E p, q \in endorsed[i] : p # q
                                     ELSE endorsed[i] # {}

(***************************************************************************)
(* Whatever is written to production, or about to be, was cleared by a     *)
(* request that has its quorum now -- not only when the gate looked at it: *)
(* two different people for the highest risk.  (submit: "deterministic     *)
(* gate", with the write awaited after it)                                 *)
(***************************************************************************)
WriteNeedsQuorum ==
  /\ \A x \in written : HasQuorum(x.approval)
  /\ \A w \in Submitters : writing[w] # None => HasQuorum(writing[w].approval)

(***************************************************************************)
(* The audit trail names only submissions of requests that have their      *)
(* quorum: one that is refused at the gate leaves no submit event.         *)
(***************************************************************************)
AuditedSubmitApproved == \A a \in audited : HasQuorum(a.approval)
=============================================================================
