-------------------------- MODULE Workflows_proofs ---------------------------
(***************************************************************************)
(* Proofs about Workflows, for any jobs, policy, routing and files.        *)
(*                                                                         *)
(* A step is looked at three times: as a step of the gateway's calls       *)
(* (CallStep), of the RAG client (its own next-state relation) and of the  *)
(* job.  Each call keeps CallRecorded whatever the job does, provided that *)
(* no call is made twice (FreshCalls); what the pages and the answers rest *)
(* on follows the place where the job is (PageInv, RagInv).                *)
(***************************************************************************)
EXTENDS Workflows, Tables_proofs

-----------------------------------------------------------------------------
\* Where the client is tells whether the process may be alive and whether the
\* block of a `with` has been entered.
ClientInv ==
  /\ client \in Client
  /\ subprocess \in BOOLEAN
  /\ client.at \in {"idle", "spawn"} => ~subprocess
  /\ client.at \in {"idle", "spawn", "open", "handshake"} => ~client.inside
  /\ ClientReleased

\* The client is in order at the start.
LEMMA ClientInitInv == ClientInit => ClientInv
<1>. SUFFICES ASSUME ClientInit PROVE ClientInv
  OBVIOUS
<1>1. client \in Client /\ client.at = "idle" /\ ~client.inside
  BY DEF ClientInit, Client, Places
<1>2. subprocess \in BOOLEAN /\ ~subprocess
  BY DEF ClientInit
<1>. QED
  BY <1>1, <1>2 DEF ClientInv, ClientReleased

\* One case per await of the client's life.
LEMMA ClientStepInv ==
  ASSUME ClientInv,
         [ClientStep \/ \E by \in {"with", "load"} : NewClient(by)]_clientVars
  PROVE  ClientInv'
<1>. USE DEF ClientInv, Client, Places, ClientReleased
<1>1. CASE Spawn
  BY <1>1 DEF Spawn, MovesTo, Abandoned
<1>2. CASE OpenSession
  BY <1>2 DEF OpenSession, MovesTo, Abandoned
<1>3. CASE Handshake
  BY <1>3 DEF Handshake, MovesTo, Abandoned
<1>4. CASE UseSession
  BY <1>4 DEF UseSession
<1>5. CASE CloseSession
  BY <1>5 DEF CloseSession, MovesTo, TeardownRaises
<1>6. CASE CloseProcess
  BY <1>6 DEF CloseProcess, MovesTo, TeardownRaises
<1>7. ASSUME NEW by \in {"with", "load"}, NewClient(by)
      PROVE  ClientInv'
  BY <1>7 DEF NewClient
<1>8. CASE UNCHANGED clientVars
  BY <1>8 DEF clientVars
<1>. QED
  BY <1>1, <1>2, <1>3, <1>4, <1>5, <1>6, <1>7, <1>8 DEF ClientStep

\* When a driver is done with its client the subprocess is gone, but for a
\* teardown that raised or an __aenter__ that failed; then the driver returns
\* an error or raises.
THEOREM ReleaseCorrect == ClientSpec => []ClientReleased
<1>1. ClientInv => ClientReleased
  BY DEF ClientInv
<1>. QED
  BY <1>1, ClientInitInv, ClientStepInv, PTL DEF ClientSpec

-----------------------------------------------------------------------------
CallStatuses == {"success", "error", "pending"}

Model == [ at : {"idle", "asked", "metering", "answered", "failed"},
           severe : BOOLEAN, actions : ModelPlans, metered : BOOLEAN,
           billed : {0, 1} ]

\* What of the job's own state is typed.
Shape ==
  /\ job \in Jobs
  /\ model \in Model
  /\ model.at = "metering" => model.metered /\ model.billed = 0
  /\ model.at = "answered" /\ model.metered => model.billed = 1
  /\ plan \in Seq(ActionNames) /\ Len(plan) <= Len(StepCalls)
  /\ steps \in Seq(BOOLEAN)

\* Which jobs come to which place.
KindAt ==
  /\ pc \in {"gather", "paging"} => job.kind = "alert"
  /\ pc = "lookup" => job.kind = "rag_qa"
  /\ pc = "parsing" => job.kind \in {"cashback", "logistics"}
  /\ pc = "loading" => job.kind = "load"
  /\ pc \in {"step", "step_wait"} => job.kind = "test"

Idle(s) == calls[s].at = "idle"

\* The calls that are still to be made.
FreshCalls ==
  /\ pc = "start" => \A s \in Slots : Idle(s)
  /\ job.kind = "alert" /\ pc \in {"gather", "model", "model_wait"} => Idle("lark")
  /\ job.kind = "test" /\ pc \in {"model", "model_wait", "step"} =>
       \A k \in DOMAIN StepCalls : k > Len(steps) => Idle(StepCalls[k])
  /\ pc = "step_wait" =>
       /\ Len(steps) < Len(plan)
       /\ \A k \in DOMAIN StepCalls : k > Len(steps) + 1 => Idle(StepCalls[k])

\* Begin sends each kind of job its way; no other step crosses over.
LEMMA KindAtStep ==
  ASSUME job \in Jobs, KindAt, [Next]_vars
  PROVE  KindAt'
<1>. USE JobsAssumption DEF KindAt, Kinds
<1>1. CASE UNCHANGED <<job, pc>>
  BY <1>1
<1>2. CASE Begin
  BY <1>2 DEF Begin, Goes
<1>3. CASE JobStep /\ ~Begin
  <2>1. CASE CallModel
    BY <2>1 DEF CallModel, Goes, Awaited, AfterModelRaises, jobVars
  <2>2. CASE ModelAnswers
    BY <2>2 DEF ModelAnswers, Goes, Awaited, AfterModelRaises, jobVars
  <2>3. CASE ModelFails
    BY <2>3 DEF ModelFails, Goes, Awaited, AfterModelRaises, jobVars
  <2>4. CASE Meter
    BY <2>4 DEF Meter, Goes, Awaited, AfterModelRaises, jobVars
  <2>5. CASE Gather
    BY <2>5 DEF Gather, Goes, Awaited, AfterModelRaises, jobVars
  <2>6. CASE Page
    BY <2>6 DEF Page, Goes, Awaited, AfterModelRaises, jobVars
  <2>7. CASE Paged
    BY <2>7 DEF Paged, Goes, Awaited, AfterModelRaises, jobVars
  <2>8. CASE AnswerOrRefuse
    BY <2>8 DEF AnswerOrRefuse, Goes, Awaited
  <2>9. CASE RagAnswered
    BY <2>9 DEF RagAnswered, Goes, Awaited, AfterModelRaises, jobVars
  <2>10. CASE PlanActions
    BY <2>10 DEF PlanActions, Goes, Awaited, AfterModelRaises, jobVars
  <2>11. CASE NextStep
    BY <2>11 DEF NextStep, Goes, Awaited, AfterModelRaises, jobVars
  <2>12. CASE StepEnds
    BY <2>12 DEF StepEnds, Goes, Awaited, AfterModelRaises, jobVars
  <2>13. CASE Parsed
    BY <2>13 DEF Parsed, Goes, Awaited, AfterModelRaises, jobVars
  <2>14. CASE Narrated
    BY <2>14 DEF Narrated, Goes, Awaited, AfterModelRaises, jobVars
  <2>15. CASE EmitAndReturn
    BY <2>15 DEF EmitAndReturn, Goes, Awaited, AfterModelRaises, jobVars
  <2>16. CASE Load
    BY <2>16 DEF Load, Goes, Awaited, AfterModelRaises, jobVars
  <2>. QED
    BY <1>3, <2>1, <2>2, <2>3, <2>4, <2>5, <2>6, <2>7, <2>8, <2>9, <2>10, <2>11, <2>12, <2>13, <2>14, <2>15, <2>16 DEF JobStep
<1>4. CASE Handler
  BY <1>1, <1>4 DEF Handler, Unavailable, QueryEs, QueryDb, ReadBackend, AskRag, RagAnswers, SendPage,
     RunTestAction, ParseFile, jobVars
<1>5. ASSUME NEW s \in Slots, Gate(s) \/ Audit(s)
      PROVE  UNCHANGED <<job, pc>>
  BY <1>5 DEF Gate, Audit
<1>. QED
  BY <1>1, <1>2, <1>3, <1>4, <1>5 DEF Next, vars, jobVars

-----------------------------------------------------------------------------
\* What a step may do to the calls: make new ones, end a handler, pass the
\* gate, write the audit record.
AskFresh == \E S \in SUBSET Slots : (\A s \in S : Idle(s)) /\ Ask(S)

HandlerEnds(s) ==
  /\ calls[s].at = "running"
  /\ Returns(s) \/ HandlerRaises(s)
  /\ UNCHANGED audited

CallStep ==
  \/ UNCHANGED <<calls, records, audited>>
  \/ AskFresh /\ UNCHANGED <<records, audited>>
  \/ \E s \in Slots : HandlerEnds(s) \/ Gate(s) \/ Audit(s)

\* The step under way in a test run is one of the calls.
LEMMA CurrentIsSlot ==
  ASSUME Shape, FreshCalls, pc = "step_wait" \/ (pc = "step" /\ Len(steps) < Len(plan))
  PROVE  Len(steps) + 1 \in DOMAIN StepCalls /\ Current \in Slots
<1>1. Len(steps) \in Nat
  BY DEF Shape
<1>2. Len(steps) + 1 \in 1 .. 3
  BY <1>1 DEF Shape, FreshCalls, StepCalls
<1>3. DOMAIN StepCalls = 1 .. 3
  BY DEF StepCalls
<1>4. \A k \in 1 .. 3 : StepCalls[k] \in Slots
  BY DEF StepCalls, Slots
<1>. QED
  BY <1>2, <1>3, <1>4 DEF Current

\* The workflow makes calls, and only such as were not made before.
LEMMA JobStepCalls ==
  ASSUME Shape, KindAt, FreshCalls, JobStep
  PROVE  CallStep
<1>. SUFFICES UNCHANGED <<records, audited>> /\ (UNCHANGED calls \/ AskFresh)
  BY DEF CallStep
<1>1. CASE Begin
  <2>1. \A s \in Slots : Idle(s)
    BY <1>1 DEF Begin, FreshCalls
  <2>2. Evidence \subseteq Slots /\ {"rag"} \subseteq Slots /\ {"parse"} \subseteq Slots
    BY DEF Slots, Evidence
  <2>3. job.kind \in Kinds
    BY JobsAssumption DEF Shape
  <2>4. UNCHANGED calls \/ Ask(Evidence) \/ Ask({"rag"}) \/ Ask({"parse"})
    BY <1>1, <2>3 DEF Begin, Kinds
  <2>. QED
    BY <1>1, <2>1, <2>2, <2>4 DEF Begin, AskFresh
<1>2. CASE Page
  <2>1. Idle("lark") /\ "lark" \in Slots
    BY <1>2 DEF Page, FreshCalls, Slots
  <2>2. UNCHANGED calls \/ Ask({"lark"})
    BY <1>2 DEF Page
  <2>. QED
    BY <1>2, <2>1, <2>2 DEF Page, AskFresh
<1>3. CASE NextStep
  <2>1. CASE Len(steps) < Len(plan)
    <3>1. Current \in Slots /\ Len(steps) + 1 \in DOMAIN StepCalls
      BY <1>3, <2>1, CurrentIsSlot DEF NextStep
    <3>2. Len(steps) + 1 > Len(steps)
      BY DEF Shape
    <3>3. Idle(Current)
      BY <1>3, <3>1, <3>2 DEF NextStep, FreshCalls, KindAt, Current
    <3>4. Ask({Current})
      BY <1>3, <2>1 DEF NextStep
    <3>. QED
      BY <1>3, <3>1, <3>3, <3>4 DEF NextStep, AskFresh
  <2>2. CASE ~(Len(steps) < Len(plan))
    BY <1>3, <2>2 DEF NextStep
  <2>. QED
    BY <2>1, <2>2
<1>4. CASE JobStep /\ ~Begin /\ ~Page /\ ~NextStep
  BY <1>4 DEF JobStep, CallModel, ModelAnswers, ModelFails, Meter, Gather,
     Paged, AnswerOrRefuse, RagAnswered, PlanActions, StepEnds, Parsed,
     Narrated, EmitAndReturn, Load, jobVars
<1>. QED
  BY <1>1, <1>2, <1>3, <1>4

\* The handler of a tool whose backend is not wired ends its own call, and
\* cannot be the handler of the RAG server's or a table's tool.
LEMMA UnavailableCall ==
  ASSUME job \in Jobs, NEW s \in Slots, Unavailable(s)
  PROVE  /\ HandlerEnds(s)
         /\ s \notin {"rag", "parse"}
         /\ UNCHANGED <<job, pc, model, plan, steps, pages, made, report, client, subprocess>>
<1>1. HandlerEnds(s)
  BY DEF Unavailable, HandlerEnds
<1>2. ToolOf(s) \in BackendGated
  BY JobsAssumption DEF Unavailable, Stubbed
<1>3. s \notin {"rag", "parse"}
  BY <1>2 DEF ToolOf, BackendGated
<1>. QED
  BY <1>1, <1>3 DEF Unavailable, clientVars

\* A handler ends its own call.
LEMMA HandlerCalls ==
  ASSUME Shape, FreshCalls, Handler
  PROVE  CallStep
<1>1. CASE QueryEs
  BY <1>1 DEF QueryEs, ReadBackend, CallStep, HandlerEnds, Slots, Evidence
<1>2. CASE QueryDb
  BY <1>2 DEF QueryDb, ReadBackend, CallStep, HandlerEnds, Slots, Evidence
<1>3. CASE AskRag
  BY <1>3 DEF AskRag, jobVars, CallStep
<1>4. CASE RagAnswers
  BY <1>4 DEF RagAnswers, CallStep, HandlerEnds, Slots, Evidence
<1>5. CASE SendPage
  BY <1>5 DEF SendPage, CallStep, HandlerEnds, Slots
<1>6. CASE RunTestAction
  <2>1. Current \in Slots
    BY <1>6, CurrentIsSlot DEF RunTestAction
  <2>. QED
    BY <1>6, <2>1 DEF RunTestAction, CallStep, HandlerEnds
<1>7. CASE ParseFile
  BY <1>7 DEF ParseFile, CallStep, HandlerEnds, Slots
<1>8. ASSUME NEW s \in Slots, Unavailable(s)
      PROVE  CallStep
  BY <1>8 DEF Unavailable, CallStep, HandlerEnds
<1>. QED
  BY <1>1, <1>2, <1>3, <1>4, <1>5, <1>6, <1>7, <1>8 DEF Handler

\* Every step is a step of the calls.
LEMMA NextCalls ==
  ASSUME Shape, KindAt, FreshCalls, [Next]_vars
  PROVE  CallStep
<1>1. CASE UNCHANGED jobVars
  BY <1>1 DEF jobVars, CallStep
<1>2. ASSUME NEW s \in Slots, Gate(s) \/ Audit(s)
      PROVE  CallStep
  BY <1>2 DEF CallStep
<1>. QED
  BY <1>1, <1>2, JobStepCalls, HandlerCalls DEF Next, vars

-----------------------------------------------------------------------------
\* What the gateway's list and the audit trail hold of a call under way.
CallRecorded(s) ==
  LET call == calls[s]
  IN  /\ call.at \in {"idle", "gate", "running"} =>
           call.status = "none" /\ records[s] = << >> /\ audited[s] = << >>
      /\ call.at = "audit" =>
           /\ audited[s] = << >> /\ call.status # "none"
           /\ \/ records[s] = << call.status >>
              \/ records[s] = <<"success", "error">> /\ call.status = "error" /\ ~call.within
           /\ call.within => call.status = "success"
      /\ call.at = "done" =>
           /\ audited[s] = << call.status >>
           /\ \/ records[s] = << call.status >>
              \/ records[s] = <<"success", "error">> /\ call.status = "error"
      /\ call.at = "raised" =>
           /\ audited[s] = << >>
           /\ records[s] = << call.status >> \/ records[s] = <<"success", "error">>

\* The types and the records of the calls.
CallsInv ==
  /\ calls \in [Slots -> Call]
  /\ records \in [Slots -> Seq(CallStatuses)]
  /\ audited \in [Slots -> Seq(CallStatuses)]
  /\ \A s \in Slots : CallRecorded(s)

\* What the list holds when the audit write of a success failed.
LEMMA SuccessThenError == Append(<<"success">>, "error") = <<"success", "error">>
<1>. DEFINE t == Append(<<"success">>, "error")
            u == <<"success", "error">>
<1>1. t \in Seq(CallStatuses) /\ u \in Seq(CallStatuses) /\ Len(t) = 2 /\ Len(u) = 2
  <2>1. "success" \in CallStatuses /\ "error" \in CallStatuses
    BY DEF CallStatuses
  <2>2. <<"success">> \in Seq(CallStatuses) /\ u \in Seq(CallStatuses)
    BY <2>1
  <2>3. t \in Seq(CallStatuses) /\ Len(t) = Len(<<"success">>) + 1
    BY <2>1, <2>2
  <2>. QED
    BY <2>2, <2>3
<1>2. t[1] = u[1] /\ t[2] = u[2]
  OBVIOUS
<1>3. \A i \in 1 .. 2 : t[i] = u[i]
  BY <1>2
<1>. HIDE DEF t, u
<1>4. t = u
  BY <1>1, <1>3, SeqEqual
<1>. QED
  BY <1>4 DEF t, u

\* _finish adds one record to a call that has none, or an error to a success.
LEMMA FinishesCalls ==
  ASSUME CallsInv, NEW s \in Slots, NEW status \in CallStatuses, NEW within \in BOOLEAN,
         Finishes(s, status, within), UNCHANGED audited,
         audited[s] = << >>, within => status = "success",
         \/ records[s] = << >>
         \/ records[s] = <<"success">> /\ status = "error" /\ ~within
  PROVE  CallsInv'
<1>1. calls' \in [Slots -> Call] /\ records' \in [Slots -> Seq(CallStatuses)]
  BY DEF CallsInv, Finishes, Call, CallStatuses
<1>2. \A r \in Slots \ {s} : CallRecorded(r)'
  BY DEF CallsInv, Finishes, CallRecorded
<1>3. calls'[s] = [at |-> "audit", status |-> status, within |-> within]
      /\ records'[s] = Append(records[s], status)
  BY DEF CallsInv, Finishes
<1>4. Append(records[s], status) = << status >>
      \/ (Append(records[s], status) = <<"success", "error">> /\ status = "error" /\ ~within)
  <2>1. CASE records[s] = << >>
    <3>1. Append(<< >>, status) = << status >>
      OBVIOUS
    <3>. QED
      BY <2>1, <3>1
  <2>2. CASE records[s] = <<"success">> /\ status = "error" /\ ~within
    <3>1. Append(<<"success">>, "error") = <<"success", "error">>
      BY SuccessThenError
    <3>. QED
      BY <2>2, <3>1
  <2>. QED
    BY <2>1, <2>2
<1>5. CallRecorded(s)'
  BY <1>3, <1>4 DEF CallRecorded, CallStatuses
<1>. QED
  BY <1>1, <1>2, <1>5 DEF CallsInv

\* The records of all calls stay right.
LEMMA CallsStep ==
  ASSUME CallsInv, CallStep
  PROVE  CallsInv'
<1>1. CASE UNCHANGED <<calls, records, audited>>
  BY <1>1 DEF CallsInv, CallRecorded
<1>2. CASE AskFresh /\ UNCHANGED <<records, audited>>
  <2>1. PICK S \in SUBSET Slots : (\A s \in S : Idle(s)) /\ Ask(S)
    BY <1>2 DEF AskFresh
  <2>2. calls' \in [Slots -> Call]
    BY <2>1 DEF CallsInv, Ask, IdleCall, Call
  <2>3. ASSUME NEW s \in Slots PROVE CallRecorded(s)'
    BY <1>2, <2>1 DEF CallsInv, Ask, IdleCall, Idle, CallRecorded
  <2>. QED
    BY <1>2, <2>2, <2>3 DEF CallsInv
<1>3. ASSUME NEW s \in Slots, HandlerEnds(s)
      PROVE  CallsInv'
  <2>1. records[s] = << >> /\ audited[s] = << >>
    BY <1>3 DEF HandlerEnds, CallsInv, CallRecorded
  <2>. QED
    BY <1>3, <2>1, FinishesCalls DEF HandlerEnds, Returns, HandlerRaises, CallStatuses
<1>4. ASSUME NEW s \in Slots, Gate(s)
      PROVE  CallsInv'
  <2>1. records[s] = << >> /\ audited[s] = << >> /\ UNCHANGED audited
    BY <1>4 DEF Gate, CallsInv, CallRecorded
  <2>2. CASE Finishes(s, "error", FALSE) \/ Finishes(s, "pending", FALSE)
    BY <2>1, <2>2, FinishesCalls DEF CallStatuses
  <2>3. CASE calls' = [calls EXCEPT ![s].at = "running"] /\ UNCHANGED records
    BY <1>4, <2>1, <2>3 DEF Gate, CallsInv, CallRecorded, Call
  <2>. QED
    BY <1>4, <2>2, <2>3 DEF Gate
<1>5. ASSUME NEW s \in Slots, Audit(s)
      PROVE  CallsInv'
  <2>1. CallRecorded(s) /\ calls[s].at = "audit" /\ calls[s].status \in CallStatuses
    BY <1>5 DEF Audit, CallsInv, CallRecorded, Call, CallStatuses
  <2>2. CASE /\ audited' = [audited EXCEPT ![s] = Append(@, calls[s].status)]
             /\ calls' = [calls EXCEPT ![s].at = "done"]
             /\ UNCHANGED records
    <3>0. Append(audited[s], calls[s].status) \in Seq(CallStatuses)
      BY <2>1 DEF CallsInv
    <3>1. calls' \in [Slots -> Call] /\ audited' \in [Slots -> Seq(CallStatuses)]
      <4>1. calls' \in [Slots -> Call]
        BY <2>2 DEF CallsInv, Call
      <4>2. audited' \in [Slots -> Seq(CallStatuses)]
        BY <2>2, <3>0 DEF CallsInv
      <4>. QED
        BY <4>1, <4>2
    <3>2. audited'[s] = << calls[s].status >>
      BY <2>1, <2>2 DEF CallsInv, CallRecorded
    <3>3. ASSUME NEW r \in Slots PROVE CallRecorded(r)'
      BY <2>1, <2>2, <3>2 DEF CallsInv, CallRecorded, Call
    <3>. QED
      BY <2>2, <3>1, <3>3 DEF CallsInv
  <2>3. CASE calls[s].within /\ Finishes(s, "error", FALSE) /\ UNCHANGED audited
    <3>1. records[s] = <<"success">> /\ audited[s] = << >>
      BY <2>1, <2>3 DEF CallRecorded
    <3>2. FALSE \in BOOLEAN /\ "error" \in CallStatuses
      BY DEF CallStatuses
    <3>. QED
      BY <2>3, <3>1, <3>2, FinishesCalls
  <2>4. CASE /\ ~calls[s].within
             /\ calls' = [calls EXCEPT ![s].at = "raised"]
             /\ UNCHANGED <<records, audited>>
    <3>1. calls' \in [Slots -> Call]
      BY <2>4 DEF CallsInv, Call
    <3>2. records[s] # << >>
      <4>1. << calls[s].status >> # << >> /\ <<"success", "error">> # << >>
        OBVIOUS
      <4>. QED
        BY <2>1, <4>1 DEF CallRecorded
    <3>3. CallRecorded(s)'
      BY <2>1, <2>4, <3>2 DEF CallsInv, CallRecorded
    <3>4. \A r \in Slots \ {s} : CallRecorded(r)'
      BY <2>4 DEF CallsInv, CallRecorded
    <3>. QED
      BY <2>4, <3>1, <3>3, <3>4 DEF CallsInv
  <2>. QED
    BY <1>5, <2>2, <2>3, <2>4 DEF Audit
<1>. QED
  BY <1>1, <1>2, <1>3, <1>4, <1>5 DEF CallStep

\* Lists written out.
LEMMA ShortLists ==
  ASSUME NEW S, NEW a \in S, NEW b \in S, NEW c \in S
  PROVE  /\ << >> \in Seq(S) /\ Len(<< >>) <= 3
         /\ <<a>> \in Seq(S) /\ Len(<<a>>) <= 3
         /\ <<a, b, c>> \in Seq(S) /\ Len(<<a, b, c>>) <= 3
  OBVIOUS

\* A plan that was parsed is not longer than the answer it was read from.
LEMMA PlanParsed ==
  ASSUME NEW actions \in ModelPlans
  PROVE  ParsePlan(actions) \in Seq(ActionNames) /\ Len(ParsePlan(actions)) <= 3
<1>1. actions \in Seq(ActionNames) /\ Len(actions) <= 3
  <2>2. "" \in ActionNames /\ "recharge" \in ActionNames /\ "kyc" \in ActionNames
    BY DEF ActionNames, KnownActions
  <2>3. actions = << >> \/ actions = <<"kyc">> \/ actions = <<"", "recharge", "kyc">>
    BY DEF ModelPlans
  <2>. QED
    BY <2>2, <2>3, ShortLists, Zenon
<1>2. Keep(actions, KnownActions) \in Seq(ActionNames)
  BY <1>1, KeepPlaces
<1>3. Len(Keep(actions, KnownActions)) <= Len(actions)
  BY <1>1, KeepLength
<1>4. Len(Keep(actions, KnownActions)) \in Nat /\ Len(actions) \in Nat
  BY <1>1, <1>2
<1>. QED
  BY <1>1, <1>2, <1>3, <1>4 DEF ParsePlan

\* The job, the model call, the plan and the steps stay well formed.
LEMMA ShapeStep ==
  ASSUME Shape, [Next]_vars
  PROVE  Shape'
<1>. USE DEF Shape
<1>1. CASE Begin
  <2>1. UNCHANGED <<job, model, steps>> /\ (UNCHANGED plan \/ plan' = job.actions)
    BY <1>1, JobsAssumption DEF Begin, Kinds
  <2>2. UNCHANGED plan \/ (plan' = job.actions /\ job.kind = "test" /\ job.actions # None)
    BY <1>1, JobsAssumption DEF Begin, Kinds
  <2>. QED
    BY <2>1, <2>2, JobsAssumption
<1>2. CASE CallModel
  BY <1>2 DEF CallModel, Model
<1>3. CASE ModelAnswers
  BY <1>3 DEF ModelAnswers, Model
<1>4. CASE ModelFails
  BY <1>4 DEF ModelFails, Model
<1>5. CASE Meter
  <2>1. CASE model' = [model EXCEPT !.at = "answered", !.billed = @ + 1]
    <3>1. model.billed + 1 = 1 /\ model.metered
      BY <1>5 DEF Meter
    <3>2. model' = [model EXCEPT !.at = "answered", !.billed = 1]
      BY <2>1, <3>1
    <3>. QED
      BY <1>5, <3>1, <3>2 DEF Meter, Model
  <2>2. CASE model' = [model EXCEPT !.at = "failed"]
    BY <1>5, <2>2 DEF Meter, Model
  <2>. QED
    BY <1>5, <2>1, <2>2 DEF Meter
<1>6. CASE PlanActions
  <2>1. Pipeline \in Seq(ActionNames) /\ Len(Pipeline) <= 3 /\ Len(StepCalls) = 3
    <3>1. "create_account" \in ActionNames /\ "recharge" \in ActionNames /\ "kyc" \in ActionNames
      BY DEF ActionNames, KnownActions
    <3>2. Len(StepCalls) = 3
      BY DEF StepCalls
    <3>. QED
      BY <3>1, <3>2, ShortLists DEF Pipeline
  <2>2. model.actions \in ModelPlans
    BY DEF Model
  <2>3. ParsePlan(model.actions) \in Seq(ActionNames) /\ Len(ParsePlan(model.actions)) <= 3
    BY <2>2, PlanParsed
  <2>4. plan' = Pipeline \/ plan' = ParsePlan(model.actions)
    BY <1>6 DEF PlanActions
  <2>5. UNCHANGED <<job, model, steps>>
    BY <1>6 DEF PlanActions
  <2>6. plan' \in Seq(ActionNames) /\ Len(plan') <= 3
    BY <2>1, <2>3, <2>4
  <2>. QED
    BY <2>1, <2>5, <2>6
<1>7. CASE StepEnds
  <2>1. \A b \in BOOLEAN : Append(steps, b) \in Seq(BOOLEAN)
    OBVIOUS
  <2>2. Succeeded(Current) \in BOOLEAN
    BY DEF Succeeded
  <2>3. steps' \in Seq(BOOLEAN)
    BY <1>7, <2>1, <2>2 DEF StepEnds
  <2>. QED
    BY <1>7, <2>3 DEF StepEnds
<1>8. CASE Gather \/ Page \/ Paged \/ AnswerOrRefuse \/ RagAnswered \/ NextStep
           \/ Parsed \/ Narrated \/ EmitAndReturn \/ Load
  BY <1>8 DEF Gather, Page, Paged, AnswerOrRefuse, RagAnswered, NextStep, Parsed,
     Narrated, EmitAndReturn, Load, jobVars
<1>9. CASE Handler
  BY <1>9 DEF Handler, Unavailable, QueryEs, QueryDb, ReadBackend, AskRag, RagAnswers, SendPage,
     RunTestAction, ParseFile, jobVars
<1>10. ASSUME NEW s \in Slots, Gate(s) \/ Audit(s)
       PROVE  Shape'
  BY <1>10 DEF Gate, Audit
<1>11. CASE UNCHANGED jobVars
  BY <1>11 DEF jobVars
<1>. QED
  BY <1>1, <1>2, <1>3, <1>4, <1>5, <1>6, <1>7, <1>8, <1>9, <1>10, <1>11
  DEF Next, JobStep, vars

\* A handler makes no call.
LEMMA HandlerIdle ==
  ASSUME Shape, FreshCalls, CallsInv, Handler
  PROVE  \A r \in Slots : Idle(r) => Idle(r)'
<1>1. UNCHANGED calls \/ \E s \in Slots : HandlerEnds(s)
  <2>1. CASE RunTestAction
    BY <2>1, CurrentIsSlot DEF RunTestAction, HandlerEnds
  <2>2. CASE ~RunTestAction
    BY <2>2 DEF Handler, Unavailable, QueryEs, QueryDb, ReadBackend, AskRag, RagAnswers, SendPage,
       ParseFile, HandlerEnds, Slots, Evidence, jobVars
  <2>. QED
    BY <2>1, <2>2
<1>. QED
  BY <1>1 DEF HandlerEnds, Returns, HandlerRaises, Finishes, Idle, CallsInv

\* What a step that is not one of the workflow's own leaves alone.
LEMMA OtherSteps ==
  ASSUME Shape, FreshCalls, CallsInv, [Next]_vars, ~JobStep
  PROVE  /\ UNCHANGED <<job, pc, model, plan, steps, report>>
         /\ \A s \in Slots : Idle(s) => Idle(s)'
<1>1. CASE Handler
  <2>1. UNCHANGED <<job, pc, model, plan, steps, report>>
    BY <1>1 DEF Handler, Unavailable, QueryEs, QueryDb, ReadBackend, AskRag, RagAnswers, SendPage,
       RunTestAction, ParseFile, jobVars
  <2>2. \A s \in Slots : Idle(s) => Idle(s)'
    BY <1>1, HandlerIdle
  <2>. QED
    BY <2>1, <2>2
<1>2. ASSUME NEW s \in Slots, Gate(s) \/ Audit(s)
      PROVE  /\ UNCHANGED <<job, pc, model, plan, steps, report>>
             /\ \A r \in Slots : Idle(r) => Idle(r)'
  BY <1>2 DEF Gate, Audit, Finishes, Idle, CallsInv
<1>3. CASE UNCHANGED jobVars
  BY <1>3 DEF jobVars, Idle
<1>. QED
  BY <1>1, <1>2, <1>3 DEF Next, vars

\* A call is made at most once.
LEMMA FreshStep ==
  ASSUME Shape, KindAt, FreshCalls, CallsInv, [Next]_vars
  PROVE  FreshCalls'
<1>1. CASE ~JobStep
  <2>1. /\ UNCHANGED <<job, pc, model, plan, steps, report>>
        /\ \A s \in Slots : Idle(s) => Idle(s)'
    BY <1>1, OtherSteps
  <2>2. "lark" \in Slots /\ \A k \in DOMAIN StepCalls : StepCalls[k] \in Slots
    BY DEF Slots, StepCalls
  <2>. QED
    BY <2>1, <2>2 DEF FreshCalls
<1>2. CASE JobStep
  <2>1. CASE Begin
    <3>1. \A s \in Slots : Idle(s)
      BY <2>1 DEF Begin, FreshCalls
    <3>2. "lark" \in Slots \ Evidence /\ \A k \in DOMAIN StepCalls : StepCalls[k] \in Slots
      BY DEF Slots, Evidence, StepCalls
    <3>3. job.kind \in Kinds
      BY JobsAssumption DEF Shape
    <3>4. CASE job.kind = "alert"
      BY <2>1, <3>1, <3>2, <3>4 DEF Begin, Ask, Idle, FreshCalls, Goes
    <3>5. CASE job.kind = "test"
      BY <2>1, <3>1, <3>2, <3>5 DEF Begin, Idle, FreshCalls, Goes
    <3>6. CASE job.kind \notin {"alert", "test"}
      BY <2>1, <3>3, <3>6 DEF Begin, Kinds, FreshCalls, Goes
    <3>. QED
      BY <3>4, <3>5, <3>6
  <2>2. CASE CallModel
    BY <2>2 DEF CallModel, FreshCalls, KindAt, Idle, Goes, Awaited, AfterModelRaises, jobVars
  <2>3. CASE ModelAnswers
    BY <2>3 DEF ModelAnswers, FreshCalls, KindAt, Idle, Goes, Awaited, AfterModelRaises, jobVars
  <2>4. CASE ModelFails
    BY <2>4 DEF ModelFails, FreshCalls, KindAt, Idle, Goes, Awaited, AfterModelRaises, jobVars
  <2>5. CASE Meter
    BY <2>5 DEF Meter, FreshCalls, KindAt, Idle, Goes, Awaited, AfterModelRaises, jobVars
  <2>6. CASE Gather
    BY <2>6 DEF Gather, FreshCalls, KindAt, Idle, Goes, Awaited, AfterModelRaises, jobVars
  <2>7. CASE Page
    BY <2>7 DEF Page, FreshCalls, KindAt, Idle, Goes, Awaited, AfterModelRaises, jobVars
  <2>8. CASE Paged
    BY <2>8 DEF Paged, FreshCalls, KindAt, Idle, Goes, Awaited, AfterModelRaises, jobVars
  <2>9. CASE AnswerOrRefuse
    BY <2>9 DEF AnswerOrRefuse, FreshCalls, KindAt, Idle, Goes, Awaited, AfterModelRaises, jobVars
  <2>10. CASE RagAnswered
    BY <2>10 DEF RagAnswered, FreshCalls, KindAt, Idle, Goes, Awaited, AfterModelRaises, jobVars
  <2>11. CASE PlanActions
    BY <2>11 DEF PlanActions, FreshCalls, KindAt, Idle, Goes, Awaited, AfterModelRaises, jobVars
  <2>12. CASE NextStep
    <3>1. CASE Len(steps) < Len(plan)
      <4>1. job.kind = "test" /\ pc = "step" /\ pc' = "step_wait"
            /\ UNCHANGED <<job, steps, plan>> /\ Ask({Current})
        BY <2>12, <3>1 DEF NextStep, KindAt, Goes
      <4>2. \A k \in DOMAIN StepCalls : k > Len(steps) + 1 => StepCalls[k] \in Slots \ {Current}
        BY <2>12, <3>1, CurrentIsSlot DEF NextStep, Current, StepCalls, Slots, Shape
      <4>3. \A k \in DOMAIN StepCalls : k > Len(steps) + 1 => Idle(StepCalls[k])
        BY <4>1 DEF FreshCalls, Shape, StepCalls
      <4>4. \A s \in Slots \ {Current} : Idle(s) => Idle(s)'
        BY <4>1 DEF Ask, Idle
      <4>5. \A k \in DOMAIN StepCalls : k > Len(steps) + 1 => Idle(StepCalls[k])'
        BY <4>2, <4>3, <4>4
      <4>. QED
        BY <3>1, <4>1, <4>5 DEF FreshCalls, Idle
    <3>2. CASE ~(Len(steps) < Len(plan))
      BY <2>12, <3>2 DEF NextStep, FreshCalls, Goes, KindAt
    <3>. QED
      BY <3>1, <3>2
  <2>13. CASE StepEnds
    BY <2>13 DEF StepEnds, FreshCalls, KindAt, Idle, Goes, Awaited, AfterModelRaises, jobVars
  <2>14. CASE Parsed
    BY <2>14 DEF Parsed, FreshCalls, KindAt, Idle, Goes, Awaited, AfterModelRaises, jobVars
  <2>15. CASE Narrated
    BY <2>15 DEF Narrated, FreshCalls, KindAt, Idle, Goes, Awaited, AfterModelRaises, jobVars
  <2>16. CASE EmitAndReturn
    BY <2>16 DEF EmitAndReturn, FreshCalls, KindAt, Idle, Goes, Awaited, AfterModelRaises, jobVars
  <2>17. CASE Load
    BY <2>17 DEF Load, FreshCalls, KindAt, Idle, Goes, Awaited, AfterModelRaises, jobVars
  <2>. QED
    BY <1>2, <2>1, <2>2, <2>3, <2>4, <2>5, <2>6, <2>7, <2>8, <2>9, <2>10, <2>11, <2>12, <2>13, <2>14, <2>15, <2>16, <2>17 DEF JobStep
<1>. QED
  BY <1>1, <1>2

-----------------------------------------------------------------------------
\* Whether the alert calls for a page.
Wanted == (job.force \/ model.severe) /\ job.chat

\* How far the page is, and what the job knows of it.
PageInv ==
  job.kind = "alert" =>
    /\ pages \in {0, 1}
    /\ calls["lark"].at \in {"idle", "gate", "running"} => pages = 0
    /\ calls["lark"].status = "success" => pages = 1 \/ Stubbed("lark_notify")
    /\ ~Idle("lark") => Wanted /\ pc \in {"paging", "event", "done", "raised"}
    /\ pc \in {"event", "done"} /\ Wanted => calls["lark"].at = "done"
    /\ report # None =>
         /\ pc = "done"
         /\ report.lark_notified => pages = 1 \/ Stubbed("lark_notify")
         /\ Wanted => report.lark_notified \/ "lark" \in report.tool_errors

\* Every step is a step of the client, or leaves it alone.
LEMMA ClientStepOf ==
  ASSUME [Next]_vars
  PROVE  [ClientStep \/ \E by \in {"with", "load"} : NewClient(by)]_clientVars
<1>1. CASE JobStep
  BY <1>1 DEF JobStep, Begin, CallModel, ModelAnswers, ModelFails, Meter, Gather, Page,
     Paged, AnswerOrRefuse, RagAnswered, PlanActions, NextStep, StepEnds, Parsed,
     Narrated, EmitAndReturn, Load
<1>2. CASE Handler
  BY <1>2 DEF Handler, Unavailable, QueryEs, QueryDb, ReadBackend, AskRag, RagAnswers, SendPage,
     RunTestAction, ParseFile
<1>3. ASSUME NEW s \in Slots, Gate(s) \/ Audit(s)
      PROVE  UNCHANGED clientVars
  BY <1>3 DEF Gate, Audit
<1>. QED
  BY <1>1, <1>2, <1>3 DEF Next, vars

\* A job stays the job it is.
LEMMA JobUnchanged ==
  ASSUME [Next]_vars
  PROVE  UNCHANGED job
<1>1. CASE JobStep
  BY <1>1 DEF JobStep, Begin, CallModel, ModelAnswers, ModelFails, Meter, Gather, Page,
     Paged, AnswerOrRefuse, RagAnswered, PlanActions, NextStep, StepEnds, Parsed,
     Narrated, EmitAndReturn, Load, jobVars
<1>2. CASE Handler
  BY <1>2 DEF Handler, Unavailable, QueryEs, QueryDb, ReadBackend, AskRag, RagAnswers, SendPage,
     RunTestAction, ParseFile, jobVars
<1>3. ASSUME NEW s \in Slots, Gate(s) \/ Audit(s)
      PROVE  UNCHANGED job
  BY <1>3 DEF Gate, Audit
<1>. QED
  BY <1>1, <1>2, <1>3 DEF Next, vars, jobVars

\* Where the gate and the audit write take a call.
LEMMA GateOrAudit ==
  ASSUME CallsInv, NEW s \in Slots, Gate(s) \/ Audit(s)
  PROVE  /\ \/ calls[s].at = "gate" /\ calls'[s].at \in {"running", "audit"}
            \/ calls[s].at = "audit" /\ calls'[s].at \in {"audit", "done", "raised"}
         /\ calls'[s].status = "success" => calls[s].status = "success"
<1>. USE DEF CallsInv
<1>1. CASE Gate(s)
  <2>1. calls[s].at = "gate"
    BY <1>1 DEF Gate
  <2>2. CASE Finishes(s, "error", FALSE) \/ Finishes(s, "pending", FALSE)
    BY <2>1, <2>2 DEF Finishes
  <2>3. CASE calls' = [calls EXCEPT ![s].at = "running"]
    BY <2>1, <2>3 DEF Call
  <2>. QED
    BY <1>1, <2>2, <2>3 DEF Gate
<1>2. CASE Audit(s)
  <2>1. calls[s].at = "audit"
    BY <1>2 DEF Audit
  <2>2. CASE calls' = [calls EXCEPT ![s].at = "done"]
             \/ calls' = [calls EXCEPT ![s].at = "raised"]
    BY <2>1, <2>2 DEF Call
  <2>3. CASE Finishes(s, "error", FALSE)
    BY <2>1, <2>3 DEF Finishes
  <2>. QED
    BY <1>2, <2>2, <2>3 DEF Audit
<1>. QED
  BY <1>1, <1>2

\* One case per step that can disturb the page or what is known of it.
LEMMA PageStep ==
  ASSUME Shape, KindAt, FreshCalls, CallsInv, PageInv, [Next]_vars
  PROVE  PageInv'
<1>1. SUFFICES ASSUME job.kind = "alert", UNCHANGED job,
                      Stubbed("lark_notify")' = Stubbed("lark_notify")
               PROVE  PageInv'
  BY JobUnchanged DEF PageInv, Stubbed
<1>. USE <1>1
<1>2. "lark" \in Slots /\ "lark" \notin Evidence
  BY DEF Slots, Evidence
<1>3. CASE UNCHANGED <<pc, pages, report, model>> /\ calls'["lark"] = calls["lark"]
  BY <1>3 DEF PageInv, Wanted, Idle
<1>4. CASE Begin
  BY <1>2, <1>4 DEF Begin, PageInv, Wanted, Idle, Goes, Ask, FreshCalls
<1>5. CASE CallModel \/ ModelFails \/ Meter
  BY <1>5 DEF CallModel, ModelFails, Meter, PageInv, Wanted, Idle, Goes, AfterModelRaises, FreshCalls, Shape, Model
<1>6. CASE ModelAnswers
  BY <1>6 DEF ModelAnswers, PageInv, Idle, FreshCalls
<1>7. CASE Gather
  BY <1>7 DEF Gather, PageInv, Wanted, Idle, Goes, FreshCalls
<1>8. CASE Page
  BY <1>2, <1>8 DEF Page, PageInv, Wanted, Idle, Goes, FreshCalls, Ask, IdleCall
<1>9. CASE Paged
  BY <1>9 DEF Paged, PageInv, Wanted, Idle, Goes, Awaited, CallEnded
<1>10. CASE EmitAndReturn
  <2>1. CASE Goes("done") /\ report' = Result
    <3>1. Result = [ lark_notified |-> Succeeded("lark"),
                     tool_errors   |-> { s \in Evidence \cup {"lark"} :
                                           calls[s].at = "done" /\ ~Succeeded(s) } ]
      BY DEF Result
    <3>2. Result.lark_notified = Succeeded("lark")
      BY <3>1
    <3>3. calls["lark"].at = "done" /\ ~Succeeded("lark") => "lark" \in Result.tool_errors
      BY <3>1
    <3>4. Result.lark_notified => pages = 1 \/ Stubbed("lark_notify")
      BY <3>2 DEF PageInv, Succeeded
    <3>5. Wanted => Result.lark_notified \/ "lark" \in Result.tool_errors
      BY <1>10, <3>2, <3>3 DEF EmitAndReturn, PageInv
    <3>. QED
      BY <1>10, <2>1, <3>4, <3>5 DEF EmitAndReturn, PageInv, Wanted, Idle, Goes
  <2>2. CASE Goes("raised") /\ UNCHANGED report
    BY <1>10, <2>2 DEF EmitAndReturn, PageInv, Wanted, Idle, Goes
  <2>. QED
    BY <1>10, <2>1, <2>2 DEF EmitAndReturn
<1>11. CASE AnswerOrRefuse \/ RagAnswered \/ PlanActions \/ NextStep \/ StepEnds
            \/ Parsed \/ Narrated \/ Load
  BY <1>11 DEF AnswerOrRefuse, RagAnswered, PlanActions, NextStep, StepEnds, Parsed,
     Narrated, Load, KindAt
<1>12. CASE SendPage
  BY <1>2, <1>12 DEF SendPage, PageInv, Wanted, Idle, Returns, HandlerRaises, Finishes,
     CallsInv
<1>13. CASE Handler /\ ~SendPage
  <2>1. CASE \E s \in Slots : Unavailable(s)
    <3>1. PICK s \in Slots : Unavailable(s)
      BY <2>1
    <3>2. HandlerEnds(s) /\ UNCHANGED <<pc, pages, report, model>>
      BY <3>1, UnavailableCall DEF Shape
    <3>3. CASE s = "lark"
      <4>1. /\ calls["lark"].at = "running" /\ Stubbed("lark_notify")
            /\ calls'["lark"].at = "audit"
        BY <1>2, <3>1, <3>3 DEF Unavailable, ToolOf, Returns, Finishes, CallsInv
      <4>. QED
        BY <3>2, <4>1 DEF PageInv, Wanted, Idle
    <3>4. CASE s # "lark"
      <4>1. calls'["lark"] = calls["lark"]
        BY <1>2, <3>2, <3>4 DEF HandlerEnds, Returns, HandlerRaises, Finishes, CallsInv
      <4>. QED
        BY <3>2, <4>1, <1>3
    <3>. QED
      BY <3>3, <3>4
  <2>2. CASE ~\E s \in Slots : Unavailable(s)
    <3>1. UNCHANGED <<pc, pages, report, model>> /\ calls'["lark"] = calls["lark"]
      BY <1>13, <2>2, <1>2 DEF Handler, QueryEs, QueryDb, ReadBackend, AskRag, RagAnswers,
         RunTestAction, ParseFile, jobVars, KindAt, Returns, HandlerRaises, Finishes,
         CallsInv, Slots, Evidence
    <3>. QED
      BY <3>1, <1>3
  <2>. QED
    BY <2>1, <2>2
<1>14. ASSUME NEW s \in Slots, Gate(s) \/ Audit(s)
       PROVE  PageInv'
  <2>1. CASE s = "lark"
    <3>1. CallRecorded("lark") /\ calls \in [Slots -> Call]
      BY <1>2 DEF CallsInv
    <3>2. UNCHANGED <<pc, pages, report, model>>
      BY <1>14 DEF Gate, Audit
    <3>3. calls["lark"].at \in {"gate", "audit"}
      BY <1>14, <2>1 DEF Gate, Audit
    <3>4. \/ calls["lark"].at = "gate" /\ calls'["lark"].at \in {"running", "audit"}
          \/ calls["lark"].at = "audit" /\ calls'["lark"].at \in {"audit", "done", "raised"}
      BY <1>2, <1>14, <2>1, GateOrAudit
    <3>5. calls'["lark"].status = "success" => calls["lark"].status = "success"
      BY <1>2, <1>14, <2>1, GateOrAudit
    <3>. QED
      BY <3>1, <3>2, <3>3, <3>4, <3>5 DEF PageInv, Wanted, Idle, CallRecorded
  <2>2. CASE s # "lark"
    <3>1. UNCHANGED <<pc, pages, report, model>> /\ calls'["lark"] = calls["lark"]
      BY <1>2, <1>14, <2>2 DEF Gate, Audit, Finishes, CallsInv
    <3>. QED
      BY <3>1, <1>3
  <2>. QED
    BY <2>1, <2>2
<1>15. CASE UNCHANGED jobVars
  BY <1>15, <1>3 DEF jobVars
<1>. QED
  BY <1>4, <1>5, <1>6, <1>7, <1>8, <1>9, <1>10, <1>11, <1>12, <1>13, <1>14, <1>15
  DEF Next, JobStep, vars

-----------------------------------------------------------------------------
\* What the client's outcome says of where it is.
OutcomeInv ==
  /\ client.at = "idle" => client.outcome = "none"
  /\ client.outcome = "cited" => client.at \in {"close_session", "close_process", "out"}
  /\ client.stuck => client.outcome \in {"failed", "raised"} /\ client.at = "out"

\* The client is at work while it takes a step.
LEMMA ClientStepMoves ==
  ASSUME ClientInv, ClientStep
  PROVE  client.at \notin {"idle", "out"} /\ client'.at # "idle"
<1>. USE DEF ClientInv, Client
<1>1. CASE Spawn
  BY <1>1 DEF Spawn, MovesTo, Abandoned
<1>2. CASE OpenSession
  BY <1>2 DEF OpenSession, MovesTo, Abandoned
<1>3. CASE Handshake
  BY <1>3 DEF Handshake, Abandoned
<1>4. CASE UseSession
  BY <1>4 DEF UseSession
<1>5. CASE CloseSession
  BY <1>5 DEF CloseSession, MovesTo, TeardownRaises
<1>6. CASE CloseProcess
  BY <1>6 DEF CloseProcess, MovesTo, TeardownRaises
<1>. QED
  BY <1>1, <1>2, <1>3, <1>4, <1>5, <1>6 DEF ClientStep

\* One case per await of the client.
LEMMA OutcomeStep ==
  ASSUME ClientInv, OutcomeInv,
         [ClientStep \/ \E by \in {"with", "load"} : NewClient(by)]_clientVars
  PROVE  OutcomeInv'
<1>. USE DEF ClientInv, Client, OutcomeInv
<1>1. CASE Spawn
  BY <1>1 DEF Spawn, MovesTo, Abandoned
<1>2. CASE OpenSession
  BY <1>2 DEF OpenSession, MovesTo, Abandoned
<1>3. CASE Handshake
  BY <1>3 DEF Handshake, Abandoned
<1>4. CASE UseSession
  BY <1>4 DEF UseSession
<1>5. CASE CloseSession
  BY <1>5 DEF CloseSession, MovesTo, TeardownRaises
<1>6. CASE CloseProcess
  BY <1>6 DEF CloseProcess, MovesTo, TeardownRaises
<1>7. ASSUME NEW by \in {"with", "load"}, NewClient(by)
      PROVE  OutcomeInv'
  BY <1>7 DEF NewClient
<1>8. CASE UNCHANGED clientVars
  BY <1>8 DEF clientVars
<1>. QED
  BY <1>1, <1>2, <1>3, <1>4, <1>5, <1>6, <1>7, <1>8 DEF ClientStep

\* A question: how the model, the lookup and the client stand.
RagInv ==
  job.kind = "rag_qa" =>
    /\ pc \in {"start", "lookup"} => model.at = "idle"
    /\ calls["rag"].at \in {"audit", "done", "raised"} => client.at \in {"idle", "out"}
    /\ client.at # "idle" => calls["rag"].at \notin {"idle", "gate"}
    /\ pc \in {"model", "model_wait", "event"} \/ model.at # "idle" =>
         calls["rag"].at = "done" /\ client.at = "out" /\ client.outcome = "cited"
    /\ pc = "event" => model.at = "answered"
    /\ report # None =>
         pc = "done" /\ IF report.evidence THEN model.at = "answered" ELSE model.at = "idle"

\* One case per step that can disturb a question.
LEMMA RagStep ==
  ASSUME Shape, KindAt, FreshCalls, CallsInv, ClientInv, OutcomeInv, RagInv, [Next]_vars
  PROVE  RagInv'
<1>1. SUFFICES ASSUME job.kind = "rag_qa", UNCHANGED job
               PROVE  RagInv'
  BY JobUnchanged DEF RagInv
<1>. USE <1>1
<1>2. "rag" \in Slots
  BY DEF Slots, Evidence
<1>3. CASE UNCHANGED <<pc, model, report, client>> /\ calls'["rag"] = calls["rag"]
  BY <1>3 DEF RagInv
<1>4. CASE Begin
  <2>1. Ask({"rag"}) /\ pc' = "lookup" /\ UNCHANGED <<model, report, client>>
    BY <1>4 DEF Begin, Goes, clientVars
  <2>2. calls'["rag"].at = "gate" /\ Idle("rag") /\ pc = "start"
    BY <1>2, <1>4, <2>1 DEF Begin, Ask, IdleCall, FreshCalls
  <2>. QED
    BY <2>1, <2>2 DEF RagInv, Idle
<1>5. CASE CallModel \/ ModelFails \/ Meter \/ ModelAnswers
  BY <1>5 DEF CallModel, ModelFails, Meter, ModelAnswers, RagInv, Goes, AfterModelRaises,
     Shape, Model, clientVars
<1>6. CASE AnswerOrRefuse
  <2>1. pc = "lookup" /\ CallEnded("rag") /\ UNCHANGED <<calls, model, client>>
    BY <1>6 DEF AnswerOrRefuse, Awaited, clientVars
  <2>2. CASE pc' = "done"
    BY <1>6, <2>1, <2>2 DEF AnswerOrRefuse, RagInv
  <2>3. CASE pc' # "done"
    <3>1. report' = report /\ pc' \in {"raised", "model"}
      BY <1>6, <2>3 DEF AnswerOrRefuse, Awaited, Goes
    <3>2. pc' = "model" => Succeeded("rag") /\ HasCitations
      BY <1>6 DEF AnswerOrRefuse, Awaited, Goes
    <3>. QED
      BY <2>1, <3>1, <3>2 DEF RagInv, Succeeded, HasCitations, OutcomeInv
  <2>. QED
    BY <2>2, <2>3
<1>7. CASE RagAnswered
  BY <1>7 DEF RagAnswered, RagInv, Goes, clientVars
<1>8. CASE EmitAndReturn
  <2>1. CASE Goes("done") /\ report' = Result
    <3>1. Result = [evidence |-> TRUE, status |-> "ok"]
      BY DEF Result
    <3>. QED
      BY <1>8, <2>1, <3>1 DEF EmitAndReturn, RagInv, Goes, clientVars
  <2>2. CASE Goes("raised") /\ UNCHANGED report
    BY <1>8, <2>2 DEF EmitAndReturn, RagInv, Goes, clientVars
  <2>. QED
    BY <1>8, <2>1, <2>2 DEF EmitAndReturn
<1>9. CASE Gather \/ Page \/ Paged \/ PlanActions \/ NextStep \/ StepEnds
           \/ Parsed \/ Narrated \/ Load
  BY <1>9 DEF Gather, Page, Paged, PlanActions, NextStep, StepEnds, Parsed, Narrated,
     Load, KindAt
<1>10. CASE AskRag
  BY <1>10 DEF AskRag, NewClient, RagInv, jobVars, ClientInv, Client
<1>11. CASE RagAnswers
  BY <1>2, <1>11 DEF RagAnswers, Returns, Finishes, RagInv, CallsInv, clientVars
<1>12. CASE Handler /\ ~AskRag /\ ~RagAnswers
  <2>1. CASE \E s \in Slots : Unavailable(s)
    <3>1. PICK s \in Slots : Unavailable(s)
      BY <2>1
    <3>2. HandlerEnds(s) /\ s # "rag" /\ UNCHANGED <<pc, model, report, client>>
      BY <3>1, UnavailableCall DEF Shape
    <3>3. calls'["rag"] = calls["rag"]
      BY <1>2, <3>2 DEF HandlerEnds, Returns, HandlerRaises, Finishes, CallsInv
    <3>. QED
      BY <3>2, <3>3, <1>3
  <2>2. CASE ~\E s \in Slots : Unavailable(s)
    <3>1. UNCHANGED <<pc, model, report, client>> /\ calls'["rag"] = calls["rag"]
      BY <1>12, <2>2, <1>2 DEF Handler, QueryEs, QueryDb, ReadBackend, SendPage,
         RunTestAction, ParseFile, KindAt, Returns, HandlerRaises, Finishes,
         CallsInv, clientVars
    <3>. QED
      BY <3>1, <1>3
  <2>. QED
    BY <2>1, <2>2
<1>13. ASSUME NEW s \in Slots, Gate(s) \/ Audit(s)
       PROVE  RagInv'
  <2>1. UNCHANGED <<pc, model, report, client>>
    BY <1>13 DEF Gate, Audit, clientVars
  <2>2. CASE s = "rag"
    BY <1>13, <2>1, <2>2, GateOrAudit DEF RagInv
  <2>3. CASE s # "rag"
    <3>1. calls'["rag"] = calls["rag"]
      BY <1>2, <1>13, <2>3 DEF Gate, Audit, Finishes, CallsInv
    <3>. QED
      BY <2>1, <3>1, <1>3
  <2>. QED
    BY <2>2, <2>3
<1>14. CASE ClientStep /\ UNCHANGED jobVars
  <2>1. client.at \notin {"idle", "out"} /\ client'.at # "idle"
    BY <1>14, ClientStepMoves
  <2>. QED
    BY <1>14, <2>1 DEF RagInv, jobVars
<1>15. CASE UNCHANGED vars
  BY <1>15, <1>3 DEF vars, jobVars, clientVars
<1>. QED
  BY <1>4, <1>5, <1>6, <1>7, <1>8, <1>9, <1>10, <1>11, <1>12, <1>13, <1>14, <1>15
  DEF Next, JobStep, vars

-----------------------------------------------------------------------------
\* All steps so far succeeded.
AllOk == \A i \in DOMAIN steps : steps[i]

\* How many did: only the last may have failed.
Done == IF AllOk THEN Len(steps) ELSE Len(steps) - 1

\* Whether the handler of the test environment carries anything out.
Acts == ~Stubbed("test_env")

\* The plan, what was created along it, and what is reported: a step that was
\* carried out and is not reported as a success is the last thing that was done.
StepsInv ==
  /\ made \in Seq(ActionNames) /\ Len(made) <= Len(plan)
  /\ \A i \in DOMAIN made : made[i] = plan[i]
  /\ Len(steps) <= Len(plan)
  /\ \A i \in DOMAIN steps : i < Len(steps) => steps[i]
  /\ Acts => Done <= Len(made) /\ Len(made) <= Done + 1
  /\ ~Acts => made = << >>
  /\ pc \notin {"step", "step_wait", "event", "done", "raised"} =>
       steps = << >> /\ made = << >>
  /\ pc \in {"step", "step_wait"} => AllOk
  /\ Acts /\ pc = "step" => Len(made) = Len(steps)
  /\ Acts /\ pc = "step_wait" =>
       /\ calls[Current].at \in {"idle", "gate", "running"} => Len(made) = Len(steps)
       /\ calls[Current].status = "success" => Len(made) = Len(steps) + 1
  /\ job.kind = "test" /\ pc \in {"model", "model_wait", "step", "step_wait"} =>
       EnvOf[job.actor] = "dev"
  /\ made # << >> => EnvOf[job.actor] = "dev"

\* Where the report may come from.
ReportInv ==
  /\ pages \in 0 .. 1
  /\ job.kind # "alert" => Idle("lark")
  /\ job.kind = "load" => pc \in {"start", "loading", "done", "raised"}
  /\ job.kind \in {"cashback", "logistics"} =>
       /\ calls["parse"].status = "success" => job.file # None
       /\ pc \in {"model", "model_wait", "event"} => Succeeded("parse")
  /\ report # None <=> pc = "done"

\* The call under way in a test run is one of its own.
LEMMA CurrentIsStep ==
  ASSUME Shape, FreshCalls, pc = "step_wait"
  PROVE  /\ Current \in Slots /\ Current \notin {"es", "db", "rag", "lark", "parse"}
         /\ Len(steps) \in Nat /\ Len(plan) \in Nat /\ Len(steps) < Len(plan)
         /\ DOMAIN steps = 1 .. Len(steps)
<1>1. Len(steps) \in Nat /\ Len(plan) \in Nat /\ DOMAIN steps = 1 .. Len(steps)
  BY DEF Shape
<1>2. Len(steps) < Len(plan)
  BY DEF FreshCalls
<1>3. Len(steps) + 1 \in 1 .. 3
  BY <1>1, <1>2 DEF Shape, StepCalls
<1>4. \A k \in 1 .. 3 : StepCalls[k] \in {"step1", "step2", "step3"}
  BY DEF StepCalls
<1>5. Current \in {"step1", "step2", "step3"}
  BY <1>3, <1>4 DEF Current
<1>. QED
  BY <1>1, <1>2, <1>5 DEF Slots

\* The workflow's other steps leave the test run alone.
LEMMA StepsElsewhere ==
  ASSUME StepsInv, UNCHANGED <<job, plan, steps, made>>,
         pc' \notin {"step", "step_wait"},
         pc \in {"step", "step_wait", "event", "done", "raised"} =>
           pc' \in {"event", "done", "raised"},
         job.kind = "test" /\ pc' \in {"model", "model_wait"} =>
           pc \in {"model", "model_wait"}
  PROVE  StepsInv'
  BY DEF StepsInv, Done, AllOk, Acts, Stubbed

\* A call's own steps leave the place and the lists alone.
LEMMA StepsCalls ==
  ASSUME StepsInv, UNCHANGED <<job, pc, plan, steps, made>>,
         Acts /\ pc = "step_wait" =>
           /\ calls'[Current].at \in {"idle", "gate", "running"} =>
                calls[Current].at \in {"idle", "gate", "running"}
           /\ calls'[Current].status = "success" => calls[Current].status = "success"
  PROVE  StepsInv'
<1>1. Current' = Current /\ Acts' = Acts
  BY DEF Current, Acts, Stubbed
<1>2. AllOk' = AllOk /\ Done' = Done
  BY DEF AllOk, Done
<1>3. Acts /\ pc' = "step_wait" =>
       /\ calls'[Current].at \in {"idle", "gate", "running"} => Len(made) = Len(steps)
       /\ calls'[Current].status = "success" => Len(made) = Len(steps) + 1
  BY DEF StepsInv
<1>. QED
  BY <1>1, <1>2, <1>3 DEF StepsInv

\* test_env carries out the next action of the plan, or nothing.
LEMMA StepsActed ==
  ASSUME Shape, KindAt, FreshCalls, CallsInv, StepsInv, RunTestAction
  PROVE  StepsInv'
<1>1. /\ Current \in Slots /\ Len(steps) \in Nat /\ Len(plan) \in Nat
      /\ Len(steps) < Len(plan)
  BY CurrentIsStep DEF RunTestAction
<1>2. /\ pc = "step_wait" /\ UNCHANGED <<job, pc, plan, steps>> /\ Current' = Current
      /\ Acts /\ Acts'
  BY DEF RunTestAction, Current, Acts, Stubbed
<1>3. AllOk /\ Done = Len(steps) /\ AllOk' /\ Done' = Len(steps)
  BY <1>2 DEF StepsInv, AllOk, Done
<1>4. Len(made) = Len(steps) /\ EnvOf[job.actor] = "dev" /\ job.kind = "test"
  BY <1>2 DEF StepsInv, RunTestAction, KindAt
<1>5. /\ calls'[Current].at = "audit"
      /\ calls'[Current].status = "success" => made' = Append(made, plan[Len(steps) + 1])
      /\ \/ made' = made
         \/ /\ made' = Append(made, plan[Len(steps) + 1])
            /\ plan[Len(steps) + 1] \in KnownActions
  BY <1>1 DEF RunTestAction, Returns, HandlerRaises, Finishes, CallsInv
<1>6. CASE made' = made
  BY <1>1, <1>2, <1>3, <1>4, <1>5, <1>6 DEF StepsInv
<1>7. CASE /\ made' = Append(made, plan[Len(steps) + 1])
           /\ plan[Len(steps) + 1] \in KnownActions
  <2>1. plan[Len(steps) + 1] \in ActionNames
    BY <1>7 DEF ActionNames
  <2>2. /\ made' \in Seq(ActionNames) /\ Len(made') = Len(steps) + 1
        /\ DOMAIN made' = 1 .. (Len(steps) + 1)
        /\ \A i \in 1 .. Len(steps) : made'[i] = made[i]
        /\ made'[Len(steps) + 1] = plan[Len(steps) + 1]
        /\ DOMAIN made = 1 .. Len(steps)
    BY <1>1, <1>4, <1>7, <2>1 DEF StepsInv
  <2>3. \A i \in DOMAIN made' : made'[i] = plan[i]
    BY <1>1, <2>2 DEF StepsInv
  <2>. QED
    BY <1>1, <1>2, <1>3, <1>4, <1>5, <2>2, <2>3 DEF StepsInv
<1>. QED
  BY <1>5, <1>6, <1>7

\* The next call is made, or the plan is done.
LEMMA StepsAsked ==
  ASSUME Shape, KindAt, FreshCalls, CallsInv, StepsInv, NextStep
  PROVE  StepsInv'
<1>1. pc = "step" /\ UNCHANGED <<job, plan, steps, made>> /\ job.kind = "test"
  BY DEF NextStep, KindAt
<1>2. /\ AllOk /\ AllOk' /\ Done' = Done /\ EnvOf[job.actor] = "dev"
      /\ Acts' = Acts /\ (Acts => Len(made) = Len(steps))
  BY <1>1 DEF StepsInv, AllOk, Done, Acts, Stubbed
<1>3. CASE Len(steps) < Len(plan)
  <2>1. Ask({Current}) /\ pc' = "step_wait" /\ Current' = Current
    BY <1>1, <1>3 DEF NextStep, Goes, Current
  <2>2. Current \in Slots
    BY <1>1, <1>3, CurrentIsSlot
  <2>3. calls'[Current].at = "gate" /\ calls'[Current].status = "none"
    BY <2>1, <2>2 DEF Ask, IdleCall
  <2>. QED
    BY <1>1, <1>2, <2>1, <2>3 DEF StepsInv
<1>4. CASE ~(Len(steps) < Len(plan))
  <2>1. pc' = "event"
    BY <1>4 DEF NextStep, Goes
  <2>. QED
    BY <1>1, <1>2, <2>1 DEF StepsInv
<1>. QED
  BY <1>3, <1>4

\* The step is reported: a success adds to what succeeded, a failure ends the
\* run, and a call that raised is not reported at all.
LEMMA StepsReported ==
  ASSUME Shape, KindAt, FreshCalls, CallsInv, StepsInv, StepEnds
  PROVE  StepsInv'
<1>1. /\ pc = "step_wait" /\ UNCHANGED <<job, plan, made, calls>> /\ job.kind = "test"
      /\ Acts' = Acts
  BY DEF StepEnds, KindAt, Acts, Stubbed
<1>2. /\ Current \in Slots /\ Len(steps) \in Nat /\ Len(plan) \in Nat
      /\ Len(steps) < Len(plan) /\ DOMAIN steps = 1 .. Len(steps)
  BY <1>1, CurrentIsStep
<1>3. AllOk /\ Done = Len(steps) /\ EnvOf[job.actor] = "dev"
  BY <1>1 DEF StepsInv, AllOk, Done
<1>4. calls[Current].at \in {"done", "raised"}
  BY DEF StepEnds, Awaited, CallEnded
<1>5. CASE calls[Current].at = "raised"
  <2>1. pc' = "raised" /\ steps' = steps
    BY <1>5 DEF StepEnds, Awaited, Goes
  <2>2. AllOk' /\ Done' = Len(steps)
    BY <1>3, <2>1 DEF AllOk, Done
  <2>. QED
    BY <1>1, <1>2, <1>3, <2>1, <2>2 DEF StepsInv
<1>6. CASE calls[Current].at = "done"
  <2>1. Succeeded(Current) \in BOOLEAN
    BY DEF Succeeded
  <2>2. steps' = Append(steps, Succeeded(Current))
    BY <1>6 DEF StepEnds
  <2>3. /\ Len(steps') = Len(steps) + 1
        /\ DOMAIN steps' = 1 .. (Len(steps) + 1)
        /\ \A i \in 1 .. Len(steps) : steps'[i] = steps[i]
        /\ steps'[Len(steps) + 1] = Succeeded(Current)
    BY <1>2, <2>1, <2>2 DEF Shape
  <2>4. \A i \in 1 .. Len(steps) : steps'[i]
    BY <1>2, <1>3, <2>3 DEF AllOk
  <2>5. CASE Succeeded(Current)
    <3>1. pc' = "step" /\ (Acts => Len(made) = Len(steps) + 1)
      BY <1>1, <1>6, <2>5 DEF StepEnds, Awaited, Goes, StepsInv, Succeeded
    <3>2. steps'[Len(steps) + 1]
      BY <2>3, <2>5
    <3>3. \A i \in DOMAIN steps' : i \in 1 .. Len(steps) \/ i = Len(steps) + 1
      BY <1>2, <2>3
    <3>4. AllOk'
      BY <2>4, <3>2, <3>3, Zenon DEF AllOk
    <3>5. Done' = Len(steps) + 1
      BY <2>3, <3>4 DEF Done
    <3>6. \A i \in DOMAIN steps' : i < Len(steps') => steps'[i]
      BY <3>4, Zenon DEF AllOk
    <3>7. /\ made' \in Seq(ActionNames) /\ Len(made') <= Len(plan')
          /\ \A i \in DOMAIN made' : made'[i] = plan'[i]
          /\ EnvOf[job'.actor] = "dev"
      BY <1>1, <1>3 DEF StepsInv
    <3>8. /\ Len(steps') <= Len(plan')
          /\ Acts' => Len(made') = Len(steps')
          /\ Acts' => Done' <= Len(made') /\ Len(made') <= Done' + 1
      BY <1>1, <1>2, <2>3, <3>1, <3>5
    <3>9. ~Acts' => made' = << >>
      BY <1>1 DEF StepsInv
    <3>. QED
      BY <3>1, <3>4, <3>6, <3>7, <3>8, <3>9, Zenon DEF StepsInv
  <2>6. CASE ~Succeeded(Current)
    <3>1. pc' = "event"
      BY <1>6, <2>6 DEF StepEnds, Awaited, Goes
    <3>2. ~steps'[Len(steps) + 1] /\ Len(steps) + 1 \in DOMAIN steps'
      BY <1>2, <2>3, <2>6
    <3>3. ~AllOk'
      BY <3>2, Zenon DEF AllOk
    <3>4. Done' = Len(steps)
      BY <1>2, <2>3, <3>3 DEF Done
    <3>. QED
      BY <1>1, <1>2, <1>3, <2>3, <2>4, <3>1, <3>3, <3>4 DEF StepsInv
  <2>. QED
    BY <2>5, <2>6
<1>. QED
  BY <1>4, <1>5, <1>6

\* One case per step that can disturb a test run.
LEMMA StepsStep ==
  ASSUME Shape, KindAt, FreshCalls, CallsInv, StepsInv, [Next]_vars
  PROVE  StepsInv'
<1>1. CASE Begin
  <2>1. pc = "start" /\ UNCHANGED <<job, steps, made>> /\ job.kind \in Kinds
    BY <1>1, JobsAssumption DEF Begin, Shape
  <2>2. steps = << >> /\ made = << >> /\ AllOk /\ AllOk' /\ Done' = 0
    BY <2>1 DEF StepsInv, AllOk, Done
  <2>3. /\ pc' \notin {"start", "step_wait"}
        /\ pc' \in {"step", "model"} => EnvOf[job.actor] = "dev"
        /\ pc' = "model_wait" => FALSE
    BY <1>1, <2>1 DEF Begin, Goes, Kinds
  <2>4. plan' \in Seq(ActionNames)
    BY <1>1, ShapeStep DEF Shape, Next, JobStep
  <2>5. Len(plan') \in Nat
    BY <2>4
  <2>. QED
    BY <2>1, <2>2, <2>3, <2>5 DEF StepsInv
<1>2. CASE PlanActions
  <2>1. /\ pc = "model_wait" /\ UNCHANGED <<job, steps, made>> /\ job.kind = "test"
        /\ pc' = "step"
    BY <1>2 DEF PlanActions, Goes
  <2>2. steps = << >> /\ made = << >> /\ AllOk /\ AllOk' /\ Done' = 0 /\ EnvOf[job.actor] = "dev"
    BY <2>1 DEF StepsInv, AllOk, Done
  <2>3. plan' \in Seq(ActionNames)
    BY <1>2, ShapeStep DEF Shape, Next, JobStep
  <2>4. Len(plan') \in Nat
    BY <2>3
  <2>. QED
    BY <2>1, <2>2, <2>4 DEF StepsInv
<1>3. CASE NextStep \/ StepEnds
  BY <1>3, StepsAsked, StepsReported
<1>4. CASE CallModel \/ ModelAnswers \/ ModelFails \/ Meter
  BY <1>4, StepsElsewhere DEF CallModel, ModelAnswers, ModelFails, Meter, Goes, AfterModelRaises
<1>5. CASE Gather \/ Page \/ Paged \/ RagAnswered \/ Parsed \/ Narrated \/ EmitAndReturn
  BY <1>5, StepsElsewhere DEF Gather, Page, Paged, RagAnswered, Parsed, Narrated,
     EmitAndReturn, Goes, Awaited, KindAt
<1>6. CASE AnswerOrRefuse
  <2>1. /\ pc = "lookup" /\ pc' \in {"raised", "model", "done"}
        /\ UNCHANGED <<job, plan, steps, made>> /\ job.kind = "rag_qa"
    BY <1>6 DEF AnswerOrRefuse, Awaited, Goes, KindAt
  <2>. QED
    BY <2>1, StepsElsewhere
<1>7. CASE Load \/ UNCHANGED jobVars \/ (ClientStep /\ UNCHANGED jobVars)
  <2>1. CASE UNCHANGED jobVars
    BY <2>1, StepsCalls DEF jobVars
  <2>2. CASE Load /\ ~UNCHANGED jobVars
    BY <2>2, StepsElsewhere DEF Load, Goes
  <2>. QED
    BY <1>7, <2>1, <2>2
<1>8. CASE RunTestAction
  BY <1>8, StepsActed
<1>11. ASSUME NEW s \in Slots, Unavailable(s)
       PROVE  StepsInv'
  <2>1. HandlerEnds(s) /\ UNCHANGED <<job, pc, plan, steps, made>>
    BY <1>11, UnavailableCall DEF Shape
  <2>2. ASSUME Acts, pc = "step_wait"
        PROVE  calls'[Current] = calls[Current]
    <3>1. Current \in Slots /\ Current \notin {"es", "db", "rag", "lark", "parse"}
      BY <2>2, CurrentIsStep
    <3>2. ToolOf(Current) = "test_env"
      BY <3>1 DEF ToolOf
    <3>3. s # Current
      BY <1>11, <2>2, <3>2 DEF Unavailable, Acts
    <3>. QED
      BY <2>1, <3>1, <3>3 DEF HandlerEnds, Returns, HandlerRaises, Finishes, CallsInv
  <2>. QED
    BY <2>1, <2>2, StepsCalls
<1>9. CASE Handler /\ ~RunTestAction /\ ~\E s \in Slots : Unavailable(s)
  <2>1. UNCHANGED <<job, pc, plan, steps, made>>
    BY <1>9 DEF Handler, QueryEs, QueryDb, ReadBackend, AskRag, RagAnswers, SendPage,
       ParseFile, jobVars
  <2>2. \A s \in Slots \ {"es", "db", "rag", "lark", "parse"} : calls'[s] = calls[s]
    BY <1>9 DEF Handler, QueryEs, QueryDb, ReadBackend, AskRag, RagAnswers, SendPage,
       ParseFile, jobVars, Returns, HandlerRaises, Finishes, CallsInv
  <2>3. pc = "step_wait" => calls'[Current] = calls[Current]
    BY <2>2, CurrentIsStep
  <2>. QED
    BY <2>1, <2>3, StepsCalls
<1>10. ASSUME NEW s \in Slots, Gate(s) \/ Audit(s)
       PROVE  StepsInv'
  <2>1. UNCHANGED <<job, pc, plan, steps, made>>
    BY <1>10 DEF Gate, Audit
  <2>2. \A r \in Slots \ {s} : calls'[r] = calls[r]
    BY <1>10 DEF Gate, Audit, Finishes, CallsInv
  <2>3. CASE pc = "step_wait" /\ s = Current
    BY <1>10, <2>1, <2>3, GateOrAudit, StepsCalls
  <2>4. CASE pc = "step_wait" /\ s # Current
    BY <2>1, <2>2, <2>4, CurrentIsStep, StepsCalls
  <2>5. CASE pc # "step_wait"
    BY <2>1, <2>5, StepsCalls
  <2>. QED
    BY <2>3, <2>4, <2>5
<1>. QED
  BY <1>1, <1>2, <1>3, <1>4, <1>5, <1>6, <1>7, <1>8, <1>9, <1>10, <1>11
  DEF Next, JobStep, vars

\* What a workflow returns at its end is not None.
LEMMA ResultIsReport ==
  ASSUME job \in Jobs, job.kind \in Kinds \ {"load"},
         job.kind \in {"cashback", "logistics"} => job.file # None
  PROVE  Result # None
<1>1. CASE job.kind = "alert"
  <2>1. Result = [ lark_notified |-> Succeeded("lark"),
                   tool_errors   |-> { s \in Evidence \cup {"lark"} :
                                         calls[s].at = "done" /\ ~Succeeded(s) } ]
    BY <1>1 DEF Result
  <2>2. Succeeded("lark") \in BOOLEAN
    BY DEF Succeeded
  <2>3. { s \in Evidence \cup {"lark"} : calls[s].at = "done" /\ ~Succeeded(s) }
          \in SUBSET (Evidence \cup {"lark"})
    OBVIOUS
  <2>4. Result \in [lark_notified : BOOLEAN, tool_errors : SUBSET (Evidence \cup {"lark"})]
    BY <2>1, <2>2, <2>3
  <2>. QED
    BY <2>4, NoneAssumption
<1>2. CASE job.kind = "rag_qa"
  <2>1. Result = [evidence |-> TRUE, status |-> "ok"]
    BY <1>2 DEF Result
  <2>2. [evidence |-> TRUE, status |-> "ok"] \in [evidence : BOOLEAN, status : {"ok", "error"}]
    OBVIOUS
  <2>3. Result \in [evidence : BOOLEAN, status : {"ok", "error"}]
    BY <2>1, <2>2
  <2>. QED
    BY <2>3, NoneAssumption
<1>3. CASE job.kind = "test"
  <2>1. Result = [refused |-> FALSE]
    BY <1>3 DEF Result
  <2>2. [refused |-> FALSE] \in [refused : BOOLEAN]
    OBVIOUS
  <2>3. Result \in [refused : BOOLEAN]
    BY <2>1, <2>2
  <2>. QED
    BY <2>3, NoneAssumption
<1>4. CASE job.kind = "cashback"
  <2>1. Result = CashbackReport(job.file)
    BY <1>4 DEF Result
  <2>. QED
    BY <1>4, <2>1, NoneAssumption
<1>5. CASE job.kind = "logistics"
  <2>1. Result = LogisticsReport(job.file)
    BY <1>5 DEF Result
  <2>. QED
    BY <1>5, <2>1, NoneAssumption
<1>. QED
  BY <1>1, <1>2, <1>3, <1>4, <1>5 DEF Kinds

\* Nor is any report of a job that ends early.
LEMMA EarlyReports ==
  /\ [refused |-> TRUE] # None /\ [error |-> TRUE] # None
  /\ \A s \in {"ok", "error"} : [evidence |-> FALSE, status |-> s] # None
  /\ \A h \in {"ok", "unavailable"} : [health |-> h] # None
<1>1. [refused |-> TRUE] \in [refused : BOOLEAN] /\ [error |-> TRUE] \in [error : BOOLEAN]
  OBVIOUS
<1>2. \A s \in {"ok", "error"} :
        [evidence |-> FALSE, status |-> s] \in [evidence : BOOLEAN, status : {"ok", "error"}]
  OBVIOUS
<1>3. \A h \in {"ok", "unavailable"} : [health |-> h] \in [health : {"ok", "unavailable"}]
  OBVIOUS
<1>. QED
  BY <1>1, <1>2, <1>3, NoneAssumption

\* A step within the workflow, on the way to a report.
LEMMA ReportOnTheWay ==
  ASSUME ReportInv, UNCHANGED <<job, pages, report, calls>>,
         pc # "done", pc' # "done",
         job.kind = "load" => pc' \in {"loading", "raised"},
         job.kind \in {"cashback", "logistics"} /\ pc' \in {"model", "model_wait", "event"} =>
           Succeeded("parse")
  PROVE  ReportInv'
  BY DEF ReportInv, Idle, Succeeded

\* A call's own steps leave the report alone.
LEMMA ReportCalls ==
  ASSUME ReportInv, UNCHANGED <<job, pc, report>>, pages' \in 0 .. 1,
         job.kind # "alert" /\ Idle("lark") => Idle("lark")',
         job.kind \in {"cashback", "logistics"} =>
           /\ calls'["parse"].status = "success" =>
                calls["parse"].status = "success" \/ job.file # None
           /\ Succeeded("parse") => Succeeded("parse")'
  PROVE  ReportInv'
  BY DEF ReportInv

\* One case per step that can disturb the report.
LEMMA ReportStep ==
  ASSUME Shape, KindAt, FreshCalls, CallsInv, PageInv, ReportInv, [Next]_vars
  PROVE  ReportInv'
<1>0. job.kind \in Kinds /\ "lark" \in Slots /\ "parse" \in Slots
  BY JobsAssumption DEF Shape, Slots
<1>1. CASE Begin
  <2>1. pc = "start" /\ UNCHANGED <<job, pages>> /\ report = None
    BY <1>1 DEF Begin, ReportInv
  <2>2. Idle("lark") /\ Idle("parse") /\ calls["parse"].status = "none"
    BY <1>0, <2>1 DEF FreshCalls, CallsInv, CallRecorded, Idle
  <2>3. calls'["parse"].status = "none"
    BY <1>0, <1>1, <2>2 DEF Begin, Kinds, Ask, IdleCall
  <2>4. job.kind # "alert" => Idle("lark")'
    BY <1>0, <1>1, <2>2 DEF Begin, Kinds, Ask, IdleCall, Idle
  <2>5. /\ pc' \in {"gather", "lookup", "parsing", "loading", "done", "step", "model"}
        /\ job.kind = "load" => pc' = "loading"
        /\ job.kind \in {"cashback", "logistics"} => pc' = "parsing"
        /\ IF pc' = "done" THEN report' = [refused |-> TRUE] ELSE report' = report
    BY <1>0, <1>1 DEF Begin, Kinds, Goes
  <2>6. report' # None <=> pc' = "done"
    BY <2>1, <2>5, EarlyReports
  <2>. QED
    BY <2>1, <2>3, <2>4, <2>5, <2>6 DEF ReportInv
<1>2. CASE CallModel \/ ModelAnswers \/ ModelFails \/ Meter
  <2>1. /\ pc \in {"model", "model_wait"} /\ pc' \in {"model_wait", "event", "raised"}
        /\ UNCHANGED <<job, pages, report, calls>>
    BY <1>2 DEF CallModel, ModelAnswers, ModelFails, Meter, Goes, AfterModelRaises
  <2>. QED
    BY <2>1, ReportOnTheWay DEF ReportInv
<1>3. CASE Gather \/ Paged \/ RagAnswered \/ PlanActions \/ StepEnds
  <2>1. /\ pc \in {"gather", "paging", "model_wait", "step_wait"} /\ pc' # "done"
        /\ UNCHANGED <<job, pages, report, calls>>
        /\ job.kind \in {"alert", "rag_qa", "test"}
    BY <1>3 DEF Gather, Paged, RagAnswered, PlanActions, StepEnds, Goes, Awaited, KindAt
  <2>. QED
    BY <2>1, ReportOnTheWay
<1>4. CASE Narrated
  <2>1. /\ pc = "model_wait" /\ pc' = "event" /\ UNCHANGED <<job, pages, report, calls>>
        /\ job.kind \in {"cashback", "logistics"}
    BY <1>4 DEF Narrated, Goes
  <2>. QED
    BY <2>1, ReportOnTheWay DEF ReportInv
<1>5. CASE Page
  <2>1. /\ pc = "model_wait" /\ pc' \in {"paging", "raised", "event"}
        /\ UNCHANGED <<job, pages, report>> /\ job.kind = "alert"
    BY <1>5 DEF Page, Goes
  <2>. QED
    BY <2>1 DEF ReportInv
<1>6. CASE NextStep
  <2>1. /\ pc = "step" /\ pc' \in {"step_wait", "event"}
        /\ UNCHANGED <<job, pages, report>> /\ job.kind = "test"
    BY <1>6 DEF NextStep, Goes, KindAt
  <2>2. calls'["lark"] = calls["lark"]
    <3>1. CASE Len(steps) < Len(plan)
      <4>1. Current # "lark"
        <5>1. Len(steps) + 1 \in 1 .. 3
          BY <2>1, <3>1, CurrentIsSlot DEF StepCalls
        <5>2. \A k \in 1 .. 3 : StepCalls[k] \in {"step1", "step2", "step3"}
          BY DEF StepCalls
        <5>. QED
          BY <5>1, <5>2 DEF Current
      <4>. QED
        BY <1>0, <1>6, <3>1, <4>1 DEF NextStep, Ask
    <3>2. CASE ~(Len(steps) < Len(plan))
      BY <1>6, <3>2 DEF NextStep
    <3>. QED
      BY <3>1, <3>2
  <2>. QED
    BY <2>1, <2>2 DEF ReportInv, Idle
<1>7. CASE AnswerOrRefuse
  <2>1. /\ pc = "lookup" /\ pc' \in {"raised", "model", "done"} /\ job.kind = "rag_qa"
        /\ UNCHANGED <<job, pages, calls>>
    BY <1>7 DEF AnswerOrRefuse, Goes, Awaited, KindAt
  <2>2. CASE pc' = "done"
    <3>1. \E s \in {"ok", "error"} : report' = [evidence |-> FALSE, status |-> s]
      BY <1>7, <2>2 DEF AnswerOrRefuse
    <3>2. report' # None
      BY <3>1, EarlyReports
    <3>. QED
      BY <2>1, <2>2, <3>2 DEF ReportInv, Idle
  <2>3. CASE pc' # "done"
    <3>1. report' = report
      BY <1>7, <2>3 DEF AnswerOrRefuse
    <3>. QED
      BY <2>1, <2>3, <3>1, ReportOnTheWay
  <2>. QED
    BY <2>2, <2>3
<1>8. CASE Parsed
  <2>1. /\ pc = "parsing" /\ job.kind \in {"cashback", "logistics"}
        /\ UNCHANGED <<job, pages, calls>> /\ pc' \in {"raised", "done", "model", "event"}
        /\ IF pc' = "done" THEN report' = [error |-> TRUE] ELSE report' = report
        /\ pc' \in {"model", "event"} => Succeeded("parse")
    BY <1>8 DEF Parsed, Goes, KindAt
  <2>2. CASE pc' = "done"
    <3>1. report' # None
      BY <2>1, <2>2, EarlyReports
    <3>. QED
      BY <2>1, <2>2, <3>1 DEF ReportInv, Idle
  <2>3. CASE pc' # "done"
    BY <2>1, <2>3, ReportOnTheWay
  <2>. QED
    BY <2>2, <2>3
<1>9. CASE EmitAndReturn
  <2>1. pc = "event" /\ UNCHANGED <<job, pages, calls>> /\ job.kind # "load"
    BY <1>9 DEF EmitAndReturn, ReportInv
  <2>2. CASE pc' = "done" /\ report' = Result
    <3>1. job.kind \in {"cashback", "logistics"} => job.file # None
      BY <2>1 DEF ReportInv, Succeeded
    <3>2. report' # None
      BY <1>0, <2>1, <2>2, <3>1, ResultIsReport DEF Shape
    <3>. QED
      BY <2>1, <2>2, <3>2 DEF ReportInv, Idle
  <2>3. CASE pc' = "raised" /\ report' = report
    BY <2>1, <2>3, ReportOnTheWay
  <2>. QED
    BY <1>9, <2>2, <2>3 DEF EmitAndReturn, Goes
<1>10. CASE UNCHANGED jobVars
  BY <1>10 DEF jobVars, ReportInv, Idle, Succeeded
<1>11. CASE Load /\ ~UNCHANGED jobVars
  <2>1. /\ pc = "loading" /\ job.kind = "load" /\ UNCHANGED <<job, pages, calls>>
        /\ pc' \in {"raised", "done"}
        /\ report' = IF pc' = "raised" THEN None
                     ELSE [health |-> IF client.outcome = "failed" THEN "unavailable" ELSE "ok"]
    BY <1>11 DEF Load, Goes, KindAt
  <2>2. report' # None <=> pc' = "done"
    BY <2>1, EarlyReports
  <2>. QED
    BY <2>1, <2>2 DEF ReportInv, Idle
<1>12. CASE SendPage
  <2>1. /\ calls["lark"].at = "running" /\ UNCHANGED <<job, pc, report>>
        /\ calls'["parse"] = calls["parse"]
    BY <1>0, <1>12 DEF SendPage, Returns, HandlerRaises, Finishes, CallsInv
  <2>2. job.kind = "alert" /\ pages = 0
    BY <2>1 DEF ReportInv, PageInv, Idle
  <2>3. pages' \in 0 .. 1
    BY <1>12, <2>2 DEF SendPage
  <2>. QED
    BY <2>1, <2>2, <2>3, ReportCalls
<1>13. CASE ParseFile
  <2>1. /\ calls["parse"].at = "running" /\ UNCHANGED <<job, pc, report, pages>>
        /\ calls'["lark"] = calls["lark"]
        /\ calls'["parse"].status = "success" => job.file # None
    BY <1>0, <1>13 DEF ParseFile, Returns, HandlerRaises, Finishes, CallsInv
  <2>2. ~Succeeded("parse") /\ pages \in 0 .. 1
    BY <2>1 DEF Succeeded, ReportInv
  <2>. QED
    BY <2>1, <2>2, ReportCalls DEF Idle
<1>16. ASSUME NEW s \in Slots, Unavailable(s)
       PROVE  ReportInv'
  <2>1. HandlerEnds(s) /\ s # "parse" /\ UNCHANGED <<job, pc, report, pages>>
    BY <1>16, UnavailableCall DEF Shape
  <2>2. calls'["parse"] = calls["parse"]
    BY <1>0, <2>1 DEF HandlerEnds, Returns, HandlerRaises, Finishes, CallsInv
  <2>3. Idle("lark") => Idle("lark")'
    BY <1>0, <2>1 DEF HandlerEnds, Returns, HandlerRaises, Finishes, CallsInv, Idle
  <2>4. pages \in 0 .. 1
    BY DEF ReportInv
  <2>. QED
    BY <2>1, <2>2, <2>3, <2>4, ReportCalls DEF Succeeded
<1>14. CASE Handler /\ ~SendPage /\ ~ParseFile /\ ~\E s \in Slots : Unavailable(s)
  <2>1. UNCHANGED <<job, pc, report, pages>>
    BY <1>14 DEF Handler, QueryEs, QueryDb, ReadBackend, AskRag, RagAnswers,
       RunTestAction, jobVars
  <2>2. calls'["lark"] = calls["lark"] /\ calls'["parse"] = calls["parse"]
    <3>1. CASE RunTestAction
      BY <1>0, <3>1, CurrentIsStep DEF RunTestAction, Returns, HandlerRaises, Finishes, CallsInv
    <3>2. CASE ~RunTestAction
      BY <1>0, <1>14, <3>2 DEF Handler, QueryEs, QueryDb, ReadBackend, AskRag, RagAnswers,
         jobVars, Returns, HandlerRaises, Finishes, CallsInv
    <3>. QED
      BY <3>1, <3>2
  <2>3. pages \in 0 .. 1
    BY DEF ReportInv
  <2>. QED
    BY <2>1, <2>2, <2>3, ReportCalls DEF Idle, Succeeded
<1>15. ASSUME NEW s \in Slots, Gate(s) \/ Audit(s)
       PROVE  ReportInv'
  <2>1. UNCHANGED <<job, pc, report, pages>> /\ pages \in 0 .. 1
    BY <1>15 DEF Gate, Audit, ReportInv
  <2>2. /\ calls[s].at \in {"gate", "audit"}
        /\ calls'[s].status = "success" => calls[s].status = "success"
    BY <1>15, GateOrAudit
  <2>3. \A r \in Slots \ {s} : calls'[r] = calls[r]
    BY <1>15 DEF Gate, Audit, Finishes, CallsInv
  <2>4. Idle("lark") => Idle("lark")'
    BY <1>0, <2>2, <2>3 DEF Idle
  <2>5. calls'["parse"].status = "success" => calls["parse"].status = "success"
    BY <1>0, <2>2, <2>3
  <2>6. Succeeded("parse") => Succeeded("parse")'
    BY <1>0, <2>2, <2>3 DEF Succeeded
  <2>. QED
    BY <2>1, <2>4, <2>5, <2>6, ReportCalls
<1>. QED
  BY <1>1, <1>2, <1>3, <1>4, <1>5, <1>6, <1>7, <1>8, <1>9, <1>10, <1>11, <1>12, <1>13,
     <1>14, <1>15, <1>16
  DEF Next, JobStep, vars

-----------------------------------------------------------------------------
\* The report of a table that was read is the one computed from its rows.
FileInv ==
  job.kind \in {"cashback", "logistics"} /\ pc = "done" =>
    /\ calls["parse"].at = "done"
    /\ Succeeded("parse") =>
         /\ job.file # None
         /\ report = IF job.kind = "cashback" THEN CashbackReport(job.file)
                     ELSE LogisticsReport(job.file)

\* A table's report is returned after its file was read, or refused because
\* it was not; the call that read it does not move any more.
LEMMA FileStep ==
  ASSUME Shape, KindAt, FreshCalls, CallsInv, ReportInv, FileInv, [Next]_vars
  PROVE  FileInv'
<1>0. job.kind \in Kinds /\ "parse" \in Slots
  BY JobsAssumption DEF Shape, Slots
<1>1. CASE pc = "done"
  <2>1. ~JobStep \/ UNCHANGED jobVars
    BY <1>1 DEF JobStep, Begin, CallModel, ModelAnswers, ModelFails, Meter, Gather, Page,
       Paged, AnswerOrRefuse, RagAnswered, PlanActions, NextStep, StepEnds, Parsed,
       Narrated, EmitAndReturn, Load
  <2>2. UNCHANGED <<job, pc, report>>
    BY <2>1 DEF Next, vars, jobVars, Handler, Unavailable, QueryEs, QueryDb, ReadBackend, AskRag,
       RagAnswers, SendPage, RunTestAction, ParseFile, Gate, Audit
  <2>3. calls["parse"].at = "done" => calls'["parse"] = calls["parse"]
    <3>1. ASSUME NEW s \in Slots, Gate(s) \/ Audit(s), calls["parse"].at = "done"
          PROVE  calls'["parse"] = calls["parse"]
      BY <1>0, <3>1 DEF Gate, Audit, Finishes, CallsInv
    <3>3. ASSUME NEW s \in Slots, Unavailable(s)
          PROVE  calls'["parse"] = calls["parse"]
      <4>1. HandlerEnds(s) /\ s # "parse"
        BY <3>3, UnavailableCall DEF Shape
      <4>. QED
        BY <1>0, <4>1 DEF HandlerEnds, Returns, HandlerRaises, Finishes, CallsInv
    <3>2. CASE Handler /\ ~\E s \in Slots : Unavailable(s)
      BY <1>0, <1>1, <3>2 DEF Handler, QueryEs, QueryDb, ReadBackend, AskRag, RagAnswers,
         SendPage, RunTestAction, ParseFile, jobVars, Returns, HandlerRaises, Finishes,
         CallsInv
    <3>. QED
      BY <2>1, <3>1, <3>2, <3>3 DEF Next, vars, jobVars
  <2>. QED
    BY <1>1, <2>2, <2>3 DEF FileInv, Succeeded
<1>2. CASE pc # "done" /\ pc' = "done" /\ job'.kind \in {"cashback", "logistics"}
  <2>0. job' = job
    BY <1>2, JobUnchanged
  <2>1. Parsed \/ EmitAndReturn
    <3>1. ~Begin
      BY <1>0, <1>2, <2>0 DEF Begin, Goes
    <3>2. ~AnswerOrRefuse /\ ~(Load /\ ~UNCHANGED jobVars)
      BY <1>2, <2>0 DEF AnswerOrRefuse, Load, KindAt
    <3>3. ~CallModel /\ ~ModelFails /\ ~Meter
      BY <1>2 DEF CallModel, ModelFails, Meter, Goes, AfterModelRaises
    <3>4. /\ ~ModelAnswers /\ ~Gather /\ ~Page /\ ~Paged /\ ~RagAnswered
          /\ ~PlanActions /\ ~NextStep /\ ~StepEnds /\ ~Narrated
      BY <1>2 DEF ModelAnswers, Gather, Page, Paged, RagAnswered, PlanActions,
         NextStep, StepEnds, Narrated, Goes, Awaited
    <3>5. ~UNCHANGED pc
      BY <1>2
    <3>6. JobStep
      BY <3>5 DEF Next, vars, jobVars, Handler, Unavailable, QueryEs, QueryDb, ReadBackend, AskRag,
         RagAnswers, SendPage, RunTestAction, ParseFile, Gate, Audit
    <3>. QED
      BY <3>1, <3>2, <3>3, <3>4, <3>5, <3>6 DEF JobStep, jobVars
  <2>2. CASE Parsed
    BY <1>2, <2>2 DEF Parsed, Goes, CallEnded, Succeeded, FileInv
  <2>3. CASE EmitAndReturn
    <3>1. /\ Succeeded("parse") /\ job.file # None /\ UNCHANGED calls /\ report' = Result
      BY <1>2, <2>0, <2>3 DEF EmitAndReturn, Goes, ReportInv, Succeeded
    <3>2. Result = IF job.kind = "cashback" THEN CashbackReport(job.file)
                   ELSE LogisticsReport(job.file)
      BY <1>2, <2>0 DEF Result
    <3>. QED
      BY <2>0, <3>1, <3>2 DEF FileInv, Succeeded
  <2>. QED
    BY <2>1, <2>2, <2>3
<1>3. CASE pc' # "done" \/ job'.kind \notin {"cashback", "logistics"}
  BY <1>3 DEF FileInv
<1>. QED
  BY <1>1, <1>2, <1>3

-----------------------------------------------------------------------------
\* The inductive invariant.
WorkflowsInv ==
  /\ Shape /\ KindAt /\ FreshCalls /\ CallsInv /\ PageInv
  /\ ClientInv /\ OutcomeInv /\ RagInv
  /\ StepsInv /\ ReportInv /\ FileInv

\* No job has begun.
LEMMA InitInv == Init => WorkflowsInv
<1>. SUFFICES ASSUME Init PROVE WorkflowsInv
  OBVIOUS
<1>1. Shape
  <2>1. << >> \in Seq(ActionNames) /\ Len(<< >>) = 0 /\ << >> \in Seq(BOOLEAN)
    OBVIOUS
  <2>2. Len(<< >>) <= Len(StepCalls)
    BY <2>1 DEF StepCalls
  <2>. QED
    BY <2>1, <2>2 DEF Init, Shape, Model, ModelPlans
<1>2. KindAt /\ OutcomeInv
  BY DEF Init, ClientInit, KindAt, OutcomeInv
<1>3. \A s \in Slots : Idle(s)
  BY DEF Init, IdleCall, Idle
<1>4. FreshCalls
  BY <1>3 DEF Init, FreshCalls
<1>5. CallsInv
  BY DEF Init, CallsInv, CallRecorded, IdleCall, Call
<1>6. "lark" \in Slots /\ "rag" \in Slots
  BY DEF Slots, Evidence
<1>7. PageInv
  BY <1>3, <1>6 DEF Init, PageInv, Idle, IdleCall
<1>8. ClientInv
  BY ClientInitInv DEF Init
<1>9. RagInv
  BY <1>6 DEF Init, RagInv, ClientInit, IdleCall
<1>10. StepsInv
  <2>1. << >> \in Seq(ActionNames) /\ Len(<< >>) = 0 /\ DOMAIN << >> = {}
    OBVIOUS
  <2>2. AllOk /\ Done = 0
    BY <2>1 DEF Init, AllOk, Done
  <2>. QED
    BY <2>1, <2>2 DEF Init, StepsInv
<1>11. ReportInv
  BY <1>3, <1>6 DEF Init, ReportInv, Slots, IdleCall
<1>12. FileInv
  BY DEF Init, FileInv
<1>. QED
  BY <1>1, <1>2, <1>4, <1>5, <1>7, <1>8, <1>9, <1>10, <1>11, <1>12 DEF WorkflowsInv

\* Every step preserves the invariant.
LEMMA NextInv ==
  ASSUME WorkflowsInv, [Next]_vars
  PROVE  WorkflowsInv'
<1>. USE DEF WorkflowsInv
<1>1. Shape' /\ KindAt'
  BY ShapeStep, KindAtStep DEF Shape
<1>2. FreshCalls'
  BY FreshStep
<1>3. CallsInv'
  BY NextCalls, CallsStep
<1>4. PageInv' /\ RagInv'
  BY PageStep, RagStep
<1>5. ClientInv' /\ OutcomeInv'
  BY ClientStepOf, ClientStepInv, OutcomeStep
<1>6. StepsInv' /\ ReportInv' /\ FileInv'
  BY StepsStep, ReportStep, FileStep
<1>. QED
  BY <1>1, <1>2, <1>3, <1>4, <1>5, <1>6

\* The invariant holds throughout.
LEMMA WorkflowsInvariant == Spec => []WorkflowsInv
  BY InitInv, NextInv, PTL DEF Spec

\* A workflow uses the RAG client as its life allows, whatever else it does:
\* seen from the client, a job is one run of it.
THEOREM WorkflowsImplementClient == Spec => ClientSpec
<1>1. Init => ClientInit
  BY DEF Init
<1>. QED
  BY <1>1, ClientStepOf, PTL DEF Spec, ClientSpec

\* So a job of any kind leaves the server process alive only in those two cases,
\* and then has no answer of the server to show for it.
THEOREM WorkflowsRelease == Spec => []ClientReleased
  BY WorkflowsImplementClient, ReleaseCorrect, PTL

\* Whichever handlers and audit writes fail, a call is in the gateway's list
\* and in the audit trail as CallsRecorded says, and usage is accounted for.
THEOREM CallsRecordedCorrect == Spec => []CallsRecorded
<1>1. ASSUME WorkflowsInv
      PROVE  CallsRecorded
  <2>1. ASSUME NEW s \in Slots
        PROVE  /\ calls[s].at = "done" =>
                    /\ audited[s] = << calls[s].status >>
                    /\ \/ records[s] = << calls[s].status >>
                       \/ records[s] = <<"success", "error">> /\ calls[s].status = "error"
               /\ calls[s].at = "raised" => audited[s] = << >> /\ records[s] # << >>
    <3>1. << calls[s].status >> # << >> /\ <<"success", "error">> # << >>
      OBVIOUS
    <3>. QED
      BY <1>1, <3>1 DEF WorkflowsInv, CallsInv, CallRecorded
  <2>2. model.at = "answered" /\ model.metered => model.billed = 1
    BY <1>1 DEF WorkflowsInv, Shape
  <2>. QED
    BY <2>1, <2>2 DEF CallsRecorded
<1>. QED
  BY <1>1, WorkflowsInvariant, PTL

\* A page goes out at most once and only if it is called for; it is reported
\* only if it is out, the handler that sends nothing aside; and one that was
\* called for is confirmed or named among the errors.
THEOREM PageMatchesReportCorrect == Spec => []PageMatchesReport
<1>1. ASSUME WorkflowsInv
      PROVE  PageMatchesReport
  <2>1. SUFFICES ASSUME job.kind = "alert"
                 PROVE  /\ pages <= (IF Wanted THEN 1 ELSE 0)
                        /\ report # None =>
                             /\ report.lark_notified => pages = 1 \/ Stubbed("lark_notify")
                             /\ Wanted => report.lark_notified \/ "lark" \in report.tool_errors
    BY DEF PageMatchesReport, Wanted
  <2>2. PageInv
    BY <1>1 DEF WorkflowsInv
  <2>3. pages \in {0, 1} /\ (~Wanted => pages = 0)
    BY <2>1, <2>2 DEF PageInv, Idle
  <2>. QED
    BY <2>1, <2>2, <2>3 DEF PageInv
<1>. QED
  BY <1>1, WorkflowsInvariant, PTL

\* Nothing is asked of the model, and nothing answered, without citations.
THEOREM NoAnswerWithoutEvidenceCorrect == Spec => []NoAnswerWithoutEvidence
<1>1. ASSUME WorkflowsInv
      PROVE  NoAnswerWithoutEvidence
  BY <1>1 DEF WorkflowsInv, RagInv, OutcomeInv, NoAnswerWithoutEvidence
<1>. QED
  BY <1>1, WorkflowsInvariant, PTL

\* The variables stay in their types: among them that a call is recorded at
\* most twice and audited at most once, that a page goes out at most once,
\* and that a report is there exactly when the workflow returned.
THEOREM WorkflowsTypeCorrect == Spec => []WorkflowsTypeOK
<1>1. ASSUME WorkflowsInv
      PROVE  WorkflowsTypeOK
  <2>1. ASSUME NEW s \in Slots
        PROVE  Len(records[s]) <= 2 /\ Len(audited[s]) <= 1
    <3>1. CallRecorded(s) /\ calls[s] \in Call
      BY <1>1 DEF WorkflowsInv, CallsInv
    <3>2. audited[s] = << >> \/ audited[s] = << calls[s].status >>
      BY <3>1 DEF CallRecorded, Call
    <3>3. \/ records[s] = << >> \/ records[s] = << calls[s].status >>
          \/ records[s] = <<"success", "error">>
      BY <3>1 DEF CallRecorded, Call
    <3>4. /\ Len(<< >>) <= 2 /\ Len(<< >>) <= 1
          /\ Len(<< calls[s].status >>) <= 2 /\ Len(<< calls[s].status >>) <= 1
          /\ Len(<<"success", "error">>) <= 2
      OBVIOUS
    <3>. QED
      BY <3>2, <3>3, <3>4
  <2>2. job \in Jobs /\ calls \in [Slots -> Call] /\ client \in Client /\ subprocess \in BOOLEAN
    BY <1>1 DEF WorkflowsInv, Shape, CallsInv, ClientInv
  <2>3. Len(steps) <= Len(plan) /\ pages \in 0 .. 1 /\ (report # None <=> pc = "done")
    BY <1>1 DEF WorkflowsInv, StepsInv, ReportInv
  <2>. QED
    BY <2>1, <2>2, <2>3 DEF WorkflowsTypeOK
<1>. QED
  BY <1>1, WorkflowsInvariant, PTL

\* The steps that succeeded are all, or all but the last.
LEMMA StepsThatSucceeded ==
  ASSUME Shape, StepsInv
  PROVE  /\ Cardinality({ i \in DOMAIN steps : steps[i] }) = Done
         /\ Done \in Nat
<1>1. Len(steps) \in Nat /\ DOMAIN steps = 1 .. Len(steps)
  BY DEF Shape
<1>2. CASE AllOk
  <2>1. { i \in DOMAIN steps : steps[i] } = 1 .. Len(steps)
    BY <1>1, <1>2, Zenon DEF AllOk
  <2>2. Cardinality(1 .. Len(steps)) = Len(steps)
    BY <1>1, CountUpTo
  <2>3. Done = Len(steps)
    BY <1>2 DEF Done
  <2>. QED
    BY <1>1, <2>1, <2>2, <2>3
<1>3. CASE ~AllOk
  <2>1. PICK k \in DOMAIN steps : ~steps[k]
    BY <1>3, Zenon DEF AllOk
  <2>2. \A i \in DOMAIN steps : i < Len(steps) => steps[i]
    BY Zenon DEF StepsInv
  <2>3. k = Len(steps)
    BY <1>1, <2>1, <2>2
  <2>4. { i \in DOMAIN steps : steps[i] } = 1 .. (Len(steps) - 1)
    BY <1>1, <2>1, <2>2, <2>3
  <2>5. Len(steps) - 1 \in Nat
    BY <1>1, <2>1, <2>3
  <2>6. Cardinality(1 .. (Len(steps) - 1)) = Len(steps) - 1
    BY <2>5, CountUpTo
  <2>7. Done = Len(steps) - 1
    BY <1>3 DEF Done
  <2>. QED
    BY <2>4, <2>5, <2>6, <2>7
<1>. QED
  BY <1>2, <1>3

\* The start of a sequence, seen place by place.
LEMMA PrefixByPlaces ==
  ASSUME NEW S, NEW s \in Seq(S), NEW t \in Seq(S), Len(s) <= Len(t),
         \A i \in 1 .. Len(s) : s[i] = t[i]
  PROVE  IsPrefix(s, t)
<1>1. SubSeq(s, 1, Len(s)) \in Seq(S) /\ SubSeq(t, 1, Len(s)) \in Seq(S)
  BY SubSeqProperties
<1>. QED
  BY <1>1, SubSeqProperties, SeqEqual DEF IsPrefix

\* A test run reports its steps in the order of the plan and stops at the
\* first failure; what was created is what the successful steps say, plus at
\* most what the failed or unreported one did, and only in DEV.  With the
\* handler that carries out nothing, nothing is created.
THEOREM StepsArePrefixCorrect == Spec => []StepsArePrefix
<1>1. ASSUME WorkflowsInv
      PROVE  StepsArePrefix
  <2>. DEFINE ok == StepsOk
  <2>1. ok = Done /\ ok \in Nat
    BY <1>1, StepsThatSucceeded DEF WorkflowsInv, StepsOk
  <2>2. /\ plan \in Seq(ActionNames) /\ made \in Seq(ActionNames)
        /\ Len(plan) \in Nat /\ Len(made) \in Nat /\ DOMAIN made = 1 .. Len(made)
    BY <1>1 DEF WorkflowsInv, Shape, StepsInv
  <2>. HIDE DEF ok
  <2>3. /\ Len(made) <= Len(plan) /\ \A i \in 1 .. Len(made) : made[i] = plan[i]
        /\ Acts => ok <= Len(made) /\ Len(made) <= ok + 1
        /\ ~Acts => made = << >>
        /\ made # << >> => EnvOf[job.actor] = "dev"
    BY <1>1, <2>1, <2>2 DEF WorkflowsInv, StepsInv
  <2>4. IsPrefix(made, plan)
    BY <2>2, <2>3, PrefixByPlaces
  <2>5. ASSUME Acts PROVE IsPrefix(SubSeq(plan, 1, ok), made)
    <3>1. /\ SubSeq(plan, 1, ok) \in Seq(ActionNames)
          /\ Len(SubSeq(plan, 1, ok)) = ok
          /\ \A i \in 1 .. ok : SubSeq(plan, 1, ok)[i] = plan[i]
      BY <2>1, <2>2, <2>3, <2>5, SubSeqProperties
    <3>2. \A i \in 1 .. ok : SubSeq(plan, 1, ok)[i] = made[i]
      BY <2>1, <2>2, <2>3, <2>5, <3>1
    <3>. DEFINE done == SubSeq(plan, 1, ok)
    <3>. HIDE DEF done
    <3>3. done \in Seq(ActionNames) /\ Len(done) <= Len(made)
          /\ \A i \in 1 .. Len(done) : done[i] = made[i]
      BY <2>3, <2>5, <3>1, <3>2 DEF done
    <3>4. IsPrefix(done, made)
      BY <2>2, <3>3, PrefixByPlaces
    <3>. QED
      BY <3>4 DEF done
  <2>6. \A i \in DOMAIN steps : i < Len(steps) => steps[i]
    BY <1>1, Zenon DEF WorkflowsInv, StepsInv
  <2>. QED
    BY <2>3, <2>4, <2>5, <2>6, Zenon DEF StepsArePrefix, ok, Acts
<1>. QED
  BY <1>1, WorkflowsInvariant, PTL

\* A reconciliation report that is returned keeps what CashbackSound says,
\* whatever cells the file holds.
THEOREM CashbackReportSoundCorrect == Spec => []CashbackReportSound
<1>1. ASSUME WorkflowsInv
      PROVE  CashbackReportSound
  <2>1. SUFFICES ASSUME job.kind = "cashback", report # None, Succeeded("parse")
                 PROVE  CashbackSound(job.file, report)
    BY DEF CashbackReportSound
  <2>2. pc = "done" /\ job \in Jobs
    BY <1>1, <2>1 DEF WorkflowsInv, ReportInv, Shape
  <2>3. job.file # None /\ report = CashbackReport(job.file)
    BY <1>1, <2>1, <2>2 DEF WorkflowsInv, FileInv
  <2>4. job.file \in Seq(CashbackRow)
    BY <2>1, <2>2, <2>3, JobsAssumption
  <2>. QED
    BY <2>3, <2>4, CashbackReportCorrect
<1>. QED
  BY <1>1, WorkflowsInvariant, PTL

\* A validation report that is returned keeps what LogisticsSound says,
\* whatever cells the file holds.
THEOREM LogisticsReportSoundCorrect == Spec => []LogisticsReportSound
<1>1. ASSUME WorkflowsInv
      PROVE  LogisticsReportSound
  <2>1. SUFFICES ASSUME job.kind = "logistics", report # None, Succeeded("parse")
                 PROVE  LogisticsSound(job.file, report)
    BY DEF LogisticsReportSound
  <2>2. pc = "done" /\ job \in Jobs
    BY <1>1, <2>1 DEF WorkflowsInv, ReportInv, Shape
  <2>3. job.file # None /\ report = LogisticsReport(job.file)
    BY <1>1, <2>1, <2>2 DEF WorkflowsInv, FileInv
  <2>4. job.file \in Seq(LogisticsRow)
    BY <2>1, <2>2, <2>3, JobsAssumption
  <2>. QED
    BY <2>3, <2>4, LogisticsReportCorrect
<1>. QED
  BY <1>1, WorkflowsInvariant, PTL
=============================================================================
