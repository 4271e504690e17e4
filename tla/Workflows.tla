----------------------------- MODULE Workflows ------------------------------
(***************************************************************************)
(* One job of a business workflow (fiat_agent/workflows): the diagnosis of *)
(* an alert, an answer from the knowledge base, a run in the test          *)
(* environment, the reconciliation of a cashback file, the validation of a *)
(* logistics file; or the loading of the RAG server's tools.               *)
(*                                                                         *)
(* Every tool call goes through ToolGateway.execute_tool and is a little   *)
(* machine of its own, because the calls of an alert run concurrently and  *)
(* go on when the job is over.  Handlers, the audit sink, the model and    *)
(* the event sink may fail at each await.  Jobs share only the gateway's   *)
(* lists, to which each call adds records of its own.                      *)
(***************************************************************************)
EXTENDS ToolPolicy, Lists, RagMcpClient, CashbackTable, LogisticsTable,
        ModelRouting

CONSTANTS
  Jobs,          \* the jobs that may be asked for, on which gateway
  None

Kinds == {"alert", "rag_qa", "test", "cashback", "logistics", "load"}

KnownActions == {"create_account", "recharge", "kyc"}
Pipeline     == <<"create_account", "recharge", "kyc">>

\* The actions a caller or a model may name, "" for one that is unknown.
ActionNames == KnownActions \cup {""}

\* Bound: the plans of a model.
ModelPlans == { << >>, <<"kyc">>, <<"", "recharge", "kyc">> }

\* _parse_plan keeps the actions the workflow knows.
ParsePlan(actions) == Keep(actions, KnownActions)

Evidence  == {"es", "db", "rag"}
StepCalls == <<"step1", "step2", "step3">>   \* bound: steps of a test run
Slots     == Evidence \cup {"lark", "parse", "step1", "step2", "step3"}

\* The tools whose adapter build_agent_service does not wire: their handler
\* says so, and that is all it does.
BackendGated == {"es_query", "db_query", "lark_notify", "test_env"}

\* A job comes with the gateway it runs on: wiring.handlers names the tools that
\* have a handler, wiring.stubs those of them whose handler is such a message.
ASSUME JobsAssumption ==
  \A j \in Jobs :
    /\ j.kind \in Kinds /\ j.actor \in Actors
    /\ j.wiring.stubs \subseteq BackendGated
    /\ j.kind = "test" /\ j.actions # None =>
         j.actions \in Seq(ActionNames) /\ Len(j.actions) <= Len(StepCalls)
    /\ j.kind = "cashback" /\ j.file # None => j.file \in Seq(CashbackRow)
    /\ j.kind = "logistics" /\ j.file # None => j.file \in Seq(LogisticsRow)

VARIABLES
  job,           \* what was asked
  pc,            \* where the workflow's coroutine is
  calls,         \* calls[s]: the gateway call of slot s
  records,       \* records[s]: what it appended to gateway.tool_calls
  audited,       \* audited[s]: what of it the audit trail has
  model,         \* the model call
  plan,          \* the actions to run in the test environment
  steps,         \* the steps a test run reports
  pages,         \* messages that went out to the chat
  made,          \* resources created in the test environment
  report         \* what the workflow returned

jobVars == <<job, pc, calls, records, audited, model, plan, steps,
             pages, made, report>>
vars    == <<jobVars, clientVars>>

ToolOf(s) ==
  CASE s = "es"    -> "es_query"
    [] s = "db"    -> "db_query"
    [] s = "rag"   -> "rag_query"
    [] s = "lark"  -> "lark_notify"
    [] s = "parse" -> IF job.kind = "cashback" THEN "cashback_parse"
                      ELSE "logistics_validate"
    [] OTHER       -> "test_env"

Stubbed(tool) == tool \in job.wiring.stubs

IdleCall == [at |-> "idle", status |-> "none", within |-> FALSE]

CallEnded(s) == calls[s].at \in {"done", "raised"}
Succeeded(s) == calls[s].at = "done" /\ calls[s].status = "success"

Goes(place) == pc' = place
-----------------------------------------------------------------------------
(***************************************************************************)
(* ToolGateway.execute_tool                                                *)
(***************************************************************************)
\* The workflow awaits a call, or gathers several.
Ask(slots) ==
  calls' = [s \in Slots |-> IF s \in slots THEN [IdleCall EXCEPT !.at = "gate"]
                            ELSE calls[s]]

\* _finish: the record is appended, then the audit write is awaited.
Finishes(s, status, within) ==
  /\ records' = [records EXCEPT ![s] = Append(@, status)]
  /\ calls' = [calls EXCEPT ![s] = [at |-> "audit", status |-> status, within |-> within]]

\* The gates, up to the call of the handler.
Gate(s) ==
  LET tool == ToolOf(s)
  IN  /\ calls[s].at = "gate"
      /\ IF ~Allowed(job.actor, tool) THEN Finishes(s, "error", FALSE)
         ELSE IF ApprovalRequired(tool) THEN Finishes(s, "pending", FALSE)
         ELSE IF tool \notin job.wiring.handlers THEN Finishes(s, "error", FALSE)
         ELSE /\ calls' = [calls EXCEPT ![s].at = "running"]
              /\ UNCHANGED records
      /\ UNCHANGED <<job, pc, audited, model, plan, steps, pages, made, report, clientVars>>

\* Mutant: a failing audit write after a success is swallowed.
AuditBestEffort(s) ==
  /\ calls[s].at = "audit"
  /\ calls' = [calls EXCEPT ![s].at = "done"]
  /\ audited' \in {audited, [audited EXCEPT ![s] = Append(@, calls[s].status)]}
  /\ UNCHANGED <<job, pc, records, model, plan, steps, pages, made, report, clientVars>>

\* record_tool_call.  If it fails inside the `try`, the handler's success is
\* recorded once more, as an error; otherwise the call raises.
Audit(s) ==
  /\ calls[s].at = "audit"
  /\ \/ /\ audited' = [audited EXCEPT ![s] = Append(@, calls[s].status)]
        /\ calls' = [calls EXCEPT ![s].at = "done"]
        /\ UNCHANGED records
     \/ /\ calls[s].within
        /\ Finishes(s, "error", FALSE)
        /\ UNCHANGED audited
     \/ /\ ~calls[s].within
        /\ calls' = [calls EXCEPT ![s].at = "raised"]
        /\ UNCHANGED <<records, audited>>
  /\ UNCHANGED <<job, pc, model, plan, steps, pages, made, report, clientVars>>

-----------------------------------------------------------------------------
(***************************************************************************)
(* The handlers: each returns, or raises and is recorded as an error.      *)
(***************************************************************************)
Returns(s) == Finishes(s, "success", TRUE)
HandlerRaises(s) == Finishes(s, "error", FALSE)

\* _unavailable_handler_for: {"status": "unavailable"} is returned, a success to
\* the gateway, and nothing is read, sent or carried out.
Unavailable(s) ==
  /\ calls[s].at = "running" /\ Stubbed(ToolOf(s))
  /\ Returns(s)
  /\ UNCHANGED <<job, pc, audited, model, plan, steps, pages, made, report, clientVars>>

\* A read: a contract violation or the backend raises.
ReadBackend(s) ==
  /\ calls[s].at = "running" /\ ~Stubbed(ToolOf(s))
  /\ Returns(s) \/ HandlerRaises(s)
  /\ UNCHANGED <<job, pc, audited, model, plan, steps, pages, made, report, clientVars>>

QueryEs == ReadBackend("es")
QueryDb == ReadBackend("db")

\* rag_query: the handler opens a client of its own ...
AskRag ==
  /\ calls["rag"].at = "running"
  /\ NewClient("with")
  /\ UNCHANGED jobVars

\* ... unless no server is configured; whatever came of it, it returns a dict,
\* an error being one of the values of its "status": a success to the gateway.
RagAnswers ==
  /\ calls["rag"].at = "running" /\ client.at \in {"idle", "out"}
  /\ Returns("rag")
  /\ UNCHANGED <<job, pc, audited, model, plan, steps, pages, made, report, clientVars>>

\* lark_notify: a text that is too long is refused before anything is sent;
\* the client may raise before or after the message is out.
SendPage ==
  /\ calls["lark"].at = "running" /\ ~Stubbed("lark_notify")
  /\ \/ ~job.long /\ pages' = pages + 1 /\ (Returns("lark") \/ HandlerRaises("lark"))
     \/ HandlerRaises("lark") /\ UNCHANGED pages
  /\ UNCHANGED <<job, pc, audited, model, plan, steps, made, report, clientVars>>

\* The step under way in a test run.
Current == StepCalls[Len(steps) + 1]

\* test_env: an action the tool does not know raises; one it knows is carried
\* out, or the backend raises before it is, or after.
RunTestAction ==
  /\ pc = "step_wait" /\ calls[Current].at = "running" /\ ~Stubbed("test_env")
  /\ \/ /\ plan[Len(steps) + 1] \in KnownActions
        /\ made' = Append(made, plan[Len(steps) + 1])
        /\ Returns(Current) \/ HandlerRaises(Current)
     \/ HandlerRaises(Current) /\ UNCHANGED made
  /\ UNCHANGED <<job, pc, audited, model, plan, steps, pages, report, clientVars>>

\* cashback_parse, logistics_validate: a file that cannot be read raises.
ParseFile ==
  /\ calls["parse"].at = "running"
  /\ IF job.file = None THEN HandlerRaises("parse") ELSE Returns("parse")
  /\ UNCHANGED <<job, pc, audited, model, plan, steps, pages, made, report, clientVars>>

Handler ==
  \/ \E s \in Slots : Unavailable(s)
  \/ QueryEs \/ QueryDb
  \/ AskRag \/ RagAnswers \/ SendPage \/ RunTestAction \/ ParseFile
-----------------------------------------------------------------------------
(***************************************************************************)
(* ModelGateway.function_call: select, call, account for the usage.        *)
(***************************************************************************)
TaskOf(kind) ==
  CASE kind = "alert"     -> "alert_diagnosis"
    [] kind = "rag_qa"    -> "rag_qa"
    [] kind = "test"      -> "test_env_automation"
    [] kind = "cashback"  -> "cashback_reconcile"
    [] kind = "logistics" -> "logistics_validation"

\* Where a job goes when its model call raises: the narrative of a table is
\* best effort, everything else fails with the model.
AfterModelRaises == IF job.kind \in {"cashback", "logistics"} THEN "event" ELSE "raised"

CallModel ==
  /\ pc = "model"
  /\ IF SelectProvider(TaskOf(job.kind)) = NoProvider
     THEN Goes(AfterModelRaises) /\ UNCHANGED model
     ELSE Goes("model_wait") /\ model' = [model EXCEPT !.at = "asked"]
  /\ UNCHANGED <<job, calls, records, audited, plan, steps, pages, made, report, clientVars>>

\* What the workflow reads out of the answer: whether the alert is P0 or P1,
\* which actions to run.
ModelAnswers ==
  /\ pc = "model_wait" /\ model.at = "asked"
  /\ \E severe \in BOOLEAN, actions \in ModelPlans,
        metered \in BOOLEAN :
       /\ severe => job.kind = "alert"
       /\ actions # << >> => job.kind = "test"
       /\ model' = [at |-> IF metered THEN "metering" ELSE "answered",
                    severe |-> severe, actions |-> actions, metered |-> metered,
                    billed |-> 0]
  /\ UNCHANGED <<job, pc, calls, records, audited, plan, steps, pages, made, report, clientVars>>

ModelFails ==
  /\ pc = "model_wait" /\ model.at = "asked"
  /\ Goes(AfterModelRaises)
  /\ model' = [model EXCEPT !.at = "failed"]
  /\ UNCHANGED <<job, calls, records, audited, plan, steps, pages, made, report, clientVars>>

\* _emit_usage; when the sink raises the answer is lost.
Meter ==
  /\ pc = "model_wait" /\ model.at = "metering"
  /\ \/ model' = [model EXCEPT !.at = "answered", !.billed = @ + 1] /\ UNCHANGED pc
     \/ model' = [model EXCEPT !.at = "failed"] /\ Goes(AfterModelRaises)
  /\ UNCHANGED <<job, calls, records, audited, plan, steps, pages, made, report, clientVars>>

-----------------------------------------------------------------------------
(***************************************************************************)
(* The workflows.                                                          *)
(***************************************************************************)
Begin ==
  /\ pc = "start"
  /\ CASE job.kind = "alert"  -> Ask(Evidence) /\ Goes("gather") /\ UNCHANGED <<plan, report>>
       [] job.kind = "rag_qa" -> Ask({"rag"}) /\ Goes("lookup") /\ UNCHANGED <<plan, report>>
       [] job.kind \in {"cashback", "logistics"} ->
            Ask({"parse"}) /\ Goes("parsing") /\ UNCHANGED <<plan, report>>
       [] job.kind = "load"   -> Goes("loading") /\ UNCHANGED <<calls, plan, report>>
       [] job.kind = "test"   ->
            IF EnvOf[job.actor] # "dev"
            THEN /\ report' = [refused |-> TRUE]
                 /\ Goes("done") /\ UNCHANGED <<calls, plan>>
            ELSE IF job.actions # None
            THEN plan' = job.actions /\ Goes("step") /\ UNCHANGED <<calls, report>>
            ELSE Goes("model") /\ UNCHANGED <<calls, plan, report>>
  /\ UNCHANGED <<job, records, audited, model, steps, pages, made, clientVars>>

\* Mutant: the job waits for every call before it looks at an exception.
GatherAll ==
  /\ pc = "gather"
  /\ \A s \in Evidence : calls[s].at = "done"
  /\ Goes("model")
  /\ UNCHANGED <<job, calls, records, audited, model, plan, steps, pages, made, report, clientVars>>

\* asyncio.gather: the first exception ends the job, the other calls go on.
Gather ==
  /\ pc = "gather"
  /\ \/ (\A s \in Evidence : calls[s].at = "done") /\ Goes("model")
     \/ (\E s \in Evidence : calls[s].at = "raised") /\ Goes("raised")
  /\ UNCHANGED <<job, calls, records, audited, model, plan, steps, pages, made, report, clientVars>>

\* Mutant: the page goes out without a look at the severity.
PageAlways ==
  /\ pc = "model_wait" /\ job.kind = "alert" /\ model.at = "answered"
  /\ IF job.chat THEN Ask({"lark"}) /\ Goes("paging") ELSE Goes("event") /\ UNCHANGED calls
  /\ UNCHANGED <<job, records, audited, model, plan, steps, pages, made, report, clientVars>>

\* A severe or forced alert is sent to the chat, if there is one; the text of
\* the page raises on a list of services that holds anything but strings.
Page ==
  /\ pc = "model_wait" /\ job.kind = "alert" /\ model.at = "answered"
  /\ IF (job.force \/ model.severe) /\ job.chat
     THEN \/ Ask({"lark"}) /\ Goes("paging")
          \/ Goes("raised") /\ UNCHANGED calls
     ELSE Goes("event") /\ UNCHANGED calls
  /\ UNCHANGED <<job, records, audited, model, plan, steps, pages, made, report, clientVars>>

\* A single call was awaited: it returned, or raised through the workflow.
Awaited(s, place) ==
  /\ CallEnded(s)
  /\ Goes(IF calls[s].at = "raised" THEN "raised" ELSE place)

Paged ==
  /\ pc = "paging" /\ Awaited("lark", "event")
  /\ UNCHANGED <<job, calls, records, audited, model, plan, steps, pages, made, report, clientVars>>

\* _as_merged_rag_context: what of the handler's answer counts as a citation.
HasCitations == client.outcome = "cited"

\* Mutant: only a failed lookup is refused.
AnswerOrRefuseGuess ==
  /\ pc = "lookup"
  /\ Awaited("rag", IF Succeeded("rag") THEN "model" ELSE "done")
  /\ report' = IF pc' = "done"
               THEN [evidence |-> FALSE, status |-> "error"]
               ELSE report
  /\ UNCHANGED <<job, calls, records, audited, model, plan, steps, pages, made, clientVars>>

\* Without citations nothing is asked of the model.
AnswerOrRefuse ==
  /\ pc = "lookup"
  /\ Awaited("rag", IF Succeeded("rag") /\ HasCitations THEN "model" ELSE "done")
  /\ report' = IF pc' = "done"
               THEN [evidence |-> FALSE,
                     status |-> IF Succeeded("rag") THEN "ok" ELSE "error"]
               ELSE report
  /\ UNCHANGED <<job, calls, records, audited, model, plan, steps, pages, made, clientVars>>

RagAnswered ==
  /\ pc = "model_wait" /\ job.kind = "rag_qa" /\ model.at = "answered"
  /\ Goes("event")
  /\ UNCHANGED <<job, calls, records, audited, model, plan, steps, pages, made, report, clientVars>>

\* _plan_actions: what is left of the answer, or the whole pipeline.
PlanActions ==
  /\ pc = "model_wait" /\ job.kind = "test" /\ model.at = "answered"
  /\ plan' = IF ParsePlan(model.actions) = << >> THEN Pipeline
             ELSE ParsePlan(model.actions)
  /\ Goes("step")
  /\ UNCHANGED <<job, calls, records, audited, model, steps, pages, made, report, clientVars>>

NextStep ==
  /\ pc = "step"
  /\ IF Len(steps) < Len(plan)
     THEN Ask({Current}) /\ Goes("step_wait")
     ELSE Goes("event") /\ UNCHANGED calls
  /\ UNCHANGED <<job, records, audited, model, plan, steps, pages, made, report, clientVars>>

\* Mutant: the run goes on after a failed step.
StepEndsAnyway ==
  /\ pc = "step_wait"
  /\ Awaited(Current, "step")
  /\ steps' = IF calls[Current].at = "raised" THEN steps
              ELSE Append(steps, Succeeded(Current))
  /\ UNCHANGED <<job, calls, records, audited, model, plan, pages, made, report, clientVars>>

\* The step is reported, TRUE for "ok"; a failed one is the last.
StepEnds ==
  /\ pc = "step_wait"
  /\ Awaited(Current, IF Succeeded(Current) THEN "step" ELSE "event")
  /\ steps' = IF calls[Current].at = "raised" THEN steps
              ELSE Append(steps, Succeeded(Current))
  /\ UNCHANGED <<job, calls, records, audited, model, plan, pages, made, report, clientVars>>

\* A file that was not parsed is an error report; NaN may raise.
Parsed ==
  /\ pc = "parsing" /\ CallEnded("parse")
  /\ IF calls["parse"].at = "raised" THEN Goes("raised") /\ UNCHANGED report
     ELSE IF ~Succeeded("parse") THEN report' = [error |-> TRUE] /\ Goes("done")
     ELSE IF job.kind = "cashback" /\ Raises(job.file)
     THEN Goes("raised") /\ UNCHANGED report
     ELSE Goes(IF job.narrated THEN "model" ELSE "event") /\ UNCHANGED report
  /\ UNCHANGED <<job, calls, records, audited, model, plan, steps, pages, made, clientVars>>

\* _narrate
Narrated ==
  /\ pc = "model_wait" /\ job.kind \in {"cashback", "logistics"} /\ model.at = "answered"
  /\ Goes("event")
  /\ UNCHANGED <<job, calls, records, audited, model, plan, steps, pages, made, report, clientVars>>

Result ==
  CASE job.kind = "alert" ->
         [ lark_notified |-> Succeeded("lark"),
           tool_errors   |-> { s \in Evidence \cup {"lark"} :
                                 calls[s].at = "done" /\ ~Succeeded(s) } ]
    [] job.kind = "rag_qa"    -> [evidence |-> TRUE, status |-> "ok"]
    [] job.kind = "test"      -> [refused |-> FALSE]
    [] job.kind = "cashback"  -> CashbackReport(job.file)
    [] job.kind = "logistics" -> LogisticsReport(job.file)

\* None stands for a workflow that returned nothing: no report is None.
ASSUME NoneAssumption ==
  /\ None \notin
       [lark_notified : BOOLEAN, tool_errors : SUBSET (Evidence \cup {"lark"})]
         \cup [evidence : BOOLEAN, status : {"ok", "error"}]
         \cup [refused : BOOLEAN] \cup [error : BOOLEAN]
         \cup [health : {"ok", "unavailable"}]
  /\ \A j \in Jobs :
       /\ j.kind = "cashback" /\ j.file # None => CashbackReport(j.file) # None
       /\ j.kind = "logistics" /\ j.file # None => LogisticsReport(j.file) # None

\* Mutant: a failing sink is swallowed, and the result with it.
EmitOrReturn ==
  /\ pc = "event"
  /\ Goes("done")
  /\ report' \in {Result, report}
  /\ UNCHANGED <<job, calls, records, audited, model, plan, steps, pages, made, clientVars>>

\* The event sink is awaited, if there is one; when it raises the result is
\* lost.
EmitAndReturn ==
  /\ pc = "event"
  /\ \/ Goes("done") /\ report' = Result
     \/ Goes("raised") /\ UNCHANGED report
  /\ UNCHANGED <<job, calls, records, audited, model, plan, steps, pages, made, clientVars>>

\* load_rag_tools: a failure gives no tools, except one of the teardown.
Load ==
  /\ pc = "loading"
  /\ \/ NewClient("load") /\ UNCHANGED jobVars
     \/ /\ client.at = "out"
        /\ Goes(IF client.outcome = "raised" THEN "raised" ELSE "done")
        /\ report' = IF client.outcome = "raised" THEN None
                     ELSE [health |-> IF client.outcome = "failed" THEN "unavailable" ELSE "ok"]
        /\ UNCHANGED <<job, calls, records, audited, model, plan, steps, pages, made, clientVars>>

JobStep ==
  \/ Begin \/ CallModel \/ ModelAnswers \/ ModelFails \/ Meter
  \/ Gather \/ Page \/ Paged \/ AnswerOrRefuse \/ RagAnswered
  \/ PlanActions \/ NextStep \/ StepEnds \/ Parsed \/ Narrated
  \/ EmitAndReturn \/ Load

Init ==
  /\ job \in Jobs
  /\ pc = "start"
  /\ calls = [s \in Slots |-> IdleCall]
  /\ records = [s \in Slots |-> << >>]
  /\ audited = [s \in Slots |-> << >>]
  /\ model = [at |-> "idle", severe |-> FALSE, actions |-> << >>,
              metered |-> FALSE, billed |-> 0]
  /\ plan = << >> /\ steps = << >>
  /\ pages = 0 /\ made = << >>
  /\ report = None
  /\ ClientInit

Next ==
  \/ JobStep \/ Handler
  \/ \E s \in Slots : Gate(s) \/ Audit(s)
  \/ ClientStep /\ UNCHANGED jobVars

Spec == Init /\ [][Next]_vars

\* What the program does by itself goes on; so does a model call, which the
\* provider bounds.  Not among it: the answers of the backends and of the RAG
\* server, which no timeout bounds.
Own ==
  \/ JobStep \/ AskRag \/ RagAnswers \/ ParseFile
  \/ \E s \in Slots : Unavailable(s) \/ Gate(s) \/ Audit(s)
  \/ (Spawn \/ OpenSession \/ CloseSession \/ CloseProcess) /\ UNCHANGED jobVars

FairSpec == Spec /\ WF_vars(Own)
-----------------------------------------------------------------------------
Call == [ at : {"idle", "gate", "running", "audit", "done", "raised"},
          status : {"none", "success", "error", "pending"}, within : BOOLEAN ]

WorkflowsTypeOK ==
  /\ job \in Jobs
  /\ calls \in [Slots -> Call]
  /\ \A s \in Slots : Len(records[s]) <= 2 /\ Len(audited[s]) <= 1
  /\ client \in Client /\ subprocess \in BOOLEAN
  /\ Len(steps) <= Len(plan)
  /\ pages \in 0 .. 1
  /\ report # None <=> pc = "done"

(***************************************************************************)
(* A call that came back is in the audit trail once, with the status the   *)
(* workflow saw; one that raised is not, though the gateway's list has it. *)
(* The list holds one record of a call, or a success and then an error     *)
(* when the audit write of the success failed.  And the usage of an answer *)
(* a workflow works with is accounted for.  (_finish, _emit_usage)         *)
(***************************************************************************)
CallsRecorded ==
  /\ \A s \in Slots :
       /\ calls[s].at = "done" =>
            /\ audited[s] = << calls[s].status >>
            /\ \/ records[s] = << calls[s].status >>
               \/ records[s] = <<"success", "error">> /\ calls[s].status = "error"
       /\ calls[s].at = "raised" => audited[s] = << >> /\ records[s] # << >>
  /\ model.at = "answered" /\ model.metered => model.billed = 1

(***************************************************************************)
(* A page goes out at most once and only for a severe or forced alert; it  *)
(* is reported only if it went out, except with the handler that sends     *)
(* nothing and yet succeeds; and one that was called for is either         *)
(* confirmed or named among the errors, never silently lost.               *)
(* (AlertDiagnosisWorkflow.run, lark_notified)                             *)
(***************************************************************************)
PageMatchesReport ==
  LET wanted == (job.force \/ model.severe) /\ job.chat
  IN  job.kind = "alert" =>
        /\ pages <= (IF wanted THEN 1 ELSE 0)
        /\ report # None =>
             /\ report.lark_notified => pages = 1 \/ Stubbed("lark_notify")
             /\ wanted => report.lark_notified \/ "lark" \in report.tool_errors

(***************************************************************************)
(* A question is answered only with citations the server gave for it, and  *)
(* refused without a word from the model otherwise.  (RagQaWorkflow:       *)
(* "Refuse when there is no evidence - never guess")                       *)
(***************************************************************************)
NoAnswerWithoutEvidence ==
  job.kind = "rag_qa" =>
    /\ model.at # "idle" => client.outcome = "cited" /\ ~client.stuck
    /\ report # None =>
         IF report.evidence THEN model.at = "answered" ELSE model.at = "idle"

\* The steps a test run reports as "ok".
StepsOk == Cardinality({ i \in DOMAIN steps : steps[i] })

(***************************************************************************)
(* A test run reports its steps in the order of the plan and stops at the  *)
(* first failure; what was created is what the successful steps say, plus  *)
(* at most what the failed or unreported one did, and only in DEV.  With   *)
(* the handler that carries out nothing there is nothing created, although *)
(* every step may be reported as successful.                               *)
(***************************************************************************)
StepsArePrefix ==
  /\ \A i \in DOMAIN steps : i < Len(steps) => steps[i]
  /\ IF Stubbed("test_env")
     THEN made = << >>
     ELSE /\ IsPrefix(SubSeq(plan, 1, StepsOk), made) /\ IsPrefix(made, plan)
          /\ Len(made) <= StepsOk + 1
  /\ made # << >> => EnvOf[job.actor] = "dev"

(***************************************************************************)
(* A reconciliation report that is returned keeps what CashbackSound says, *)
(* whatever the file holds.  (_reconcile: the numbers are deterministic)   *)
(***************************************************************************)
CashbackReportSound ==
  job.kind = "cashback" /\ report # None /\ Succeeded("parse") =>
    CashbackSound(job.file, report)

(***************************************************************************)
(* A validation report that is returned keeps what LogisticsSound says,    *)
(* whatever the file holds.                                                *)
(***************************************************************************)
LogisticsReportSound ==
  job.kind = "logistics" /\ report # None /\ Succeeded("parse") =>
    LogisticsSound(job.file, report)

\* The call waits for an answer from outside, for which there is no timeout.
AwaitsOutside(s) ==
  /\ calls[s].at = "running"
  /\ IF s = "rag" THEN client.at \in {"handshake", "use"}
     ELSE s # "parse" /\ ~Stubbed(ToolOf(s))

\* The calls the workflow's coroutine awaits where it is.
AwaitedCalls ==
  CASE pc = "gather"    -> Evidence
    [] pc = "lookup"    -> {"rag"}
    [] pc = "paging"    -> {"lark"}
    [] pc = "parsing"   -> {"parse"}
    [] pc = "step_wait" -> {Current}
    [] OTHER            -> {}

\* Every coroutine is at its end, or waits for an answer from outside.
Settled ==
  /\ \A s \in Slots : calls[s].at \in {"idle", "done", "raised"} \/ AwaitsOutside(s)
  /\ client.at \in {"idle", "out", "handshake", "use"}
  /\ \/ pc \in {"done", "raised"}
     \/ /\ \E s \in AwaitedCalls : AwaitsOutside(s)
        /\ \A s \in AwaitedCalls : calls[s].at # "raised"
     \/ pc = "loading" /\ client.at \in {"handshake", "use"}

(***************************************************************************)
(* Every job comes to an end, with every call it made and the server       *)
(* connection it opened, whatever failed on the way, unless a backend or   *)
(* the RAG server never answers; then it waits for that answer and for     *)
(* nothing else, and one exception among the calls it gathers ends it all  *)
(* the same.                                                               *)
(***************************************************************************)
JobEnds == <>[]Settled
=============================================================================
