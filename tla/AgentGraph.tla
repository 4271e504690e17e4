----------------------------- MODULE AgentGraph -----------------------------
(***************************************************************************)
(* The agent loop: AgentService.run_message drives the one AgentGraph of   *)
(* the process (orchestrator/graph.py and its nodes), which calls the      *)
(* model, the approval queue and the tool gateway.                         *)
(*                                                                         *)
(* A run is one call of run_message.  Runs of different requests share the *)
(* event loop, and with it the graph object's fields (slot and traced),    *)
(* the checkpoints, the gateway's list of calls and the approval queue.  A *)
(* run gives up the event loop where it awaits the model, a tool handler   *)
(* or the session writer, and between two nodes; so each action below goes *)
(* from one such point to the next.  The write of an event and the trace   *)
(* record that follows it are taken together.                              *)
(***************************************************************************)
EXTENDS ToolPolicy, Lists, FiniteSets, FiniteSetsExt

CONSTANTS
  Runs,          \* the turns that are asked for, each at most once
  Sessions,      \* task sessions; a session is also a LangGraph thread
  People,        \* those who decide approvals; the actors are among them
  Replies,       \* the lists of tool calls a model may answer with
  Registry,      \* the tools registered in the ToolRegistry
  Handlers,      \* the tools the ToolGateway has a handler for
  StepLimit,     \* LangGraph's recursion limit: node executions per run
  MaxActive,     \* bound: how many runs may be under way at once
  None

\* Who asks may decide, too; a model answers with names of tools.
ASSUME GraphAssumption ==
  /\ None \notin Sessions /\ Actors \subseteq People
  /\ Replies \subseteq Seq(ToolNames)
  /\ StepLimit \in Nat /\ MaxActive \in Nat

VARIABLES
  slot,          \* AgentGraph.session_writer: the session it writes to
  traced,        \* AgentGraph._trace_session
  trace,         \* the trace sink: which session was named for which run
  ckpt,          \* MemorySaver: the latest channels of each thread
  events,        \* the event store: the events of each session, as a set
  toolCalls,     \* ToolGateway.tool_calls
  ran,           \* history: the handlers that were started, and for which run
  store, endorsed, \* the approval queue (ApprovalService)
  pc,            \* where each run is
  turn,          \* turn[r]: session, actor and the writer arun will restore
  chan,          \* chan[r]: the channels of the running graph (GraphState)
  steps,         \* steps[r]: nodes executed so far
  done,          \* done[r]: calls of the current batch, as toolCalls indices
  emitted,       \* history: emitted[r] = how many events run r produced
  reply          \* reply[r]: what run_message returned

graphVars == <<slot, traced>>
gateVars  == <<toolCalls, ran, done>>
queueVars == <<store, endorsed>>
vars == <<slot, traced, trace, ckpt, events, toolCalls, ran, store,
          endorsed, pc, turn, chan, steps, done, emitted, reply>>

-----------------------------------------------------------------------------
(***************************************************************************)
(* The channels of GraphState.  A final answer renders the tool results,   *)
(* so it is represented by them.                                           *)
(***************************************************************************)
EmptyChannels ==
  [ messages |-> << >>,  results |-> << >>,  plan |-> None,
    approval |-> "not_required",  pending |-> << >>,  answer |-> None ]

Msg(role, calls) == [role |-> role, calls |-> calls]

\* The calls of the latest assistant message that has any.
LastCalls(ms) ==
  LET asks == { i \in DOMAIN ms : ms[i].role = "assistant"
                                  /\ ms[i].calls # << >> }
  IN  IF asks = {} THEN << >> ELSE ms[Max(asks)].calls

\* plan_node over _derive_plan: keep the calls the actor may make and the
\* registry knows; no call left, no plan.
Usable(a, calls) == Keep(calls, FilterTools(a, Registry))

PlanFor(a, calls) ==
  IF Usable(a, calls) = << >> THEN None ELSE Usable(a, calls)

\* approval_node: the plan's tools, else the model's calls ...
Candidates(c) == IF c.plan = None THEN LastCalls(c.messages) ELSE c.plan

\* Mutant: authorization is forgotten when approvals are collected.
RequiredUnchecked(a, names) ==
  Keep(names, { t \in DOMAIN Policy : ApprovalRequired(t) })

\* ... and those among them that are allowed and need approval.
Required(a, names) ==
  Keep(names, { t \in DOMAIN Policy : Allowed(a, t) /\ ApprovalRequired(t) })

\* Mutant: the gateway trusts the approval node to have stopped the run.
GateWithoutApproval(a, t) ==
  IF ~Allowed(a, t) THEN "error"
  ELSE IF t \notin Handlers THEN "error"
  ELSE "run"

\* ToolGateway.execute_tool, up to the handler; `approved` is never given.
Gate(a, t) ==
  IF ~Allowed(a, t) THEN "error"
  ELSE IF ApprovalRequired(t) THEN "pending_approval"
  ELSE IF t \notin Handlers THEN "error"
  ELSE "run"

-----------------------------------------------------------------------------
(***************************************************************************)
(* The approval queue.  A run asks for at most one approval (asking ends   *)
(* it), so the fresh uuid4 of the approval is represented by the run.      *)
(***************************************************************************)
Subjects ==
  { Required(a, Usable(b, calls)) : a, b \in Actors, calls \in Replies } \cup
  { Required(a, calls) : a \in Actors, calls \in Replies }

MaxRiskOf ==
  [ s \in Subjects |-> Max({1} \cup { Policy[s[i]].risk : i \in DOMAIN s }) ]

Approvals == INSTANCE ApprovalService WITH Ids <- Runs, RiskOf <- MaxRiskOf

ASSUME QueueAssumption == None \notin Approvals!Approval

-----------------------------------------------------------------------------
Session(r) == turn[r].session
Actor(r)   == turn[r].actor

UnderWay == { r \in Runs : pc[r] \notin {"idle", "done", "failed"} }

\* _trace: the sink gets the fields of the graph object as they are now (of
\* a record only the session it names is kept, and whose step it traces).
Trace(r) == trace' = trace \cup {[session |-> traced, run |-> r]}

\* The event of run r that comes next.  An event is told apart by its run
\* and its number in it; how the appends to one session are ordered is the
\* subject of SessionStore.
Event(r, type) ==
  [ run |-> r,  n |-> emitted[r] + 1,  type |-> type,
    results |-> << >>,  calls |-> << >> ]

AppendTo(s, e) ==
  /\ events' = [events EXCEPT ![s] = @ \cup {e}]
  /\ emitted' = [emitted EXCEPT ![e.run] = @ + 1]

\* _emit: the event goes where the writer of the graph object points now.
Emit(r, e) ==
  IF slot = None
  THEN emitted' = [emitted EXCEPT ![r] = @ + 1] /\ UNCHANGED events
  ELSE AppendTo(slot, e)

\* A node ends: its delta is merged, the checkpoint saved, an edge taken.
Commit(r, c, next) ==
  /\ chan' = [chan EXCEPT ![r] = c]
  /\ ckpt' = [ckpt EXCEPT ![Session(r)] = c]
  /\ steps' = [steps EXCEPT ![r] = @ + 1]
  /\ pc' = [pc EXCEPT ![r] = next]

\* A node raises: _run_traced records the error and raises it again.
Raise(r) ==
  /\ Trace(r)
  /\ pc' = [pc EXCEPT ![r] = "raised"]
  /\ UNCHANGED <<chan, ckpt, steps, events, emitted>>

\* The end of a node that emits e: the session writer may fail (the
\* database is away), and then what the node did stays done.
EndNode(r, e, c, next) ==
  \/ /\ Emit(r, e)
     /\ Trace(r)
     /\ Commit(r, c, next)
  \/ /\ slot # None
     /\ Raise(r)

\* Mutant: the limit is off by one.
CanStepOnceMore(r) == steps[r] <= StepLimit

CanStep(r) == steps[r] < StepLimit
-----------------------------------------------------------------------------
\* Mutants: one of the two per-session fields is left as it was.
InstallTraceOnly(s) == traced' = s /\ UNCHANGED slot
InstallWriterOnly(s) == slot' = s /\ UNCHANGED traced

\* arun points the graph object at the session of the call.
Install(s) == slot' = s /\ traced' = s

\* Mutant: the turn starts from nothing.
InputFresh(s) ==
  [EmptyChannels EXCEPT !.messages = <<Msg("user", << >>)>>]

\* ainvoke on the session's thread: its checkpoint takes the new message.
Input(s) == [ckpt[s] EXCEPT !.messages = Append(@, Msg("user", << >>))]

\* run_message up to the first node: the user's message is appended to the
\* session, arun installs its writer and keeps the one it found, and the
\* graph starts on the session's thread.
Start(r, s, a) ==
  /\ pc[r] = "idle"
  /\ Cardinality(UnderWay) < MaxActive
  /\ turn' = [turn EXCEPT ![r] = [session |-> s, actor |-> a, prev |-> slot]]
  /\ Install(s)
  /\ chan' = [chan EXCEPT ![r] = Input(s)]
  /\ ckpt' = [ckpt EXCEPT ![s] = Input(s)]
  /\ AppendTo(s, Event(r, "user"))
  /\ pc' = [pc EXCEPT ![r] = "classify"]
  /\ UNCHANGED <<trace, gateVars, queueVars, steps, reply>>

Classify(r) ==
  /\ pc[r] = "classify" /\ CanStep(r)
  /\ EndNode(r, Event(r, "classify"), chan[r], "context")
  /\ UNCHANGED <<graphVars, gateVars, queueVars, turn, reply>>

\* The prompt and the offered tools do not bind what the model answers.
BuildContext(r) ==
  /\ pc[r] = "context" /\ CanStep(r)
  /\ Trace(r)
  /\ Commit(r, chan[r], "model")
  /\ UNCHANGED <<graphVars, gateVars, queueVars, turn, events, emitted, reply>>

CallModel(r) ==
  /\ pc[r] = "model" /\ CanStep(r)
  /\ pc' = [pc EXCEPT ![r] = "model_wait"]
  /\ UNCHANGED <<graphVars, trace, ckpt, events, gateVars, queueVars, turn,
                 chan, steps, emitted, reply>>

ModelAnswers(r, calls) ==
  /\ pc[r] = "model_wait"
  /\ LET c == [chan[r] EXCEPT !.messages = Append(@, Msg("assistant", calls))]
     IN  EndNode(r, Event(r, "model_call"), c,
                 IF calls = << >> THEN "final" ELSE "plan")
  /\ UNCHANGED <<graphVars, gateVars, queueVars, turn, reply>>

\* No provider, or the provider's call fails: function_call raises.
ModelFails(r) ==
  /\ pc[r] = "model_wait"
  /\ Raise(r)
  /\ UNCHANGED <<graphVars, gateVars, queueVars, turn, reply>>

Plan(r) ==
  /\ pc[r] = "plan" /\ CanStep(r)
  /\ LET plan == PlanFor(Actor(r), LastCalls(chan[r].messages))
     IN  EndNode(r, Event(r, "plan"),
                 [chan[r] EXCEPT !.plan = plan], "approval")
  /\ UNCHANGED <<graphVars, gateVars, queueVars, turn, reply>>

\* Mutant: the node reports "pending" and puts nothing on the queue.
EnqueueNothing(r, needed) == UNCHANGED queueVars

Enqueue(r, needed) ==
  IF needed = << >> THEN UNCHANGED queueVars
  ELSE Approvals!Request(r, Actor(r), needed)

\* Mutant: the tools are dispatched while the approval is open.
AfterApprovalAlwaysTool(needed) == "tool"

\* _route_after_approval
AfterApproval(needed) == IF needed = << >> THEN "tool" ELSE "ended"

\* The approval is on the queue before the event is emitted.
Approval(r) ==
  /\ pc[r] = "approval" /\ CanStep(r)
  /\ LET needed == Required(Actor(r), Candidates(chan[r]))
         state  == IF needed = << >> THEN "not_required" ELSE "pending"
     IN  /\ Enqueue(r, needed)
         /\ EndNode(r, Event(r, "approval"),
                    [chan[r] EXCEPT !.approval = state, !.pending = needed],
                    AfterApproval(needed))
  /\ UNCHANGED <<graphVars, gateVars, turn, reply>>

\* ToolGateway._finish: one record per dispatched call, whatever came of it.
Batch(r)    == LastCalls(chan[r].messages)
NextCall(r) == Batch(r)[Len(done[r]) + 1]

Record(r, status) ==
  /\ toolCalls' = Append(toolCalls,
                         [run |-> r, tool |-> NextCall(r), status |-> status])
  /\ done' = [done EXCEPT ![r] = Append(@, Len(toolCalls) + 1)]

\* tool_node takes the calls of the message one after the other.
RefuseCall(r) ==
  /\ pc[r] = "tool" /\ CanStep(r)
  /\ Len(done[r]) < Len(Batch(r))
  /\ Gate(Actor(r), NextCall(r)) # "run"
  /\ Record(r, Gate(Actor(r), NextCall(r)))
  /\ UNCHANGED <<graphVars, trace, ckpt, events, ran, queueVars, pc, turn, chan,
                 steps, emitted, reply>>

StartHandler(r) ==
  /\ pc[r] = "tool" /\ CanStep(r)
  /\ Len(done[r]) < Len(Batch(r))
  /\ Gate(Actor(r), NextCall(r)) = "run"
  /\ ran' = Append(ran, [run |-> r, actor |-> Actor(r), tool |-> NextCall(r)])
  /\ pc' = [pc EXCEPT ![r] = "tool_wait"]
  /\ UNCHANGED <<graphVars, trace, ckpt, events, toolCalls, queueVars, turn,
                 chan, steps, done, emitted, reply>>

\* Mutant: the failure of a handler skips _finish.
HandlerReturnsUnrecorded(r, status) ==
  /\ pc[r] = "tool_wait"
  /\ IF status = "error" THEN UNCHANGED <<toolCalls, done>>
                         ELSE Record(r, status)
  /\ pc' = [pc EXCEPT ![r] = "tool"]
  /\ UNCHANGED <<graphVars, trace, ckpt, events, ran, queueVars, turn, chan,
                 steps, emitted, reply>>

\* The handler returns or raises; an exception is normalized to an error.
HandlerReturns(r, status) ==
  /\ pc[r] = "tool_wait"
  /\ Record(r, status)
  /\ pc' = [pc EXCEPT ![r] = "tool"]
  /\ UNCHANGED <<graphVars, trace, ckpt, events, ran, queueVars, turn, chan,
                 steps, emitted, reply>>

\* Mutant: the search runs over all the records, the oldest one first.
DetailOfOldest(i, n) ==
  Min({ j \in DOMAIN toolCalls : toolCalls[j].tool = toolCalls[i].tool })

\* The detail shown for a result: _tool_step looks among the last records of
\* the gateway, the latest one first, for a record of the same tool.
DetailOf(i, n) ==
  LET recent == { j \in DOMAIN toolCalls :
                    /\ j > Len(toolCalls) - n
                    /\ toolCalls[j].tool = toolCalls[i].tool }
  IN  IF recent = {} THEN 0 ELSE Max(recent)

ToolEvent(r) ==
  [ Event(r, "tool_call") EXCEPT
      !.results = done[r],
      !.calls = [ k \in DOMAIN done[r] |-> DetailOf(done[r][k], Len(done[r])) ] ]

EndTools(r) ==
  /\ pc[r] = "tool" /\ CanStep(r)
  /\ Len(done[r]) = Len(Batch(r))
  /\ LET outcome == [ k \in DOMAIN done[r] |-> toolCalls[done[r][k]] ]
         replies == [ k \in DOMAIN done[r] |-> Msg("tool", << >>) ]
     IN  EndNode(r, ToolEvent(r),
                 [chan[r] EXCEPT !.messages = @ \o replies,
                                 !.results  = @ \o outcome], "model")
  /\ done' = [done EXCEPT ![r] = << >>]
  /\ UNCHANGED <<graphVars, toolCalls, ran, queueVars, turn, reply>>

\* final_node emits twice; between the two the event loop may run others.
FirstFinal(r) ==
  /\ pc[r] = "final" /\ CanStep(r)
  /\ \/ /\ Emit(r, Event(r, "final"))
        /\ pc' = [pc EXCEPT ![r] = "final_emitted"]
        /\ UNCHANGED <<trace, ckpt, chan, steps>>
     \/ /\ slot # None
        /\ Raise(r)
  /\ UNCHANGED <<graphVars, gateVars, queueVars, turn, reply>>

Final(r) ==
  /\ pc[r] = "final_emitted"
  /\ EndNode(r, Event(r, "session_final"),
             [chan[r] EXCEPT !.answer = chan[r].results], "ended")
  /\ UNCHANGED <<graphVars, gateVars, queueVars, turn, reply>>

\* Mutant: at the limit the run is sent to the node that words the answer.
HitLimitFinish(r) ==
  /\ pc[r] \in {"classify", "context", "model", "plan", "approval", "tool",
                "final"}
  /\ ~CanStep(r)
  /\ pc' = [pc EXCEPT ![r] = "final"]
  /\ UNCHANGED <<graphVars, trace, ckpt, events, gateVars, queueVars, turn,
                 chan, steps, emitted, reply>>

\* GraphRecursionError: another node is due but the limit is reached.
HitLimit(r) ==
  /\ pc[r] \in {"classify", "context", "model", "plan", "approval", "tool",
                "final"}
  /\ ~CanStep(r)
  /\ pc' = [pc EXCEPT ![r] = "raised"]
  /\ UNCHANGED <<graphVars, trace, ckpt, events, gateVars, queueVars, turn,
                 chan, steps, emitted, reply>>

\* Mutant: the writer is put back only when arun returns.
RestoreOnReturn(r) ==
  /\ slot' = IF pc[r] = "ended" THEN turn[r].prev ELSE slot
  /\ UNCHANGED traced

\* arun's finally: the writer found at the start is put back.
Restore(r) == slot' = turn[r].prev /\ UNCHANGED traced

\* run_message after arun: the outcome is read off the final state, appended
\* to the session as the assistant's message, and returned.
Return(r) ==
  /\ pc[r] = "ended"
  /\ Restore(r)
  /\ \/ /\ AppendTo(Session(r), Event(r, "assistant"))
        /\ reply' = [reply EXCEPT ![r] =
                       [ approval |-> chan[r].approval,
                         pending  |-> chan[r].pending,
                         answer   |-> chan[r].answer ]]
        /\ pc' = [pc EXCEPT ![r] = "done"]
     \/ /\ pc' = [pc EXCEPT ![r] = "failed"]
        /\ UNCHANGED <<events, emitted, reply>>
  /\ UNCHANGED <<trace, ckpt, gateVars, queueVars, turn, chan, steps>>

\* The exception leaves arun and run_message: no assistant message.
Unwind(r) ==
  /\ pc[r] = "raised"
  /\ Restore(r)
  /\ pc' = [pc EXCEPT ![r] = "failed"]
  /\ UNCHANGED <<trace, ckpt, events, gateVars, queueVars, turn, chan, steps,
                 emitted, reply>>

-----------------------------------------------------------------------------
Init ==
  /\ slot = None /\ traced = None /\ trace = {}
  /\ ckpt = [s \in Sessions |-> EmptyChannels]
  /\ events = [s \in Sessions |-> {}]
  /\ toolCalls = << >> /\ ran = << >>
  /\ Approvals!Init
  /\ pc = [r \in Runs |-> "idle"]
  /\ turn = [r \in Runs |-> None]
  /\ chan = [r \in Runs |-> EmptyChannels]
  /\ steps = [r \in Runs |-> 0]
  /\ done = [r \in Runs |-> << >>]
  /\ emitted = [r \in Runs |-> 0]
  /\ reply = [r \in Runs |-> None]

\* What the program does once a turn has been asked for.
Step(r) ==
  \/ Classify(r) \/ BuildContext(r) \/ CallModel(r)
  \/ \E calls \in Replies : ModelAnswers(r, calls)
  \/ ModelFails(r) \/ Plan(r) \/ Approval(r)
  \/ RefuseCall(r) \/ StartHandler(r)
  \/ \E status \in {"success", "error"} : HandlerReturns(r, status)
  \/ EndTools(r) \/ FirstFinal(r) \/ Final(r) \/ HitLimit(r) \/ Return(r) \/ Unwind(r)

\* A person decides an approval, through the web console or Lark.
Decision(r, p) ==
  /\ Approvals!Decide(r, p)
  /\ UNCHANGED <<graphVars, trace, ckpt, events, gateVars, pc, turn, chan,
                 steps, emitted, reply>>

Next ==
  \E r \in Runs :
    \/ \E s \in Sessions, a \in Actors : Start(r, s, a)
    \/ Step(r)
    \/ \E p \in People : Decision(r, p)

Spec == Init /\ [][Next]_vars

\* The event loop runs every coroutine that can go on, and the awaited model
\* calls and database writes return or fail.  A tool handler is awaited
\* without a bound (execute_tool), and nothing makes it return.
Fairness == \A r \in Runs : WF_vars(pc[r] # "tool_wait" /\ Step(r))

FairSpec == Spec /\ Fairness
-----------------------------------------------------------------------------
(***************************************************************************)
(* Properties.                                                             *)
(***************************************************************************)
PcValues == {"idle", "classify", "context", "model", "model_wait", "plan",
             "approval", "tool", "tool_wait", "final", "final_emitted",
             "ended", "raised", "done", "failed"}

CallStatus == {"success", "error", "pending_approval"}

TypeOK ==
  /\ slot \in Sessions \cup {None} /\ traced \in Sessions \cup {None}
  /\ \A i \in DOMAIN toolCalls : toolCalls[i].status \in CallStatus
  /\ store \in [Runs -> Approvals!Approval \cup {None}]
  /\ pc \in [Runs -> PcValues]
  /\ steps \in [Runs -> 0 .. StepLimit]
  /\ \A r \in Runs : pc[r] # "idle" =>
       turn[r] \in [session : Sessions, actor : Actors,
                    prev : Sessions \cup {None}]

(***************************************************************************)
(* A handler only ever starts for a tool the actor may use and that needs  *)
(* nobody's approval, in every interleaving and whatever mix of calls the  *)
(* model asks for.  (ToolGateway.execute_tool, the last gate)              *)
(***************************************************************************)
GatedExecution ==
  \A i \in DOMAIN ran :
    LET a == ran[i].actor  t == ran[i].tool
    IN  /\ t \in DOMAIN Policy
        /\ RolesOf[a][1] \in Policy[t].roles /\ EnvOf[a] \in Policy[t].envs
        /\ ~Policy[t].approval /\ Policy[t].risk < 4

(***************************************************************************)
(* A run that has asked for an approval dispatches nothing more: of a mixed *)
(* batch not even the harmless calls are made.  (_route_after_approval)    *)
(***************************************************************************)
CallsOf(calls, r) == { i \in DOMAIN calls : calls[i].run = r }

ApprovalStopsRun ==
  [][\A r \in Runs : store[r] # None =>
       /\ CallsOf(toolCalls', r) = CallsOf(toolCalls, r)
       /\ CallsOf(ran', r) = CallsOf(ran, r)]_vars

(***************************************************************************)
(* The request a person decides names only calls that the gateway would    *)
(* hold back, so a denied call is never put up for approval; and of those  *)
(* calls none is missing that the registry knows.  (plan_node and          *)
(* approval_node against execute_tool)                                     *)
(***************************************************************************)
HeldBack(r) ==
  { t \in Elements(Batch(r)) : Gate(Actor(r), t) = "pending_approval" }

ApprovalCoversBatch ==
  \A r \in Runs : store[r] # None =>
    LET asked == Elements(store[r].subject)
    IN  asked \subseteq HeldBack(r) /\ HeldBack(r) \cap Registry \subseteq asked

(***************************************************************************)
(* Every handler that was started has its record, in the order of the      *)
(* starts, except the one that is still running.  (_finish on each path)   *)
(***************************************************************************)
EveryHandlerRecorded ==
  \A r \in Runs :
    LET started  == Keep(ran, { x \in Elements(ran) : x.run = r })
        recorded == Keep(toolCalls, { x \in Elements(toolCalls) :
                           x.run = r /\ Gate(Actor(r), x.tool) = "run" })
    IN  /\ Len(recorded) = Len(started) - (IF pc[r] = "tool_wait" THEN 1 ELSE 0)
        /\ \A i \in DOMAIN recorded : recorded[i].tool = started[i].tool

(***************************************************************************)
(* A reply that says "pending" lists calls that are on the approval queue, *)
(* asked for by a turn of the same session.  (run_message, approval_node)  *)
(***************************************************************************)
PendingReplyIsQueued ==
  \A r \in Runs : reply[r] # None /\ reply[r].approval = "pending" =>
    \E q \in Runs : /\ store[q] # None
                    /\ Session(q) = Session(r)
                    /\ store[q].subject = reply[r].pending

(***************************************************************************)
(* All the events a run emits, and only they, end up in its own session.   *)
(* (_emit through the shared session_writer)                               *)
(***************************************************************************)
EventsReachOwnSession ==
  \A r \in Runs : pc[r] # "idle" =>
    Cardinality({ e \in events[Session(r)] : e.run = r }) = emitted[r]

(***************************************************************************)
(* Every turn that was begun ends, with a reply or with an error, however  *)
(* often the model asks for tools: in the end the only thing it may still  *)
(* be waiting for is a handler that does not return.  (the recursion       *)
(* limit; execute_tool's await)                                            *)
(***************************************************************************)
EveryTurnEnds ==
  \A r \in Runs : <>[](pc[r] \in {"idle", "done", "failed", "tool_wait"})

(***************************************************************************)
(* A reply says "pending" only if this very turn asked for an approval.    *)
(* (ApprovalState: "for the current run")                                  *)
(***************************************************************************)
PendingIsOfThisTurn ==
  \A r \in Runs : reply[r] # None /\ reply[r].approval = "pending"
                    => store[r] # None

(***************************************************************************)
(* A batch that was approved for someone is not put up for approval again  *)
(* when it is submitted again in the same session.  (README, Q4)           *)
(***************************************************************************)
ApprovedIsReleased ==
  [][\A r \in Runs : store[r] = None /\ store'[r] # None =>
       ~ \E q \in Runs :
           /\ store[q] # None /\ store[q].status = "approved"
           /\ store[q].requester = store'[r].requester
           /\ store[q].subject = store'[r].subject
           /\ Session(q) = Session(r)]_vars
=============================================================================
