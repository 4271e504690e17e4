# fiat-agent: formal models

TLA+ models of fiat-agent, the TLC configurations that check them and TLAPS proofs about them.
The code is the reference; every definition that models code is listed with its file and lines
in `PROJECT.json` (`map`).

Contents: 1 the system, 2 the modules, 3 how the models read the code, 4 the runs,
5 where the code departs from its documentation, 6 the proofs, 7 what is not modelled,
8 what comes next.

## 1. The system

fiat-agent is an assistant for operations teams. A user's message in a *session* starts a *turn*:
a graph of nodes asks a language model, which may answer with tool calls; the calls are authorized
by a policy table, held back for human approval when they are risky, executed otherwise, and their
results go back to the model until it stops asking for tools. One process serves everybody on one
asyncio event loop.

| Component | State | Operations | Hard part |
|---|---|---|---|
| Policy (`auth/`) | the table, constant | `can_execute`, `filter_tools` | first role only; evaluated at four places that must agree |
| Approval queue (`approvals/`) | dictionary of requests | `request`, `approve`, `reject` | two approvers for L5, several channels deciding at once; a person is the name the client sends (`routes/approvals.py:100,122`) |
| Agent graph (`orchestrator/`) | graph object's per-run fields, checkpoints per thread | `arun`, seven nodes | overlapping turns on one shared object; state that outlives a turn |
| Tool gateway (`tool_gateway/gateway.py`) | list of call records | `execute_tool` | last gate; a record whatever happens |
| Agent service (`apps/api/agent_service.py`) | singletons | `run_message` | a turn as a whole: user event, graph, assistant event |
| Session store (`sessions/`) | event rows, tip, branches (database) | `append_event`, `rollback_to_event`, `create_branch`, path reads | read-then-write in concurrent transactions |
| Event bus and stream (`events/`) | counter, ring buffer, live queues | publish, connect, replay, live stream | reconnection without loss or repetition, restart |
| Production submit guard (`workflows/production_submit.py`) | a switch | `submit` | the request is read before the write is awaited |
| Business workflows (`workflows/`) | none; the gateway's list, the audit trail, the chat and the test environment | five `run`s | concurrent calls, a failure at any await, reports that must agree with what happened |
| Tool handlers (`tool_gateway/*_tools.py`) | none | parse, validate, query, notify, act | number formats, check digit, state machine |
| Model gateway (`models/`) | policy, constant; usage sink | `function_call` | fallback order, usage of a failed call |
| RAG MCP client (`mcp_clients/`) | subprocess, session | `start`, `initialize`, call, `close` | release after a failure between two steps |
| Audit service (`audit/`) | append-only list | `record_*` | a write that fails inside the call it records |
| Compaction (`context/`) | none; events of the store | `compact_events`, append | the window is read before the summary is written |
| Service wiring (`agent_service.py`, Lark app) | singletons of each process | `get_*_service` | who shares which queue; construction is awaited |
| CLI, console, MCP adapter, skills, users, configuration | see `PROJECT.json` | | |

How they meet: `run_message` (API, Lark bot, CLI) calls the graph; the graph calls the model
gateway, the approval queue, the tool gateway (which calls the policy and writes the audit log),
and through `session_writer` the session store. People decide requests on the approval queue
through the API. The SSE route reads the event stream; nothing under `src/` outside the tests
publishes on the bus yet, so publishing is an action of the environment in the model. The workflows
are called by their own entry points, not by the graph: they share with it the gateway, the policy,
the model gateway and the audit service, and ask the production submit guard, which reads the
approval queue.

What makes each correct: the queue must never grant without its quorum nor change a decision; the
gates must agree and no handler may start without authorization; a turn's events, traces and
history must belong to its session; the store must keep history immutable, numbered and connected;
the stream must lose and repeat nothing; nothing may be written to production without the quorum,
whatever happens while the write is awaited; a workflow's report must agree with the calls it made,
and it must let go of what it opened. `PROJECT.json` (`hazards`) lists where each can go wrong.

## 2. The modules

| Module | Models | Composes |
|---|---|---|
| `ToolPolicy` | the policy table and the decision | |
| `ApprovalLifecycle` | what the approval queue promises (abstract) | |
| `ApprovalService` | the approval queue | refines `ApprovalLifecycle` |
| `ProductionSubmit` | the submit guard, `submit` of the table workflows, their audit events | `EXTENDS ApprovalService` |
| `AgentGraph` | turns of the agent: service, graph, nodes, gateway | `EXTENDS ToolPolicy`, instantiates `ApprovalService` |
| `TurnOverlap` | what overlapping turns do to each other; adds history variables only | `EXTENDS AgentGraph` |
| `SessionStore` | the events, tip and branches of one session | |
| `SessionMemory` | compaction: read the active path, summarize, append | `EXTENDS SessionStore` |
| `EventStream` | bus, stream manager, SSE clients | |
| `RagMcpClient` | one connection to the RAG server, in the two ways it is driven | |
| `CashbackTable`, `LogisticsTable` | parsing, checks and reports of the two file workflows, as functions | |
| `ModelRouting` | which provider answers a task, as a function | |
| `Workflows` | a job of any workflow: its coroutine, its gateway calls, handlers, model call, events | `EXTENDS ToolPolicy`, `RagMcpClient`, the tables, `ModelRouting` |
| `ServiceWiring` | the singletons of the API and Lark processes | |
| `Lists` | the list comprehension with a condition, and the value of a list of digits, which the modules above are built on | |
| `MC...` | instances for TLC | one each |
| `..._proofs` | theorems | `ApprovalService`, `ProductionSubmit`, `AgentGraph` (with `TurnOverlap`), `SessionStore` (with `SessionMemory`), `EventStream`, `Workflows` (with `RagMcpClient`), `Tables` (the two tables), `Lists` |

`ApprovalService` and `AgentGraph` share the variables `store` and `endorsed`: a turn's approval
node takes the queue's `Request` step, and people take its `Decide` steps between the steps of the
turns. `ProductionSubmit` and `SessionMemory` extend the module they build on and add variables;
every step of theirs either is a step of it or leaves its variables alone. In `Workflows`, a step is
one of the job's coroutine (`JobStep`), of a handler, of a gateway call (`Gate`, `Audit`) or of the
RAG client (`ClientStep`).

## 3. How the models read the code

**Grain of atomicity.** Coroutines of one event loop interleave only at an `await` that suspends.
The approval queue and the audit log are in memory and never suspend, so an operation on them is
one action, or part of the caller's. A turn suspends at a model call, at an asynchronous handler,
at a write to the session store, and between two nodes. `AgentGraph` has one action from each such
point to the next (`CallModel` / `ModelAnswers`, `StartHandler` / `HandlerReturns`, `FirstFinal` /
`Final`, one action per remaining node). The write of an event and the trace record behind it are
one step. The user's event and the installation of the writer are one step, `Start`; a failure of
that first append ends the turn before it touches anything shared and is left out.

**Shared fields of the graph.** `slot` is `self.session_writer` and holds the session it writes to;
`traced` is `self._trace_session`. `Install` writes them, `Emit` and `Trace` read them again at
each node, as the code does; `turn[r].prev` is the writer `arun` puts back in its `finally`.

**Checkpoints.** `ckpt[s]` is what LangGraph's in-memory saver returns for the thread of session
`s`. LangGraph is external: a turn starts from the thread's latest checkpoint merged with its input
and saves all its channels after every node. `messages` and `results` append, the other channels
are overwritten by a node that returns them and survive the turn otherwise. The recursion limit
ends a turn with an exception.

**Data.** A message is its role and its calls, a call is the tool's name, an answer is the list of
results it is rendered from. Task types, texts and arguments are left out: nothing that is checked
depends on them.

**Failures.** The model call, a handler, and each write of a session event may fail. A failed
handler is a result; anything else unwinds the turn through `arun`'s `finally`. A handler may also
never come back: `execute_tool` awaits it without a bound.

**Overlap.** `met` records which turn was under way when which began, `nested` whether every turn that
began later has ended earlier. A turn is `Undisturbed` if none met it; what other turns did to each
other before it began is free.

**Session store.** Each call has its own database session. With SQLite a `SELECT` outside a
transaction reads what is committed, and the first write takes the lock until the commit: so each
read is an action and the writes up to the commit are one. `call[w]` is what the call has read. A
call may fail after any read (`Fail`). Every query is scoped by the session, so one session is
modelled. An explicit parent is one of the existing events, as the callers pass it; the code itself
does not check it.

**Event stream.** Publishing reaches the manager's handler without suspending; connecting runs up
to the first frame. A frame is on the wire until the client has it, and is lost with the
connection; `lastId` is the `Last-Event-ID` the client sends when it returns. `excused` records the
events that had left the ring when the client came: the ring cannot give those back.

**Production submit.** The queue's operations never suspend and a workflow gives the guard no write,
so `WorkflowSubmit` is one step; a `do_submit` is awaited, so `BeginWrite` and `EndWrite` are two,
with anything the queue allows in between. Whether a failed or cancelled write took effect is a
choice (`EndWrite` or `AbortWrite`). Parameters of a write are free: the code does not compare them
with what was approved.

**Workflows.** One job per behaviour: jobs of different workflows share only lists to which each
appends, so a second job adds nothing but interleavings of independent steps. There are two wirings:
adapters for every backend but one, which has no handler, and the gateway `build_agent_service` builds (and
`adapters/claude_code_mcp/server.py:74-95` in the same way), which registers for every backend but
RAG a handler that answers "unavailable", a success to the gateway (`Stubbed`). Inside a job the calls
are machines of their own (`calls[s]`), because `asyncio.gather` runs three at once and leaves the
others running when one raises. Every await may fail: the handler, the audit write, the model, the
usage sink, the event sink, each step of the RAG client; and a backend, or the RAG server, may never
answer at all. What a backend answers is reduced to what
the workflow looks at: citations or none, severe or not, the actions planned. `records` is the
gateway's list per call, `audited` the audit trail, `pages` and `made` what happened outside.

**RAG client.** Python does not run `__aexit__` of a `with` whose `__aenter__` raised: such a client
goes straight to `out`. `load_rag_tools` closes in a `finally`, whatever failed. An exception out of
the session's exit keeps the transport's from running.

**Tables.** A cell is blank, a word, NaN, or digits in groups with the marks between them and the way
its sign is written, so that the rules of `parse_amount` about separators and signs apply to
structure instead of characters. Amounts are integers in units of 1/`Scale`.

**Compaction.** The content of an event never changes, so it is a function of the identifier and the
property quantifies over all contents. The compaction's append is the store's own append with the
last event of the window as explicit parent. Nothing in the program calls the compaction service
itself; `test_compaction.py` does, in this way. With the default `parent_event_id=None`
(`compaction.py:112`) the summary would land on whatever the tip is by then; that is not modelled.

**Service wiring.** A service and its queue bear the name of the call that built them, so that two
first calls build two. `AgentService` has no attribute `graph` (only `_graph`), so the console's look
fails and shows nothing.

**History variables** (never read by a guard): `ran`, `emitted`, `endorsed`, `published`, `heard`,
`received`, `excused`, `written`, `overlapped`, `met`,
`nested`; `moves` and `restarts` count against a bound.

## 4. The runs

Six runs must pass; the longest take about two minutes with two workers. The six that must end in a
counterexample are in section 5.

| Run (configuration) | Checks | Bounds |
|---|---|---|
| `production` (`MCProductionSubmit`) | `SubmitTypeOK`, `QuorumReached`, `WriteNeedsQuorum`, `AuditedSubmitApproved`, `DecisionIsFinal`, `ImplementsLifecycle` | two requests, three people, an L4 and an L5 subject, one task that submits |
| `graph_parallel` (`AgentGraphParallel`) | `TypeOK`, `ApprovalCoversBatch`, `GatedExecution`, `EveryHandlerRecorded`, `PendingReplyIsQueued`, `DetailOfUndisturbed`, `ApprovalStopsRun`, `EveryTurnEnds` | two turns of one session, overlapping or not, four kinds of reply, a registry that lacks two of the names, decisions at any time, handlers that may never return, 7 nodes a turn, fairness; 615,000 states |
| `overlap` (`TurnOverlap`) | `EventsOfUndisturbed`, `TraceOfUndisturbed`, `WriterRestoredIfNested`, `HistoryAccumulates` | three turns, two at a time, two sessions, the model answers at once, 4 nodes a turn; 434,000 states |
| `store` (`MCSessionMemory`) | `TypeOK`, `SeqIsUniqueInTurn`, `ParentsComeFirst`, `CompactionCoversPath`, `SummariesNeverWeaken`, `SingleBranchInTurn`, `OneActiveBranchInTurn`, `PathsAreStable` | two calls at once, three events, two branches, three moves of the tip, four contents; 157,000 states |
| `stream` (`EventStream`) | `TypeOK`, `OnceInOrder`, `NoGapInOneLife`, `EventuallySeen` | two clients of one session, another session, four events, a ring of two, one restart, fairness |
| `workflows` (`MCWorkflows`) | `WorkflowsTypeOK`, `CallsRecorded`, `PageMatchesReport`, `NoAnswerWithoutEvidence`, `StepsArePrefix`, `ClientReleased`, `CashbackReportSound`, `LogisticsReportSound`, `JobEnds` | every kind of job, three actors, the two wirings, files of up to three cashback rows or four logistics rows, backends that may never answer, fairness; 261,000 states |

Why the bounds are enough. Two turns are what it takes to take a field away from one another and to
restore it in the wrong order; `overlap` has a third, which begins when the two are over, or beside
one of them while the other is: it is the one that must not be touched. A fourth adds no new kind
of overlap. The batches of `graph_parallel` are: one of an unknown, a harmless, a denied and
a risky call, which waits; one that is dispatched, with a harmless call and one the registry hides;
and one nothing of which the plan keeps, so that the approval node falls back on the model's calls.
The node limit is 7 instead of 25: enough to pass the tools once, and a turn that used them always
meets the limit; in `overlap`, where the model asks for no tools, 4 nodes are a whole turn: the
fields it is about do not depend on batches. In `store`, three events suffice for two concurrent
appends behind a common parent, for a fork, and for a compaction of a path that another append
leaves behind, or of one that ends in a compaction. A ring of two with four events overflows twice. The
files of `workflows` hold one cell of each way to write an amount, every status that is treated
differently, and an id that comes back late; histories of a parcel are all sequences of four updates,
one more than the shortest that skips a status unnoticed; the card numbers are of even, odd and short
length.

What the properties say is in the comment above each. In short:

- *production*: the properties of the queue hold while somebody submits; `WriteNeedsQuorum` says that
  a decision cannot be taken back between the gate and the end of the write.
- *graph_parallel*: its properties hold in every interleaving, because they rest on state of the
  turn itself; only `DetailOfUndisturbed` excepts turns that met another. `GatedExecution` matters
  where the plan node has trimmed a call that the approval node then does not see; the gateway is the
  gate that holds. `ApprovalCoversBatch` says that nothing else is missing from the request.
- *overlap*: turns do take fields and checkpoints away from each other (sections 1 and 5). These
  properties say how far the damage goes: a turn that met no other is whole, whatever writer was left
  behind (`EventsOfUndisturbed`, `TraceOfUndisturbed`); turns that nest leave nothing behind
  (`WriterRestoredIfNested`); a thread loses no history unless two of its own turns overlapped
  (`HistoryAccumulates`).
- *store*: `ParentsComeFirst`, `PathsAreStable` and the two properties of the compaction hold in every
  interleaving; the properties named `...InTurn` hold until the first time two calls overlap, which
  the history variable `overlapped` remembers.
- *workflows*: what the list, the audit trail, the report and the world outside say of a job agree,
  whichever awaits fail. `PageMatchesReport` and `StepsArePrefix` distinguish the wirings: with the
  handlers that only say "unavailable" a page may be confirmed that never went out (what the first
  property still says is that a page called for is confirmed or named as an error), and steps may be ok
  that made nothing (the second then says that nothing was made). The two reports keep what
  `CashbackSound` and `LogisticsSound` say for every file of the instance, among it comparisons with a
  reference: the total of a file written the American way is the sum of the numbers meant, and a card
  that is not reported passes the Luhn check computed from the right, as the standard states it.
- *symmetry*: runs and sessions are permuted in `overlap`; event, branch and writer identifiers in
  that of the store. The runs with liveness properties use none.
- *deadlock* is not checked: turns, appends and events are bounded, and a system in which all have
  happened may stop.

**Fairness.** `AgentGraph!Fairness` is weak fairness of each turn's own steps except the return of a
handler: the event loop runs what is ready, the model call comes to an end (`providers/openai.py:86`
sets a timeout of 120 s), and a database write returns or fails. A handler is awaited without a bound
(`gateway.py:140`), the RAG client's session has no read timeout (`rag_mcp_client.py:104-115,147`), and
`default_timeout_seconds` (`settings.yaml:47`) is read by nobody; so `EveryTurnEnds` says that a turn
that was begun ends *or waits for a handler*. Nothing makes a user start a turn or a person decide a
request, and no turn waits for a decision. `EventStream!Fairness` is weak fairness of yielding a frame
and of its delivery on a connection that stays up; nobody has to publish, connect or restart.
`Workflows!FairSpec` is weak fairness of the steps of the program itself (`Own`): no backend, and not
the RAG server, has to answer. That the database, the model call and the closing of a client or its
process come to an end is assumed. `JobEnds` then says that every job comes to rest, at its end or at
an answer from outside that it waits for, and at nothing else.

Every property of a passing run has a mutant of the code (a `Mutant:` definition in the module,
listed in `PROJECT.json`) under which TLC finds it violated.

## 5. Where the code departs from what it says

Each of these is a run that must end in a counterexample; `PROJECT.json` (`findings`) quotes the
lines.

| Run | Property | What happens |
|---|---|---|
| `events_misrouted` | `EventsReachOwnSession` | turn A waits for its model; turn B of another session starts and installs its writer; A's next event is written to B's session |
| `stale_pending` | `PendingIsOfThisTurn` | the turn after one that ended pending needs no tool, and reports the old "pending" with the old tools |
| `approval_not_released` | `ApprovedIsReleased` | the approved batch is submitted again and queued again |
| `duplicate_seq` | `SeqIsUnique` | two appends read the same maximum |
| `gap_after_restart` | `NoGap` | the client's cursor is beyond the numbers of the new process |
| `queue_not_shared` | `RequestsAppear` | an agent queues a request, the console looks and is shown nothing: `get_approval_service` asks the service for an attribute it does not have; the Lark cards look at a queue nobody fills |

Four more promises are kept only as long as calls do not overlap. Their cause is that of
`events_misrouted` and `duplicate_seq`, so they are exceptions in the properties of section 4 instead
of runs of their own; take the exception away and TLC finds the counterexample.

- The writer (`graph.py:441-442`: the shared instance "keeps its construction-time callbacks"): A
  starts, B starts and remembers A's writer, A ends, B ends and puts A's writer back for good
  (`WriterRestoredIfNested` without `nested`). Traces go the same way.
- The history of a thread (`graph.py:69-71`: it "accumulates"): of two turns that overlap on one
  session, the checkpoint saved later lacks the messages of the other (`HistoryAccumulates` without
  `OneByOne`).
- The detail of a tool result (`graph.py:279`): of two calls of one tool, in one batch or of two
  overlapping turns, both results may be shown with the later record.
- The tip and the branches (`store.py:297-300`: "a single continuous branch"; `branches.py:64`: "only
  one is active"): two appends read the same tip, two branches are created at once
  (`SingleBranchInTurn`, `OneActiveBranchInTurn` without `overlapped`).

The shortest trace of `queue_not_shared` ends at the missing attribute; that the Lark bot has a queue
of its own, and that two first calls build two services, are in the model behind it.

Found while reading, and in the models as the code has them, but without a run of their own:

- The handlers `build_agent_service` registers for tools whose adapter is not wired return
  `{"status": "unavailable"}` (`agent_service.py:88-102,331-332`), which the gateway records as a
  success: `alert_diagnosis` sets `lark_notified` with no message sent, and `test_automation` reports
  steps as ok with nothing made. `PageMatchesReport` and `StepsArePrefix` except that wiring by name.
- A backend that never answers keeps its job, or its turn, for ever, although `settings.yaml:47`
  has a `default_timeout_seconds` for tools; `JobEnds` and `EveryTurnEnds` name the wait.
- `rag_mcp_client.py:51-53` says that the context manager closes the client even if the handshake
  fails; it does not (`ClientReleased` excepts the case by name).
- `compaction.py:59` orders the decisions approved before rejected; the code (`compaction.py:84`)
  ranks a rejection highest. `SummariesNeverWeaken` holds for either order.
- `parse_amount` drops a minus in front of a number, so a refund counts as income, and keeps one
  behind a currency symbol; a NaN in a paid row ends the reconciliation with an exception.
- The shipped RAG handler gives citations as plain resources, which the workflow turns into blank
  citations: a question counts as having evidence (`HasCitations`).
- An approved production request may be submitted any number of times, with any parameters.

## 6. The proofs

TLAPS checks these for every value of the constants. The assumptions are the named `ASSUME`s of the
modules, which TLC evaluates in the runs:

- `PolicyAssumption`: what the policy table looks like; `GraphAssumption`: actors are among the people
  who decide, a model answers with tool names, the bounds are numbers.
- `ApprovalAssumption`, `SubmitAssumption`, `QueueAssumption`, `StoreAssumption`, `NoneAssumption`:
  `None` is not a person, a request, a row, a report and so on, risks are 1 to 5, identifiers are
  finite in number. `None` is a model value, which TLA+ itself says nothing about.
- `StreamAssumption`: each client belongs to a session, the ring has room for an event.
- `ContentAssumption`: what the summary of an event reads of it.
- `JobsAssumption`: jobs are of a known kind, a file is a list of rows with the columns and the kinds
  of cells that the two table modules describe (`CashbackRow`, `LogisticsRow`), and the action list of
  a test job consists of names and is not longer than the three steps of the model. That the plan made
  from it is one (`_parse_plan` keeps known actions in order) is a lemma, `PlanParsed`.

**Lists** (`Lists_proofs`). Approval, gateway, ring buffer and planner all filter a list.
`KeepPlaces` says what comes out, for lists of any length: the kept elements, each from its own
place, in the order of the places, none forgotten. The induction theorems of the library cannot be
instantiated by the provers, so induction is over a *set* of numbers: `LeastNat` takes the least
number that is not in the set (from the well-foundedness of inclusion on finite sets), and `UpTo`
concludes that a set which holds 0 and with `n` also `n + 1` holds every number up to a bound. The same
two lemmas serve the other inductions (the parent chains, the search for the latest record). That a
recursive function exists and unfolds as it is written is `Recursion`, where the step is a function
and so a value. From it come `ValueRecursion` and `SumReversed` (a sum is the same in both directions),
and with the same inductions `FlattenSeqProperties`.

- `ApprovalService_proofs`: `TypeCorrect`, `QuorumCorrect`, `FinalityCorrect`, `RefinementCorrect`.
  The inductive invariant says how the fields of a request and the accepted votes go together: a
  pending dual request has at most a first approver, an approved one two different ones, all of
  them among those whose call was accepted. The quorum follows; for the refinement each operation
  is mapped to the abstract step it performs (a first approval is a vote, a second or single one a
  grant).
- `ProductionSubmit_proofs`: `SubmitImplementsQueue` carries the theorems of the queue over to the
  composition. `WriteNeedsQuorumCorrect` then rests on finality: the request that let a write through
  is approved, and an approved request never changes again, nor do its votes shrink; so the quorum
  the gate saw is there when the write ends. `AuditedCorrect` comes from the same invariant
  (`SubmitInv`), and `SubmitTypeCorrect` is type correctness.
- `AgentGraph_proofs`, for any number of overlapping turns and any calls the model may invent.
  `GatedExecutionCorrect`: only `StartHandler` extends `ran` and it passes the gate.
  `ApprovalStopsRunCorrect` needs that a turn whose request is on the queue is past its tool node for
  good (`AskedIsOver`), inductive together with the shape of `pc` and the queue (`Shape`).
  `TypeCorrect` needs `GraphInv`: the types hold only because a turn in its tool node has a last
  message with calls, has done no more of them than there are, and counts its nodes below the limit
  (`RunInv`). On `GraphInv` rest
  - `ApprovalCoversBatchCorrect`, for any registry: the plan narrows the batch to what is allowed and
    registered, the approval node looks at the plan or, without one, at the whole batch, and either
    way the request holds only calls the gateway holds back, and all the registered ones
    (`NeededIsHeldBack`). `build_agent_service` registers every tool that has a policy.
  - `PendingReplyIsQueuedCorrect`: a channel that says "pending" was filled by an approval node of the
    same thread (`PendingIsQueued` says so of the channels, the checkpoints and the replies).
  - `EveryHandlerRecordedCorrect`: `AllMatched` compares the two filtered lists of each run, and
    `KeepAppend` tells what one more record does to them.
- `AgentGraph_proofs`, about `TurnOverlap`, again for any number of turns and any bound on how many
  overlap. `OverlapImplementsSpec`: the history variables only watch, so the theorems above hold here
  as well. The inductive invariant is `OverlapInv`, on top of `GraphInv`:
  - `Meetings` says what `met` has recorded: any two turns that are under way together have met, one
    of them first. So a turn that is undisturbed is alone while it is under way.
  - `OwnFields`: while an undisturbed turn is under way, the writer and the trace session on the graph
    object are its own. `TraceOfUndisturbedCorrect` follows, and with `AllCounted`, which counts the
    events of a turn in each session, `EventsOfUndisturbedCorrect`: nobody writes for a turn but the
    turn itself.
  - `WriterChain`: as long as turns are nested, those under way are a stack. The writer is that of the
    youngest, what each will put back is that of the next older one, and the oldest found none.
    `WriterRestoredIfNestedCorrect` is the case of the empty stack.
  - `CkptIsOwn`: on a thread whose turns go one by one, the channels of the turn under way are what the
    checkpoint holds, so that the next save prolongs it (`HistoryAccumulatesCorrect`).
  - `Details`: the records of an undisturbed turn are the last ones on the gateway's list, so that the
    search by name finds them before any older one (`DetailOfUndisturbedCorrect`).
- `SessionStore_proofs`: `TypeCorrect` and `ParentsComeFirstCorrect`, for any number of writers. A
  writer that has read its counter has read its tip before, so the parent's number is below the one
  it is going to write, and stays there because rows are never changed (`ReadsStayTrue`); `TipIsRow`
  says that the tip is a row.
  - `PathsAreStableCorrect`: the path of an event is *the* sequence that ends in it, starts at a root
    and goes from parent to child; parents have smaller numbers, so there is one and only one. A step
    changes no row, so the same sequence is the path afterwards.
  - `MemoryImplementsStore`: every step of the store with compaction is a step of the store, so the
    theorems above hold of it as well (`MemoryKeepsStore`). `CompactionCoversPathCorrect`: what a
    compaction has read is still the path of the parent it will write under (`PathIsRead`), because
    paths are stable. `SummariesNeverWeakenCorrect` follows: the earlier summary's window is a part of
    the later one's, and a maximum over more events is no smaller; a rank that is no smaller is still
    that of a decision, whichever of the two decisions ranks higher.
  - `SeqIsUniqueInTurnCorrect`, `SingleBranchInTurnCorrect`, `OneActiveBranchInTurnCorrect`: before
    the first overlap at most one call is under way, and what it has read (counter, tip, active
    branches) is what the store holds (`ReadIsCurrent` in `TurnInv`); with two calls that fails, and so do
    the properties (`duplicate_seq`).
- `EventStream_proofs`: `TypeCorrect`, `OnceInOrderCorrect`, `NoGapInOneLifeCorrect`, for any number
  of clients, events, reconnections and restarts. An event on its way to a client is on the wire, in
  the replay or in the live queue. `InLine` says that these three stand in line, one after the other
  in rising numbers, and that what is still to come is numbered beyond the client's last; `Ahead` that
  whatever is numbered beyond it was published after all the client has, also when a restart has begun
  the numbers again; `NumbersAgree` that numbers and publication agree within a life. `OneLife`,
  which holds until the first restart, says that what the client has not seen is in line for it.
- `Tables_proofs`, about the functions that compute the reports, for files of any length.
  `LogisticsReportCorrect`: the code reads a card from the left and doubles by the parity of its
  length, the standard reads it from the right (`LuhnBothWays`); rows with an error or a violation are
  the faulty ones (`FaultyRows`), and in a history of legal steps a parcel is delivered only after it
  was out (`OutBeforeDelivered`) and stays returned (`ReturnedIsLast`), each by induction over the rows.
  `CashbackReportCorrect`: the first row of a transaction is nobody's duplicate (`FirstIsKept`), wrong
  rows are counted once (`TallyCorrect`), and for an amount written the American way the rules for
  separators find the decimal point it has (`AmericanPoint`), so that it is read as meant
  (`AmericanAmount`).
- `Workflows_proofs`: `ReleaseCorrect`, about the RAG client by itself: where the client is tells whether
  the process may be alive and whether the block of the `with` was entered (`ClientInv`).
  `WorkflowsImplementClient` (every step of a job is a step of the client's life
  or leaves it alone) gives `WorkflowsRelease`: in every job a server process is left behind only
  after a teardown that raised itself or a failure inside `__aenter__`, and never behind an answer.
  `CallsRecordedCorrect` looks at every step as a step of one call; what makes it inductive is that no
  call is made twice (`FreshCalls`), which follows from the place where the job is and from the number
  of steps a test run has reported. `PageMatchesReportCorrect` and `NoAnswerWithoutEvidenceCorrect` add
  how far the page and the lookup are at each place (`PageInv`, `RagInv`), in either wiring.
  `StepsArePrefixCorrect` adds how what was made in the environment stands to the steps reported, with
  the step under way counted once (`StepsInv`);
  `WorkflowsTypeCorrect` adds what each kind of report looks like (`ReportInv`).
  `CashbackReportSoundCorrect` and `LogisticsReportSoundCorrect` join the machine and the functions: a
  table job that is done has the report of the rows that were read, or none were (`FileInv`), and
  `Tables_proofs` says what that report is worth.

The invariants were checked by TLC on the instances of section 4 before they were proved.

Only model-checked: the liveness properties (`EveryTurnEnds`, `EventuallySeen`, `JobEnds`), which are
out of reach of TLAPS. Every invariant that a passing run checks is proved.

## 7. What is not modelled

`PROJECT.json` (`components`) gives the reason for each. In short:

- I/O and presentation: the HTTP provider of the model gateway, reading files, message formats of the
  Lark bot, the console, the CLI, the MCP adapter, prompt building.
- Code without a caller: the checkpoint repository, `sync_mcp_tools` of the tool registry, `ping` of
  the RAG client, topic subscriptions of the bus.
- No behaviour to explore: users, skills, configuration, logging, errors, migrations; queries of the
  audit trail; creating and listing sessions.
- In the modelled parts: the cancellation of a turn or of a handler (a client that hangs up, a
  shutdown), which leaves a call without a record; the default parent of a compaction; explicit `seq`
  and `id` arguments and the artifacts of the store; the arguments of tool calls (of two calls of one
  tool the approval request keeps the arguments of the first only, `nodes/approval.py:33-40`); the
  contract checks of the ES and DB handlers, which count as an outcome; several jobs at once.

## 8. What could come next

`AgentGraph` composed with `SessionStore`, so that the events of a turn are rows with a parent.
The value of an amount that is not written the American way: `SumsAsMeant` says nothing of it.
