------------------------- MODULE AgentGraph_proofs -------------------------
(***************************************************************************)
(* Theorems about AgentGraph, for any number of runs and sessions, any     *)
(* policy table and whatever the models answer.                            *)
(***************************************************************************)
EXTENDS TurnOverlap, Lists_proofs, SequenceTheorems, TLAPS

IsSeq(s) == s \in Seq({ s[i] : i \in DOMAIN s })

(***************************************************************************)
(* A run with a request on the queue is past its approval node: it ended,  *)
(* or it raised.  Needed because the dispatching actions do not look at    *)
(* the queue; they are stopped by where the run is.                        *)
(***************************************************************************)
Over == {"ended", "raised", "done", "failed"}

AskedIsOver == \A r \in Runs : store[r] # None => pc[r] \in Over

Shape ==
  /\ pc \in [Runs -> PcValues]
  /\ DOMAIN store = Runs
  /\ IsSeq(toolCalls)
  /\ IsSeq(ran)

IInv == Shape /\ AskedIsOver /\ GatedExecution

-----------------------------------------------------------------------------
\* Appending to a sequence keeps its elements and adds one.
LEMMA AppendGrows ==
  ASSUME NEW s, NEW x, IsSeq(s)
  PROVE  /\ IsSeq(Append(s, x))
         /\ DOMAIN Append(s, x) = DOMAIN s \cup {Len(s) + 1}
         /\ Len(s) + 1 \notin DOMAIN s
         /\ Append(s, x)[Len(s) + 1] = x
         /\ \A i \in DOMAIN s : Append(s, x)[i] = s[i]
  <1> DEFINE S == { s[i] : i \in DOMAIN s }
  <1>1. s \in Seq(S)
    BY DEF IsSeq
  <1>2. s \in Seq(S \cup {x})
    BY <1>1
  <1>3. /\ Append(s, x) \in Seq(S \cup {x})
        /\ Len(s) \in Nat /\ DOMAIN s = 1 .. Len(s)
        /\ DOMAIN Append(s, x) = 1 .. Len(s) + 1
        /\ Append(s, x)[Len(s) + 1] = x
        /\ \A i \in 1 .. Len(s) : Append(s, x)[i] = s[i]
    BY <1>2
  <1>4. DOMAIN Append(s, x) = DOMAIN s \cup {Len(s) + 1}
    BY <1>3
  <1>5. Append(s, x) \in Seq({ Append(s, x)[i] : i \in DOMAIN Append(s, x) })
    BY <1>3
  <1> QED
    BY <1>3, <1>4, <1>5 DEF IsSeq

-----------------------------------------------------------------------------
\* A handler is started by StartHandler alone, and past the gate.
LEMMA RanStep ==
  ASSUME [Next]_vars
  PROVE  \/ ran' = ran
         \/ \E r \in Runs :
              /\ pc[r] = "tool"
              /\ Gate(Actor(r), NextCall(r)) = "run"
              /\ ran' = Append(ran, [run   |-> r, actor |-> Actor(r),
                                     tool  |-> NextCall(r)])
  <1>1. CASE UNCHANGED vars
    BY <1>1 DEF vars
  <1>2. ASSUME NEW r \in Runs, Step(r)
        PROVE  \/ ran' = ran
               \/ /\ pc[r] = "tool"
                  /\ Gate(Actor(r), NextCall(r)) = "run"
                  /\ ran' = Append(ran, [run   |-> r, actor |-> Actor(r),
                                         tool  |-> NextCall(r)])
    BY <1>2 DEF Step, Classify, BuildContext, CallModel, ModelAnswers,
         ModelFails, Plan, Approval, RefuseCall, StartHandler, HandlerReturns,
         EndTools, FirstFinal, Final, HitLimit, Return, Unwind, gateVars
  <1>3. ASSUME NEW r \in Runs, NEW s \in Sessions, NEW a \in Actors, Start(r, s, a)
        PROVE  ran' = ran
    BY <1>3 DEF Start, gateVars
  <1>4. ASSUME NEW r \in Runs, NEW p \in People, Decision(r, p)
        PROVE  ran' = ran
    BY <1>4 DEF Decision, gateVars
  <1> QED
    BY <1>1, <1>2, <1>3, <1>4 DEF Next

\* A record is added by a run that is in its tool node.
LEMMA CallsStep ==
  ASSUME [Next]_vars
  PROVE  \/ toolCalls' = toolCalls
         \/ \E r \in Runs, status \in CallStatus :
              /\ pc[r] \in {"tool", "tool_wait"}
              /\ toolCalls' = Append(toolCalls, [run |-> r, tool |-> NextCall(r),
                                                 status |-> status])
  <1>1. CASE UNCHANGED vars
    BY <1>1 DEF vars
  <1>2. ASSUME NEW r \in Runs, Step(r)
        PROVE  \/ toolCalls' = toolCalls
               \/ \E status \in CallStatus :
                    pc[r] \in {"tool", "tool_wait"} /\ Record(r, status)
    <2>1. CASE RefuseCall(r)
      <3>1. Gate(Actor(r), NextCall(r)) \in CallStatus
        BY <2>1 DEF RefuseCall, Gate, CallStatus
      <3> QED
        BY <2>1, <3>1 DEF RefuseCall
    <2>2. ASSUME NEW status \in {"success", "error"}, HandlerReturns(r, status)
          PROVE  /\ status \in CallStatus
                 /\ pc[r] \in {"tool", "tool_wait"} /\ Record(r, status)
      BY <2>2 DEF HandlerReturns, CallStatus
    <2> QED
      BY <1>2, <2>1, <2>2 DEF Step, Classify, BuildContext, CallModel,
         ModelAnswers, ModelFails, Plan, Approval, StartHandler, EndTools,
         FirstFinal, Final, HitLimit, Return, Unwind, gateVars
  <1>3. ASSUME NEW r \in Runs, NEW s \in Sessions, NEW a \in Actors, Start(r, s, a)
        PROVE  toolCalls' = toolCalls
    BY <1>3 DEF Start, gateVars
  <1>4. ASSUME NEW r \in Runs, NEW p \in People, Decision(r, p)
        PROVE  toolCalls' = toolCalls
    BY <1>4 DEF Decision, gateVars
  <1> QED
    BY <1>1, <1>2, <1>3, <1>4 DEF Next, Record

-----------------------------------------------------------------------------
\* What the gate lets through is what GatedExecution asks for.
LEMMA GateLetsThrough ==
  ASSUME NEW a, NEW t, Gate(a, t) = "run"
  PROVE  /\ t \in DOMAIN Policy
         /\ RolesOf[a][1] \in Policy[t].roles /\ EnvOf[a] \in Policy[t].envs
         /\ ~Policy[t].approval /\ Policy[t].risk < 4
  <1>1. t \in DOMAIN Policy /\ AllowsRoleEnv(a, t) /\ ~ApprovalRequired(t)
    BY DEF Gate, Allowed
  <1>2. Policy[t].risk \in 1 .. 5
    BY <1>1, PolicyAssumption DEF RiskLevels
  <1>3. Policy[t].risk \notin {4, 5}
    BY <1>1 DEF ApprovalRequired, HighRisk
  <1> QED
    BY <1>1, <1>2, <1>3 DEF AllowsRoleEnv, ApprovalRequired

\* Only StartHandler extends the list of started handlers, and it is gated.
LEMMA GatedStep ==
  ASSUME IsSeq(ran), GatedExecution, [Next]_vars
  PROVE  GatedExecution' /\ IsSeq(ran)'
  <1>1. CASE ran' = ran
    BY <1>1 DEF GatedExecution, IsSeq
  <1>2. ASSUME NEW r \in Runs, Gate(Actor(r), NextCall(r)) = "run",
               ran' = Append(ran, [run |-> r, actor |-> Actor(r),
                                   tool |-> NextCall(r)])
        PROVE  GatedExecution' /\ IsSeq(ran)'
    <2> DEFINE x == [run |-> r, actor |-> Actor(r), tool |-> NextCall(r)]
    <2>1. /\ IsSeq(Append(ran, x))
          /\ DOMAIN ran' = DOMAIN ran \cup {Len(ran) + 1}
          /\ ran'[Len(ran) + 1] = x
          /\ \A i \in DOMAIN ran : ran'[i] = ran[i]
      BY <1>2, AppendGrows
    <2>2. x.actor = Actor(r) /\ x.tool = NextCall(r)
      OBVIOUS
    <2>3. SUFFICES ASSUME NEW i \in DOMAIN ran'
                   PROVE  /\ ran'[i].tool \in DOMAIN Policy
                          /\ RolesOf[ran'[i].actor][1] \in Policy[ran'[i].tool].roles
                          /\ EnvOf[ran'[i].actor] \in Policy[ran'[i].tool].envs
                          /\ ~Policy[ran'[i].tool].approval
                          /\ Policy[ran'[i].tool].risk < 4
      BY <1>2, <2>1 DEF GatedExecution, IsSeq
    <2>4. CASE i = Len(ran) + 1
      BY <1>2, <2>1, <2>2, <2>4, GateLetsThrough
    <2>5. CASE i \in DOMAIN ran
      BY <2>1, <2>5 DEF GatedExecution
    <2> QED
      BY <2>1, <2>4, <2>5
  <1> QED
    BY <1>1, <1>2, RanStep

\* The list of records stays a list.
LEMMA CallsStaySeq ==
  ASSUME IsSeq(toolCalls), [Next]_vars
  PROVE  IsSeq(toolCalls)'
  <1>1. CASE toolCalls' = toolCalls
    BY <1>1 DEF IsSeq
  <1>2. ASSUME NEW x, toolCalls' = Append(toolCalls, x)
        PROVE  IsSeq(toolCalls)'
    <2>1. IsSeq(Append(toolCalls, x))
      BY AppendGrows
    <2> QED
      BY <1>2, <2>1 DEF IsSeq
  <1> QED
    BY <1>1, <1>2, CallsStep

-----------------------------------------------------------------------------
\* A run is moved by itself alone, and not back once it is over.
LEMMA PcStep ==
  ASSUME [Next]_vars
  PROVE  \/ pc' = pc
         \/ \E r \in Runs, v \in PcValues :
              pc' = [pc EXCEPT ![r] = v] /\ (pc[r] \in Over => v \in Over)
  <1> DEFINE Moves(r) ==
        \E v \in PcValues :
          pc' = [pc EXCEPT ![r] = v] /\ (pc[r] \in Over => v \in Over)
  <1>1. CASE UNCHANGED vars
    BY <1>1 DEF vars
  <1>2. ASSUME NEW r \in Runs, NEW s \in Sessions, NEW a \in Actors, Start(r, s, a)
        PROVE  Moves(r)
    BY <1>2 DEF Start, PcValues, Over
  <1>3. ASSUME NEW r \in Runs, NEW p \in People, Decision(r, p)
        PROVE  pc' = pc
    BY <1>3 DEF Decision
  <1>4. ASSUME NEW r \in Runs, Step(r)
        PROVE  pc' = pc \/ Moves(r)
    <2>1. ASSUME NEW e, NEW c, NEW next \in PcValues, EndNode(r, e, c, next),
                 pc[r] \notin Over
          PROVE  Moves(r)
      BY <2>1 DEF EndNode, Commit, Raise, PcValues
    <2>2. CASE Classify(r)
      BY <2>1, <2>2 DEF Classify, PcValues, Over
    <2>3. CASE BuildContext(r) \/ CallModel(r) \/ ModelFails(r)
      BY <2>3 DEF BuildContext, CallModel, ModelFails, Commit, Raise, PcValues, Over
    <2>4. ASSUME NEW calls \in Replies, ModelAnswers(r, calls)
          PROVE  Moves(r)
      BY <2>1, <2>4 DEF ModelAnswers, PcValues, Over
    <2>5. CASE Plan(r)
      BY <2>1, <2>5 DEF Plan, PcValues, Over
    <2>6. CASE Approval(r)
      BY <2>1, <2>6 DEF Approval, AfterApproval, PcValues, Over
    <2>7. CASE RefuseCall(r)
      BY <2>7 DEF RefuseCall
    <2>8. CASE StartHandler(r)
      BY <2>8 DEF StartHandler, PcValues, Over
    <2>9. ASSUME NEW status \in {"success", "error"}, HandlerReturns(r, status)
          PROVE  Moves(r)
      BY <2>9 DEF HandlerReturns, PcValues, Over
    <2>10. CASE EndTools(r)
      BY <2>1, <2>10 DEF EndTools, PcValues, Over
    <2>11. CASE FirstFinal(r)
      BY <2>11 DEF FirstFinal, Raise, PcValues, Over
    <2>12. CASE Final(r)
      BY <2>1, <2>12 DEF Final, PcValues, Over
    <2>13. CASE HitLimit(r) \/ Return(r) \/ Unwind(r)
      BY <2>13 DEF HitLimit, Return, Unwind, PcValues, Over
    <2> QED
      BY <1>4, <2>2, <2>3, <2>4, <2>5, <2>6, <2>7, <2>8, <2>9, <2>10, <2>11,
         <2>12, <2>13 DEF Step
  <1> QED
    BY <1>1, <1>2, <1>3, <1>4 DEF Next

\* A request is put on the queue by a run in its approval node, which is over
\* with it; people only change requests that are there.
LEMMA StoreStep ==
  ASSUME Shape, AskedIsOver, [Next]_vars
  PROVE  /\ DOMAIN store' = Runs
         /\ \A q \in Runs :
              store[q] = None /\ store'[q] # None => pc'[q] \in Over
  <1>1. CASE store' = store
    BY <1>1 DEF Shape
  <1>2. ASSUME NEW r \in Runs, Approval(r)
        PROVE  /\ DOMAIN store' = Runs
               /\ \A q \in Runs :
                    store[q] = None /\ store'[q] # None => pc'[q] \in Over
    <2> DEFINE needed == Required(Actor(r), Candidates(chan[r]))
    <2>1. CASE needed = << >>
      BY <1>2, <2>1 DEF Approval, Enqueue, queueVars, Shape
    <2>2. CASE needed # << >>
      <3>1. Approvals!Request(r, Actor(r), needed)
        BY <1>2, <2>2 DEF Approval, Enqueue
      <3>2. DOMAIN store' = Runs /\ \A q \in Runs : q # r => store'[q] = store[q]
        BY <3>1 DEF Approvals!Request, Shape
      <3>3. pc' = [pc EXCEPT ![r] = "ended"] \/ pc' = [pc EXCEPT ![r] = "raised"]
        BY <1>2, <2>2 DEF Approval, EndNode, Commit, Raise, AfterApproval
      <3>4. pc'[r] \in Over
        BY <3>3 DEF Shape, Over
      <3> QED
        BY <3>2, <3>4
    <2> QED
      BY <2>1, <2>2
  <1>3. ASSUME NEW r \in Runs, NEW p \in People, Decision(r, p)
        PROVE  /\ DOMAIN store' = Runs
               /\ \A q \in Runs : store[q] = None => store'[q] = None
    <2>1. store[r] # None
      BY <1>3 DEF Decision, Approvals!Decide, Approvals!ApproveFirst,
           Approvals!ApproveSecond, Approvals!ApproveSingle, Approvals!Reject,
           Approvals!IsPending
    <2>2. DOMAIN store' = Runs /\ \A q \in Runs : q # r => store'[q] = store[q]
      BY <1>3 DEF Decision, Approvals!Decide, Approvals!ApproveFirst,
           Approvals!ApproveSecond, Approvals!ApproveSingle, Approvals!Reject,
           Shape
    <2> QED
      BY <2>1, <2>2
  <1>4. ASSUME NEW r \in Runs, Step(r), ~Approval(r)
        PROVE  store' = store
    BY <1>4 DEF Step, Classify, BuildContext, CallModel, ModelAnswers,
       ModelFails, Plan, RefuseCall, StartHandler, HandlerReturns, EndTools,
       FirstFinal, Final, HitLimit, Return, Unwind, queueVars
  <1>5. ASSUME NEW r \in Runs, NEW s \in Sessions, NEW a \in Actors, Start(r, s, a)
        PROVE  store' = store
    BY <1>5 DEF Start, queueVars
  <1>6. CASE UNCHANGED vars
    BY <1>1, <1>6 DEF vars
  <1> QED
    BY <1>1, <1>2, <1>3, <1>4, <1>5, <1>6 DEF Next

\* A run that asked for an approval does not come back to its tool node.
LEMMA AskedStep ==
  ASSUME Shape, AskedIsOver, [Next]_vars
  PROVE  AskedIsOver'
  <1> SUFFICES ASSUME NEW q \in Runs, store'[q] # None
               PROVE  pc'[q] \in Over
    BY DEF AskedIsOver
  <1>1. CASE store[q] = None
    BY <1>1, StoreStep
  <1>2. CASE store[q] # None
    BY <1>2, PcStep DEF AskedIsOver, Shape
  <1> QED
    BY <1>1, <1>2

\* The places of the runs and the queue stay well formed.
LEMMA ShapeStep ==
  ASSUME Shape, AskedIsOver, GatedExecution, [Next]_vars
  PROVE  Shape'
  <1>1. pc' \in [Runs -> PcValues]
    BY PcStep DEF Shape
  <1> QED
    BY <1>1, StoreStep, GatedStep, CallsStaySeq DEF Shape

-----------------------------------------------------------------------------
\* The invariant holds at the start.
LEMMA IInvInit == Init => IInv
  <1>1. IsSeq(<< >>)
    BY DEF IsSeq
  <1> QED
    BY <1>1 DEF Init, IInv, Shape, AskedIsOver, GatedExecution, PcValues,
       Approvals!Init

\* Every step preserves the invariant.
LEMMA IInvStep == IInv /\ [Next]_vars => IInv'
  BY ShapeStep, AskedStep, GatedStep DEF IInv, Shape

\* The inductive invariant: it holds at the start and every step keeps it.
THEOREM IInvCorrect == Spec => []IInv
  BY IInvInit, IInvStep, PTL DEF Spec

(***************************************************************************)
(* The tool gateway never starts a handler for a call that is denied or    *)
(* needs an approval, whatever the registry, the models' answers and the   *)
(* interleaving of the runs.                                               *)
(***************************************************************************)
THEOREM GatedExecutionCorrect == Spec => []GatedExecution
  <1>1. IInv => GatedExecution
    BY DEF IInv
  <1> QED
    BY <1>1, IInvCorrect, PTL

\* While a request of r is on the queue a step adds nothing to r's calls: the
\* run is over, and who dispatches is in its tool node.
LEMMA AskedRunIsStill ==
  ASSUME IInv, [Next]_vars, NEW r \in Runs, store[r] # None
  PROVE  /\ CallsOf(toolCalls', r) = CallsOf(toolCalls, r)
         /\ CallsOf(ran', r) = CallsOf(ran, r)
  <1>1. pc[r] \in Over
    BY DEF IInv, AskedIsOver
  <1>2. ASSUME NEW s, NEW x, IsSeq(s), x.run # r
        PROVE  CallsOf(Append(s, x), r) = CallsOf(s, r)
    BY <1>2, AppendGrows DEF CallsOf
  <1>3. CallsOf(ran', r) = CallsOf(ran, r)
    <2>1. ASSUME NEW q \in Runs, pc[q] = "tool",
                 ran' = Append(ran, [run |-> q, actor |-> Actor(q),
                                     tool |-> NextCall(q)])
          PROVE  CallsOf(ran', r) = CallsOf(ran, r)
      <3>1. q # r
        BY <1>1, <2>1 DEF Over
      <3> QED
        BY <1>2, <2>1, <3>1 DEF IInv, Shape
    <2> QED
      BY <2>1, RanStep
  <1>4. CallsOf(toolCalls', r) = CallsOf(toolCalls, r)
    <2>1. ASSUME NEW q \in Runs, NEW status \in CallStatus,
                 pc[q] \in {"tool", "tool_wait"},
                 toolCalls' = Append(toolCalls, [run |-> q, tool |-> NextCall(q),
                                                 status |-> status])
          PROVE  CallsOf(toolCalls', r) = CallsOf(toolCalls, r)
      <3>1. q # r
        BY <1>1, <2>1 DEF Over
      <3> QED
        BY <1>2, <2>1, <3>1 DEF IInv, Shape
    <2> QED
      BY <2>1, CallsStep
  <1> QED
    BY <1>3, <1>4

(***************************************************************************)
(* Once a run has a request on the queue it dispatches nothing more, and   *)
(* starts no handler, whatever people decide and other runs do.            *)
(***************************************************************************)
THEOREM ApprovalStopsRunCorrect == Spec => ApprovalStopsRun
  <1>1. IInv /\ [Next]_vars =>
          [\A r \in Runs : store[r] # None =>
             /\ CallsOf(toolCalls', r) = CallsOf(toolCalls, r)
             /\ CallsOf(ran', r) = CallsOf(ran, r)]_vars
    BY AskedRunIsStill
  <1> QED
    BY <1>1, IInvCorrect, PTL DEF Spec, ApprovalStopsRun

-----------------------------------------------------------------------------
(***************************************************************************)
(* Types.  What the variables hold, beyond what TypeOK says of them.       *)
(***************************************************************************)
Message     == [role : {"user", "assistant", "tool"}, calls : Seq(ToolNames)]
CallRecord  == [run : Runs, tool : ToolNames, status : CallStatus]
StartRecord == [run : Runs, actor : Actors, tool : ToolNames]
Turn        == [session : Sessions, actor : Actors, prev : Sessions \cup {None}]

Channels ==
  [ messages : Seq(Message),  results : Seq(CallRecord),
    plan     : Seq(ToolNames) \cup {None},
    approval : {"not_required", "pending"},  pending : Seq(ToolNames),
    answer   : Seq(CallRecord) \cup {None} ]

Reply ==
  [ approval : {"not_required", "pending"},  pending : Seq(ToolNames),
    answer   : Seq(CallRecord) \cup {None} ]

EventTypes == {"user", "classify", "model_call", "plan", "approval", "tool_call",
               "final", "session_final", "assistant"}

EventRecord ==
  [ run : Runs,  n : Nat,  type : EventTypes,  results : Seq(Nat),  calls : Seq(Nat) ]

FlowTypes ==
  /\ pc \in [Runs -> PcValues] /\ steps \in [Runs -> 0 .. StepLimit]
  /\ chan \in [Runs -> Channels] /\ ckpt \in [Sessions -> Channels]
  /\ emitted \in [Runs -> Nat] /\ events \in [Sessions -> SUBSET EventRecord]

CallTypes ==
  /\ toolCalls \in Seq(CallRecord) /\ ran \in Seq(StartRecord)
  /\ done \in [Runs -> Seq(Nat)]

TurnTypes ==
  /\ slot \in Sessions \cup {None} /\ traced \in Sessions \cup {None}
  /\ turn \in [Runs -> Turn \cup {None}]
  /\ \A r \in Runs : pc[r] # "idle" => turn[r] \in Turn
  /\ reply \in [Runs -> Reply \cup {None}]
  /\ store \in [Runs -> Approvals!Approval \cup {None}]

TypeInv == FlowTypes /\ CallTypes /\ TurnTypes

(***************************************************************************)
(* What is true of a run at the places it passes.  From the model's answer *)
(* to the end of its batch the last message is the assistant's that asks   *)
(* for the batch; the calls finished are records of the gateway; the plan  *)
(* is what the actor may do of the batch.                                  *)
(***************************************************************************)
Batching == {"plan", "approval", "tool", "tool_wait"}
Tooling  == {"tool", "tool_wait"}

AsksLast(ms) ==
  /\ ms # << >> /\ ms[Len(ms)].role = "assistant"
  /\ ms[Len(ms)].calls \in Replies /\ ms[Len(ms)].calls # << >>

BatchIsLast(r) ==
  pc[r] \in Batching \/ store[r] # None => AsksLast(chan[r].messages)

DoneIsRecorded(r) ==
  /\ \A k \in DOMAIN done[r] : done[r][k] \in DOMAIN toolCalls
  /\ pc[r] \in Tooling => Len(done[r]) <= Len(Batch(r))
  /\ pc[r] = "tool_wait" => Len(done[r]) < Len(Batch(r))
  /\ pc[r] \notin Over \cup Tooling => done[r] = << >>

PlanIsOfBatch(r) ==
  pc[r] = "approval" => chan[r].plan = PlanFor(Actor(r), LastCalls(chan[r].messages))

\* A node that waits in the middle has been let in.
NodeWasDue(r) == pc[r] \in {"model_wait", "final_emitted"} => CanStep(r)

RunInv(r) ==
  BatchIsLast(r) /\ DoneIsRecorded(r) /\ PlanIsOfBatch(r) /\ NodeWasDue(r)

GraphInv == IInv /\ TypeInv /\ \A r \in Runs : RunInv(r)

-----------------------------------------------------------------------------
\* The greatest of a set of numbers.
LEMMA MaxIs ==
  ASSUME NEW S, S \subseteq Nat, NEW m \in S, \A i \in S : i <= m
  PROVE  Max(S) = m
  <1>1. \E x \in S : \A y \in S : x >= y
    OBVIOUS
  <1>2. Max(S) \in S /\ \A y \in S : Max(S) >= y
    BY <1>1 DEF Max
  <1>3. Max(S) \in Nat /\ m \in Nat /\ Max(S) <= m /\ Max(S) >= m
    BY <1>2
  <1> QED
    BY <1>3

\* What a batch that was asked for is.
LEMMA BatchAsked ==
  ASSUME NEW ms \in Seq(Message), AsksLast(ms)
  PROVE  LastCalls(ms) = ms[Len(ms)].calls
  <1> DEFINE asks == { i \in DOMAIN ms : ms[i].role = "assistant"
                                         /\ ms[i].calls # << >> }
  <1>1. Len(ms) \in asks /\ \A i \in asks : i <= Len(ms)
    BY DEF AsksLast
  <1>2. asks \subseteq Nat
    OBVIOUS
  <1>3. Max(asks) = Len(ms)
    <2> HIDE DEF asks
    <2> QED
      BY <1>1, <1>2, MaxIs
  <1> QED
    BY <1>1, <1>3 DEF LastCalls

\* A turn whose last message asks for calls has a batch.
LEMMA BatchType ==
  ASSUME TypeInv, NEW r \in Runs, AsksLast(chan[r].messages)
  PROVE  Batch(r) \in Replies /\ Batch(r) \in Seq(ToolNames) /\ Batch(r) # << >>
  <1>1. chan[r].messages \in Seq(Message)
    BY DEF TypeInv, FlowTypes, CallTypes, Channels
  <1> QED
    BY <1>1, BatchAsked, GraphAssumption DEF AsksLast, Batch

\* What is narrowed is still a list of tools.
LEMMA NarrowedType ==
  ASSUME NEW names \in Seq(ToolNames), NEW a
  PROVE  /\ Usable(a, names) \in Seq(ToolNames)
         /\ PlanFor(a, names) \in Seq(ToolNames) \cup {None}
         /\ Required(a, names) \in Seq(ToolNames)
  BY KeepPlaces DEF Usable, PlanFor, Required

\* The next call of a run in its tool node is one of the batch.
LEMMA NextCallType ==
  ASSUME GraphInv, NEW r \in Runs, pc[r] \in Tooling, Len(done[r]) < Len(Batch(r))
  PROVE  NextCall(r) \in ToolNames
  <1>1. AsksLast(chan[r].messages)
    BY DEF GraphInv, RunInv, BatchIsLast, Tooling, Batching
  <1>2. Batch(r) \in Seq(ToolNames) /\ done[r] \in Seq(Nat)
    BY <1>1, BatchType DEF GraphInv, TypeInv, CallTypes
  <1>3. Len(done[r]) + 1 \in 1 .. Len(Batch(r))
    BY <1>2
  <1> QED
    BY <1>2, <1>3 DEF NextCall

\* The strengthened types imply the type invariant.
LEMMA TypesAreOK == TypeInv => TypeOK
  <1> SUFFICES ASSUME TypeInv
               PROVE  TypeOK
    OBVIOUS
  <1>1. \A i \in DOMAIN toolCalls : toolCalls[i] \in CallRecord
    BY DEF TypeInv, CallTypes
  <1> QED
    BY <1>1 DEF TypeInv, FlowTypes, TurnTypes, TypeOK, CallRecord, Turn

\* A run that has started knows whose it is.
LEMMA StartedTurn ==
  ASSUME TypeInv, NEW r \in Runs, pc[r] # "idle"
  PROVE  /\ turn[r] \in Turn
         /\ Session(r) \in Sessions /\ Actor(r) \in Actors
         /\ turn[r].prev \in Sessions \cup {None}
  BY DEF TypeInv, TurnTypes, Turn, Session, Actor

\* An event is one of its run.
LEMMA EventRun ==
  ASSUME NEW r, NEW type
  PROVE  Event(r, type).run = r
  BY DEF Event

\* The fields of a tool event.
LEMMA ToolEventRun ==
  ASSUME NEW r
  PROVE  /\ ToolEvent(r).run = r /\ ToolEvent(r).n = emitted[r] + 1
         /\ ToolEvent(r).results = done[r]
         /\ ToolEvent(r).calls =
              [ k \in DOMAIN done[r] |-> DetailOf(done[r][k], Len(done[r])) ]
  BY DEF Event, ToolEvent

\* An event of any other type is well formed.
LEMMA EventType ==
  ASSUME TypeInv, NEW r \in Runs, NEW type \in EventTypes
  PROVE  Event(r, type) \in EventRecord
  <1>1. emitted[r] + 1 \in Nat
    BY DEF TypeInv, FlowTypes, CallTypes
  <1>2. << >> \in Seq(Nat)
    OBVIOUS
  <1> QED
    BY <1>1, <1>2 DEF Event, EventRecord

\* A set of numbers up to n has a greatest one.
LEMMA MaxOfBounded ==
  ASSUME NEW n \in Nat, NEW S, S \subseteq 1 .. n, S # {}
  PROVE  Max(S) \in S
  <1> DEFINE D == { n - x : x \in S }
  <1>1. D \subseteq Nat /\ D # {}
    <2>1. \A x \in S : x \in 1 .. n /\ n - x \in Nat
      OBVIOUS
    <2> QED
      BY <2>1
  <1>2. PICK d \in D : \A y \in D : d <= y
    <2> HIDE DEF D
    <2> QED
      BY <1>1, LeastNat
  <1>3. PICK m \in S : d = n - m
    BY <1>2
  <1>4. ASSUME NEW i \in S
        PROVE  i <= m
    <2>1. n - i \in D
      OBVIOUS
    <2>2. n - m <= n - i
      BY <1>2, <1>3, <2>1
    <2> QED
      BY <2>2
  <1>5. Max(S) = m
    <2>1. S \subseteq Nat
      OBVIOUS
    <2> QED
      BY <1>4, <2>1, MaxIs
  <1> QED
    BY <1>5

\* The search for a record by name gives a record, or none.
LEMMA DetailType ==
  ASSUME TypeInv, NEW i, NEW n
  PROVE  /\ DetailOf(i, n) \in Nat
         /\ DetailOf(i, n) # 0 => DetailOf(i, n) \in DOMAIN toolCalls
  <1> DEFINE recent == { j \in DOMAIN toolCalls :
                           /\ j > Len(toolCalls) - n
                           /\ toolCalls[j].tool = toolCalls[i].tool }
  <1>1. Len(toolCalls) \in Nat /\ recent \subseteq 1 .. Len(toolCalls)
    BY DEF TypeInv, FlowTypes, CallTypes
  <1>2. DetailOf(i, n) = IF recent = {} THEN 0 ELSE Max(recent)
    BY DEF DetailOf
  <1>3. recent # {} => Max(recent) \in recent
    <2> HIDE DEF recent
    <2> QED
      BY <1>1, MaxOfBounded
  <1> QED
    BY <1>1, <1>2, <1>3

\* A tool event is well formed.
LEMMA ToolEventType ==
  ASSUME TypeInv, NEW r \in Runs
  PROVE  ToolEvent(r) \in EventRecord
  <1> DEFINE details == [ k \in DOMAIN done[r] |-> DetailOf(done[r][k], Len(done[r])) ]
  <1>1. done[r] \in Seq(Nat) /\ emitted[r] + 1 \in Nat
    BY DEF TypeInv, FlowTypes, CallTypes
  <1>2. details \in Seq(Nat)
    <2>1. \A k \in DOMAIN done[r] : DetailOf(done[r][k], Len(done[r])) \in Nat
      BY DetailType
    <2>2. DOMAIN done[r] = 1 .. Len(done[r]) /\ Len(done[r]) \in Nat
      BY <1>1
    <2>3. details \in [1 .. Len(done[r]) -> Nat]
      BY <2>1, <2>2
    <2> QED
      BY <2>2, <2>3
  <1> HIDE DEF details
  <1>3. ToolEvent(r) = [Event(r, "tool_call") EXCEPT !.results = done[r],
                                                     !.calls = details]
    BY DEF ToolEvent, details
  <1>4. Event(r, "tool_call") \in EventRecord
    BY EventType DEF EventTypes
  <1> QED
    BY <1>1, <1>2, <1>3, <1>4 DEF EventRecord

-----------------------------------------------------------------------------
(***************************************************************************)
(* What a step leaves alone: everything of the runs it is not a step of.   *)
(***************************************************************************)
Moves(r) ==
  \/ Step(r)
  \/ \E s \in Sessions, a \in Actors : Start(r, s, a)
  \/ \E p \in People : Decision(r, p)

Stays(q) ==
  /\ pc'[q] = pc[q] /\ chan'[q] = chan[q] /\ turn'[q] = turn[q]
  /\ steps'[q] = steps[q] /\ done'[q] = done[q]
  /\ emitted'[q] = emitted[q] /\ reply'[q] = reply[q] /\ store'[q] = store[q]

\* A step that changes anything is a step of one run.
LEMMA NextMoves ==
  ASSUME [Next]_vars
  PROVE  UNCHANGED vars \/ \E r \in Runs : Moves(r)
  BY DEF Next, Moves

\* A step of one run leaves the others where they are.
LEMMA OthersStay ==
  ASSUME TypeInv, NEW r \in Runs, Moves(r), NEW q \in Runs, q # r
  PROVE  Stays(q)
  <1> USE DEF graphVars, gateVars, queueVars, Stays, TypeInv, FlowTypes, CallTypes,
          TurnTypes
  <1>1. ASSUME NEW e, e.run = r, Emit(r, e)
        PROVE  emitted'[q] = emitted[q]
    BY <1>1 DEF Emit, AppendTo
  <1>2. ASSUME NEW e, e.run = r, NEW c, NEW next, EndNode(r, e, c, next)
        PROVE  /\ pc'[q] = pc[q] /\ chan'[q] = chan[q]
               /\ steps'[q] = steps[q] /\ emitted'[q] = emitted[q]
    BY <1>1, <1>2 DEF EndNode, Commit, Raise
  <1>3. ASSUME NEW s \in Sessions, NEW a \in Actors, Start(r, s, a)
        PROVE  Stays(q)
    BY <1>3, EventRun DEF Start, AppendTo
  <1>4. ASSUME NEW p \in People, Decision(r, p)
        PROVE  Stays(q)
    BY <1>4 DEF Decision, Approvals!Decide, Approvals!ApproveFirst,
       Approvals!ApproveSecond, Approvals!ApproveSingle, Approvals!Reject
  <1>5. CASE Classify(r)
    <2>1. Event(r, "classify").run = r
      BY EventRun
    <2>2. EndNode(r, Event(r, "classify"), chan[r], "context")
      BY <1>5 DEF Classify
    <2>3. pc'[q] = pc[q] /\ chan'[q] = chan[q]
               /\ steps'[q] = steps[q] /\ emitted'[q] = emitted[q]
      BY <2>1, <2>2, <1>2
    <2>4. QED BY <2>3, <1>5 DEF Classify
  <1>6. CASE BuildContext(r)
    BY <1>6 DEF BuildContext, Commit
  <1>7. CASE CallModel(r) \/ HitLimit(r) \/ Unwind(r)
    BY <1>7 DEF CallModel, HitLimit, Unwind
  <1>8. ASSUME NEW calls \in Replies, ModelAnswers(r, calls)
        PROVE  Stays(q)
    BY <1>2, <1>8, EventRun DEF ModelAnswers
  <1>9. CASE ModelFails(r)
    BY <1>9 DEF ModelFails, Raise
  <1>10. CASE Plan(r)
    BY <1>2, <1>10, EventRun DEF Plan
  <1>11. CASE Approval(r)
    BY <1>2, <1>11, EventRun DEF Approval, Enqueue, Approvals!Request
  <1>12. CASE RefuseCall(r)
    BY <1>12 DEF RefuseCall, Record
  <1>13. CASE StartHandler(r)
    BY <1>13 DEF StartHandler
  <1>14. ASSUME NEW status, HandlerReturns(r, status)
         PROVE  Stays(q)
    BY <1>14 DEF HandlerReturns, Record
  <1>15. CASE EndTools(r)
    BY <1>2, <1>15, ToolEventRun DEF EndTools
  <1>16. CASE FirstFinal(r)
    BY <1>1, <1>16, EventRun DEF FirstFinal, Raise
  <1>17. CASE Final(r)
    BY <1>2, <1>17, EventRun DEF Final
  <1>18. CASE Return(r)
    BY <1>18, EventRun DEF Return, AppendTo
  <1> QED
    BY <1>3, <1>4, <1>5, <1>6, <1>7, <1>8, <1>9, <1>10, <1>11, <1>12, <1>13,
       <1>14, <1>15, <1>16, <1>17, <1>18 DEF Moves, Step

-----------------------------------------------------------------------------
(***************************************************************************)
(* Types are kept.                                                         *)
(***************************************************************************)
LEMMA EmitTypes ==
  ASSUME TypeInv, NEW r \in Runs, NEW e \in EventRecord, e.run = r, Emit(r, e)
  PROVE  /\ emitted' \in [Runs -> Nat]
         /\ events' \in [Sessions -> SUBSET EventRecord]
  BY DEF Emit, AppendTo, TypeInv, FlowTypes, TurnTypes

\* The end of a node keeps the channels, checkpoints and events well formed.
LEMMA EndNodeTypes ==
  ASSUME TypeInv, NEW r \in Runs, pc[r] # "idle", CanStep(r),
         NEW e \in EventRecord, e.run = r, NEW c \in Channels,
         NEW next \in PcValues, EndNode(r, e, c, next)
  PROVE  FlowTypes'
  <1>1. CASE Emit(r, e) /\ Commit(r, c, next)
    <2>1. steps[r] \in Nat /\ steps[r] < StepLimit /\ StepLimit \in Nat
      BY GraphAssumption DEF TypeInv, FlowTypes, CanStep
    <2>2. steps' \in [Runs -> 0 .. StepLimit]
      BY <1>1, <2>1 DEF Commit, TypeInv, FlowTypes
    <2>3. chan' \in [Runs -> Channels] /\ ckpt' \in [Sessions -> Channels]
          /\ pc' \in [Runs -> PcValues]
      BY <1>1 DEF Commit, TypeInv, FlowTypes
    <2> QED
      BY <1>1, <2>2, <2>3, EmitTypes DEF FlowTypes
  <1>2. CASE Raise(r)
    BY <1>2 DEF Raise, TypeInv, FlowTypes, PcValues
  <1> QED
    BY <1>1, <1>2 DEF EndNode

\* What a node writes into the channels has their types.
LEMMA MessageAdded ==
  ASSUME NEW c \in Channels, NEW calls \in Seq(ToolNames),
         NEW role \in {"user", "assistant"}
  PROVE  [c EXCEPT !.messages = Append(@, Msg(role, calls))] \in Channels
  <1>1. Msg(role, calls) \in Message
    BY DEF Msg, Message
  <1>2. Append(c.messages, Msg(role, calls)) \in Seq(Message)
    BY <1>1 DEF Channels
  <1> HIDE DEF Message
  <1> QED
    BY <1>2 DEF Channels

\* The batch of a turn that works on one.
LEMMA BatchFacts ==
  ASSUME GraphInv, NEW r \in Runs, pc[r] \in Batching
  PROVE  /\ Batch(r) \in Replies /\ Batch(r) \in Seq(ToolNames) /\ Batch(r) # << >>
         /\ Batch(r) = LastCalls(chan[r].messages)
         /\ chan[r] \in Channels
  <1>1. AsksLast(chan[r].messages)
    BY DEF GraphInv, RunInv, BatchIsLast
  <1> QED
    BY <1>1, BatchType DEF GraphInv, Batch, TypeInv, FlowTypes

\* What the approval node finds: calls of the batch, in one of two ways.
LEMMA CandidatesAre ==
  ASSUME GraphInv, NEW r \in Runs, pc[r] = "approval"
  PROVE  Candidates(chan[r]) \in {Batch(r), Usable(Actor(r), Batch(r))}
  BY DEF GraphInv, RunInv, PlanIsOfBatch, Candidates, PlanFor, Batch

\* What the approval node asks for is a subject of the queue.
LEMMA NeededIsSubject ==
  ASSUME GraphInv, NEW r \in Runs, pc[r] = "approval"
  PROVE  /\ Required(Actor(r), Candidates(chan[r])) \in Subjects
         /\ Required(Actor(r), Candidates(chan[r])) \in Seq(ToolNames)
  <1>1. Actor(r) \in Actors
    BY StartedTurn DEF GraphInv
  <1>2. Batch(r) \in Replies /\ Batch(r) \in Seq(ToolNames)
    BY BatchFacts DEF Batching
  <1> QED
    BY <1>1, <1>2, CandidatesAre, NarrowedType DEF Subjects

\* Channels, checkpoints and events keep their types.
LEMMA FlowTypesStep ==
  ASSUME GraphInv, NEW r \in Runs, Moves(r)
  PROVE  FlowTypes'
  <1>1. TypeInv /\ FlowTypes
    BY DEF GraphInv, TypeInv
  <1>2. chan[r] \in Channels
    BY <1>1 DEF FlowTypes
  <1>3. ASSUME pc[r] # "idle", CanStep(r), NEW e \in EventRecord, e.run = r,
               NEW c \in Channels, NEW next \in PcValues, EndNode(r, e, c, next)
        PROVE  FlowTypes'
    BY <1>1, <1>3, EndNodeTypes
  <1>4. \A type \in EventTypes : Event(r, type) \in EventRecord /\ Event(r, type).run = r
    BY <1>1, EventType, EventRun
  <1>5. ASSUME NEW s \in Sessions, NEW a \in Actors, Start(r, s, a)
        PROVE  FlowTypes'
    <2>1. Input(s) \in Channels
      <3>1. ckpt[s] \in Channels /\ << >> \in Seq(ToolNames)
        BY <1>1 DEF FlowTypes
      <3> QED
        BY <3>1, MessageAdded DEF Input
    <2>2. Event(r, "user") \in EventRecord /\ Event(r, "user").run = r
      BY <1>4 DEF EventTypes
    <2>3. emitted' \in [Runs -> Nat] /\ events' \in [Sessions -> SUBSET EventRecord]
      BY <1>1, <1>5, <2>2 DEF Start, AppendTo, FlowTypes
    <2> QED
      BY <1>1, <1>5, <2>1, <2>3 DEF Start, FlowTypes, PcValues
  <1>6. ASSUME NEW p \in People, Decision(r, p)
        PROVE  FlowTypes'
    BY <1>1, <1>6 DEF Decision, FlowTypes
  <1>7. CASE Classify(r)
    BY <1>2, <1>3, <1>4, <1>7 DEF Classify, EventTypes, PcValues
  <1>8. CASE BuildContext(r)
    <2>1. steps[r] \in Nat /\ steps[r] < StepLimit /\ StepLimit \in Nat
      BY <1>1, <1>8, GraphAssumption DEF BuildContext, FlowTypes, CanStep
    <2>2. steps' \in [Runs -> 0 .. StepLimit]
      BY <1>1, <1>8, <2>1 DEF BuildContext, Commit, FlowTypes
    <2> QED
      BY <1>1, <1>2, <1>8, <2>2 DEF BuildContext, Commit, FlowTypes, PcValues
  <1>9. CASE CallModel(r)
    BY <1>1, <1>9 DEF CallModel, FlowTypes, PcValues
  <1>10. ASSUME NEW calls \in Replies, ModelAnswers(r, calls)
         PROVE  FlowTypes'
    <2>1. [chan[r] EXCEPT !.messages = Append(@, Msg("assistant", calls))] \in Channels
      BY <1>2, MessageAdded, GraphAssumption
    <2>2. pc[r] # "idle" /\ CanStep(r)
      BY <1>10 DEF ModelAnswers, GraphInv, RunInv, NodeWasDue
    <2> QED
      BY <1>3, <1>4, <1>10, <2>1, <2>2 DEF ModelAnswers, EventTypes, PcValues
  <1>11. CASE ModelFails(r)
    BY <1>1, <1>11 DEF ModelFails, Raise, FlowTypes, PcValues
  <1>12. CASE Plan(r)
    <2>1. Batch(r) \in Seq(ToolNames)
      BY <1>12, BatchFacts DEF Plan, Batching
    <2>2. [chan[r] EXCEPT !.plan = PlanFor(Actor(r), Batch(r))] \in Channels
      BY <1>2, <2>1, NarrowedType DEF Channels
    <2> QED
      BY <1>3, <1>4, <1>12, <2>2 DEF Plan, Batch, EventTypes, PcValues
  <1>13. CASE Approval(r)
    <2> DEFINE needed == Required(Actor(r), Candidates(chan[r]))
               state  == IF needed = << >> THEN "not_required" ELSE "pending"
    <2>1. needed \in Seq(ToolNames)
      BY <1>13, NeededIsSubject DEF Approval
    <2>2. [chan[r] EXCEPT !.approval = state, !.pending = needed] \in Channels
      BY <1>2, <2>1 DEF Channels
    <2>3. AfterApproval(needed) \in PcValues
      BY DEF AfterApproval, PcValues
    <2> QED
      BY <1>3, <1>4, <1>13, <2>2, <2>3 DEF Approval, EventTypes
  <1>14. CASE RefuseCall(r)
    BY <1>1, <1>14 DEF RefuseCall, FlowTypes
  <1>15. CASE StartHandler(r)
    BY <1>1, <1>15 DEF StartHandler, FlowTypes, PcValues
  <1>16. ASSUME NEW status, HandlerReturns(r, status)
         PROVE  FlowTypes'
    BY <1>1, <1>16 DEF HandlerReturns, FlowTypes, PcValues
  <1>17. CASE EndTools(r)
    <2> DEFINE outcome == [ k \in DOMAIN done[r] |-> toolCalls[done[r][k]] ]
               replies == [ k \in DOMAIN done[r] |-> Msg("tool", << >>) ]
    <2>1. DOMAIN done[r] = 1 .. Len(done[r]) /\ Len(done[r]) \in Nat
      BY <1>1 DEF TypeInv, CallTypes
    <2>2. outcome \in Seq(CallRecord)
      <3>1. \A k \in DOMAIN done[r] : toolCalls[done[r][k]] \in CallRecord
        BY <1>1 DEF GraphInv, RunInv, DoneIsRecorded, TypeInv, CallTypes
      <3> QED
        BY <2>1, <3>1
    <2>3. replies \in Seq(Message)
      <3>1. Msg("tool", << >>) \in Message
        BY DEF Msg, Message
      <3> QED
        BY <2>1, <3>1
    <2> HIDE DEF outcome, replies
    <2>4. [chan[r] EXCEPT !.messages = @ \o replies, !.results = @ \o outcome] \in Channels
      <3>1. chan[r].messages \o replies \in Seq(Message)
        BY <1>2, <2>3 DEF Channels
      <3>2. chan[r].results \o outcome \in Seq(CallRecord)
        BY <1>2, <2>2 DEF Channels
      <3> QED
        BY <1>2, <3>1, <3>2 DEF Channels
    <2>5. ToolEvent(r) \in EventRecord /\ ToolEvent(r).run = r
      BY <1>1, ToolEventType, ToolEventRun
    <2>6. EndNode(r, ToolEvent(r), [chan[r] EXCEPT !.messages = @ \o replies,
                                        !.results = @ \o outcome], "model")
      BY <1>17 DEF EndTools, outcome, replies
    <2> QED
      BY <1>3, <1>17, <2>4, <2>5, <2>6 DEF EndTools, PcValues
  <1>18. CASE FirstFinal(r)
    <2>1. ASSUME Emit(r, Event(r, "final")), pc' = [pc EXCEPT ![r] = "final_emitted"],
                 UNCHANGED <<trace, ckpt, chan, steps>>
          PROVE  FlowTypes'
      <3>1. emitted' \in [Runs -> Nat] /\ events' \in [Sessions -> SUBSET EventRecord]
        BY <1>1, <1>4, <2>1, EmitTypes DEF EventTypes
      <3> QED
        BY <1>1, <2>1, <3>1 DEF FlowTypes, PcValues
    <2> QED
      BY <1>1, <1>18, <2>1 DEF FirstFinal, Raise, FlowTypes, PcValues
  <1>19. CASE Final(r)
    <2>1. [chan[r] EXCEPT !.answer = chan[r].results] \in Channels
      BY <1>2 DEF Channels
    <2>2. pc[r] # "idle" /\ CanStep(r)
      BY <1>19 DEF Final, GraphInv, RunInv, NodeWasDue
    <2> QED
      BY <1>3, <1>4, <1>19, <2>1, <2>2 DEF Final, EventTypes, PcValues
  <1>20. CASE HitLimit(r) \/ Unwind(r)
    BY <1>1, <1>20 DEF HitLimit, Unwind, FlowTypes, PcValues
  <1>21. CASE Return(r)
    <2>1. Event(r, "assistant") \in EventRecord /\ Event(r, "assistant").run = r
      BY <1>4 DEF EventTypes
    <2>2. emitted' \in [Runs -> Nat] /\ events' \in [Sessions -> SUBSET EventRecord]
      BY <1>1, <1>21, <2>1 DEF Return, AppendTo, FlowTypes
    <2> QED
      BY <1>1, <1>21, <2>2 DEF Return, FlowTypes, PcValues
  <1> QED
    BY <1>5, <1>6, <1>7, <1>8, <1>9, <1>10, <1>11, <1>12, <1>13, <1>14, <1>15,
       <1>16, <1>17, <1>18, <1>19, <1>20, <1>21 DEF Moves, Step

\* Records and results keep their types.
LEMMA CallTypesStep ==
  ASSUME GraphInv, NEW r \in Runs, Moves(r)
  PROVE  CallTypes'
  <1>1. TypeInv /\ CallTypes /\ TurnTypes
    BY DEF GraphInv, TypeInv
  <1>2. ASSUME NEW status \in CallStatus, Record(r, status),
               pc[r] \in Tooling, Len(done[r]) < Len(Batch(r))
        PROVE  toolCalls' \in Seq(CallRecord) /\ done' \in [Runs -> Seq(Nat)]
    <2>1. [run |-> r, tool |-> NextCall(r), status |-> status] \in CallRecord
      BY <1>2, NextCallType DEF CallRecord
    <2>2. Len(toolCalls) + 1 \in Nat
      BY <1>1 DEF CallTypes
    <2>3. Append(done[r], Len(toolCalls) + 1) \in Seq(Nat)
      BY <1>1, <2>2 DEF CallTypes
    <2> HIDE DEF CallRecord
    <2> QED
      BY <1>1, <1>2, <2>1, <2>3 DEF Record, CallTypes
  <1>3. CASE RefuseCall(r)
    <2>1. Gate(Actor(r), NextCall(r)) \in CallStatus
      BY <1>3 DEF RefuseCall, Gate, CallStatus
    <2> QED
      BY <1>1, <1>2, <1>3, <2>1 DEF RefuseCall, Tooling, CallTypes
  <1>4. CASE StartHandler(r)
    <2>1. NextCall(r) \in ToolNames /\ Actor(r) \in Actors
      BY <1>1, <1>4, NextCallType, StartedTurn DEF StartHandler, Tooling
    <2>2. [run |-> r, actor |-> Actor(r), tool |-> NextCall(r)] \in StartRecord
      BY <2>1 DEF StartRecord
    <2> QED
      BY <1>1, <1>4, <2>2 DEF StartHandler, CallTypes
  <1>5. ASSUME NEW status \in {"success", "error"}, HandlerReturns(r, status)
        PROVE  CallTypes'
    <2>1. status \in CallStatus /\ pc[r] \in Tooling /\ Len(done[r]) < Len(Batch(r))
      BY <1>5 DEF HandlerReturns, CallStatus, Tooling, GraphInv, RunInv, DoneIsRecorded
    <2>2. ran' = ran /\ Record(r, status)
      BY <1>5 DEF HandlerReturns
    <2> QED
      BY <1>1, <1>2, <2>1, <2>2 DEF CallTypes
  <1>6. CASE EndTools(r)
    <2>1. << >> \in Seq(Nat)
      OBVIOUS
    <2> QED
      BY <1>1, <1>6, <2>1 DEF EndTools, CallTypes
  <1>7. ASSUME NEW s \in Sessions, NEW a \in Actors, Start(r, s, a)
        PROVE  UNCHANGED gateVars
    BY <1>7 DEF Start
  <1>8. ASSUME NEW p \in People, Decision(r, p)
        PROVE  UNCHANGED gateVars
    BY <1>8 DEF Decision
  <1>9. CASE UNCHANGED gateVars
    BY <1>1, <1>9 DEF gateVars, CallTypes
  <1>10. CASE Step(r) /\ ~RefuseCall(r) /\ ~StartHandler(r) /\ ~EndTools(r)
              /\ ~ \E status \in {"success", "error"} : HandlerReturns(r, status)
    BY <1>9, <1>10 DEF Step, Classify, BuildContext, CallModel, ModelAnswers,
       ModelFails, Plan, Approval, FirstFinal, Final, HitLimit, Return, Unwind
  <1> QED
    BY <1>3, <1>4, <1>5, <1>6, <1>7, <1>8, <1>9, <1>10 DEF Moves

\* The queue holds approvals.
LEMMA QueueTypeStep ==
  ASSUME GraphInv, NEW r \in Runs, Moves(r)
  PROVE  store' \in [Runs -> Approvals!Approval \cup {None}]
  <1>1. TypeInv /\ store \in [Runs -> Approvals!Approval \cup {None}]
    BY DEF GraphInv, TypeInv, TurnTypes
  <1>2. CASE Approval(r)
    <2> DEFINE needed == Required(Actor(r), Candidates(chan[r]))
    <2>1. pc[r] = "approval"
      BY <1>2 DEF Approval
    <2>2. needed \in Subjects /\ Actor(r) \in People
      BY <1>1, <2>1, NeededIsSubject, StartedTurn, GraphAssumption
    <2>3. Enqueue(r, needed)
      BY <1>2 DEF Approval
    <2> HIDE DEF needed
    <2>4. Approvals!NewApproval(Actor(r), needed) \in Approvals!Approval
      BY <2>2 DEF Approvals!NewApproval, Approvals!Approval,
         Approvals!RequiresDualApproval, Approvals!Statuses
    <2> QED
      BY <1>1, <2>3, <2>4 DEF Enqueue, Approvals!Request, queueVars
  <1>3. ASSUME NEW p \in People, Decision(r, p)
        PROVE  store' \in [Runs -> Approvals!Approval \cup {None}]
    <2>1. store[r] \in Approvals!Approval
      BY <1>1, <1>3 DEF Decision, Approvals!Decide, Approvals!ApproveFirst,
         Approvals!ApproveSecond, Approvals!ApproveSingle, Approvals!Reject,
         Approvals!IsPending
    <2>2. \E a \in Approvals!Approval : store' = [store EXCEPT ![r] = a]
      <3>1. CASE Approvals!ApproveFirst(r, p)
        <4>1. [store[r] EXCEPT !.first = p] \in Approvals!Approval
          BY <2>1 DEF Approvals!Approval
        <4> QED
          BY <3>1, <4>1 DEF Approvals!ApproveFirst
      <3>2. CASE Approvals!ApproveSecond(r, p)
        <4>1. [store[r] EXCEPT !.second = p, !.approver = p, !.status = "approved"]
                \in Approvals!Approval
          BY <2>1 DEF Approvals!Approval, Approvals!Statuses
        <4> QED
          BY <1>1, <3>2, <4>1 DEF Approvals!ApproveSecond
      <3>3. CASE Approvals!ApproveSingle(r, p)
        <4>1. [store[r] EXCEPT !.approver = p, !.status = "approved"]
                \in Approvals!Approval
          BY <2>1 DEF Approvals!Approval, Approvals!Statuses
        <4> QED
          BY <1>1, <3>3, <4>1 DEF Approvals!ApproveSingle
      <3>4. CASE Approvals!Reject(r, p)
        <4>1. [store[r] EXCEPT !.approver = p, !.status = "rejected"]
                \in Approvals!Approval
          BY <2>1 DEF Approvals!Approval, Approvals!Statuses
        <4> QED
          BY <1>1, <3>4, <4>1 DEF Approvals!Reject
      <3> QED
        BY <1>3, <3>1, <3>2, <3>3, <3>4 DEF Decision, Approvals!Decide
    <2> QED
      BY <1>1, <2>2
  <1>4. ASSUME NEW s \in Sessions, NEW a \in Actors, Start(r, s, a)
        PROVE  store' = store
    BY <1>4 DEF Start, queueVars
  <1>5. CASE Step(r) /\ ~Approval(r)
    BY <1>1, <1>5 DEF Step, Classify, BuildContext, CallModel, ModelAnswers,
       ModelFails, Plan, RefuseCall, StartHandler, HandlerReturns, EndTools,
       FirstFinal, Final, HitLimit, Return, Unwind, queueVars
  <1> QED
    BY <1>1, <1>2, <1>3, <1>4, <1>5 DEF Moves

\* A run that has started keeps its turn.
LEMMA TurnKept ==
  ASSUME NEW r \in Runs, Moves(r), pc[r] # "idle"
  PROVE  turn' = turn /\ traced' = traced
  BY DEF Moves, Start, Decision, Step, Classify, BuildContext, CallModel,
     ModelAnswers, ModelFails, Plan, Approval, RefuseCall, StartHandler,
     HandlerReturns, EndTools, FirstFinal, Final, HitLimit, Return, Unwind,
     Restore, graphVars

\* The fields of the turns and of the graph keep their types.
LEMMA TurnTypesStep ==
  ASSUME GraphInv, NEW r \in Runs, Moves(r)
  PROVE  TurnTypes'
  <1>1. TypeInv /\ FlowTypes /\ TurnTypes
    BY DEF GraphInv, TypeInv
  <1>2. ASSUME NEW s \in Sessions, NEW a \in Actors, Start(r, s, a)
        PROVE  TurnTypes'
    <2>1. [session |-> s, actor |-> a, prev |-> slot] \in Turn
      BY <1>1 DEF Turn, TurnTypes
    <2>2. turn' = [turn EXCEPT ![r] = [session |-> s, actor |-> a, prev |-> slot]]
          /\ slot' = s /\ traced' = s /\ reply' = reply /\ store' = store
      BY <1>2 DEF Start, Install, queueVars
    <2>3. \A q \in Runs : q # r => pc'[q] = pc[q]
      BY <1>1, <1>2, OthersStay DEF Moves, Stays
    <2> HIDE DEF Turn
    <2> QED
      BY <1>1, <2>1, <2>2, <2>3 DEF TurnTypes
  <1>3. ASSUME NEW p \in People, Decision(r, p)
        PROVE  TurnTypes'
    BY <1>1, <1>3, QueueTypeStep DEF Decision, graphVars, TurnTypes
  <1>4. CASE Step(r)
    <2>1. pc[r] # "idle"
      BY <1>4 DEF Step, Classify, BuildContext, CallModel, ModelAnswers,
         ModelFails, Plan, Approval, RefuseCall, StartHandler, HandlerReturns,
         EndTools, FirstFinal, Final, HitLimit, Return, Unwind
    <2>2. turn' = turn /\ traced' = traced
      BY <2>1, TurnKept
    <2>3. \A q \in Runs : pc'[q] # "idle" => turn'[q] \in Turn
      <3>1. \A q \in Runs : q # r => pc'[q] = pc[q]
        BY <1>1, OthersStay DEF Stays
      <3> QED
        BY <1>1, <2>1, <2>2, <3>1 DEF TurnTypes
    <2>4. CASE Return(r)
      <3>1. turn[r].prev \in Sessions \cup {None} /\ chan[r] \in Channels
        BY <1>1, <2>1, StartedTurn DEF FlowTypes
      <3>2. [ approval |-> chan[r].approval, pending |-> chan[r].pending,
              answer |-> chan[r].answer ] \in Reply
        BY <3>1 DEF Channels, Reply
      <3>3. slot' \in Sessions \cup {None}
        BY <2>4, <3>1 DEF Return, Restore
      <3>4. reply' \in [Runs -> Reply \cup {None}]
        <4> HIDE DEF Reply
        <4> QED
          BY <1>1, <2>4, <3>2 DEF Return, TurnTypes
      <3> QED
        BY <1>1, <2>2, <2>3, <3>3, <3>4, QueueTypeStep DEF TurnTypes
    <2>5. CASE Unwind(r)
      <3>1. turn[r].prev \in Sessions \cup {None}
        BY <1>1, <2>1, StartedTurn
      <3> QED
        BY <1>1, <2>2, <2>3, <2>5, <3>1, QueueTypeStep DEF Unwind, Restore, TurnTypes
    <2>6. CASE slot' = slot /\ reply' = reply
      BY <1>1, <2>2, <2>3, <2>6, QueueTypeStep DEF TurnTypes
    <2> QED
      BY <1>4, <2>4, <2>5, <2>6 DEF Step, Classify, BuildContext, CallModel,
         ModelAnswers, ModelFails, Plan, Approval, RefuseCall, StartHandler,
         HandlerReturns, EndTools, FirstFinal, Final, HitLimit, graphVars
  <1> QED
    BY <1>2, <1>3, <1>4 DEF Moves

-----------------------------------------------------------------------------
(***************************************************************************)
(* What is true of a run at its places is kept.                            *)
(***************************************************************************)
\* Records are only added.
LEMMA CallsGrow ==
  ASSUME TypeInv, [Next]_vars
  PROVE  /\ DOMAIN toolCalls \subseteq DOMAIN toolCalls'
         /\ \A i \in DOMAIN toolCalls : toolCalls'[i] = toolCalls[i]
  <1>1. IsSeq(toolCalls)
    BY DEF IsSeq, TypeInv, CallTypes
  <1>2. ASSUME NEW x, toolCalls' = Append(toolCalls, x)
        PROVE  /\ DOMAIN toolCalls \subseteq DOMAIN toolCalls'
               /\ \A i \in DOMAIN toolCalls : toolCalls'[i] = toolCalls[i]
    BY <1>1, <1>2, AppendGrows
  <1> QED
    BY <1>2, CallsStep

\* A run keeps its invariant when another one moves.
LEMMA RunInvOthers ==
  ASSUME TypeInv, [Next]_vars, NEW r \in Runs, Moves(r),
         NEW q \in Runs, q # r, RunInv(q)
  PROVE  RunInv(q)'
  <1>1. Stays(q)
    BY OthersStay
  <1>2. Batch(q)' = Batch(q) /\ Actor(q)' = Actor(q) /\ CanStep(q)' = CanStep(q)
    BY <1>1 DEF Stays, Batch, Actor, CanStep
  <1>3. DOMAIN toolCalls \subseteq DOMAIN toolCalls'
    BY CallsGrow
  <1>4. BatchIsLast(q)' /\ PlanIsOfBatch(q)' /\ NodeWasDue(q)'
    BY <1>1, <1>2 DEF RunInv, Stays, BatchIsLast, PlanIsOfBatch, NodeWasDue
  <1>5. DoneIsRecorded(q)'
    BY <1>1, <1>2, <1>3 DEF RunInv, Stays, DoneIsRecorded
  <1> QED
    BY <1>4, <1>5 DEF RunInv

\* The places between two nodes, and where the step from each leads.
Placed(r) == BatchIsLast(r) /\ PlanIsOfBatch(r) /\ NodeWasDue(r)

\* A step that leaves the run in a place about which nothing is claimed.
LEMMA PlacedElsewhere ==
  ASSUME NEW r \in Runs, pc'[r] \notin Batching \cup {"model_wait", "final_emitted"},
         store'[r] = None
  PROVE  Placed(r)'
  BY DEF Placed, BatchIsLast, PlanIsOfBatch, NodeWasDue, Batching

\* A move that does not change the channels keeps a run where it may be.
LEMMA PlacedSame ==
  ASSUME NEW r \in Runs, Placed(r), chan'[r] = chan[r],
         store'[r] # None => store[r] # None,
         pc'[r] \in Batching => pc[r] \in Batching,
         pc'[r] # "approval",
         pc'[r] \in {"model_wait", "final_emitted"} => CanStep(r)'
  PROVE  Placed(r)'
  BY DEF Placed, BatchIsLast, PlanIsOfBatch, NodeWasDue

\* A run that is not past its tool node has nothing on the queue.
LEMMA NotOverNotAsked ==
  ASSUME IInv, NEW r \in Runs, pc[r] \notin Over
  PROVE  store[r] = None
  BY DEF IInv, AskedIsOver

\* The approval node adds no message.
LEMMA ApprovalKeepsMessages ==
  ASSUME GraphInv, NEW r \in Runs, Approval(r)
  PROVE  chan'[r].messages = chan[r].messages
  <1>1. chan \in [Runs -> Channels]
    BY DEF GraphInv, TypeInv, FlowTypes
  <1>2. ASSUME NEW s, NEW p
        PROVE  [chan[r] EXCEPT !.approval = s, !.pending = p].messages = chan[r].messages
    BY <1>1 DEF Channels
  <1>3. ASSUME NEW s, NEW p, chan' = [chan EXCEPT ![r] =
                                 [chan[r] EXCEPT !.approval = s, !.pending = p]]
        PROVE  chan'[r].messages = chan[r].messages
    BY <1>1, <1>2, <1>3
  <1>4. chan' = chan \/ \E s, p : chan' = [chan EXCEPT ![r] =
                                 [chan[r] EXCEPT !.approval = s, !.pending = p]]
    BY DEF Approval, EndNode, Commit, Raise
  <1> QED
    BY <1>3, <1>4

\* A run that moves is where its channels allow.
LEMMA PlacedStep ==
  ASSUME GraphInv, NEW r \in Runs, Moves(r)
  PROVE  Placed(r)'
  <1>1. IInv /\ TypeInv /\ FlowTypes /\ Placed(r)
    BY DEF GraphInv, RunInv, TypeInv, Placed
  <1>2. pc \in [Runs -> PcValues] /\ steps \in [Runs -> 0 .. StepLimit]
        /\ chan \in [Runs -> Channels] /\ pc[r] \in PcValues
    BY <1>1 DEF FlowTypes
  <1>3. CASE pc'[r] \in {"classify", "context", "model", "final", "raised"}
             /\ pc[r] \notin Over /\ store' = store
    <2>1. store'[r] = None
      BY <1>1, <1>3, NotOverNotAsked
    <2> QED
      BY <1>3, <2>1, PlacedElsewhere DEF Batching
  <1>4. ASSUME NEW e, NEW c, NEW next, EndNode(r, e, c, next)
        PROVE  \/ pc'[r] = next /\ chan'[r] = c /\ chan' = [chan EXCEPT ![r] = c]
               \/ pc'[r] = "raised" /\ chan' = chan
    BY <1>2, <1>4 DEF EndNode, Commit, Raise
  <1>5. ASSUME NEW s \in Sessions, NEW a \in Actors, Start(r, s, a)
        PROVE  Placed(r)'
    BY <1>2, <1>3, <1>5 DEF Start, queueVars, Over
  <1>6. ASSUME NEW p \in People, Decision(r, p)
        PROVE  Placed(r)'
    <2>1. store[r] # None
      BY <1>6 DEF Decision, Approvals!Decide, Approvals!ApproveFirst,
           Approvals!ApproveSecond, Approvals!ApproveSingle, Approvals!Reject,
           Approvals!IsPending
    <2>2. pc[r] \in Over
      BY <1>1, <2>1 DEF IInv, AskedIsOver
    <2> QED
      BY <1>1, <1>6, <2>1, <2>2, PlacedSame DEF Decision, Over, Batching
  <1>7. CASE Classify(r)
    BY <1>3, <1>4, <1>7 DEF Classify, queueVars, Over
  <1>8. CASE BuildContext(r)
    BY <1>2, <1>3, <1>8 DEF BuildContext, Commit, queueVars, Over
  <1>9. CASE CallModel(r)
    <2>1. store'[r] = None
      BY <1>1, <1>9, NotOverNotAsked DEF CallModel, queueVars, Over
    <2>2. pc'[r] = "model_wait" /\ chan' = chan /\ CanStep(r)'
      BY <1>2, <1>9 DEF CallModel, CanStep
    <2> QED
      BY <1>1, <2>1, <2>2, PlacedSame DEF Batching
  <1>10. ASSUME NEW calls \in Replies, ModelAnswers(r, calls)
         PROVE  Placed(r)'
    <2> DEFINE c == [chan[r] EXCEPT !.messages = Append(@, Msg("assistant", calls))]
    <2>1. EndNode(r, Event(r, "model_call"), c,
                  IF calls = << >> THEN "final" ELSE "plan")
      BY <1>10 DEF ModelAnswers
    <2>2. store' = store /\ pc[r] \notin Over
      BY <1>10 DEF ModelAnswers, queueVars, Over
    <2>3. CASE calls # << >> /\ pc'[r] = "plan" /\ chan'[r] = c
      <3>1. chan[r].messages \in Seq(Message) /\ c.messages = Append(chan[r].messages, Msg("assistant", calls))
        BY <1>2 DEF Channels
      <3>2. AsksLast(c.messages)
        <4> DEFINE m == Msg("assistant", calls)
        <4>1. m.role = "assistant" /\ m.calls = calls
          BY DEF Msg
        <4> HIDE DEF m
        <4>2. c.messages # << >> /\ c.messages[Len(c.messages)] = m
          <5>1. c.messages = Append(chan[r].messages, m)
            BY <3>1 DEF m
          <5> QED
            BY <3>1, <5>1
        <4> QED
          BY <2>3, <4>1, <4>2 DEF AsksLast
      <3> QED
        BY <2>3, <3>2 DEF Placed, BatchIsLast, PlanIsOfBatch, NodeWasDue
    <2> QED
      BY <1>3, <1>4, <2>1, <2>2, <2>3
  <1>11. CASE ModelFails(r)
    BY <1>2, <1>3, <1>11 DEF ModelFails, Raise, queueVars, Over
  <1>12. CASE Plan(r)
    <2> DEFINE c == [chan[r] EXCEPT !.plan = PlanFor(Actor(r), LastCalls(chan[r].messages))]
    <2>1. EndNode(r, Event(r, "plan"), c, "approval") /\ store' = store /\ turn' = turn
          /\ pc[r] = "plan"
      BY <1>12 DEF Plan, queueVars
    <2>2. c.messages = chan[r].messages
          /\ c.plan = PlanFor(Actor(r), LastCalls(chan[r].messages))
      BY <1>2 DEF Channels
    <2>3. CASE pc'[r] = "approval" /\ chan'[r] = c
      <3>1. AsksLast(chan'[r].messages)
        BY <1>1, <2>1, <2>2, <2>3 DEF Placed, BatchIsLast, Batching
      <3>2. Actor(r)' = Actor(r)
        BY <2>1 DEF Actor
      <3> HIDE DEF c
      <3>3. PlanIsOfBatch(r)'
        BY <2>2, <2>3, <3>2 DEF PlanIsOfBatch
      <3> QED
        BY <2>3, <3>1, <3>3 DEF Placed, BatchIsLast, NodeWasDue
    <2> QED
      BY <1>3, <1>4, <2>1, <2>3 DEF Over
  <1>13. CASE Approval(r)
    <2> DEFINE needed == Required(Actor(r), Candidates(chan[r]))
               state  == IF needed = << >> THEN "not_required" ELSE "pending"
               c == [chan[r] EXCEPT !.approval = state, !.pending = needed]
    <2>1. EndNode(r, Event(r, "approval"), c, AfterApproval(needed)) /\ pc[r] = "approval"
      BY <1>13 DEF Approval
    <2>2. chan'[r].messages = chan[r].messages
      BY <1>13, ApprovalKeepsMessages
    <2>3. pc'[r] \in {"tool", "ended", "raised"}
      BY <1>4, <2>1 DEF AfterApproval
    <2>4. AsksLast(chan'[r].messages)
      BY <1>1, <2>1, <2>2 DEF Placed, BatchIsLast, Batching
    <2> QED
      BY <2>3, <2>4 DEF Placed, BatchIsLast, PlanIsOfBatch, NodeWasDue
  <1>14. CASE RefuseCall(r)
    BY <1>1, <1>14, PlacedSame DEF RefuseCall, queueVars
  <1>15. CASE StartHandler(r)
    BY <1>1, <1>2, <1>15, PlacedSame DEF StartHandler, queueVars, Batching
  <1>16. ASSUME NEW status, HandlerReturns(r, status)
         PROVE  Placed(r)'
    BY <1>1, <1>2, <1>16, PlacedSame DEF HandlerReturns, queueVars, Batching
  <1>17. CASE EndTools(r)
    BY <1>3, <1>4, <1>17 DEF EndTools, queueVars, Over
  <1>18. CASE FirstFinal(r)
    <2>1. CASE pc' = [pc EXCEPT ![r] = "final_emitted"] /\ UNCHANGED <<chan, steps>>
      <3>1. store'[r] = None
        BY <1>1, <1>18, NotOverNotAsked DEF FirstFinal, queueVars, Over
      <3>2. pc'[r] = "final_emitted" /\ chan' = chan /\ CanStep(r)'
        BY <1>2, <1>18, <2>1 DEF FirstFinal, CanStep
      <3> QED
        BY <1>1, <3>1, <3>2, PlacedSame DEF Batching
    <2> QED
      BY <1>2, <1>3, <1>18, <2>1 DEF FirstFinal, Raise, queueVars, Over
  <1>19. CASE Final(r)
    <2>1. store'[r] = None
      BY <1>1, <1>19, NotOverNotAsked DEF Final, queueVars, Over
    <2>2. pc'[r] \in {"ended", "raised"}
      BY <1>4, <1>19 DEF Final
    <2> QED
      BY <2>1, <2>2, PlacedElsewhere DEF Batching
  <1>20. CASE HitLimit(r)
    BY <1>2, <1>3, <1>20 DEF HitLimit, queueVars, Over
  <1>21. CASE Return(r) \/ Unwind(r)
    <2>1. chan' = chan /\ store' = store /\ pc'[r] \in {"done", "failed"}
      BY <1>2, <1>21 DEF Return, Unwind, queueVars
    <2> QED
      BY <1>1, <2>1, PlacedSame DEF Batching
  <1> QED
    BY <1>5, <1>6, <1>7, <1>8, <1>9, <1>10, <1>11, <1>12, <1>13, <1>14, <1>15,
       <1>16, <1>17, <1>18, <1>19, <1>20, <1>21 DEF Moves, Step

\* What a run has done stays recorded when it moves.
LEMMA DoneStep ==
  ASSUME GraphInv, [Next]_vars, NEW r \in Runs, Moves(r)
  PROVE  DoneIsRecorded(r)'
  <1>1. TypeInv /\ FlowTypes /\ DoneIsRecorded(r)
    BY DEF GraphInv, RunInv, TypeInv
  <1>2. pc \in [Runs -> PcValues] /\ chan \in [Runs -> Channels]
        /\ done \in [Runs -> Seq(Nat)] /\ toolCalls \in Seq(CallRecord)
    BY <1>1 DEF FlowTypes, TypeInv, CallTypes
  <1>3. ASSUME done'[r] = done[r], pc'[r] \notin Tooling,
               pc'[r] \notin Over => pc[r] \notin Over \cup Tooling
        PROVE  DoneIsRecorded(r)'
    BY <1>1, <1>3, CallsGrow DEF DoneIsRecorded, Tooling
  <1>4. ASSUME NEW e, NEW c, NEW next, EndNode(r, e, c, next)
        PROVE  pc'[r] \in {next, "raised"}
    BY <1>2, <1>4 DEF EndNode, Commit, Raise
  <1>5. ASSUME NEW status, Record(r, status), chan' = chan, pc[r] \in Tooling,
               pc'[r] = "tool", Len(done[r]) < Len(Batch(r))
        PROVE  DoneIsRecorded(r)'
    <2>1. Len(Batch(r)) \in Nat
      BY <1>5, BatchFacts DEF Tooling, Batching
    <2>2. Batch(r)' = Batch(r)
      BY <1>5 DEF Batch
    <2>3. /\ done'[r] = Append(done[r], Len(toolCalls) + 1)
          /\ DOMAIN toolCalls' = DOMAIN toolCalls \cup {Len(toolCalls) + 1}
      BY <1>2, <1>5 DEF Record
    <2>4. Len(done'[r]) = Len(done[r]) + 1 /\ Len(done[r]) \in Nat
      BY <1>2, <2>3
    <2>5. \A k \in DOMAIN done'[r] : done'[r][k] \in DOMAIN toolCalls'
      BY <1>1, <1>2, <2>3 DEF DoneIsRecorded
    <2> QED
      BY <1>5, <2>1, <2>2, <2>4, <2>5 DEF DoneIsRecorded, Tooling
  <1>6. ASSUME NEW s \in Sessions, NEW a \in Actors, Start(r, s, a)
        PROVE  DoneIsRecorded(r)'
    BY <1>2, <1>3, <1>6 DEF Start, gateVars, Over, Tooling
  <1>7. ASSUME NEW p \in People, Decision(r, p)
        PROVE  DoneIsRecorded(r)'
    BY <1>1, <1>7 DEF Decision, gateVars, DoneIsRecorded, Batch
  <1>8. CASE Classify(r)
    BY <1>3, <1>4, <1>8 DEF Classify, gateVars, Over, Tooling
  <1>9. CASE BuildContext(r) \/ CallModel(r) \/ ModelFails(r)
    BY <1>2, <1>3, <1>9 DEF BuildContext, CallModel, ModelFails, Commit, Raise,
       gateVars, Over, Tooling
  <1>10. ASSUME NEW calls \in Replies, ModelAnswers(r, calls)
         PROVE  DoneIsRecorded(r)'
    BY <1>3, <1>4, <1>10 DEF ModelAnswers, gateVars, Over, Tooling
  <1>11. CASE Plan(r)
    BY <1>3, <1>4, <1>11 DEF Plan, gateVars, Over, Tooling
  <1>12. CASE Approval(r)
    <2> DEFINE needed == Required(Actor(r), Candidates(chan[r]))
    <2>1. done' = done /\ toolCalls' = toolCalls /\ done[r] = << >>
      BY <1>1, <1>12 DEF Approval, gateVars, DoneIsRecorded, Over, Tooling
    <2>2. pc'[r] \in {"tool", "ended", "raised"}
      BY <1>4, <1>12 DEF Approval, AfterApproval
    <2>3. Batch(r)' = Batch(r)
      BY <1>12, ApprovalKeepsMessages DEF Batch
    <2>4. Len(Batch(r)) \in Nat
      BY <1>12, BatchFacts DEF Approval, Batching
    <2>5. Len(<< >>) = 0
      OBVIOUS
    <2> QED
      BY <2>1, <2>2, <2>3, <2>4, <2>5 DEF DoneIsRecorded, Tooling
  <1>13. CASE RefuseCall(r)
    <2>1. pc'[r] = "tool" /\ pc[r] \in Tooling /\ chan' = chan
      BY <1>13 DEF RefuseCall, Tooling
    <2> QED
      BY <1>5, <1>13, <2>1 DEF RefuseCall
  <1>14. CASE StartHandler(r)
    BY <1>1, <1>2, <1>14 DEF StartHandler, DoneIsRecorded, Tooling, Batch, Over
  <1>15. ASSUME NEW status, HandlerReturns(r, status)
         PROVE  DoneIsRecorded(r)'
    <2>1. Len(done[r]) < Len(Batch(r))
      BY <1>1, <1>15 DEF HandlerReturns, DoneIsRecorded
    <2>2. pc'[r] = "tool" /\ pc[r] \in Tooling /\ chan' = chan
      BY <1>2, <1>15 DEF HandlerReturns, Tooling
    <2> QED
      BY <1>5, <1>15, <2>1, <2>2 DEF HandlerReturns
  <1>16. CASE EndTools(r)
    <2>1. done'[r] = << >> /\ toolCalls' = toolCalls
      BY <1>2, <1>16 DEF EndTools
    <2>2. pc'[r] \in {"model", "raised"}
      BY <1>4, <1>16 DEF EndTools
    <2> QED
      BY <2>1, <2>2 DEF DoneIsRecorded, Tooling
  <1>17. CASE FirstFinal(r)
    BY <1>2, <1>3, <1>17 DEF FirstFinal, Raise, gateVars, Over, Tooling
  <1>18. CASE Final(r)
    BY <1>3, <1>4, <1>18 DEF Final, gateVars, Over, Tooling
  <1>19. CASE HitLimit(r)
    BY <1>2, <1>3, <1>19 DEF HitLimit, gateVars, Over, Tooling
  <1>20. CASE Return(r) \/ Unwind(r)
    BY <1>2, <1>3, <1>20 DEF Return, Unwind, gateVars, Over, Tooling
  <1> QED
    BY <1>6, <1>7, <1>8, <1>9, <1>10, <1>11, <1>12, <1>13, <1>14, <1>15, <1>16,
       <1>17, <1>18, <1>19, <1>20 DEF Moves, Step

-----------------------------------------------------------------------------
\* The invariant holds at the start.
LEMMA GraphInvInit == Init => GraphInv
  <1> SUFFICES ASSUME Init
               PROVE  GraphInv
    OBVIOUS
  <1>1. IInv
    BY IInvInit
  <1>2. EmptyChannels \in Channels
    BY DEF EmptyChannels, Channels
  <1>3. << >> \in Seq(Nat) /\ << >> \in Seq(CallRecord) /\ << >> \in Seq(StartRecord)
    OBVIOUS
  <1>4. FlowTypes
    BY <1>2, GraphAssumption DEF Init, FlowTypes, PcValues
  <1>5. CallTypes
    BY <1>3 DEF Init, CallTypes
  <1>6. TurnTypes
    BY DEF Init, TurnTypes, Approvals!Init
  <1>7. ASSUME NEW r \in Runs
        PROVE  RunInv(r)
    BY DEF Init, Approvals!Init, RunInv, BatchIsLast, DoneIsRecorded,
       PlanIsOfBatch, NodeWasDue, Batching, Tooling
  <1> QED
    BY <1>1, <1>4, <1>5, <1>6, <1>7 DEF GraphInv, TypeInv

\* Every step preserves the invariant.
LEMMA GraphInvStep == GraphInv /\ [Next]_vars => GraphInv'
  <1> SUFFICES ASSUME GraphInv, [Next]_vars
               PROVE  GraphInv'
    OBVIOUS
  <1>1. IInv'
    BY IInvStep DEF GraphInv
  <1>2. CASE UNCHANGED vars
    BY <1>1, <1>2 DEF vars, GraphInv, TypeInv, FlowTypes, CallTypes, TurnTypes,
       RunInv, BatchIsLast, DoneIsRecorded, PlanIsOfBatch, NodeWasDue, Batch,
       Actor, CanStep
  <1>3. ASSUME NEW r \in Runs, Moves(r)
        PROVE  GraphInv'
    <2>1. TypeInv'
      BY <1>3, FlowTypesStep, CallTypesStep, TurnTypesStep DEF TypeInv
    <2>2. RunInv(r)'
      BY <1>3, PlacedStep, DoneStep DEF Placed, RunInv
    <2>3. \A q \in Runs : RunInv(q)'
      BY <1>3, <2>2, RunInvOthers DEF GraphInv
    <2> QED
      BY <1>1, <2>1, <2>3 DEF GraphInv
  <1> QED
    BY <1>2, <1>3, NextMoves

(***************************************************************************)
(* The invariant the later theorems rest on: the types of all variables,   *)
(* and for each run what holds at the place of the loop where it is.       *)
(***************************************************************************)
THEOREM GraphInvCorrect == Spec => []GraphInv
  BY GraphInvInit, GraphInvStep, PTL DEF Spec

(***************************************************************************)
(* Every variable keeps its type; of each step counter this says that no   *)
(* run executes more nodes than the recursion limit allows, and of the     *)
(* queue that what it holds are approvals of subjects that the models'     *)
(* answers can give rise to.                                               *)
(***************************************************************************)
THEOREM TypeCorrect == Spec => []TypeOK
  <1>1. GraphInv => TypeOK
    BY TypesAreOK DEF GraphInv
  <1> QED
    BY <1>1, GraphInvCorrect, PTL

-----------------------------------------------------------------------------
(***************************************************************************)
(* What one step does to the channels of a thread.                         *)
(***************************************************************************)
Prolongs(new, old) == Len(old) <= Len(new) /\ SubSeq(new, 1, Len(old)) = old

Needed(r) == Required(Actor(r), Candidates(chan[r]))

\* The channels c that a node of r leaves where it found chan[r].
Follows(c, r) ==
  /\ Prolongs(c.messages, chan[r].messages)
  /\ \/ c.approval = chan[r].approval /\ c.pending = chan[r].pending
     \/ /\ Approval(r)
        /\ c.approval = (IF Needed(r) = << >> THEN "not_required" ELSE "pending")
        /\ c.pending = Needed(r)

\* A list goes on from itself, and so does whatever is appended to it.
LEMMA ProlongsMore ==
  ASSUME NEW S, NEW s \in Seq(S), NEW t \in Seq(S)
  PROVE  Prolongs(s, s) /\ Prolongs(s \o t, s)
  <1>1. SubSeq(s \o t, 1, Len(s)) = s
    BY ConcatProperties, SubSeqOfConcat1, SubSeqFull
  <1>2. Len(s) <= Len(s) /\ Len(s) <= Len(s \o t) /\ SubSeq(s, 1, Len(s)) = s
    BY SubSeqFull
  <1> QED
    BY <1>1, <1>2 DEF Prolongs

\* One more element goes on from a list.
LEMMA ProlongsOne ==
  ASSUME NEW S, NEW s \in Seq(S), NEW x \in S
  PROVE  Prolongs(Append(s, x), s)
  <1>1. Append(s, x) = s \o <<x>> /\ <<x>> \in Seq(S)
    BY AppendIsConcat
  <1> QED
    BY <1>1, ProlongsMore

\* A step leaves channels and checkpoints alone, or saves those of its run.
LEMMA FlowStep ==
  ASSUME GraphInv, NEW r \in Runs, Step(r)
  PROVE  \/ chan' = chan /\ ckpt' = ckpt
         \/ \E c : /\ Follows(c, r)
                   /\ chan' = [chan EXCEPT ![r] = c]
                   /\ ckpt' = [ckpt EXCEPT ![Session(r)] = c]
  <1> DEFINE Flows == \/ chan' = chan /\ ckpt' = ckpt
                      \/ \E c : /\ Follows(c, r)
                                /\ chan' = [chan EXCEPT ![r] = c]
                                /\ ckpt' = [ckpt EXCEPT ![Session(r)] = c]
  <1>1. TypeInv /\ chan[r] \in Channels /\ chan[r].messages \in Seq(Message)
    BY DEF GraphInv, TypeInv, FlowTypes, Channels
  <1>2. ASSUME NEW c, Follows(c, r), NEW e, NEW next, EndNode(r, e, c, next)
        PROVE  Flows
    BY <1>2 DEF EndNode, Commit, Raise
  <1>3. Follows(chan[r], r)
    BY <1>1, ProlongsMore DEF Follows
  <1>4. CASE Classify(r)
    BY <1>2, <1>3, <1>4 DEF Classify
  <1>5. CASE BuildContext(r)
    BY <1>3, <1>5 DEF BuildContext, Commit
  <1>6. ASSUME NEW calls \in Replies, ModelAnswers(r, calls)
        PROVE  Flows
    <2> DEFINE c == [chan[r] EXCEPT !.messages = Append(@, Msg("assistant", calls))]
    <2>1. Msg("assistant", calls) \in Message
      BY GraphAssumption DEF Msg, Message
    <2>2. Prolongs(Append(chan[r].messages, Msg("assistant", calls)), chan[r].messages)
      <3> HIDE DEF Message
      <3> QED
        BY <1>1, <2>1, ProlongsOne
    <2>3. c.messages = Append(chan[r].messages, Msg("assistant", calls))
          /\ c.approval = chan[r].approval /\ c.pending = chan[r].pending
      BY <1>1 DEF Channels
    <2>4. EndNode(r, Event(r, "model_call"), c,
                  IF calls = << >> THEN "final" ELSE "plan")
      BY <1>6 DEF ModelAnswers
    <2> HIDE DEF c
    <2> QED
      BY <1>2, <2>2, <2>3, <2>4 DEF Follows
  <1>7. CASE Plan(r)
    <2> DEFINE c == [chan[r] EXCEPT !.plan = PlanFor(Actor(r), LastCalls(chan[r].messages))]
    <2>1. c.messages = chan[r].messages
          /\ c.approval = chan[r].approval /\ c.pending = chan[r].pending
      BY <1>1 DEF Channels
    <2>2. EndNode(r, Event(r, "plan"), c, "approval")
      BY <1>7 DEF Plan
    <2> HIDE DEF c
    <2> QED
      BY <1>2, <1>3, <2>1, <2>2 DEF Follows
  <1>8. CASE Approval(r)
    <2> DEFINE state == IF Needed(r) = << >> THEN "not_required" ELSE "pending"
               c == [chan[r] EXCEPT !.approval = state, !.pending = Needed(r)]
    <2>1. c.messages = chan[r].messages
          /\ c.approval = state /\ c.pending = Needed(r)
      BY <1>1 DEF Channels
    <2>2. EndNode(r, Event(r, "approval"), c, AfterApproval(Needed(r)))
      BY <1>8 DEF Approval, Needed
    <2>3. Follows(c, r)
      <3> HIDE DEF c
      <3> QED
        BY <1>3, <1>8, <2>1 DEF Follows
    <2> HIDE DEF c
    <2> QED
      BY <1>2, <2>2, <2>3
  <1>9. CASE EndTools(r)
    <2> DEFINE outcome == [ k \in DOMAIN done[r] |-> toolCalls[done[r][k]] ]
               replies == [ k \in DOMAIN done[r] |-> Msg("tool", << >>) ]
               c == [chan[r] EXCEPT !.messages = @ \o replies, !.results  = @ \o outcome]
    <2>1. replies \in Seq(Message)
      <3>1. Msg("tool", << >>) \in Message
        BY DEF Msg, Message
      <3>2. DOMAIN done[r] = 1 .. Len(done[r]) /\ Len(done[r]) \in Nat
        BY <1>1 DEF TypeInv, CallTypes
      <3> QED
        BY <3>1, <3>2
    <2>2. EndNode(r, ToolEvent(r), c, "model")
      BY <1>9 DEF EndTools
    <2> HIDE DEF replies, outcome
    <2>3. Prolongs(chan[r].messages \o replies, chan[r].messages)
      BY <1>1, <2>1, ProlongsMore
    <2>4. c.messages = chan[r].messages \o replies
          /\ c.approval = chan[r].approval /\ c.pending = chan[r].pending
      BY <1>1 DEF Channels
    <2> HIDE DEF c
    <2> QED
      BY <1>2, <2>2, <2>3, <2>4 DEF Follows
  <1>10. CASE Final(r)
    <2> DEFINE c == [chan[r] EXCEPT !.answer = chan[r].results]
    <2>1. c.messages = chan[r].messages
          /\ c.approval = chan[r].approval /\ c.pending = chan[r].pending
      BY <1>1 DEF Channels
    <2>2. EndNode(r, Event(r, "session_final"), c, "ended")
      BY <1>10 DEF Final
    <2> HIDE DEF c
    <2> QED
      BY <1>2, <1>3, <2>1, <2>2 DEF Follows
  <1>11. CASE chan' = chan /\ ckpt' = ckpt
    BY <1>11
  <1> QED
    BY <1>4, <1>5, <1>6, <1>7, <1>8, <1>9, <1>10, <1>11 DEF Step, CallModel,
       ModelFails, Raise, RefuseCall, StartHandler, HandlerReturns, FirstFinal,
       HitLimit, Return, Unwind

-----------------------------------------------------------------------------
(***************************************************************************)
(* Requests on the queue.  A request never disappears and keeps its        *)
(* subject; the turn that made it keeps its session.                       *)
(***************************************************************************)
LEMMA ApprovalAsks ==
  ASSUME GraphInv, NEW r \in Runs, Approval(r), Needed(r) # << >>
  PROVE  store[r] = None /\ store'[r] # None /\ store'[r].subject = Needed(r)
  <1>1. TypeInv /\ store \in [Runs -> Approvals!Approval \cup {None}]
    BY DEF GraphInv, TypeInv, TurnTypes
  <1>2. Enqueue(r, Needed(r)) /\ pc[r] = "approval"
    BY DEF Approval, Needed
  <1>3. store[r] = None /\ store'[r] = Approvals!NewApproval(Actor(r), Needed(r))
    BY <1>1, <1>2 DEF Enqueue, Approvals!Request
  <1>4. Needed(r) \in Subjects /\ Actor(r) \in People
    BY <1>1, <1>2, NeededIsSubject, StartedTurn, GraphAssumption DEF Needed
  <1>5. store'[r] \in Approvals!Approval
    BY <1>3, <1>4 DEF Approvals!NewApproval, Approvals!Approval,
       Approvals!RequiresDualApproval, Approvals!Statuses
  <1>6. store'[r].subject = Needed(r)
    BY <1>3 DEF Approvals!NewApproval
  <1> QED
    BY <1>3, <1>5, <1>6, QueueAssumption

\* A step leaves the queue alone, decides a request, or is an approval node.
LEMMA QueueStep ==
  ASSUME GraphInv, NEW r \in Runs, Moves(r)
  PROVE  \/ store' = store
         \/ /\ UNCHANGED <<chan, ckpt, turn, reply, pc>>
            /\ store[r] # None /\ store'[r] # None
            /\ store'[r].subject = store[r].subject
            /\ \A q \in Runs : q # r => store'[q] = store[q]
         \/ /\ Approval(r) /\ Needed(r) # << >>
            /\ store[r] = None /\ store'[r] # None
            /\ store'[r].subject = Needed(r)
            /\ \A q \in Runs : q # r => store'[q] = store[q]
  <1>1. TypeInv /\ store \in [Runs -> Approvals!Approval \cup {None}]
        /\ store' \in [Runs -> Approvals!Approval \cup {None}]
    BY QueueTypeStep DEF GraphInv, TypeInv, TurnTypes
  <1>2. \A q \in Runs : q # r => store'[q] = store[q]
    BY <1>1, OthersStay DEF Stays
  <1>3. ASSUME NEW p \in People, Decision(r, p)
        PROVE  /\ UNCHANGED <<chan, ckpt, turn, reply, pc>>
               /\ store[r] # None /\ store'[r] # None
               /\ store'[r].subject = store[r].subject
    <2>1. UNCHANGED <<chan, ckpt, turn, reply, pc>> /\ Approvals!Decide(r, p)
      BY <1>3 DEF Decision
    <2>2. store[r] # None /\ store[r] \in Approvals!Approval
      BY <1>1, <2>1 DEF Approvals!Decide, Approvals!ApproveFirst,
         Approvals!ApproveSecond, Approvals!ApproveSingle, Approvals!Reject,
         Approvals!IsPending
    <2>3. store'[r] \in Approvals!Approval /\ store'[r].subject = store[r].subject
      <3>1. CASE Approvals!ApproveFirst(r, p)
        <4>1. store'[r] = [store[r] EXCEPT !.first = p]
          BY <1>1, <3>1 DEF Approvals!ApproveFirst
        <4> QED
          BY <2>2, <4>1 DEF Approvals!Approval
      <3>2. CASE Approvals!ApproveSecond(r, p)
        <4>1. store'[r] = [store[r] EXCEPT !.second = p, !.approver = p, !.status = "approved"]
          BY <1>1, <3>2 DEF Approvals!ApproveSecond
        <4> QED
          BY <2>2, <4>1 DEF Approvals!Approval, Approvals!Statuses
      <3>3. CASE Approvals!ApproveSingle(r, p)
        <4>1. store'[r] = [store[r] EXCEPT !.approver = p, !.status = "approved"]
          BY <1>1, <3>3 DEF Approvals!ApproveSingle
        <4> QED
          BY <2>2, <4>1 DEF Approvals!Approval, Approvals!Statuses
      <3>4. CASE Approvals!Reject(r, p)
        <4>1. store'[r] = [store[r] EXCEPT !.approver = p, !.status = "rejected"]
          BY <1>1, <3>4 DEF Approvals!Reject
        <4> QED
          BY <2>2, <4>1 DEF Approvals!Approval, Approvals!Statuses
      <3> QED
        BY <2>1, <3>1, <3>2, <3>3, <3>4 DEF Approvals!Decide
    <2> QED
      BY <2>1, <2>2, <2>3, QueueAssumption
  <1>4. CASE Approval(r)
    <2>1. Enqueue(r, Needed(r)) /\ pc[r] = "approval"
      BY <1>4 DEF Approval, Needed
    <2>2. CASE Needed(r) = << >>
      BY <2>1, <2>2 DEF Enqueue, queueVars
    <2>3. CASE Needed(r) # << >>
      BY <1>2, <1>4, <2>3, ApprovalAsks
    <2> QED
      BY <2>2, <2>3
  <1>5. ASSUME NEW s \in Sessions, NEW a \in Actors, Start(r, s, a)
        PROVE  store' = store
    BY <1>5 DEF Start, queueVars
  <1>6. CASE Step(r) /\ ~Approval(r)
    BY <1>6 DEF Step, Classify, BuildContext, CallModel, ModelAnswers,
       ModelFails, Plan, RefuseCall, StartHandler, HandlerReturns, EndTools,
       FirstFinal, Final, HitLimit, Return, Unwind, queueVars
  <1> QED
    BY <1>2, <1>3, <1>4, <1>5, <1>6 DEF Moves

\* A run that is over leaves its channels and turn alone; so does a decision.
LEMMA OverIsStill ==
  ASSUME NEW r \in Runs, pc[r] \in Over, Moves(r)
  PROVE  chan' = chan /\ turn' = turn
  BY DEF Over, Moves, Start, Decision, Step, Classify, BuildContext, CallModel,
     ModelAnswers, ModelFails, Plan, Approval, RefuseCall, StartHandler,
     HandlerReturns, EndTools, FirstFinal, Final, HitLimit, Return, Unwind

-----------------------------------------------------------------------------
\* What an approval node asks for is held back by the gateway, and of what the
\* gateway would hold back it leaves out only what the registry does not know.
LEMMA NeededIsHeldBack ==
  ASSUME GraphInv, NEW r \in Runs, pc[r] = "approval"
  PROVE  /\ Elements(Needed(r)) \subseteq HeldBack(r)
         /\ HeldBack(r) \cap Registry \subseteq Elements(Needed(r))
  <1> DEFINE a == Actor(r)
             held == { t \in DOMAIN Policy : Allowed(a, t) /\ ApprovalRequired(t) }
  <1>1. Batch(r) \in Seq(ToolNames)
    BY BatchFacts DEF Batching
  <1>2. Usable(a, Batch(r)) \in Seq(ToolNames)
    BY <1>1, NarrowedType
  <1>3. Elements(Usable(a, Batch(r))) = Elements(Batch(r)) \cap FilterTools(a, Registry)
    BY <1>1, KeepElements DEF Usable
  <1>4. Elements(Required(a, Batch(r))) = Elements(Batch(r)) \cap held
        /\ Elements(Required(a, Usable(a, Batch(r)))) = Elements(Usable(a, Batch(r))) \cap held
    BY <1>1, <1>2, KeepElements DEF Required
  <1>5. held \cap Registry \subseteq FilterTools(a, Registry)
    BY DEF FilterTools
  <1>6. \/ Elements(Needed(r)) = Elements(Batch(r)) \cap held
        \/ Elements(Needed(r)) = Elements(Batch(r)) \cap FilterTools(a, Registry) \cap held
    BY <1>3, <1>4, CandidatesAre DEF Needed
  <1>7. HeldBack(r) = Elements(Batch(r)) \cap held
    BY DEF HeldBack, Gate, Allowed
  <1> QED
    BY <1>5, <1>6, <1>7

Covers(r) ==
  store[r] # None =>
    /\ Elements(store[r].subject) \subseteq HeldBack(r)
    /\ HeldBack(r) \cap Registry \subseteq Elements(store[r].subject)

QueueCovers == \A r \in Runs : Covers(r)

\* A request keeps covering its batch.
LEMMA CoversStep ==
  ASSUME GraphInv, QueueCovers, [Next]_vars, NEW q \in Runs
  PROVE  Covers(q)'
  <1>1. CASE UNCHANGED vars
    BY <1>1 DEF vars, QueueCovers, Covers, HeldBack, Batch, Actor
  <1>2. ASSUME NEW r \in Runs, Moves(r), q # r
        PROVE  Covers(q)'
    <2>1. Stays(q)
      BY <1>2, OthersStay DEF GraphInv
    <2> QED
      BY <2>1 DEF Stays, QueueCovers, Covers, HeldBack, Batch, Actor
  <1>3. ASSUME Moves(q)
        PROVE  Covers(q)'
    <2>1. CASE store[q] # None
      <3>1. pc[q] \in Over
        BY <2>1 DEF GraphInv, IInv, AskedIsOver
      <3>2. Batch(q)' = Batch(q) /\ Actor(q)' = Actor(q)
        BY <1>3, <3>1, OverIsStill DEF Batch, Actor
      <3>3. store'[q] # None => store'[q].subject = store[q].subject
        BY <1>3, <2>1, QueueStep
      <3> QED
        BY <2>1, <3>2, <3>3 DEF QueueCovers, Covers, HeldBack
    <2>2. CASE store'[q] # None /\ store[q] = None
      <3>1. Approval(q) /\ store'[q].subject = Needed(q)
        BY <1>3, <2>2, QueueStep
      <3>2. Batch(q)' = Batch(q)
        BY <3>1, ApprovalKeepsMessages DEF Batch
      <3>3. pc[q] = "approval" /\ Actor(q)' = Actor(q)
        BY <3>1 DEF Approval, Actor
      <3>4. /\ Elements(Needed(q)) \subseteq HeldBack(q)
            /\ HeldBack(q) \cap Registry \subseteq Elements(Needed(q))
        BY <3>3, NeededIsHeldBack
      <3> QED
        BY <3>1, <3>2, <3>3, <3>4 DEF Covers, HeldBack
    <2> QED
      BY <2>1, <2>2 DEF Covers
  <1> QED
    BY <1>1, <1>2, <1>3, NextMoves

(***************************************************************************)
(* The request on the queue names only calls of its batch that the gateway *)
(* would hold back, and all of them that the registry knows, for every     *)
(* policy table, actor, registry and batch.  build_agent_service registers *)
(* the whole table, and then nothing is missing from the request; with a   *)
(* shorter registry the plan hides calls from the approval node.           *)
(***************************************************************************)
THEOREM ApprovalCoversBatchCorrect == Spec => []ApprovalCoversBatch
  <1>1. Init => QueueCovers
    BY DEF Init, Approvals!Init, QueueCovers, Covers
  <1>2. GraphInv /\ QueueCovers /\ [Next]_vars => QueueCovers'
    BY CoversStep DEF QueueCovers
  <1>3. QueueCovers => ApprovalCoversBatch
    BY DEF QueueCovers, Covers, ApprovalCoversBatch
  <1> QED
    BY <1>1, <1>2, <1>3, GraphInvCorrect, PTL DEF Spec

-----------------------------------------------------------------------------
(***************************************************************************)
(* A "pending" in a checkpoint, in the channels of a run or in a reply is  *)
(* backed by a request on the queue, made by a turn of the same session.   *)
(* The checkpoint has to be in the invariant: the next turn of the thread  *)
(* starts from it, and may end before its own approval node.               *)
(***************************************************************************)
\* In the queue q of the turns t there is a request of session s for subject.
Queued(q, t, s, subject) ==
  \E r \in Runs : q[r] # None /\ t[r].session = s /\ q[r].subject = subject

Backed(c, s) == c.approval = "pending" => Queued(store, turn, s, c.pending)

PendingIsQueued ==
  /\ \A s \in Sessions : Backed(ckpt[s], s)
  /\ \A r \in Runs : pc[r] # "idle" => Backed(chan[r], turn[r].session)
  /\ \A r \in Runs : reply[r] # None =>
       pc[r] = "done" /\ Backed(reply[r], turn[r].session)

\* What is on the queue stays there.
LEMMA QueuedStays ==
  ASSUME GraphInv, NEW r \in Runs, Moves(r), NEW s, NEW subject,
         Queued(store, turn, s, subject)
  PROVE  Queued(store', turn', s, subject)
  <1>1. PICK q \in Runs : store[q] # None /\ turn[q].session = s
                          /\ store[q].subject = subject
    BY DEF Queued
  <1>2. turn'[q] = turn[q]
    <2>1. CASE q = r
      <3>1. pc[q] \in Over
        BY <1>1 DEF GraphInv, IInv, AskedIsOver
      <3> QED
        BY <2>1, <3>1, OverIsStill
    <2>2. CASE q # r
      BY <2>2, OthersStay DEF GraphInv, Stays
    <2> QED
      BY <2>1, <2>2
  <1>3. store'[q] # None /\ store'[q].subject = subject
    BY <1>1, QueueStep
  <1> QED
    BY <1>1, <1>2, <1>3 DEF Queued

\* Every step preserves that what is called pending is queued.
LEMMA PendingStep ==
  ASSUME GraphInv, PendingIsQueued, NEW r \in Runs, Moves(r)
  PROVE  PendingIsQueued'
  <1>1. TypeInv /\ FlowTypes /\ TurnTypes
    BY DEF GraphInv, TypeInv
  <1>2. \A s, subject : Queued(store, turn, s, subject) => Queued(store', turn', s, subject)
    BY QueuedStays
  <1> DEFINE BackedNow(c, s) == c.approval = "pending" => Queued(store', turn', s, c.pending)
  <1>3. \A c, s : Backed(c, s) => BackedNow(c, s)
    BY <1>2 DEF Backed
  <1>4. ASSUME NEW q \in Runs, q # r
        PROVE  /\ pc'[q] # "idle" => BackedNow(chan'[q], turn'[q].session)
               /\ reply'[q] # None =>
                    pc'[q] = "done" /\ BackedNow(reply'[q], turn'[q].session)
    <2>1. Stays(q)
      BY <1>1, <1>4, OthersStay
    <2> HIDE DEF BackedNow
    <2> QED
      BY <1>3, <2>1 DEF Stays, PendingIsQueued
  <1>5. SUFFICES
          /\ \A s \in Sessions : BackedNow(ckpt'[s], s)
          /\ pc'[r] # "idle" => BackedNow(chan'[r], turn'[r].session)
          /\ reply'[r] # None =>
               pc'[r] = "done" /\ BackedNow(reply'[r], turn'[r].session)
    BY <1>4 DEF PendingIsQueued, Backed
  <1>6. ASSUME NEW s \in Sessions, NEW a \in Actors, Start(r, s, a)
        PROVE  /\ \A z \in Sessions : BackedNow(ckpt'[z], z)
               /\ pc'[r] # "idle" => BackedNow(chan'[r], turn'[r].session)
               /\ reply'[r] = None
    <2>1. /\ ckpt' = [ckpt EXCEPT ![s] = Input(s)]
          /\ chan'[r] = Input(s) /\ turn'[r].session = s
      BY <1>1, <1>6 DEF Start, FlowTypes, TurnTypes
    <2>2. Input(s).approval = ckpt[s].approval /\ Input(s).pending = ckpt[s].pending
      BY <1>1 DEF Input, FlowTypes, Channels
    <2>3. BackedNow(Input(s), s)
      <3>1. BackedNow(ckpt[s], s)
        BY <1>3 DEF PendingIsQueued
      <3> QED
        BY <2>2, <3>1
    <2>4. reply'[r] = None
      BY <1>6 DEF Start, PendingIsQueued
    <2> HIDE DEF BackedNow
    <2> QED
      BY <1>1, <1>3, <2>1, <2>3, <2>4 DEF PendingIsQueued, FlowTypes
  <1>7. ASSUME NEW p \in People, Decision(r, p)
        PROVE  UNCHANGED <<chan, ckpt, turn, reply, pc>>
    BY <1>7 DEF Decision
  <1>8. CASE UNCHANGED <<chan, ckpt, turn, reply, pc>>
    <2> HIDE DEF BackedNow
    <2> QED
      BY <1>3, <1>8 DEF PendingIsQueued
  <1>9. CASE Step(r)
    <2>1. pc[r] # "idle" /\ Session(r) \in Sessions /\ Session(r) = turn[r].session
      <3>1. pc[r] # "idle"
        BY <1>9 DEF Step, Classify, BuildContext, CallModel, ModelAnswers,
           ModelFails, Plan, Approval, RefuseCall, StartHandler, HandlerReturns,
           EndTools, FirstFinal, Final, HitLimit, Return, Unwind
      <3> QED
        BY <1>1, <3>1, StartedTurn DEF Session
    <2>2. turn' = turn
      BY <2>1, TurnKept
    <2>3. /\ BackedNow(chan[r], Session(r))
          /\ \A s \in Sessions : BackedNow(ckpt[s], s)
      <3> HIDE DEF BackedNow
      <3> QED
        BY <1>3, <2>1 DEF PendingIsQueued
    <2>4. ASSUME NEW c, Follows(c, r)
          PROVE  BackedNow(c, Session(r))
      <3>1. CASE c.approval = chan[r].approval /\ c.pending = chan[r].pending
        BY <2>3, <3>1
      <3>2. CASE Approval(r) /\ Needed(r) # << >> /\ c.pending = Needed(r)
        <4>1. store'[r] # None /\ store'[r].subject = c.pending
          BY <3>2, ApprovalAsks
        <4> QED
          BY <2>1, <2>2, <4>1 DEF Queued
      <3>3. CASE c.approval = "not_required"
        BY <3>3
      <3> QED
        BY <2>4, <3>1, <3>2, <3>3 DEF Follows
    <2>5. /\ \A s \in Sessions : BackedNow(ckpt'[s], s)
          /\ BackedNow(chan'[r], Session(r))
      <3>1. CASE chan' = chan /\ ckpt' = ckpt
        BY <2>3, <3>1
      <3>2. ASSUME NEW c, Follows(c, r), chan' = [chan EXCEPT ![r] = c],
                   ckpt' = [ckpt EXCEPT ![Session(r)] = c]
            PROVE  /\ \A s \in Sessions : BackedNow(ckpt'[s], s)
                   /\ BackedNow(chan'[r], Session(r))
        <4> HIDE DEF BackedNow
        <4> QED
          BY <1>1, <2>1, <2>3, <2>4, <3>2 DEF FlowTypes
      <3> HIDE DEF BackedNow
      <3> QED
        BY <1>9, <3>1, <3>2, FlowStep
    <2>6. reply'[r] # None => pc'[r] = "done" /\ BackedNow(reply'[r], Session(r))
      <3>1. CASE Return(r)
        <4>1. CASE reply' = [reply EXCEPT ![r] = [ approval |-> chan[r].approval,
                                                   pending  |-> chan[r].pending,
                                                   answer   |-> chan[r].answer ]]
                   /\ pc' = [pc EXCEPT ![r] = "done"]
          <5>1. pc'[r] = "done" /\ reply'[r].approval = chan[r].approval
                /\ reply'[r].pending = chan[r].pending
            BY <1>1, <4>1 DEF FlowTypes, TurnTypes
          <5> QED
            BY <2>3, <5>1
        <4>2. CASE reply' = reply
          <5>1. reply[r] = None
            BY <3>1 DEF Return, PendingIsQueued
          <5> QED
            BY <4>2, <5>1
        <4> QED
          BY <3>1, <4>1, <4>2 DEF Return
      <3>2. CASE ~Return(r)
        <4>1. reply' = reply /\ pc[r] # "done"
          BY <1>9, <3>2 DEF Step, Classify, BuildContext, CallModel, ModelAnswers,
             ModelFails, Plan, Approval, RefuseCall, StartHandler, HandlerReturns,
             EndTools, FirstFinal, Final, HitLimit, Unwind
        <4>2. reply[r] = None
          BY <4>1 DEF PendingIsQueued
        <4> QED
          BY <4>1, <4>2
      <3> QED
        BY <3>1, <3>2
    <2> HIDE DEF BackedNow
    <2> QED
      BY <2>1, <2>2, <2>5, <2>6
  <1> HIDE DEF BackedNow
  <1> QED
    BY <1>6, <1>7, <1>8, <1>9 DEF Moves

(***************************************************************************)
(* A reply that says "pending" lists calls that are on the approval queue, *)
(* asked for by a turn of its session -- in every interleaving, whoever    *)
(* fails and whatever people decide meanwhile.                             *)
(***************************************************************************)
THEOREM PendingReplyIsQueuedCorrect == Spec => []PendingReplyIsQueued
  <1>1. Init => PendingIsQueued
    BY DEF Init, EmptyChannels, PendingIsQueued, Backed
  <1>2. GraphInv /\ PendingIsQueued /\ [Next]_vars => PendingIsQueued'
    <2>1. ASSUME PendingIsQueued, UNCHANGED vars
          PROVE  PendingIsQueued'
      BY <2>1 DEF vars, PendingIsQueued, Backed, queueVars
    <2> QED
      BY <2>1, NextMoves, PendingStep
  <1>3. PendingIsQueued => PendingReplyIsQueued
    BY DEF PendingIsQueued, PendingReplyIsQueued, Backed, Queued, Session
  <1> QED
    BY <1>1, <1>2, <1>3, GraphInvCorrect, PTL DEF Spec

-----------------------------------------------------------------------------
(***************************************************************************)
(* Handlers and records.  The tools of r's starts are the tools of r's     *)
(* gated records, in order, and one more while a handler of r runs.        *)
(***************************************************************************)
StartsOf(r) == Keep(ran, { x \in StartRecord : x.run = r })

Gated(r)  == { x \in CallRecord : x.run = r /\ Gate(Actor(r), x.tool) = "run" }
RunsOf(r) == Keep(toolCalls, Gated(r))

ToolList(s) == [ i \in DOMAIN s |-> s[i].tool ]

Matched(r) ==
  /\ pc[r] = "idle" => /\ \A i \in DOMAIN ran : ran[i].run # r
                       /\ \A i \in DOMAIN toolCalls : toolCalls[i].run # r
  /\ pc[r] # "tool_wait" => ToolList(StartsOf(r)) = ToolList(RunsOf(r))
  /\ pc[r] = "tool_wait" =>
       /\ Gate(Actor(r), NextCall(r)) = "run"
       /\ ToolList(StartsOf(r)) = Append(ToolList(RunsOf(r)), NextCall(r))

\* The two filtered lists of a run are lists of starts and of records.
LEMMA ListsType ==
  ASSUME TypeInv, NEW r
  PROVE  StartsOf(r) \in Seq(StartRecord) /\ RunsOf(r) \in Seq(CallRecord)
  BY KeepPlaces DEF StartsOf, RunsOf, TypeInv, CallTypes

\* The tools of a list with one more record.
LEMMA ToolListAppend ==
  ASSUME NEW S, NEW s \in Seq(S), NEW x \in S
  PROVE  ToolList(Append(s, x)) = Append(ToolList(s), x.tool)
  <1>1. DOMAIN s = 1 .. Len(s) /\ Len(s) \in Nat
    OBVIOUS
  <1>2. ToolList(s) \in Seq({ s[i].tool : i \in DOMAIN s }) /\ Len(ToolList(s)) = Len(s)
    BY <1>1 DEF ToolList
  <1>3. DOMAIN Append(s, x) = 1 .. Len(s) + 1
        /\ \A i \in 1 .. Len(s) + 1 : Append(s, x)[i] = IF i = Len(s) + 1 THEN x ELSE s[i]
    OBVIOUS
  <1> DEFINE t == ToolList(s)
             T == { s[i].tool : i \in DOMAIN s } \cup {x.tool}
  <1>4. t \in Seq(T) /\ x.tool \in T /\ Len(t) = Len(s)
        /\ \A i \in 1 .. Len(s) : t[i] = s[i].tool
    BY <1>1, <1>2 DEF ToolList
  <1>5. Append(t, x.tool) = [ i \in 1 .. Len(s) + 1 |-> IF i = Len(s) + 1 THEN x.tool ELSE s[i].tool ]
    <2> HIDE DEF t, T
    <2> QED
      BY <1>1, <1>4
  <1> QED
    BY <1>3, <1>5 DEF ToolList

\* Where the lists grow, and by what.
LEMMA ListsStep ==
  ASSUME TypeInv, NEW q \in Runs, Actor(q)' = Actor(q)
  PROVE  /\ ran' = ran => StartsOf(q)' = StartsOf(q)
         /\ toolCalls' = toolCalls => RunsOf(q)' = RunsOf(q)
         /\ \A x \in StartRecord : ran' = Append(ran, x) =>
              StartsOf(q)' = IF x.run = q THEN Append(StartsOf(q), x) ELSE StartsOf(q)
         /\ \A x \in CallRecord : toolCalls' = Append(toolCalls, x) =>
              RunsOf(q)' = IF x \in Gated(q) THEN Append(RunsOf(q), x) ELSE RunsOf(q)
  <1>1. ran \in Seq(StartRecord) /\ toolCalls \in Seq(CallRecord)
    BY DEF TypeInv, CallTypes
  <1>2. Gated(q)' = Gated(q)
    BY DEF Gated
  <1>3. StartsOf(q)' = Keep(ran', { x \in StartRecord : x.run = q })
        /\ RunsOf(q)' = Keep(toolCalls', Gated(q))
    BY <1>2 DEF StartsOf, RunsOf
  <1>4. ASSUME NEW x \in StartRecord, ran' = Append(ran, x)
        PROVE  StartsOf(q)' = IF x.run = q THEN Append(StartsOf(q), x) ELSE StartsOf(q)
    <2> DEFINE T == { y \in StartRecord : y.run = q }
    <2>1. Keep(Append(ran, x), T) = IF x \in T THEN Append(Keep(ran, T), x) ELSE Keep(ran, T)
      <3> HIDE DEF T
      <3> QED
        BY <1>1, KeepAppend
    <2> QED
      BY <1>3, <1>4, <2>1 DEF StartsOf
  <1>5. ASSUME NEW x \in CallRecord, toolCalls' = Append(toolCalls, x)
        PROVE  RunsOf(q)' = IF x \in Gated(q) THEN Append(RunsOf(q), x) ELSE RunsOf(q)
    BY <1>1, <1>3, <1>5, KeepAppend DEF RunsOf
  <1> QED
    BY <1>3, <1>4, <1>5 DEF StartsOf, RunsOf

\* The steps of a run that leave the lists alone.
LEMMA ListsStill ==
  ASSUME TypeInv, NEW r \in Runs, Step(r), ~RefuseCall(r), ~StartHandler(r),
         \A status \in {"success", "error"} : ~HandlerReturns(r, status)
  PROVE  /\ ran' = ran /\ toolCalls' = toolCalls
         /\ pc[r] \notin {"tool_wait", "idle"}
         /\ pc'[r] \notin {"tool_wait", "idle"}
  <1>1. pc \in [Runs -> PcValues]
    BY DEF TypeInv, FlowTypes
  <1>2. ASSUME NEW e, NEW c, NEW next, EndNode(r, e, c, next)
        PROVE  pc'[r] \in {next, "raised"}
    BY <1>1, <1>2 DEF EndNode, Commit, Raise
  <1>3. CASE Classify(r)
    BY <1>2, <1>3 DEF Classify, gateVars
  <1>4. CASE \E calls \in Replies : ModelAnswers(r, calls)
    BY <1>2, <1>4 DEF ModelAnswers, gateVars
  <1>5. CASE Plan(r)
    BY <1>2, <1>5 DEF Plan, gateVars
  <1>6. CASE Approval(r)
    BY <1>2, <1>6 DEF Approval, AfterApproval, gateVars
  <1>7. CASE EndTools(r)
    BY <1>2, <1>7 DEF EndTools
  <1>8. CASE Final(r)
    BY <1>2, <1>8 DEF Final, gateVars
  <1>9. CASE BuildContext(r) \/ CallModel(r) \/ ModelFails(r) \/ FirstFinal(r)
             \/ HitLimit(r) \/ Return(r) \/ Unwind(r)
    BY <1>1, <1>9 DEF BuildContext, CallModel, ModelFails, FirstFinal, HitLimit,
       Return, Unwind, Commit, Raise, gateVars
  <1> QED
    BY <1>3, <1>4, <1>5, <1>6, <1>7, <1>8, <1>9 DEF Step

\* What the steps that touch the lists append to them.
LEMMA ListsGrow ==
  ASSUME GraphInv, NEW r \in Runs, Moves(r)
  PROVE  /\ ran' = ran \/ /\ StartHandler(r)
                          /\ \E x \in StartRecord : /\ x.run = r /\ x.tool = NextCall(r)
                                                    /\ ran' = Append(ran, x)
         /\ toolCalls' = toolCalls
              \/ /\ \/ RefuseCall(r)
                    \/ \E status \in {"success", "error"} : HandlerReturns(r, status)
                 /\ \E x \in CallRecord : /\ x.run = r /\ x.tool = NextCall(r)
                                          /\ toolCalls' = Append(toolCalls, x)
  <1>1. TypeInv /\ pc \in [Runs -> PcValues]
    BY DEF GraphInv, TypeInv, FlowTypes
  <1>2. ASSUME NEW status \in CallStatus, Record(r, status),
               pc[r] \in Tooling, Len(done[r]) < Len(Batch(r))
        PROVE  \E x \in CallRecord : /\ x.run = r /\ x.tool = NextCall(r)
                                     /\ toolCalls' = Append(toolCalls, x)
    <2>1. [run |-> r, tool |-> NextCall(r), status |-> status] \in CallRecord
      BY <1>2, NextCallType DEF CallRecord
    <2> HIDE DEF CallRecord
    <2> QED
      BY <1>2, <2>1 DEF Record
  <1>3. CASE RefuseCall(r)
    <2>1. Gate(Actor(r), NextCall(r)) \in CallStatus
      BY <1>3 DEF RefuseCall, Gate, CallStatus
    <2> QED
      BY <1>2, <1>3, <2>1 DEF RefuseCall, Tooling
  <1>4. CASE StartHandler(r)
    <2>1. NextCall(r) \in ToolNames /\ Actor(r) \in Actors
      BY <1>1, <1>4, NextCallType, StartedTurn DEF StartHandler, Tooling
    <2>2. [run |-> r, actor |-> Actor(r), tool |-> NextCall(r)] \in StartRecord
      BY <2>1 DEF StartRecord
    <2> HIDE DEF StartRecord
    <2> QED
      BY <1>4, <2>2 DEF StartHandler
  <1>5. ASSUME NEW status \in {"success", "error"}, HandlerReturns(r, status)
        PROVE  /\ ran' = ran
               /\ \E x \in CallRecord : /\ x.run = r /\ x.tool = NextCall(r)
                                        /\ toolCalls' = Append(toolCalls, x)
    <2>1. status \in CallStatus /\ pc[r] \in Tooling /\ Len(done[r]) < Len(Batch(r))
      BY <1>5 DEF HandlerReturns, CallStatus, Tooling, GraphInv, RunInv, DoneIsRecorded
    <2> QED
      BY <1>2, <1>5, <2>1 DEF HandlerReturns
  <1>6. ASSUME NEW s \in Sessions, NEW a \in Actors, Start(r, s, a)
        PROVE  ran' = ran /\ toolCalls' = toolCalls
    BY <1>6 DEF Start, gateVars
  <1>7. ASSUME NEW p \in People, Decision(r, p)
        PROVE  ran' = ran /\ toolCalls' = toolCalls
    BY <1>7 DEF Decision, gateVars
  <1> QED
    BY <1>1, <1>3, <1>4, <1>5, <1>6, <1>7, ListsStill DEF Moves

\* The lists of a run agree still when another run moves.
LEMMA MatchedOthers ==
  ASSUME GraphInv, NEW r \in Runs, Moves(r), NEW q \in Runs, q # r, Matched(q)
  PROVE  Matched(q)'
  <1>1. TypeInv /\ Stays(q)
    BY OthersStay DEF GraphInv
  <1>2. Actor(q)' = Actor(q) /\ NextCall(q)' = NextCall(q)
    BY <1>1 DEF Stays, Actor, NextCall, Batch
  <1>3. StartsOf(q)' = StartsOf(q) /\ RunsOf(q)' = RunsOf(q)
    <2>1. \A x : x \in Gated(q) => x.run = q
      BY DEF Gated
    <2> QED
      BY <1>1, <1>2, <2>1, ListsGrow, ListsStep
  <1>4. ASSUME pc[q] = "idle"
        PROVE  /\ \A i \in DOMAIN ran' : ran'[i].run # q
               /\ \A i \in DOMAIN toolCalls' : toolCalls'[i].run # q
    <2>1. ran \in Seq(StartRecord) /\ toolCalls \in Seq(CallRecord)
      BY <1>1 DEF TypeInv, CallTypes
    <2>2. ASSUME NEW S, NEW s \in Seq(S), NEW x \in S, x.run = r,
                 \A i \in DOMAIN s : s[i].run # q
          PROVE  \A i \in DOMAIN Append(s, x) : Append(s, x)[i].run # q
      <3>1. \A i \in DOMAIN Append(s, x) :
               Append(s, x)[i] = x \/ (i \in DOMAIN s /\ Append(s, x)[i] = s[i])
        OBVIOUS
      <3> QED
        BY <2>2, <3>1
    <2>3. \A i \in DOMAIN ran : ran[i].run # q
      BY <1>4 DEF Matched
    <2>4. \A i \in DOMAIN toolCalls : toolCalls[i].run # q
      BY <1>4 DEF Matched
    <2>5. \A i \in DOMAIN ran' : ran'[i].run # q
      <3>1. ASSUME NEW x \in StartRecord, x.run = r, ran' = Append(ran, x)
            PROVE  \A i \in DOMAIN ran' : ran'[i].run # q
        BY <2>1, <2>2, <2>3, <3>1
      <3> QED
        BY <2>3, <3>1, ListsGrow
    <2>6. \A i \in DOMAIN toolCalls' : toolCalls'[i].run # q
      <3>1. ASSUME NEW x \in CallRecord, x.run = r, toolCalls' = Append(toolCalls, x)
            PROVE  \A i \in DOMAIN toolCalls' : toolCalls'[i].run # q
        BY <2>1, <2>2, <2>4, <3>1
      <3> QED
        BY <2>4, <3>1, ListsGrow
    <2> QED
      BY <2>5, <2>6
  <1> QED
    BY <1>1, <1>2, <1>3, <1>4 DEF Matched, Stays

\* The lists of a run agree still when it moves itself.
LEMMA MatchedOwn ==
  ASSUME GraphInv, NEW r \in Runs, Moves(r), Matched(r)
  PROVE  Matched(r)'
  <1>1. TypeInv /\ pc \in [Runs -> PcValues]
    BY DEF GraphInv, TypeInv, FlowTypes
  <1>2. ran \in Seq(StartRecord) /\ toolCalls \in Seq(CallRecord)
    BY <1>1 DEF TypeInv, CallTypes
  <1>3. ASSUME NEW s \in Sessions, NEW a \in Actors, Start(r, s, a)
        PROVE  Matched(r)'
    <2>1. pc[r] = "idle" /\ pc'[r] = "classify" /\ ran' = ran /\ toolCalls' = toolCalls
      BY <1>1, <1>3 DEF Start, gateVars
    <2>2. \A i \in DOMAIN ran : ran[i].run # r
      BY <2>1 DEF Matched
    <2>3. \A i \in DOMAIN toolCalls : toolCalls[i].run # r
      BY <2>1 DEF Matched
    <2>4. StartsOf(r)' = << >>
      <3>1. Keep(ran, { x \in StartRecord : x.run = r }) = << >>
        BY <1>2, <2>2, KeepNone
      <3> QED
        BY <2>1, <3>1 DEF StartsOf
    <2>5. RunsOf(r)' = << >>
      <3>1. Keep(toolCalls, Gated(r)') = << >>
        BY <1>2, <2>3, KeepNone DEF Gated
      <3> QED
        BY <2>1, <3>1 DEF RunsOf
    <2> QED
      BY <2>1, <2>4, <2>5 DEF Matched
  <1>4. ASSUME NEW p \in People, Decision(r, p)
        PROVE  Matched(r)'
    BY <1>4 DEF Decision, gateVars, Matched, StartsOf, RunsOf, Gated, Actor,
       NextCall, Batch
  <1>5. ASSUME Step(r)
        PROVE  pc[r] # "idle" /\ pc'[r] # "idle" /\ Actor(r)' = Actor(r)
    <2>1. pc[r] # "idle"
      BY <1>5 DEF Step, Classify, BuildContext, CallModel, ModelAnswers,
           ModelFails, Plan, Approval, RefuseCall, StartHandler, HandlerReturns,
           EndTools, FirstFinal, Final, HitLimit, Return, Unwind
    <2>2. pc'[r] # "idle"
      BY <1>1, <1>5, ListsStill DEF RefuseCall, StartHandler, HandlerReturns
    <2> QED
      BY <2>1, <2>2, TurnKept DEF Actor
  <1>6. CASE RefuseCall(r)
    <2>1. ran' = ran /\ pc[r] = "tool" /\ pc' = pc /\ Gate(Actor(r), NextCall(r)) # "run"
      BY <1>6 DEF RefuseCall
    <2>2. StartsOf(r)' = StartsOf(r)
      BY <1>1, <1>5, <1>6, <2>1, ListsStep DEF Step
    <2>3. Actor(r)' = Actor(r)
      BY <1>5, <1>6 DEF Step
    <2>4. RunsOf(r)' = RunsOf(r)
      <3>1. CASE toolCalls' = toolCalls
        BY <1>1, <2>3, <3>1, ListsStep
      <3>2. ASSUME NEW x \in CallRecord, x.tool = NextCall(r), toolCalls' = Append(toolCalls, x)
            PROVE  RunsOf(r)' = RunsOf(r)
        <4>1. x \notin Gated(r)
          BY <2>1, <3>2 DEF Gated
        <4> QED
          BY <1>1, <2>3, <3>2, <4>1, ListsStep
      <3> QED
        BY <3>1, <3>2, ListsGrow
    <2> QED
      BY <2>1, <2>2, <2>4 DEF Matched
  <1>7. CASE StartHandler(r)
    <2>1. toolCalls' = toolCalls /\ pc[r] = "tool" /\ pc'[r] = "tool_wait"
          /\ Gate(Actor(r), NextCall(r)) = "run" /\ UNCHANGED <<chan, done>>
      BY <1>1, <1>7 DEF StartHandler
    <2>2. NextCall(r)' = NextCall(r) /\ Actor(r)' = Actor(r)
      BY <1>5, <1>7, <2>1 DEF NextCall, Batch, Step
    <2>3. PICK x \in StartRecord : x.run = r /\ x.tool = NextCall(r) /\ ran' = Append(ran, x)
      <3>1. ran' # ran
        <4>1. ran' = Append(ran, [run |-> r, actor |-> Actor(r), tool |-> NextCall(r)])
          BY <1>7 DEF StartHandler
        <4>2. \A x : ran # Append(ran, x)
          <5>1. IsSeq(ran)
            BY <1>2 DEF IsSeq
          <5> QED
            BY <5>1, AppendGrows
        <4> QED
          BY <4>1, <4>2
      <3> QED
        BY <3>1, ListsGrow
    <2>4. StartsOf(r)' = Append(StartsOf(r), x) /\ RunsOf(r)' = RunsOf(r)
      BY <1>1, <2>1, <2>2, <2>3, ListsStep
    <2>5. ToolList(StartsOf(r)') = Append(ToolList(StartsOf(r)), NextCall(r))
      BY <1>1, <2>3, <2>4, ListsType, ToolListAppend
    <2> QED
      BY <2>1, <2>2, <2>4, <2>5 DEF Matched
  <1>8. ASSUME NEW status \in {"success", "error"}, HandlerReturns(r, status)
        PROVE  Matched(r)'
    <2>1. ran' = ran /\ pc[r] = "tool_wait" /\ pc'[r] = "tool" /\ Actor(r)' = Actor(r)
          /\ toolCalls' = Append(toolCalls, [run |-> r, tool |-> NextCall(r), status |-> status])
      BY <1>1, <1>5, <1>8 DEF HandlerReturns, Step, Record
    <2>2. Gate(Actor(r), NextCall(r)) = "run"
          /\ ToolList(StartsOf(r)) = Append(ToolList(RunsOf(r)), NextCall(r))
      BY <2>1 DEF Matched
    <2>3. PICK x \in CallRecord : x.run = r /\ x.tool = NextCall(r) /\ toolCalls' = Append(toolCalls, x)
      <3>1. toolCalls' # toolCalls
        <4>1. IsSeq(toolCalls)
          BY <1>2 DEF IsSeq
        <4> QED
          BY <2>1, <4>1, AppendGrows
      <3> QED
        BY <3>1, ListsGrow
    <2>4. x \in Gated(r)
      BY <2>2, <2>3 DEF Gated
    <2>5. StartsOf(r)' = StartsOf(r) /\ RunsOf(r)' = Append(RunsOf(r), x)
      BY <1>1, <2>1, <2>3, <2>4, ListsStep
    <2>6. ToolList(RunsOf(r)') = Append(ToolList(RunsOf(r)), NextCall(r))
      BY <1>1, <2>3, <2>5, ListsType, ToolListAppend
    <2> QED
      BY <2>1, <2>2, <2>5, <2>6 DEF Matched
  <1>9. CASE Step(r) /\ ~RefuseCall(r) /\ ~StartHandler(r)
             /\ \A status \in {"success", "error"} : ~HandlerReturns(r, status)
    <2>1. ran' = ran /\ toolCalls' = toolCalls /\ pc[r] \notin {"tool_wait", "idle"}
          /\ pc'[r] \notin {"tool_wait", "idle"}
      BY <1>1, <1>9, ListsStill
    <2>2. StartsOf(r)' = StartsOf(r) /\ RunsOf(r)' = RunsOf(r)
      BY <1>1, <1>5, <1>9, <2>1, ListsStep
    <2> QED
      BY <2>1, <2>2 DEF Matched
  <1> QED
    BY <1>3, <1>4, <1>6, <1>7, <1>8, <1>9 DEF Moves

AllMatched == \A r \in Runs : Matched(r)

\* Lists that agree are what the property says.
LEMMA MatchedShows == GraphInv /\ AllMatched => EveryHandlerRecorded
  <1> SUFFICES ASSUME GraphInv, AllMatched, NEW r \in Runs
               PROVE  LET started  == Keep(ran, { x \in Elements(ran) : x.run = r })
                          recorded == Keep(toolCalls, { x \in Elements(toolCalls) :
                                       x.run = r /\ Gate(Actor(r), x.tool) = "run" })
                      IN  /\ Len(recorded) = Len(started) - (IF pc[r] = "tool_wait" THEN 1 ELSE 0)
                          /\ \A i \in DOMAIN recorded : recorded[i].tool = started[i].tool
    BY DEF EveryHandlerRecorded
  <1>1. TypeInv /\ ran \in Seq(StartRecord) /\ toolCalls \in Seq(CallRecord)
    BY DEF GraphInv, TypeInv, CallTypes
  <1>2. Keep(ran, { x \in Elements(ran) : x.run = r }) = StartsOf(r)
    <2>1. \A i \in 1 .. Len(ran) : ran[i] \in { x \in Elements(ran) : x.run = r }
                               <=> ran[i] \in { x \in StartRecord : x.run = r }
      BY <1>1 DEF Elements
    <2>2. Len(ran) \in Nat
      BY <1>1
    <2> QED
      BY <2>1, <2>2, KeepSame DEF StartsOf
  <1>3. Keep(toolCalls, { x \in Elements(toolCalls) :
               x.run = r /\ Gate(Actor(r), x.tool) = "run" }) = RunsOf(r)
    <2>1. \A i \in 1 .. Len(toolCalls) :
             toolCalls[i] \in { x \in Elements(toolCalls) :
                                  x.run = r /\ Gate(Actor(r), x.tool) = "run" }
               <=> toolCalls[i] \in Gated(r)
      BY <1>1 DEF Elements, Gated
    <2>2. Len(toolCalls) \in Nat
      BY <1>1
    <2> QED
      BY <2>1, <2>2, KeepSame DEF RunsOf
  <1> DEFINE s == StartsOf(r)
             k == RunsOf(r)
  <1>4. s \in Seq(StartRecord) /\ k \in Seq(CallRecord)
    BY <1>1, ListsType
  <1>5. /\ pc[r] # "tool_wait" => ToolList(s) = ToolList(k)
        /\ pc[r] = "tool_wait" => ToolList(s) = Append(ToolList(k), NextCall(r))
    BY DEF AllMatched, Matched
  <1> HIDE DEF s, k
  <1>6. ToolList(k) \in Seq({ k[i].tool : i \in DOMAIN k }) /\ Len(ToolList(k)) = Len(k)
        /\ \A i \in DOMAIN k : ToolList(k)[i] = k[i].tool
    <2>1. DOMAIN k = 1 .. Len(k) /\ Len(k) \in Nat
      BY <1>4
    <2> QED
      BY <2>1 DEF ToolList
  <1>7. Len(ToolList(s)) = Len(s) /\ \A i \in DOMAIN s : ToolList(s)[i] = s[i].tool
    <2>1. DOMAIN s = 1 .. Len(s) /\ Len(s) \in Nat
      BY <1>4
    <2> QED
      BY <2>1 DEF ToolList
  <1>8. ASSUME pc[r] # "tool_wait"
        PROVE  Len(k) = Len(s) /\ \A i \in DOMAIN k : k[i].tool = s[i].tool
    <2>1. Len(k) = Len(s) /\ Len(s) \in Nat
      BY <1>4, <1>5, <1>6, <1>7, <1>8
    <2>2. \A i \in DOMAIN k : k[i].tool = s[i].tool
      BY <1>4, <1>5, <1>6, <1>7, <1>8, <2>1
    <2> QED
      BY <2>1, <2>2
  <1>9. ASSUME pc[r] = "tool_wait"
        PROVE  Len(s) = Len(k) + 1 /\ \A i \in DOMAIN k : k[i].tool = s[i].tool
    <2>1. Len(s) = Len(k) + 1 /\ Len(k) \in Nat
          /\ \A i \in DOMAIN k : ToolList(s)[i] = ToolList(k)[i]
      <3> DEFINE t == ToolList(k)
                 T == { k[i].tool : i \in DOMAIN k } \cup {NextCall(r)}
      <3>1. t \in Seq(T) /\ NextCall(r) \in T /\ Len(t) = Len(k) /\ DOMAIN k = 1 .. Len(k)
        BY <1>4, <1>6
      <3>2. ToolList(s) = Append(t, NextCall(r))
        BY <1>5, <1>9
      <3> HIDE DEF t, T
      <3>3. Len(Append(t, NextCall(r))) = Len(t) + 1
            /\ \A i \in 1 .. Len(t) : Append(t, NextCall(r))[i] = t[i]
        BY <3>1
      <3>4. Len(k) \in Nat
        BY <1>4
      <3> QED
        BY <1>7, <3>1, <3>2, <3>3, <3>4 DEF t
    <2>2. \A i \in DOMAIN k : k[i].tool = s[i].tool
      BY <1>4, <1>6, <1>7, <2>1
    <2> QED
      BY <2>1, <2>2
  <1>10. Len(s) \in Nat /\ Len(k) \in Nat
    BY <1>4
  <1>11. /\ Len(k) = Len(s) - (IF pc[r] = "tool_wait" THEN 1 ELSE 0)
         /\ \A i \in DOMAIN k : k[i].tool = s[i].tool
    BY <1>8, <1>9, <1>10
  <1> QED
    BY <1>2, <1>3, <1>11 DEF s, k

(***************************************************************************)
(* Every handler that was started for a run has its record, in the order   *)
(* of the starts, but for the one still running: whatever other runs do at *)
(* the same gateway, and whether the handler returns or raises.            *)
(***************************************************************************)
THEOREM EveryHandlerRecordedCorrect == Spec => []EveryHandlerRecorded
  <1>1. Init => AllMatched
    <2> SUFFICES ASSUME Init
                 PROVE  AllMatched
      OBVIOUS
    <2>1. \A r \in Runs : StartsOf(r) = << >> /\ RunsOf(r) = << >>
      BY KeepEmpty DEF Init, StartsOf, RunsOf
    <2> QED
      BY <2>1 DEF Init, AllMatched, Matched
  <1>2. GraphInv /\ AllMatched /\ [Next]_vars => AllMatched'
    <2>1. ASSUME AllMatched, UNCHANGED vars
          PROVE  AllMatched'
      BY <2>1 DEF vars, gateVars, AllMatched, Matched, StartsOf, RunsOf, Gated,
         Actor, NextCall, Batch
    <2>2. ASSUME GraphInv, AllMatched, NEW r \in Runs, Moves(r)
          PROVE  AllMatched'
      BY <2>2, MatchedOwn, MatchedOthers DEF AllMatched
    <2> QED
      BY <2>1, <2>2, NextMoves
  <1> QED
    BY <1>1, <1>2, MatchedShows, GraphInvCorrect, PTL DEF Spec

-----------------------------------------------------------------------------
(***************************************************************************)
(* Turns that overlap.  A step of AgentGraph begins a turn, ends one, or   *)
(* lets one go on; each does something else to the fields of the graph     *)
(* object and to the history of who met whom.                              *)
(***************************************************************************)
Begins(r, s) ==
  /\ r \in Runs /\ s \in Sessions /\ pc[r] = "idle"
  /\ UnderWay' = UnderWay \cup {r}
  /\ met' = met \cup (UnderWay \X {r}) /\ (nested' => nested)
  /\ turn'[r].session = s /\ turn'[r].prev = slot
  /\ \A q \in Runs : q # r => turn'[q] = turn[q]
  /\ slot' = s /\ traced' = s

Ends(r) ==
  /\ r \in UnderWay /\ UnderWay' = UnderWay \ {r}
  /\ met' = met /\ turn' = turn /\ traced' = traced
  /\ nested' => nested /\ \A q \in UnderWay' : <<r, q>> \notin met
  /\ slot' = turn[r].prev

GoesOn ==
  /\ UnderWay' = UnderWay /\ met' = met /\ (nested' => nested)
  /\ turn' = turn /\ slot' = slot /\ traced' = traced

\* A run that takes a step is under way.
LEMMA StepIsUnderWay ==
  ASSUME NEW r \in Runs, Step(r)
  PROVE  r \in UnderWay
  BY DEF UnderWay, Step, Classify, BuildContext, CallModel, ModelAnswers,
     ModelFails, Plan, Approval, RefuseCall, StartHandler, HandlerReturns,
     EndTools, FirstFinal, Final, HitLimit, Return, Unwind

\* A step other than the last of a run leaves the writer, and the run under way.
LEMMA StepGoesOn ==
  ASSUME TypeInv, NEW r \in Runs, Step(r), ~Return(r), ~Unwind(r)
  PROVE  UNCHANGED <<slot, traced>> /\ pc'[r] \notin {"idle", "done", "failed"}
  <1>1. pc \in [Runs -> PcValues]
    BY DEF TypeInv, FlowTypes
  <1>2. ASSUME NEW e, NEW c, NEW next, EndNode(r, e, c, next)
        PROVE  pc'[r] \in {next, "raised"}
    BY <1>1, <1>2 DEF EndNode, Commit, Raise
  <1>3. CASE Classify(r)
    BY <1>2, <1>3 DEF Classify, graphVars
  <1>4. CASE \E calls \in Replies : ModelAnswers(r, calls)
    BY <1>2, <1>4 DEF ModelAnswers, graphVars
  <1>5. CASE Plan(r)
    BY <1>2, <1>5 DEF Plan, graphVars
  <1>6. CASE Approval(r)
    BY <1>2, <1>6 DEF Approval, AfterApproval, graphVars
  <1>7. CASE EndTools(r)
    BY <1>2, <1>7 DEF EndTools, graphVars
  <1>8. CASE Final(r)
    BY <1>2, <1>8 DEF Final, graphVars
  <1>9. CASE BuildContext(r) \/ CallModel(r) \/ ModelFails(r) \/ FirstFinal(r)
             \/ HitLimit(r) \/ RefuseCall(r) \/ StartHandler(r)
             \/ \E status \in {"success", "error"} : HandlerReturns(r, status)
    BY <1>1, <1>9 DEF BuildContext, CallModel, ModelFails, FirstFinal, HitLimit,
       RefuseCall, StartHandler, HandlerReturns, Commit, Raise, graphVars
  <1> QED
    BY <1>3, <1>4, <1>5, <1>6, <1>7, <1>8, <1>9 DEF Step

\* A run that has begun stays begun, with the session it began with.
LEMMA StartedStays ==
  ASSUME GraphInv, NEW r \in Runs, Moves(r), NEW q \in Runs, pc[q] # "idle"
  PROVE  pc'[q] # "idle" /\ turn'[q] = turn[q]
  <1>1. TypeInv /\ FlowTypes
    BY DEF GraphInv, TypeInv
  <1>2. CASE q # r
    BY <1>1, <1>2, OthersStay DEF Stays
  <1>3. CASE q = r
    <2>1. turn' = turn
      BY <1>3, TurnKept
    <2>2. CASE Step(r)
      <3>1. CASE Return(r) \/ Unwind(r)
        BY <1>1, <1>3, <2>1, <3>1 DEF Return, Unwind, FlowTypes
      <3>2. CASE ~Return(r) /\ ~Unwind(r)
        BY <1>1, <1>3, <2>1, <2>2, <3>2, StepGoesOn
      <3> QED
        BY <3>1, <3>2
    <2>3. CASE ~Step(r)
      BY <1>3, <2>3 DEF Moves, Start, Decision
    <2> QED
      BY <2>1, <2>2, <2>3
  <1> QED
    BY <1>2, <1>3

\* Watch, of a step that begins, ends or goes on with r.
LEMMA Watched ==
  ASSUME Watch, NEW r
  PROVE  /\ UnderWay' = UnderWay => met' = met /\ (nested' => nested)
         /\ r \notin UnderWay /\ UnderWay' = UnderWay \cup {r}
              => met' = met \cup (UnderWay \X {r}) /\ (nested' => nested)
         /\ r \in UnderWay /\ UnderWay' = UnderWay \ {r}
              => /\ met' = met
                 /\ nested' => nested /\ \A q \in UnderWay' : <<r, q>> \notin met
  <1> DEFINE began == UnderWay' \ UnderWay
             ended == UnderWay \ UnderWay'
  <1>1. met' = met \cup (UnderWay \X began)
    BY DEF Watch
  <1>2. nested' => nested /\ \A q \in ended, z \in UnderWay' : <<q, z>> \notin met
    BY DEF Watch
  <1>3. UnderWay \X {} = {}
    OBVIOUS
  <1>4. ASSUME UnderWay' = UnderWay
        PROVE  met' = met
    <2>1. began = {}
      BY <1>4
    <2> HIDE DEF began
    <2> QED
      BY <1>1, <1>3, <2>1
  <1>5. ASSUME r \notin UnderWay, UnderWay' = UnderWay \cup {r}
        PROVE  met' = met \cup (UnderWay \X {r})
    <2>1. began = {r}
      BY <1>5
    <2> HIDE DEF began
    <2> QED
      BY <1>1, <2>1
  <1>6. ASSUME r \in UnderWay, UnderWay' = UnderWay \ {r}
        PROVE  met' = met /\ r \in ended
    <2>1. began = {} /\ r \in ended
      BY <1>6
    <2> HIDE DEF began, ended
    <2> QED
      BY <1>1, <1>3, <2>1
  <1> HIDE DEF began, ended
  <1> QED
    BY <1>2, <1>4, <1>5, <1>6

\* Every step begins a turn, ends one, or goes on with what is under way.
LEMMA BeginsEndsGoesOn ==
  ASSUME GraphInv, NEW r \in Runs, Moves(r), Watch
  PROVE  \/ \E s \in Sessions, a \in Actors : Start(r, s, a) /\ Begins(r, s)
         \/ Step(r) /\ Ends(r)
         \/ (Step(r) \/ \E p \in People : Decision(r, p)) /\ GoesOn
  <1>1. TypeInv /\ FlowTypes /\ TurnTypes
    BY DEF GraphInv, TypeInv
  <1>2. \A q \in Runs : q # r => pc'[q] = pc[q] /\ turn'[q] = turn[q]
    BY <1>1, OthersStay DEF Stays
  <1>3. ASSUME NEW s \in Sessions, NEW a \in Actors, Start(r, s, a)
        PROVE  Begins(r, s)
    <2>1. pc[r] = "idle" /\ pc'[r] = "classify"
      BY <1>1, <1>3 DEF Start, FlowTypes
    <2>2. r \notin UnderWay /\ UnderWay' = UnderWay \cup {r}
      BY <1>2, <2>1 DEF UnderWay
    <2>3. turn'[r] = [session |-> s, actor |-> a, prev |-> slot]
      BY <1>1, <1>3 DEF Start, TurnTypes
    <2>4. slot' = s /\ traced' = s
      BY <1>3 DEF Start, Install
    <2>5. met' = met \cup (UnderWay \X {r}) /\ (nested' => nested)
      BY <2>2, Watched
    <2>6. turn'[r].session = s /\ turn'[r].prev = slot
      BY <2>3
    <2> QED
      BY <1>2, <2>1, <2>2, <2>4, <2>5, <2>6 DEF Begins
  <1>4. ASSUME Return(r) \/ Unwind(r), Step(r)
        PROVE  Ends(r)
    <2>1. r \in UnderWay /\ pc'[r] \in {"done", "failed"}
      BY <1>1, <1>4, StepIsUnderWay DEF Return, Unwind, FlowTypes
    <2>2. UnderWay' = UnderWay \ {r}
      BY <1>2, <2>1 DEF UnderWay
    <2>3. slot' = turn[r].prev /\ traced' = traced /\ turn' = turn
      BY <1>4 DEF Return, Unwind, Restore
    <2>4. /\ met' = met
          /\ nested' => nested /\ \A q \in UnderWay' : <<r, q>> \notin met
      BY <2>1, <2>2, Watched
    <2> QED
      BY <2>1, <2>2, <2>3, <2>4 DEF Ends
  <1>5. ASSUME Step(r), ~Return(r), ~Unwind(r)
        PROVE  GoesOn
    <2>1. r \in UnderWay /\ pc'[r] \notin {"idle", "done", "failed"}
          /\ slot' = slot /\ traced' = traced
      BY <1>1, <1>5, StepIsUnderWay, StepGoesOn
    <2>2. UnderWay' = UnderWay
      BY <1>2, <2>1 DEF UnderWay
    <2>3. turn' = turn
      BY <2>1, TurnKept DEF UnderWay
    <2> QED
      BY <2>1, <2>2, <2>3, Watched DEF GoesOn
  <1>6. ASSUME NEW p \in People, Decision(r, p)
        PROVE  GoesOn
    <2>1. pc' = pc /\ turn' = turn /\ slot' = slot /\ traced' = traced
      BY <1>6 DEF Decision, graphVars
    <2>2. UnderWay' = UnderWay
      BY <2>1 DEF UnderWay
    <2> QED
      BY <2>1, <2>2, Watched DEF GoesOn
  <1> QED
    BY <1>3, <1>4, <1>5, <1>6 DEF Moves

\* A step of OverlapSpec is a step of one run that is watched.
LEMMA OverlapMoves ==
  ASSUME [OverlapNext]_overlapVars
  PROVE  \/ UNCHANGED overlapVars
         \/ \E r \in Runs : Moves(r) /\ Watch
  BY DEF OverlapNext, Next, Moves

\* The history variables watch Spec and take nothing from it.
LEMMA OverlapImplementsSpec == OverlapSpec => Spec
  <1>1. OverlapInit => Init
    BY DEF OverlapInit
  <1>2. [OverlapNext]_overlapVars => [Next]_vars
    BY DEF OverlapNext, overlapVars
  <1> QED
    BY <1>1, <1>2, PTL DEF OverlapSpec, Spec
-----------------------------------------------------------------------------
(***************************************************************************)
(* The meetings: only turns that have begun meet, of two that are under    *)
(* way one met the other, and never both.                                  *)
(***************************************************************************)
Meetings ==
  /\ \A q, r \in Runs : <<q, r>> \in met =>
       pc[q] # "idle" /\ pc[r] # "idle" /\ <<r, q>> \notin met
  /\ \A q, r \in UnderWay : q # r => <<q, r>> \in met \/ <<r, q>> \in met

\* Every step keeps the meetings.
LEMMA MeetingsStep ==
  ASSUME GraphInv, Meetings, NEW r \in Runs, Moves(r), Watch
  PROVE  Meetings'
  <1>1. \A q \in Runs : pc[q] # "idle" => pc'[q] # "idle"
    BY StartedStays
  <1>2. ASSUME NEW s \in Sessions, Begins(r, s)
        PROVE  Meetings'
    <2>1. UnderWay \subseteq Runs /\ \A q \in UnderWay : pc[q] # "idle"
      BY DEF UnderWay
    <2>2. \A q, z \in Runs : <<q, z>> \in met' <=>
            <<q, z>> \in met \/ (q \in UnderWay /\ z = r)
      BY <1>2 DEF Begins
    <2>3. \A q \in Runs : <<q, r>> \notin met /\ <<r, q>> \notin met
      BY <1>2 DEF Begins, Meetings
    <2>4. pc'[r] # "idle" /\ r \notin UnderWay
      <3>1. r \in UnderWay'
        BY <1>2 DEF Begins
      <3> QED
        BY <1>2, <2>1, <3>1 DEF Begins, UnderWay
    <2>5. ASSUME NEW q \in Runs, NEW z \in Runs, <<q, z>> \in met'
          PROVE  pc'[q] # "idle" /\ pc'[z] # "idle" /\ <<z, q>> \notin met'
      BY <1>1, <2>1, <2>2, <2>3, <2>4, <2>5 DEF Meetings
    <2>6. ASSUME NEW q \in UnderWay', NEW z \in UnderWay', q # z
          PROVE  <<q, z>> \in met' \/ <<z, q>> \in met'
      <3>1. q \in UnderWay \cup {r} /\ z \in UnderWay \cup {r}
        BY <1>2, <2>6 DEF Begins
      <3> QED
        BY <2>1, <2>2, <2>6, <3>1 DEF Meetings
    <2> QED
      BY <2>5, <2>6 DEF Meetings
  <1>3. ASSUME met' = met, UnderWay' \subseteq UnderWay
        PROVE  Meetings'
    BY <1>1, <1>3 DEF Meetings
  <1>4. CASE Ends(r) \/ GoesOn
    BY <1>3, <1>4 DEF Ends, GoesOn
  <1> QED
    BY <1>2, <1>4, BeginsEndsGoesOn

\* Meetings are never forgotten.
LEMMA MetStays ==
  ASSUME GraphInv, NEW r \in Runs, Moves(r), Watch
  PROVE  met \subseteq met'
  BY BeginsEndsGoesOn DEF Begins, Ends, GoesOn

\* Whoever is undisturbed was so before.
LEMMA UndisturbedBefore ==
  ASSUME met \subseteq met', NEW r, Undisturbed(r)'
  PROVE  Undisturbed(r)
  BY DEF Undisturbed

\* Whoever is undisturbed is under way alone.
LEMMA UndisturbedIsAlone ==
  ASSUME Meetings, NEW r \in UnderWay, Undisturbed(r)
  PROVE  UnderWay = {r}
  <1>1. UnderWay \subseteq Runs
    BY DEF UnderWay
  <1>2. ASSUME NEW q \in UnderWay, q # r
        PROVE  FALSE
    <2>1. <<q, r>> \in met \/ <<r, q>> \in met
      BY <1>2 DEF Meetings
    <2> QED
      BY <1>1, <2>1 DEF Undisturbed
  <1> QED
    BY <1>2

\* A turn that begins disturbs those under way.
LEMMA BeginningDisturbs ==
  ASSUME NEW r, NEW s, Begins(r, s), NEW q \in UnderWay
  PROVE  <<q, r>> \in met' /\ ~Undisturbed(q)'
  <1>1. <<q, r>> \in met' /\ r \in Runs
    BY DEF Begins
  <1> QED
    BY <1>1 DEF Undisturbed

-----------------------------------------------------------------------------
(***************************************************************************)
(* Whose the shared fields are.  The fields are those of a turn that is    *)
(* under way undisturbed; and while every turn that ended was the latest   *)
(* of those under way, the writer and the writers that arun keeps to put   *)
(* back form a chain: the object holds that of the latest turn, and each   *)
(* turn keeps that of the one that began next before it.                   *)
(***************************************************************************)
Latest(r) == \A q \in UnderWay : <<r, q>> \notin met

Earliest(r) == \A q \in UnderWay : <<q, r>> \notin met

Between(q, r) == { z \in UnderWay : <<q, z>> \in met /\ <<z, r>> \in met }

OwnFields ==
  \A r \in UnderWay : Undisturbed(r) => slot = Session(r) /\ traced = Session(r)

WriterChain ==
  /\ UnderWay = {} => slot = None
  /\ \A r \in UnderWay : Latest(r) => slot = Session(r)
  /\ \A r \in UnderWay : Earliest(r) => turn[r].prev = None
  /\ \A q, r \in UnderWay :
       <<q, r>> \in met /\ Between(q, r) = {} => turn[r].prev = Session(q)

OverlapInv == GraphInv /\ Meetings /\ OwnFields /\ (nested => WriterChain)

\* Every step keeps the fields with a turn that is undisturbed.
LEMMA OwnFieldsStep ==
  ASSUME OverlapInv, NEW r \in Runs, Moves(r), Watch
  PROVE  OwnFields'
  <1>1. GraphInv /\ Meetings /\ OwnFields
    BY DEF OverlapInv
  <1>2. SUFFICES ASSUME NEW q \in UnderWay', Undisturbed(q)'
                 PROVE  slot' = Session(q)' /\ traced' = Session(q)'
    BY DEF OwnFields
  <1>3. Undisturbed(q)
    BY <1>1, <1>2, MetStays, UndisturbedBefore
  <1>4. ASSUME NEW s \in Sessions, Begins(r, s)
        PROVE  slot' = Session(q)' /\ traced' = Session(q)'
    <2>1. q \notin UnderWay
      BY <1>2, <1>4, BeginningDisturbs
    <2>2. q = r
      BY <1>2, <1>4, <2>1 DEF Begins
    <2> QED
      BY <1>4, <2>2 DEF Begins, Session
  <1>5. CASE Step(r) /\ Ends(r)
    <2>1. q \in UnderWay /\ q # r /\ r \in UnderWay
      BY <1>2, <1>5 DEF Ends
    <2> QED
      BY <1>1, <1>3, <2>1, UndisturbedIsAlone
  <1>6. CASE GoesOn
    BY <1>1, <1>2, <1>3, <1>6 DEF GoesOn, OwnFields, Session
  <1> QED
    BY <1>1, <1>4, <1>5, <1>6, BeginsEndsGoesOn

\* A turn that begins is the new end of the chain.
LEMMA ChainBegins ==
  ASSUME Meetings, Meetings', WriterChain, NEW r, NEW s, Begins(r, s)
  PROVE  WriterChain'
  <1>1. UnderWay \subseteq Runs /\ r \in Runs /\ r \notin UnderWay
    BY DEF UnderWay, Begins
  <1>2. /\ UnderWay' = UnderWay \cup {r}
        /\ slot' = s /\ Session(r)' = s /\ turn'[r].prev = slot
        /\ \A q \in UnderWay : turn'[q] = turn[q] /\ Session(q)' = Session(q)
    BY <1>1 DEF Begins, Session
  <1>3. \A q, z \in Runs : <<q, z>> \in met' <=>
          <<q, z>> \in met \/ (q \in UnderWay /\ z = r)
    BY DEF Begins
  <1>4. \A q \in Runs : <<q, r>> \notin met /\ <<r, q>> \notin met
    BY DEF Begins, Meetings
  <1>5. ASSUME NEW q \in UnderWay', Latest(q)'
        PROVE  slot' = Session(q)'
    <2>1. ASSUME q \in UnderWay
          PROVE  FALSE
      <3>1. <<q, r>> \in met' /\ r \in UnderWay'
        BY <1>1, <1>2, <1>3, <2>1
      <3> QED
        BY <1>5, <3>1 DEF Latest
    <2>2. q = r
      BY <1>2, <2>1
    <2> QED
      BY <1>2, <2>2
  <1>6. ASSUME NEW q \in UnderWay', Earliest(q)'
        PROVE  turn'[q].prev = None
    <2>1. \A z \in UnderWay : <<z, q>> \notin met'
      BY <1>2, <1>6 DEF Earliest
    <2>2. CASE q = r
      <3>1. UnderWay = {}
        BY <1>1, <1>3, <2>1, <2>2
      <3> QED
        BY <1>2, <2>2, <3>1 DEF WriterChain
    <2>3. CASE q \in UnderWay
      <3>1. Earliest(q)
        BY <1>1, <1>3, <2>1, <2>3 DEF Earliest
      <3> QED
        BY <1>2, <2>3, <3>1 DEF WriterChain
    <2> QED
      BY <1>2, <2>2, <2>3
  <1>7. ASSUME NEW q \in UnderWay', NEW z \in UnderWay', <<q, z>> \in met',
               Between(q, z)' = {}
        PROVE  turn'[z].prev = Session(q)'
    <2>1. q # r /\ q \in UnderWay
      BY <1>1, <1>2, <1>3, <1>4, <1>7
    <2>2. \A y \in UnderWay : ~(<<q, y>> \in met' /\ <<y, z>> \in met')
      BY <1>2, <1>7 DEF Between
    <2>3. CASE z = r
      <3>1. Latest(q)
        BY <1>1, <1>3, <2>1, <2>2, <2>3 DEF Latest
      <3> QED
        BY <1>2, <2>1, <2>3, <3>1 DEF WriterChain
    <2>4. CASE z \in UnderWay
      <3>1. <<q, z>> \in met
        BY <1>1, <1>3, <1>7, <2>1, <2>4
      <3>2. Between(q, z) = {}
        BY <1>1, <1>3, <2>1, <2>2, <2>4 DEF Between
      <3> QED
        BY <1>2, <2>1, <2>4, <3>1, <3>2 DEF WriterChain
    <2> QED
      BY <1>2, <2>3, <2>4
  <1>8. UnderWay' # {}
    BY <1>2
  <1> QED
    BY <1>5, <1>6, <1>7, <1>8 DEF WriterChain

\* When the latest turn ends, the one before it is the end of the chain.
LEMMA ChainEnds ==
  ASSUME Meetings, WriterChain, NEW r, Ends(r), \A q \in UnderWay' : <<r, q>> \notin met
  PROVE  WriterChain'
  <1>1. /\ r \in UnderWay /\ UnderWay' = UnderWay \ {r} /\ UnderWay \subseteq Runs
        /\ met' = met /\ slot' = turn[r].prev
        /\ \A q \in UnderWay' : turn'[q] = turn[q] /\ Session(q)' = Session(q)
    BY DEF Ends, UnderWay, Session
  <1>2. \A q \in UnderWay : q # r => <<r, q>> \notin met /\ <<q, r>> \in met
    BY <1>1 DEF Meetings
  <1>3. <<r, r>> \notin met
    BY <1>1 DEF Meetings
  <1>4. ASSUME UnderWay' = {}
        PROVE  slot' = None
    <2>1. UnderWay = {r}
      BY <1>1, <1>4
    <2>2. Earliest(r)
      BY <1>3, <2>1 DEF Earliest
    <2> QED
      BY <1>1, <2>2 DEF WriterChain
  <1>5. ASSUME NEW q \in UnderWay', Latest(q)'
        PROVE  slot' = Session(q)'
    <2>1. q \in UnderWay /\ q # r /\ <<q, r>> \in met
      BY <1>1, <1>2
    <2>2. \A z \in UnderWay : z # r => <<q, z>> \notin met
      BY <1>1, <1>5 DEF Latest
    <2>3. Between(q, r) = {}
      BY <1>3, <2>2 DEF Between
    <2>4. turn[r].prev = Session(q)
      BY <1>1, <2>1, <2>3 DEF WriterChain
    <2> QED
      BY <1>1, <2>4
  <1>6. ASSUME NEW q \in UnderWay', Earliest(q)'
        PROVE  turn'[q].prev = None
    <2>1. q \in UnderWay /\ Earliest(q)
      BY <1>1, <1>2, <1>6 DEF Earliest
    <2> QED
      BY <1>1, <2>1 DEF WriterChain
  <1>7. ASSUME NEW q \in UnderWay', NEW z \in UnderWay', <<q, z>> \in met',
               Between(q, z)' = {}
        PROVE  turn'[z].prev = Session(q)'
    <2>1. q \in UnderWay /\ z \in UnderWay /\ <<q, z>> \in met /\ <<r, z>> \notin met
      BY <1>1, <1>2, <1>7
    <2>2. Between(q, z) = {}
      BY <1>1, <1>7, <2>1 DEF Between
    <2>3. turn[z].prev = Session(q)
      BY <2>1, <2>2 DEF WriterChain
    <2> QED
      BY <1>1, <1>7, <2>3
  <1> QED
    BY <1>4, <1>5, <1>6, <1>7 DEF WriterChain

\* Every step keeps the chain, as long as the turns stay nested.
LEMMA WriterChainStep ==
  ASSUME OverlapInv, Meetings', NEW r \in Runs, Moves(r), Watch, nested'
  PROVE  WriterChain'
  <1>1. GraphInv /\ Meetings
    BY DEF OverlapInv
  <1>2. WriterChain
    BY <1>1, BeginsEndsGoesOn DEF OverlapInv, Begins, Ends, GoesOn
  <1>3. CASE Ends(r)
    <2>1. \A q \in UnderWay' : <<r, q>> \notin met
      BY <1>3 DEF Ends
    <2> QED
      BY <1>1, <1>2, <1>3, <2>1, ChainEnds
  <1>4. CASE GoesOn
    BY <1>2, <1>4 DEF GoesOn, WriterChain, Latest, Earliest, Between, Session
  <1> QED
    BY <1>1, <1>2, <1>3, <1>4, ChainBegins, BeginsEndsGoesOn

\* The invariant of overlapping turns.
LEMMA OverlapInvCorrect == OverlapSpec => []OverlapInv
  <1>1. OverlapInit => OverlapInv
    <2> SUFFICES ASSUME OverlapInit
                 PROVE  OverlapInv
      OBVIOUS
    <2>1. GraphInv
      BY GraphInvInit DEF OverlapInit
    <2>2. UnderWay = {} /\ met = {} /\ slot = None
      BY DEF OverlapInit, Init, UnderWay
    <2> QED
      BY <2>1, <2>2 DEF OverlapInv, Meetings, OwnFields, WriterChain
  <1>2. OverlapInv /\ [OverlapNext]_overlapVars => OverlapInv'
    <2> SUFFICES ASSUME OverlapInv, [OverlapNext]_overlapVars
                 PROVE  OverlapInv'
      OBVIOUS
    <2>1. GraphInv'
      BY GraphInvStep DEF OverlapInv, OverlapNext, overlapVars
    <2>2. CASE UNCHANGED overlapVars
      <3>1. /\ UnderWay' = UnderWay /\ pc' = pc /\ met' = met /\ nested' = nested
            /\ slot' = slot /\ traced' = traced /\ turn' = turn
        BY <2>2 DEF overlapVars, historyVars, vars, UnderWay
      <3>2. Meetings' /\ OwnFields'
        BY <3>1 DEF OverlapInv, Meetings, OwnFields, Undisturbed, Session
      <3>3. WriterChain => WriterChain'
        BY <3>1 DEF WriterChain, Latest, Earliest, Between, Session
      <3> QED
        BY <2>1, <3>1, <3>2, <3>3 DEF OverlapInv
    <2>3. ASSUME NEW r \in Runs, Moves(r), Watch
          PROVE  OverlapInv'
      <3>1. Meetings'
        BY <2>3, MeetingsStep DEF OverlapInv
      <3>2. OwnFields'
        BY <2>3, OwnFieldsStep
      <3>3. nested' => WriterChain'
        BY <2>3, <3>1, WriterChainStep
      <3> QED
        BY <2>1, <3>1, <3>2, <3>3 DEF OverlapInv
    <2> QED
      BY <2>2, <2>3, OverlapMoves
  <1> QED
    BY <1>1, <1>2, PTL DEF OverlapSpec

(***************************************************************************)
(* Turns may overlap, and yet when none is under way the graph object holds *)
(* no session's writer, however each of them ended, if a turn that began   *)
(* later always ended earlier: the writers that arun keeps are a stack.    *)
(***************************************************************************)
THEOREM WriterRestoredIfNestedCorrect == OverlapSpec => []WriterRestoredIfNested
  <1>1. OverlapInv => WriterRestoredIfNested
    BY DEF OverlapInv, WriterChain, WriterRestoredIfNested
  <1> QED
    BY <1>1, OverlapInvCorrect, PTL

-----------------------------------------------------------------------------
(***************************************************************************)
(* The history of a thread.                                                *)
(***************************************************************************)
CkptIsOwn ==
  \A r \in UnderWay : OneByOne(Session(r)) => ckpt[Session(r)] = chan[r]

\* Of a thread whose turns go one by one, no two turns are under way.
LEMMA OneTurnOfThread ==
  ASSUME Meetings, NEW q \in UnderWay, NEW r \in UnderWay, q # r, OneByOne(Session(r))
  PROVE  Session(q) # Session(r)
  <1>1. q \in Runs /\ r \in Runs
    BY DEF UnderWay
  <1>2. <<q, r>> \in met \/ <<r, q>> \in met
    BY DEF Meetings
  <1> QED
    BY <1>1, <1>2 DEF OneByOne

\* If the turns of a thread go one by one, they did so before.
LEMMA OneByOneBefore ==
  ASSUME GraphInv, Meetings, NEW r \in Runs, Moves(r), Watch, NEW s, OneByOne(s)'
  PROVE  OneByOne(s)
  <1>1. SUFFICES ASSUME NEW q \in Runs, NEW z \in Runs, <<q, z>> \in met,
                        Session(q) = s, Session(z) = s
                 PROVE  FALSE
    BY DEF OneByOne
  <1>2. pc[q] # "idle" /\ pc[z] # "idle"
    BY <1>1 DEF Meetings
  <1>3. Session(q)' = s /\ Session(z)' = s
    BY <1>1, <1>2, StartedStays DEF Session
  <1>4. <<q, z>> \in met'
    BY <1>1, MetStays
  <1> QED
    BY <1>3, <1>4 DEF OneByOne

\* Every step keeps the checkpoint of such a thread with its turn.
LEMMA CkptIsOwnStep ==
  ASSUME OverlapInv, CkptIsOwn, NEW r \in Runs, Moves(r), Watch
  PROVE  CkptIsOwn'
  <1>1. GraphInv /\ Meetings /\ TypeInv /\ FlowTypes
    BY DEF OverlapInv, GraphInv, TypeInv
  <1>2. SUFFICES ASSUME NEW q \in UnderWay', NEW z, z = Session(q)', OneByOne(z)'
                 PROVE  ckpt'[z] = chan'[q]
    BY DEF CkptIsOwn, OneByOne
  <1>3. OneByOne(z)
    BY <1>1, <1>2, OneByOneBefore
  <1>4. ASSUME q \in UnderWay
        PROVE  z = Session(q) /\ z \in Sessions /\ q \in Runs /\ ckpt[z] = chan[q]
    <2>1. pc[q] # "idle" /\ q \in Runs
      BY <1>4 DEF UnderWay
    <2>2. Session(q)' = Session(q) /\ Session(q) \in Sessions
      BY <1>1, <2>1, StartedStays, StartedTurn DEF Session
    <2> QED
      BY <1>2, <1>3, <1>4, <2>1, <2>2 DEF CkptIsOwn
  <1>5. ASSUME NEW s \in Sessions, NEW a \in Actors, Start(r, s, a), Begins(r, s)
        PROVE  ckpt'[z] = chan'[q]
    <2>1. chan' = [chan EXCEPT ![r] = Input(s)] /\ ckpt' = [ckpt EXCEPT ![s] = Input(s)]
      BY <1>5 DEF Start
    <2>2. Session(r)' = s
      BY <1>5 DEF Begins, Session
    <2>3. CASE q = r
      BY <1>1, <1>2, <1>5, <2>1, <2>2, <2>3 DEF FlowTypes, Begins
    <2>4. CASE q \in UnderWay /\ q # r
      <3>1. <<q, r>> \in met'
        BY <1>5, <2>4, BeginningDisturbs
      <3>2. z # s
        <4>1. q \in Runs /\ r \in Runs
          BY <1>4, <2>4
        <4> QED
          BY <1>2, <2>2, <3>1, <4>1 DEF OneByOne
      <3> QED
        BY <1>1, <1>4, <2>1, <2>4, <3>2 DEF FlowTypes
    <2> QED
      BY <1>2, <1>5, <2>3, <2>4 DEF Begins
  <1>6. CASE Step(r)
    <2>1. r \in UnderWay
      BY <1>6, StepIsUnderWay
    <2>2. q \in UnderWay
      BY <1>6, <2>1, <1>2, BeginsEndsGoesOn, <1>1 DEF Ends, GoesOn, Begins, UnderWay
    <2>3. CASE chan' = chan /\ ckpt' = ckpt
      BY <1>4, <2>2, <2>3
    <2>4. ASSUME NEW c, chan' = [chan EXCEPT ![r] = c],
                 ckpt' = [ckpt EXCEPT ![Session(r)] = c]
          PROVE  ckpt'[z] = chan'[q]
      <3>1. CASE q = r
        BY <1>1, <1>4, <2>2, <2>4, <3>1 DEF FlowTypes
      <3>2. CASE q # r
        <4>1. Session(r) # z
          BY <1>1, <1>3, <1>4, <2>1, <2>2, <3>2, OneTurnOfThread
        <4> QED
          BY <1>1, <1>4, <2>2, <2>4, <3>2, <4>1 DEF FlowTypes
      <3> QED
        BY <3>1, <3>2
    <2> QED
      BY <1>1, <1>6, <2>3, <2>4, FlowStep
  <1>7. ASSUME NEW p \in People, Decision(r, p), GoesOn
        PROVE  ckpt'[z] = chan'[q]
    <2>1. ckpt' = ckpt /\ chan' = chan /\ q \in UnderWay
      BY <1>2, <1>7 DEF Decision, GoesOn
    <2> QED
      BY <1>4, <2>1
  <1> QED
    BY <1>1, <1>5, <1>6, <1>7, BeginsEndsGoesOn

\* A thread that is written to goes on from what it holds.
LEMMA HistoryStep ==
  ASSUME OverlapInv, CkptIsOwn, [OverlapNext]_overlapVars, NEW s \in Sessions, OneByOne(s)
  PROVE  Prolongs(ckpt'[s].messages, ckpt[s].messages)
  <1>1. GraphInv /\ TypeInv /\ FlowTypes /\ ckpt[s] \in Channels
    BY DEF OverlapInv, GraphInv, TypeInv, FlowTypes
  <1>2. ckpt[s].messages \in Seq(Message)
    BY <1>1 DEF Channels
  <1>3. CASE ckpt'[s] = ckpt[s]
    BY <1>2, <1>3, ProlongsMore
  <1>4. ASSUME NEW r \in Runs, NEW z \in Sessions, NEW a \in Actors, Start(r, z, a)
        PROVE  Prolongs(ckpt'[s].messages, ckpt[s].messages)
    <2>1. CASE s # z
      BY <1>1, <1>3, <1>4, <2>1 DEF Start, FlowTypes
    <2>2. CASE s = z
      <3>1. ckpt'[s] = Input(s)
        BY <1>1, <1>4, <2>2 DEF Start, FlowTypes
      <3>2. Input(s).messages = Append(ckpt[s].messages, Msg("user", << >>))
        BY <1>1 DEF Input, Channels
      <3>3. Msg("user", << >>) \in Message
        BY DEF Msg, Message
      <3> HIDE DEF Message
      <3> QED
        BY <1>2, <3>1, <3>2, <3>3, ProlongsOne
    <2> QED
      BY <2>1, <2>2
  <1>5. ASSUME NEW r \in Runs, Step(r)
        PROVE  Prolongs(ckpt'[s].messages, ckpt[s].messages)
    <2>1. ASSUME NEW c, Follows(c, r), ckpt' = [ckpt EXCEPT ![Session(r)] = c]
          PROVE  Prolongs(ckpt'[s].messages, ckpt[s].messages)
      <3>1. CASE s # Session(r)
        BY <1>1, <1>3, <2>1, <3>1 DEF FlowTypes
      <3>2. CASE s = Session(r)
        <4>1. ckpt[s] = chan[r]
          BY <1>5, <3>2, StepIsUnderWay DEF CkptIsOwn
        <4> QED
          BY <1>1, <2>1, <3>2, <4>1 DEF Follows, FlowTypes
      <3> QED
        BY <3>1, <3>2
    <2> QED
      BY <1>1, <1>3, <1>5, <2>1, FlowStep
  <1>6. ASSUME NEW r \in Runs, NEW p \in People, Decision(r, p)
        PROVE  ckpt' = ckpt
    BY <1>6 DEF Decision
  <1>7. CASE UNCHANGED overlapVars
    BY <1>3, <1>7 DEF overlapVars, vars
  <1> QED
    BY <1>3, <1>4, <1>5, <1>6, <1>7, OverlapMoves DEF Moves

(***************************************************************************)
(* The history of a thread only grows while its own turns go one by one,   *)
(* whatever turns of other sessions overlap them: a turn starts from the   *)
(* checkpoint its predecessor left, and every node adds to what is there.  *)
(***************************************************************************)
THEOREM HistoryAccumulatesCorrect == OverlapSpec => HistoryAccumulates
  <1>1. OverlapInit => CkptIsOwn
    BY DEF OverlapInit, Init, CkptIsOwn, UnderWay
  <1>2. OverlapInv /\ CkptIsOwn /\ [OverlapNext]_overlapVars => CkptIsOwn'
    <2>1. ASSUME CkptIsOwn, UNCHANGED overlapVars
          PROVE  CkptIsOwn'
      BY <2>1 DEF overlapVars, historyVars, vars, CkptIsOwn, UnderWay, OneByOne, Session
    <2> QED
      BY <2>1, CkptIsOwnStep, OverlapMoves
  <1>3. OverlapInv /\ CkptIsOwn /\ [OverlapNext]_overlapVars =>
          [\A s \in Sessions : OneByOne(s) =>
             LET old == ckpt[s].messages  new == ckpt'[s].messages
             IN  Len(old) <= Len(new) /\ SubSeq(new, 1, Len(old)) = old]_overlapVars
    BY HistoryStep DEF Prolongs
  <1> QED
    BY <1>1, <1>2, <1>3, OverlapInvCorrect, PTL DEF OverlapSpec, HistoryAccumulates

-----------------------------------------------------------------------------
(***************************************************************************)
(* Trace records and events.                                               *)
(***************************************************************************)
TraceOk ==
  \A x \in trace : /\ x.run \in Runs /\ pc[x.run] # "idle"
                   /\ Undisturbed(x.run) => x.session = Session(x.run)

\* A step adds the trace record of its own run, or none.
LEMMA TraceStep ==
  ASSUME NEW r \in Runs, Moves(r)
  PROVE  trace' = trace \/ (Trace(r) /\ Step(r))
  BY DEF Moves, Start, Decision, Step, Classify, BuildContext, CallModel,
     ModelAnswers, ModelFails, Plan, Approval, RefuseCall, StartHandler,
     HandlerReturns, EndTools, FirstFinal, Final, HitLimit, Return, Unwind,
     EndNode, Raise

(***************************************************************************)
(* A trace record names the session of the turn it traces, if no other     *)
(* turn was under way meanwhile.                                           *)
(***************************************************************************)
THEOREM TraceOfUndisturbedCorrect == OverlapSpec => []TraceOfUndisturbed
  <1>1. OverlapInit => TraceOk
    BY DEF OverlapInit, Init, TraceOk
  <1>2. OverlapInv /\ TraceOk /\ [OverlapNext]_overlapVars => TraceOk'
    <2>1. ASSUME TraceOk, UNCHANGED overlapVars
          PROVE  TraceOk'
      BY <2>1 DEF overlapVars, historyVars, vars, TraceOk, Session, Undisturbed
    <2>2. ASSUME OverlapInv, TraceOk, NEW r \in Runs, Moves(r), Watch
          PROVE  TraceOk'
      <3>1. GraphInv /\ Meetings /\ OwnFields /\ met \subseteq met'
        BY <2>2, MetStays DEF OverlapInv
      <3>2. ASSUME NEW x \in trace
            PROVE  /\ x.run \in Runs /\ pc'[x.run] # "idle"
                   /\ Undisturbed(x.run)' => x.session = turn'[x.run].session
        <4>1. /\ x.run \in Runs /\ pc'[x.run] # "idle"
              /\ turn'[x.run] = turn[x.run]
          BY <2>2, <3>1, <3>2, StartedStays DEF TraceOk
        <4>2. Undisturbed(x.run)' => Undisturbed(x.run)
          BY <3>1, UndisturbedBefore
        <4> QED
          BY <2>2, <3>2, <4>1, <4>2 DEF TraceOk, Session
      <3>3. ASSUME Trace(r), Step(r)
            PROVE  TraceOk'
        <4>1. r \in UnderWay /\ pc[r] # "idle"
          BY <3>3, StepIsUnderWay DEF UnderWay
        <4>2. pc'[r] # "idle" /\ turn'[r] = turn[r]
          BY <2>2, <3>1, <4>1, StartedStays
        <4>3. Undisturbed(r)' => traced = Session(r)
          BY <3>1, <4>1, UndisturbedBefore DEF OwnFields
        <4> QED
          BY <3>2, <3>3, <4>2, <4>3 DEF Trace, TraceOk, Session
      <3> QED
        BY <2>2, <3>2, <3>3, TraceStep DEF TraceOk, Session
    <2> QED
      BY <2>1, <2>2, OverlapMoves
  <1>3. TraceOk => TraceOfUndisturbed
    BY DEF TraceOk, TraceOfUndisturbed
  <1> QED
    BY <1>1, <1>2, <1>3, OverlapInvCorrect, PTL DEF OverlapSpec

-----------------------------------------------------------------------------
\* A step of r stores the event e of r, its next one, in the session s.
Stores(r, e, s) ==
  /\ e \in EventRecord /\ e.run = r /\ e.n = emitted[r] + 1
  /\ s \in Sessions /\ events' = [events EXCEPT ![s] = @ \cup {e}]
  /\ emitted' = [emitted EXCEPT ![r] = @ + 1]
  /\ \/ e.results = << >> /\ e.calls = << >>
     \/ EndTools(r) /\ e = ToolEvent(r)

\* The step emits an event that has nowhere to go.
Drops(r) ==
  /\ slot = None /\ events' = events
  /\ emitted' = [emitted EXCEPT ![r] = @ + 1]

\* An event is dropped by a step of its run, or stored where the writer points or
\* where the run is; a step that emits none leaves the store.
LEMMA EventStep ==
  ASSUME GraphInv, NEW r \in Runs, Moves(r)
  PROVE  \/ UNCHANGED <<events, emitted>>
         \/ Step(r) /\ Drops(r)
         \/ \E e, s : Stores(r, e, s) /\ (s = turn'[r].session \/ (Step(r) /\ s = slot))
  <1>1. TypeInv /\ FlowTypes /\ TurnTypes
    BY DEF GraphInv, TypeInv
  <1>2. ASSUME NEW type
        PROVE  /\ Event(r, type).run = r /\ Event(r, type).n = emitted[r] + 1
               /\ Event(r, type).results = << >> /\ Event(r, type).calls = << >>
    BY DEF Event
  <1>3. \A type \in EventTypes : Event(r, type) \in EventRecord
    BY <1>1, EventType
  <1> DEFINE Outcome ==
               \/ UNCHANGED <<events, emitted>>
               \/ Step(r) /\ Drops(r)
               \/ \E e, s : Stores(r, e, s) /\ (s = turn'[r].session \/ (Step(r) /\ s = slot))
  <1>4. ASSUME NEW s \in Sessions, NEW type \in EventTypes,
               AppendTo(s, Event(r, type)), s = turn'[r].session
        PROVE  Outcome
    <2> DEFINE e == Event(r, type)
    <2>1. e \in EventRecord /\ e.run = r /\ e.n = emitted[r] + 1
          /\ e.results = << >> /\ e.calls = << >>
      BY <1>2, <1>3
    <2>2. AppendTo(s, e)
      BY <1>4
    <2> HIDE DEF e
    <2>3. Stores(r, e, s)
      BY <1>4, <2>1, <2>2 DEF AppendTo, Stores
    <2> QED
      BY <1>4, <2>3
  <1>5. ASSUME NEW s \in Sessions, NEW a \in Actors, Start(r, s, a)
        PROVE  Outcome
    <2>1. turn'[r] = [session |-> s, actor |-> a, prev |-> slot]
      BY <1>1, <1>5 DEF Start, TurnTypes
    <2>2. AppendTo(s, Event(r, "user")) /\ s = turn'[r].session
      BY <1>5, <2>1 DEF Start
    <2> HIDE DEF Outcome
    <2> QED
      BY <1>4, <2>2 DEF EventTypes
  <1>6. ASSUME NEW p \in People, Decision(r, p)
        PROVE  Outcome
    BY <1>6 DEF Decision
  <1>7. CASE Step(r)
    <2>1. turn' = turn /\ Session(r) = turn'[r].session /\ Session(r) \in Sessions
          /\ slot \in Sessions \cup {None}
      BY <1>1, <1>7, StepIsUnderWay, TurnKept, StartedTurn DEF UnderWay, Session, TurnTypes
    <2>2. ASSUME NEW e, e \in EventRecord, e.run = r, e.n = emitted[r] + 1,
                 \/ e.results = << >> /\ e.calls = << >>
                 \/ EndTools(r) /\ e = ToolEvent(r),
                 Emit(r, e)
          PROVE  Outcome
      <3>1. CASE slot = None
        BY <1>7, <2>2, <3>1 DEF Emit, Drops
      <3>2. CASE slot # None
        <4>1. Stores(r, e, slot)
          BY <2>1, <2>2, <3>2 DEF Emit, AppendTo, Stores
        <4> QED
          BY <1>7, <4>1
      <3> QED
        BY <3>1, <3>2
    <2>3. ASSUME NEW type \in EventTypes, Emit(r, Event(r, type))
          PROVE  Outcome
      <3> DEFINE e == Event(r, type)
      <3>1. e \in EventRecord /\ e.run = r /\ e.n = emitted[r] + 1
            /\ e.results = << >> /\ e.calls = << >> /\ Emit(r, e)
        BY <1>2, <1>3, <2>3
      <3> HIDE DEF e, Outcome
      <3> QED
        BY <2>2, <3>1
    <2>4. ASSUME NEW type \in EventTypes, NEW c, NEW next, EndNode(r, Event(r, type), c, next)
          PROVE  Outcome
      <3>1. CASE Emit(r, Event(r, type))
        BY <2>3, <3>1
      <3> QED
        BY <2>4, <3>1 DEF EndNode, Raise
    <2>5. CASE Classify(r)
      BY <2>4, <2>5 DEF Classify, EventTypes
    <2>6. CASE \E calls \in Replies : ModelAnswers(r, calls)
      BY <2>4, <2>6 DEF ModelAnswers, EventTypes
    <2>7. CASE Plan(r)
      BY <2>4, <2>7 DEF Plan, EventTypes
    <2>8. CASE Approval(r)
      BY <2>4, <2>8 DEF Approval, EventTypes
    <2>9. CASE Final(r)
      BY <2>4, <2>9 DEF Final, EventTypes
    <2>10. CASE UNCHANGED <<events, emitted>>
      BY <2>10
    <2>11. CASE FirstFinal(r)
      <3>1. CASE Emit(r, Event(r, "final"))
        BY <2>3, <3>1 DEF EventTypes
      <3> QED
        BY <2>10, <2>11, <3>1 DEF FirstFinal, Raise
    <2>12. CASE EndTools(r)
      <3>1. CASE Emit(r, ToolEvent(r))
        <4>1. ToolEvent(r) \in EventRecord /\ ToolEvent(r).run = r
              /\ ToolEvent(r).n = emitted[r] + 1
          BY <1>1, ToolEventType, ToolEventRun
        <4> QED
          BY <2>2, <2>12, <3>1, <4>1
      <3> QED
        BY <2>10, <2>12, <3>1 DEF EndTools, EndNode, Raise
    <2>13. CASE Return(r)
      <3>1. CASE AppendTo(Session(r), Event(r, "assistant"))
        BY <1>4, <2>1, <3>1 DEF EventTypes
      <3> QED
        BY <2>10, <2>13, <3>1 DEF Return
    <2>14. CASE BuildContext(r) \/ CallModel(r) \/ ModelFails(r) \/ RefuseCall(r)
                \/ StartHandler(r) \/ HitLimit(r) \/ Unwind(r)
                \/ \E status \in {"success", "error"} : HandlerReturns(r, status)
      BY <2>10, <2>14 DEF BuildContext, CallModel, ModelFails, Raise, RefuseCall,
         StartHandler, HandlerReturns, HitLimit, Unwind
    <2> HIDE DEF Outcome
    <2> QED
      BY <1>7, <2>5, <2>6, <2>7, <2>8, <2>9, <2>11, <2>12, <2>13, <2>14 DEF Step
  <1> QED
    BY <1>5, <1>6, <1>7 DEF Moves

\* An undisturbed turn stores its event in its own session.
LEMMA OwnEventStep ==
  ASSUME OverlapInv, NEW r \in Runs, Moves(r), Undisturbed(r)
  PROVE  \/ UNCHANGED <<events, emitted>>
         \/ \E e : Stores(r, e, turn'[r].session)
  <1>1. GraphInv /\ TypeInv /\ OwnFields
    BY DEF OverlapInv, GraphInv
  <1>2. ASSUME Step(r)
        PROVE  slot = turn'[r].session /\ slot # None
    <2>1. r \in UnderWay /\ pc[r] # "idle"
      BY <1>2, StepIsUnderWay DEF UnderWay
    <2>2. turn' = turn /\ Session(r) \in Sessions
      BY <1>1, <2>1, TurnKept, StartedTurn
    <2> QED
      BY <1>1, <2>1, <2>2, GraphAssumption DEF OwnFields, Session
  <1> QED
    BY <1>1, <1>2, EventStep DEF Drops

-----------------------------------------------------------------------------
EventsOf(r, s) == { e \in events[s] : e.run = r }

\* The events of an undisturbed run are numbered, and all in its session.
Counted(r) ==
  /\ pc[r] = "idle" => emitted[r] = 0 /\ \A s \in Sessions : EventsOf(r, s) = {}
  /\ pc[r] # "idle" /\ Undisturbed(r) =>
       /\ IsFiniteSet(EventsOf(r, Session(r)))
       /\ Cardinality(EventsOf(r, Session(r))) = emitted[r]
       /\ \A e \in EventsOf(r, Session(r)) : e.n <= emitted[r]
       /\ \A s \in Sessions : s # Session(r) => EventsOf(r, s) = {}

AllCounted == \A r \in Runs : Counted(r)

\* What a run does leaves the events of the others.
LEMMA EventsOfOthers ==
  ASSUME GraphInv, NEW r \in Runs, Moves(r), NEW q \in Runs, q # r, NEW s \in Sessions
  PROVE  EventsOf(q, s)' = EventsOf(q, s)
  <1>1. FlowTypes
    BY DEF GraphInv, TypeInv
  <1>2. ASSUME NEW e, NEW z, Stores(r, e, z)
        PROVE  EventsOf(q, s)' = EventsOf(q, s)
    <2>1. events'[s] = events[s] \/ events'[s] = events[s] \cup {e}
      BY <1>1, <1>2 DEF Stores, FlowTypes
    <2>2. e.run # q
      BY <1>2 DEF Stores
    <2> QED
      BY <2>1, <2>2 DEF EventsOf
  <1> QED
    BY <1>2, EventStep DEF EventsOf, Drops

\* The events of an undisturbed run stay counted in its session.
LEMMA CountedStep ==
  ASSUME OverlapInv, AllCounted, NEW r \in Runs, Moves(r), Watch, NEW q \in Runs
  PROVE  Counted(q)'
  <1>1. GraphInv /\ TypeInv /\ FlowTypes /\ TurnTypes
    BY DEF OverlapInv, GraphInv, TypeInv
  <1>2. Undisturbed(q)' => Undisturbed(q)
    BY <1>1, MetStays, UndisturbedBefore
  <1>3. CASE q # r
    <2>1. Stays(q)
      BY <1>1, <1>3, OthersStay
    <2>2. \A s \in Sessions : EventsOf(q, s)' = EventsOf(q, s)
      BY <1>1, <1>3, EventsOfOthers
    <2>3. pc[q] # "idle" => Session(q) \in Sessions /\ Session(q)' = Session(q)
      BY <1>1, <2>1, StartedTurn DEF Stays, Session
    <2>4. CASE pc[q] = "idle"
      <3>1. pc'[q] = "idle" /\ emitted'[q] = 0 /\ \A s \in Sessions : EventsOf(q, s)' = {}
        BY <2>1, <2>2, <2>4 DEF AllCounted, Counted, Stays
      <3> QED
        BY <3>1 DEF Counted
    <2>5. CASE pc[q] # "idle"
      <3>1. ASSUME Undisturbed(q)'
            PROVE  /\ IsFiniteSet(EventsOf(q, Session(q))')
                   /\ Cardinality(EventsOf(q, Session(q))') = emitted'[q]
                   /\ \A e \in EventsOf(q, Session(q))' : e.n <= emitted'[q]
                   /\ \A s \in Sessions : s # Session(q)' => EventsOf(q, s)' = {}
        <4>1. Counted(q) /\ Undisturbed(q)
          BY <1>2, <3>1 DEF AllCounted
        <4>2. EventsOf(q, Session(q))' = EventsOf(q, Session(q))
          BY <2>2, <2>3, <2>5 DEF EventsOf
        <4>3. emitted'[q] = emitted[q] /\ Session(q)' = Session(q)
          BY <2>1, <2>3, <2>5 DEF Stays
        <4> QED
          BY <2>2, <2>5, <4>1, <4>2, <4>3 DEF Counted
      <3>2. pc'[q] # "idle"
        BY <2>1, <2>5 DEF Stays
      <3> QED
        BY <3>1, <3>2 DEF Counted
    <2> QED
      BY <2>4, <2>5
  <1>4. CASE q = r
    <2> DEFINE s == turn'[r].session
               old == { e \in events[s] : e.run = r }
               new == { e \in events'[s] : e.run = r }
    <2>1. CASE \E p \in People : Decision(r, p)
      <3>1. pc' = pc /\ events' = events /\ emitted' = emitted /\ turn' = turn
        BY <2>1 DEF Decision
      <3> QED
        BY <1>2, <1>4, <3>1 DEF AllCounted, Counted, EventsOf, Session
    <2>2. CASE ~ \E p \in People : Decision(r, p)
      <3>1. s \in Sessions /\ pc'[r] # "idle"
        <4>1. CASE pc[r] # "idle"
          BY <1>1, <4>1, StartedStays, StartedTurn DEF Session
        <4>2. CASE pc[r] = "idle"
          <5>1. PICK z \in Sessions, a \in Actors : Start(r, z, a)
            BY <2>2, <4>2, StepIsUnderWay DEF Moves, UnderWay
          <5>2. turn'[r] = [session |-> z, actor |-> a, prev |-> slot] /\ pc'[r] = "classify"
            BY <1>1, <5>1 DEF Start, TurnTypes, FlowTypes
          <5> QED
            BY <5>2
        <4> QED
          BY <4>1, <4>2
      <3>2. SUFFICES ASSUME Undisturbed(r)'
                     PROVE  /\ IsFiniteSet(new) /\ Cardinality(new) = emitted'[r]
                            /\ \A e \in new : e.n <= emitted'[r]
                            /\ \A z \in Sessions : z # s => EventsOf(r, z)' = {}
        BY <1>4, <3>1 DEF Counted, EventsOf, Session
      <3>3. Undisturbed(r)
        BY <1>2, <1>4, <3>2
      <3>4. /\ IsFiniteSet(old) /\ Cardinality(old) = emitted[r]
            /\ \A e \in old : e.n <= emitted[r]
            /\ \A z \in Sessions : z # s => EventsOf(r, z) = {}
        <4>1. CASE pc[r] # "idle"
          <5>1. s = Session(r)
            BY <1>1, <4>1, StartedStays DEF Session
          <5> QED
            BY <3>3, <4>1, <5>1 DEF AllCounted, Counted, EventsOf
        <4>2. CASE pc[r] = "idle"
          <5>1. old = {} /\ emitted[r] = 0 /\ \A z \in Sessions : EventsOf(r, z) = {}
            BY <3>1, <4>2 DEF AllCounted, Counted, EventsOf
          <5> HIDE DEF old
          <5> QED
            BY <5>1, FS_EmptySet
        <4> QED
          BY <4>1, <4>2
      <3>5. emitted[r] \in Nat
        BY <1>1 DEF FlowTypes
      <3>6. CASE UNCHANGED <<events, emitted>>
        BY <3>4, <3>6 DEF EventsOf
      <3>7. ASSUME NEW e, Stores(r, e, s)
            PROVE  /\ IsFiniteSet(new) /\ Cardinality(new) = emitted'[r]
                   /\ \A x \in new : x.n <= emitted'[r]
                   /\ \A z \in Sessions : z # s => EventsOf(r, z)' = {}
        <4>1. new = old \cup {e} /\ emitted'[r] = emitted[r] + 1 /\ e.n = emitted[r] + 1
          BY <1>1, <3>1, <3>7 DEF Stores, FlowTypes
        <4>2. \A z \in Sessions : z # s => EventsOf(r, z)' = {}
          <5>1. \A z \in Sessions : z # s => events'[z] = events[z]
            BY <1>1, <3>7 DEF Stores, FlowTypes
          <5> QED
            BY <3>4, <5>1 DEF EventsOf
        <4>3. e \notin old
          BY <3>4, <3>5, <4>1
        <4>4. \A x \in old : x.n \in Nat
          BY <1>1, <3>1 DEF FlowTypes, EventRecord
        <4> HIDE DEF old, new
        <4>5. IsFiniteSet(new) /\ Cardinality(new) = Cardinality(old) + 1
          BY <3>4, <4>1, <4>3, FS_AddElement
        <4>6. \A x \in new : x.n <= emitted'[r]
          BY <3>4, <3>5, <4>1, <4>4
        <4> QED
          BY <3>4, <4>1, <4>2, <4>5, <4>6
      <3> HIDE DEF new, old, s
      <3> QED
        BY <3>3, <3>6, <3>7, OwnEventStep DEF s
    <2> QED
      BY <2>1, <2>2
  <1> QED
    BY <1>3, <1>4

(***************************************************************************)
(* All the events of a turn that no other turn met end up in its own       *)
(* session and none is lost, whatever turns overlapped before and whatever *)
(* writer they left behind.                                                *)
(***************************************************************************)
THEOREM EventsOfUndisturbedCorrect == OverlapSpec => []EventsOfUndisturbed
  <1>1. OverlapInit => AllCounted
    BY DEF OverlapInit, Init, AllCounted, Counted, EventsOf
  <1>2. OverlapInv /\ AllCounted /\ [OverlapNext]_overlapVars => AllCounted'
    <2>1. ASSUME AllCounted, UNCHANGED overlapVars
          PROVE  AllCounted'
      BY <2>1 DEF overlapVars, historyVars, vars, AllCounted, Counted, EventsOf, Session,
         Undisturbed
    <2>2. ASSUME OverlapInv, AllCounted, NEW r \in Runs, Moves(r), Watch
          PROVE  AllCounted'
      BY <2>2, CountedStep DEF AllCounted
    <2> QED
      BY <2>1, <2>2, OverlapMoves
  <1>3. AllCounted => EventsOfUndisturbed
    <2> SUFFICES ASSUME AllCounted, NEW r \in Runs, pc[r] # "idle", Undisturbed(r),
                        NEW s \in Sessions
                 PROVE  Cardinality({ e \in events[s] : e.run = r })
                          = IF s = Session(r) THEN emitted[r] ELSE 0
      BY DEF EventsOfUndisturbed
    <2>1. /\ Cardinality(EventsOf(r, Session(r))) = emitted[r]
          /\ s # Session(r) => EventsOf(r, s) = {}
      BY DEF AllCounted, Counted
    <2> QED
      BY <2>1, FS_EmptySet DEF EventsOf
  <1> QED
    BY <1>1, <1>2, <1>3, OverlapInvCorrect, PTL DEF OverlapSpec

-----------------------------------------------------------------------------
(***************************************************************************)
(* The details of a tool_call event.  _tool_step finds the record of a     *)
(* result by the tool's name among the last records.  Of a turn that no    *)
(* other met the last records are the batch's own; and if the batch names  *)
(* each tool once, counting the tools leaves room for one record of each.  *)
(***************************************************************************)
DoneIsLatest(r) ==
  pc[r] \in Tooling /\ Undisturbed(r) =>
    \A k \in DOMAIN done[r] : done[r][k] = Len(toolCalls) - Len(done[r]) + k

DetailIsOwn(e) ==
  /\ \A k \in DOMAIN e.results : e.results[k] \in DOMAIN toolCalls
  /\ Undisturbed(e.run) /\ Cardinality(ToolsOf(e)) = Len(e.results)
       => e.calls = e.results

Details ==
  /\ \A r \in Runs : DoneIsLatest(r)
  /\ \A s \in Sessions : \A e \in events[s] : DetailIsOwn(e)

\* A list with as many values as places repeats none.
LEMMA NoneTwice ==
  ASSUME NEW n \in Nat, NEW f, DOMAIN f = 1 .. n, f = [k \in 1 .. n |-> f[k]],
         Cardinality({ f[k] : k \in 1 .. n }) = n
  PROVE  \A i, j \in 1 .. n : f[i] = f[j] => i = j
  <1> DEFINE T == { f[k] : k \in 1 .. n }
  <1>1. IsFiniteSet(1 .. n) /\ Cardinality(1 .. n) = n
    BY FS_Interval
  <1>2. f \in Surjection(1 .. n, T)
    BY DEF Surjection
  <1>3. Cardinality(T) = Cardinality(1 .. n)
    BY <1>1
  <1> HIDE DEF T
  <1>4. f \in Injection(1 .. n, T)
    BY <1>1, <1>2, <1>3, FS_Surjection
  <1> QED
    BY <1>4 DEF Injection, IsInjective

\* The search by name finds the records of the turn, if they are the last ones and
\* the batch names each tool once.
LEMMA OwnDetails ==
  ASSUME TypeInv, NEW r \in Runs, DoneIsRecorded(r),
         \A k \in DOMAIN done[r] : done[r][k] = Len(toolCalls) - Len(done[r]) + k,
         Cardinality(ToolsOf(ToolEvent(r))) = Len(done[r])
  PROVE  ToolEvent(r).calls = done[r]
  <1> DEFINE n == Len(done[r])
             L == Len(toolCalls)
             f == [ k \in 1 .. n |-> toolCalls[done[r][k]].tool ]
  <1>1. /\ n \in Nat /\ L \in Nat /\ DOMAIN done[r] = 1 .. n
        /\ DOMAIN toolCalls = 1 .. L
        /\ \A k \in 1 .. n : done[r][k] \in 1 .. L /\ done[r][k] = L - n + k
    <2>1. done[r] \in Seq(Nat) /\ toolCalls \in Seq(CallRecord)
      BY DEF TypeInv, CallTypes
    <2>2. n \in Nat /\ L \in Nat /\ DOMAIN done[r] = 1 .. n /\ DOMAIN toolCalls = 1 .. L
      BY <2>1
    <2>3. \A k \in DOMAIN done[r] : done[r][k] \in DOMAIN toolCalls
      BY DEF DoneIsRecorded
    <2> QED
      BY <2>2, <2>3
  <1>2. ToolsOf(ToolEvent(r)) = { f[k] : k \in 1 .. n }
    <2>1. ToolEvent(r).results = done[r]
      BY ToolEventRun
    <2> QED
      BY <1>1, <2>1 DEF ToolsOf
  <1>3. \A i, j \in 1 .. n : f[i] = f[j] => i = j
    <2>1. DOMAIN f = 1 .. n /\ f = [k \in 1 .. n |-> f[k]]
      OBVIOUS
    <2> HIDE DEF f
    <2> QED
      BY <1>1, <1>2, <2>1, NoneTwice
  <1>4. ASSUME NEW k \in 1 .. n
        PROVE  DetailOf(done[r][k], n) = done[r][k]
    <2> DEFINE i == done[r][k]
               recent == { j \in DOMAIN toolCalls :
                             /\ j > L - n
                             /\ toolCalls[j].tool = toolCalls[i].tool }
    <2>1. i \in recent
      BY <1>1
    <2>2. ASSUME NEW j \in recent
          PROVE  j = i
      <3>1. j \in 1 .. L /\ j > L - n /\ toolCalls[j].tool = toolCalls[i].tool
        BY <1>1
      <3>2. PICK m \in 1 .. n : j = L - n + m
        <4>1. j - (L - n) \in 1 .. n /\ j = L - n + (j - (L - n))
          BY <1>1, <3>1
        <4> QED
          BY <4>1
      <3>3. f[m] = f[k]
        BY <1>1, <3>1, <3>2
      <3> QED
        BY <1>1, <1>3, <3>2, <3>3
    <2>3. recent = {i}
      BY <2>1, <2>2
    <2>4. Max({i}) = i
      <3>1. i \in 1 .. L
        BY <1>1, <1>4
      <3>2. i \in Nat /\ i <= i
        BY <1>1, <3>1
      <3> HIDE DEF i
      <3>3. {i} \subseteq Nat /\ i \in {i} /\ \A x \in {i} : x <= i
        BY <3>2
      <3> QED
        BY <3>3, MaxIs
    <2>5. DetailOf(i, n) = IF recent = {} THEN 0 ELSE Max(recent)
      BY DEF DetailOf
    <2> HIDE DEF recent, i
    <2> QED
      BY <2>3, <2>4, <2>5 DEF i
  <1>5. ToolEvent(r).calls = [ k \in 1 .. n |-> DetailOf(done[r][k], n) ]
    BY <1>1, ToolEventRun
  <1>6. done[r] = [ k \in 1 .. n |-> done[r][k] ]
    BY <1>1 DEF TypeInv, CallTypes
  <1> QED
    BY <1>4, <1>5, <1>6

\* An event that was emitted keeps the record it shows.
LEMMA DetailStays ==
  ASSUME GraphInv, [Next]_vars, met \subseteq met', NEW e, DetailIsOwn(e)
  PROVE  DetailIsOwn(e)'
  <1>1. /\ DOMAIN toolCalls \subseteq DOMAIN toolCalls'
        /\ \A i \in DOMAIN toolCalls : toolCalls'[i] = toolCalls[i]
    BY CallsGrow DEF GraphInv
  <1>2. ToolsOf(e)' = ToolsOf(e)
    BY <1>1 DEF ToolsOf, DetailIsOwn
  <1>3. Undisturbed(e.run)' => Undisturbed(e.run)
    BY UndisturbedBefore
  <1> QED
    BY <1>1, <1>2, <1>3 DEF DetailIsOwn

\* The records of an undisturbed turn stay the last ones.
LEMMA LatestStep ==
  ASSUME OverlapInv, Details, NEW r \in Runs, Moves(r), Watch, NEW q \in Runs
  PROVE  DoneIsLatest(q)'
  <1>1. GraphInv /\ Meetings /\ TypeInv /\ FlowTypes /\ CallTypes
    BY DEF OverlapInv, GraphInv, TypeInv
  <1>2. SUFFICES ASSUME pc'[q] \in Tooling, Undisturbed(q)'
                 PROVE  \A k \in DOMAIN done'[q] :
                          done'[q][k] = Len(toolCalls') - Len(done'[q]) + k
    BY DEF DoneIsLatest
  <1>9. Undisturbed(q)
    BY <1>1, <1>2, MetStays, UndisturbedBefore
  <1>3. CASE UNCHANGED <<toolCalls, done>> /\ pc[q] \in Tooling
    BY <1>9, <1>3 DEF Details, DoneIsLatest
  <1>4. CASE done'[q] = << >>
    BY <1>4
  <1>5. ASSUME NEW status, Record(q, status), pc[q] \in Tooling
        PROVE  \A k \in DOMAIN done'[q] :
                          done'[q][k] = Len(toolCalls') - Len(done'[q]) + k
    <2>1. done[q] \in Seq(Nat) /\ toolCalls \in Seq(CallRecord)
          /\ Len(done[q]) \in Nat /\ Len(toolCalls) \in Nat
      BY <1>1 DEF CallTypes
    <2>2. done'[q] = Append(done[q], Len(toolCalls) + 1)
      BY <1>1, <1>5 DEF Record, CallTypes
    <2>3. Len(toolCalls') = Len(toolCalls) + 1
      BY <1>5, <2>1 DEF Record
    <2>4. \A k \in DOMAIN done[q] : done[q][k] = Len(toolCalls) - Len(done[q]) + k
      BY <1>9, <1>5 DEF Details, DoneIsLatest
    <2> DEFINE n == Len(done[q])
               L == Len(toolCalls)
    <2>5. /\ DOMAIN done'[q] = 1 .. n + 1 /\ Len(done'[q]) = n + 1
          /\ done'[q][n + 1] = L + 1
          /\ \A k \in 1 .. n : done'[q][k] = done[q][k]
      <3>1. L + 1 \in Nat
        BY <2>1
      <3> QED
        BY <2>1, <2>2, <3>1
    <2>6. /\ n \in Nat /\ L \in Nat /\ Len(toolCalls') = L + 1
          /\ \A k \in 1 .. n : done[q][k] = L - n + k
      <3>1. DOMAIN done[q] = 1 .. n
        BY <2>1
      <3> QED
        BY <2>1, <2>3, <2>4, <3>1
    <2> HIDE DEF n, L
    <2>7. ASSUME NEW k \in 1 .. n + 1
          PROVE  done'[q][k] = (L + 1) - (n + 1) + k
      <3>1. CASE k = n + 1
        <4>1. L + 1 = (L + 1) - (n + 1) + (n + 1)
          BY <2>6
        <4> QED
          BY <2>5, <3>1, <4>1
      <3>2. CASE k \in 1 .. n
        <4>1. L - n + k = (L + 1) - (n + 1) + k
          BY <2>6
        <4> QED
          BY <2>5, <2>6, <3>2, <4>1
      <3>3. k = n + 1 \/ k \in 1 .. n
        BY <2>6
      <3> QED
        BY <3>1, <3>2, <3>3
    <2> QED
      BY <2>5, <2>6, <2>7
  <1>6. ASSUME NEW s \in Sessions, NEW a \in Actors, Start(r, s, a)
        PROVE  UNCHANGED <<toolCalls, done>> /\ (pc'[q] \in Tooling => pc[q] \in Tooling)
    BY <1>1, <1>6 DEF Start, gateVars, FlowTypes, Tooling
  <1>7. ASSUME NEW p \in People, Decision(r, p)
        PROVE  UNCHANGED <<toolCalls, done, pc>>
    BY <1>7 DEF Decision, gateVars
  <1>8. CASE Step(r)
    <2>1. q = r
      <3>1. CASE q # r
        <4>1. pc'[q] = pc[q]
          BY <1>1, <3>1, OthersStay DEF Stays
        <4>2. q \in UnderWay /\ r \in UnderWay
          BY <1>2, <1>8, <4>1, StepIsUnderWay DEF UnderWay, Tooling
        <4> QED
          BY <1>9, <1>1, <3>1, <4>2, UndisturbedIsAlone
      <3> QED
        BY <3>1
    <2>2. CASE RefuseCall(r)
      BY <1>5, <2>1, <2>2 DEF RefuseCall, Tooling
    <2>3. CASE StartHandler(r)
      BY <1>3, <2>1, <2>3 DEF StartHandler, Tooling
    <2>4. ASSUME NEW status \in {"success", "error"}, HandlerReturns(r, status)
          PROVE  Record(r, status) /\ pc[r] \in Tooling
      BY <2>4 DEF HandlerReturns, Tooling
    <2>5. CASE pc[r] \notin Tooling
      <3>1. done[r] = << >>
        <4>1. pc[r] \notin Over
          <5>1. ASSUME pc[r] \in Over
                PROVE  pc'[r] \in Over
            BY <5>1, PcStep, <1>1, <1>8 DEF FlowTypes, Next
          <5> QED
            BY <1>2, <2>1, <5>1 DEF Over, Tooling
        <4> QED
          BY <1>1, <2>1, <2>5, <4>1 DEF GraphInv, RunInv, DoneIsRecorded
      <3>2. done'[r] = done[r]
        BY <1>8, <2>5, <3>1, <1>1 DEF Step, Classify, BuildContext, CallModel,
           ModelAnswers, ModelFails, Plan, Approval, RefuseCall, StartHandler,
           HandlerReturns, EndTools, FirstFinal, Final, HitLimit, Return, Unwind,
           gateVars, Tooling
      <3> QED
        BY <1>4, <2>1, <3>1, <3>2
    <2>6. CASE EndTools(r)
      BY <1>1, <1>4, <2>1, <2>6 DEF EndTools, CallTypes
    <2>7. CASE HitLimit(r)
      BY <1>1, <1>2, <2>1, <2>7 DEF HitLimit, FlowTypes, Tooling
    <2>8. CASE pc[r] \in Tooling
      BY <1>5, <1>8, <2>1, <2>2, <2>3, <2>4, <2>6, <2>7, <2>8 DEF Step, Classify,
         BuildContext, CallModel, ModelAnswers, ModelFails, Plan, Approval,
         FirstFinal, Final, Return, Unwind, Tooling
    <2> QED
      BY <2>5, <2>8
  <1> QED
    BY <1>2, <1>3, <1>6, <1>7, <1>8 DEF Moves

\* Every step preserves that tool events show their own records.
LEMMA DetailsStep ==
  ASSUME OverlapInv, Details, [Next]_vars, NEW r \in Runs, Moves(r), Watch
  PROVE  Details'
  <1>1. GraphInv /\ TypeInv /\ FlowTypes /\ met \subseteq met'
    BY MetStays DEF OverlapInv, GraphInv, TypeInv
  <1>2. \A q \in Runs : DoneIsLatest(q)'
    BY LatestStep
  <1>3. ASSUME NEW s \in Sessions, NEW e \in events[s]
        PROVE  DetailIsOwn(e)'
    BY <1>1, <1>3, DetailStays DEF Details
  <1>4. ASSUME NEW e, NEW z, Stores(r, e, z)
        PROVE  DetailIsOwn(e)'
    <2>1. CASE e.results = << >> /\ e.calls = << >>
      BY <2>1 DEF DetailIsOwn
    <2>2. CASE EndTools(r) /\ e = ToolEvent(r)
      <3>1. e.results = done[r] /\ pc[r] = "tool"
        BY <2>2, ToolEventRun DEF EndTools
      <3>2. DoneIsRecorded(r) /\ e.run = r
        BY <1>1, <1>4 DEF GraphInv, RunInv, Stores
      <3>3. Undisturbed(r) =>
              \A k \in DOMAIN done[r] : done[r][k] = Len(toolCalls) - Len(done[r]) + k
        BY <3>1 DEF Details, DoneIsLatest, Tooling
      <3>4. DetailIsOwn(e)
        BY <1>1, <2>2, <3>1, <3>2, <3>3, OwnDetails DEF DetailIsOwn, DoneIsRecorded
      <3> QED
        BY <1>1, <3>4, DetailStays
    <2> QED
      BY <1>4, <2>1, <2>2 DEF Stores
  <1>5. ASSUME NEW s \in Sessions, NEW e \in events'[s]
        PROVE  DetailIsOwn(e)'
    <2>1. e \in events[s] \/ \E z : Stores(r, e, z)
      <3>1. ASSUME NEW x, NEW z, Stores(r, x, z)
            PROVE  e \in events[s] \/ e = x
        BY <1>1, <1>5, <3>1 DEF Stores, FlowTypes
      <3> QED
        BY <1>1, <1>5, <3>1, EventStep DEF Drops
    <2> QED
      BY <1>3, <1>4, <2>1
  <1> QED
    BY <1>2, <1>5 DEF Details

(***************************************************************************)
(* The detail that a tool_call event of a turn that no other met shows for *)
(* a result is that of the very call, when the batch names each of its     *)
(* tools once: among the records of any number of earlier turns, which may *)
(* have overlapped, the search by name finds the right one.                *)
(***************************************************************************)
THEOREM DetailOfUndisturbedCorrect == OverlapSpec => []DetailOfUndisturbed
  <1>1. OverlapInit => Details
    BY DEF OverlapInit, Init, Details, DoneIsLatest
  <1>2. OverlapInv /\ Details /\ [OverlapNext]_overlapVars => Details'
    <2>1. ASSUME Details, UNCHANGED overlapVars
          PROVE  Details'
      BY <2>1 DEF overlapVars, historyVars, vars, gateVars, Details, DoneIsLatest,
         DetailIsOwn, ToolsOf, Undisturbed
    <2>2. ASSUME OverlapInv, Details, NEW r \in Runs, Moves(r), Watch, [Next]_vars
          PROVE  Details'
      BY <2>2, DetailsStep
    <2>3. [OverlapNext]_overlapVars => [Next]_vars
      BY DEF OverlapNext, overlapVars
    <2> QED
      BY <2>1, <2>2, <2>3, OverlapMoves
  <1>3. Details => DetailOfUndisturbed
    BY DEF Details, DetailIsOwn, DetailOfUndisturbed
  <1> QED
    BY <1>1, <1>2, <1>3, OverlapInvCorrect, PTL DEF OverlapSpec
=============================================================================
