---------------------------- MODULE TurnOverlap ----------------------------
(***************************************************************************)
(* What turns that overlap in time do to each other through the fields of  *)
(* the one AgentGraph object, the checkpoints of a thread and the gateway's *)
(* list of calls, and what they cannot do.                                 *)
(*                                                                         *)
(* Two history variables watch the turns of AgentGraph; they disable none  *)
(* of its steps.                                                           *)
(***************************************************************************)
EXTENDS AgentGraph

VARIABLES
  met,      \* history: <<q, r>>: q was under way when r began
  nested    \* history: no turn ended before one that began while it was on

historyVars == <<met, nested>>
overlapVars == <<vars, historyVars>>

Watch ==
  LET began == UnderWay' \ UnderWay
      ended == UnderWay \ UnderWay'
  IN  /\ met' = met \cup (UnderWay \X began)
      /\ nested' = (nested /\ \A q \in ended, r \in UnderWay' : <<q, r>> \notin met)

OverlapInit == Init /\ met = {} /\ nested = TRUE

OverlapNext == Next /\ Watch

OverlapSpec == OverlapInit /\ [][OverlapNext]_overlapVars

OverlapFairSpec == OverlapSpec /\ Fairness

\* No other turn was under way at any time between this one's start and end.
Undisturbed(r) == \A q \in Runs : <<q, r>> \notin met /\ <<r, q>> \notin met

\* No two turns of the session were under way at the same time.
OneByOne(s) ==
  \A q, r \in Runs : <<q, r>> \in met => ~(Session(q) = s /\ Session(r) = s)

-----------------------------------------------------------------------------
(***************************************************************************)
(* All the events a turn emits, and only they, end up in its own session,  *)
(* if no other turn was under way meanwhile: what turns did that overlapped *)
(* before it, and the writer they left behind, do not touch it.            *)
(* (_emit through the shared session_writer, arun's assignment)            *)
(***************************************************************************)
EventsOfUndisturbed ==
  \A r \in Runs : pc[r] # "idle" /\ Undisturbed(r) =>
    \A s \in Sessions :
      Cardinality({ e \in events[s] : e.run = r })
        = IF s = Session(r) THEN emitted[r] ELSE 0

(***************************************************************************)
(* A trace record names the session of the turn it traces, if no other turn *)
(* was under way meanwhile.  (_trace through the shared _trace_session)    *)
(***************************************************************************)
TraceOfUndisturbed ==
  \A x \in trace : Undisturbed(x.run) => x.session = Session(x.run)

(***************************************************************************)
(* Turns may overlap and yet the graph object holds the writer it was built *)
(* with when none is under way, however each of them ended, as long as a   *)
(* turn that began later always ended earlier.  (arun's finally, which puts *)
(* back the writer it found)                                               *)
(***************************************************************************)
WriterRestoredIfNested == nested /\ UnderWay = {} => slot = None

(***************************************************************************)
(* The history a thread has accumulated is never shortened or rewritten,   *)
(* whatever turns of other sessions do at the same time, while no two turns *)
(* of this session overlap.  (GraphState's append reducers, MemorySaver)   *)
(***************************************************************************)
HistoryAccumulates ==
  [][\A s \in Sessions : OneByOne(s) =>
       LET old == ckpt[s].messages  new == ckpt'[s].messages
       IN  Len(old) <= Len(new) /\ SubSeq(new, 1, Len(old)) = old]_overlapVars

(***************************************************************************)
(* In a tool_call event of a turn that no other turn met, the detail shown *)
(* for a result is taken from the record of that very call, when the batch *)
(* names each of its tools once: calls that other turns made before do not *)
(* get into it.  (_tool_step's enrichment, which looks for the tool's name) *)
(***************************************************************************)
ToolsOf(e) == { toolCalls[i].tool : i \in { e.results[k] : k \in DOMAIN e.results } }

DetailOfUndisturbed ==
  \A s \in Sessions : \A e \in events[s] :
    Undisturbed(e.run) /\ Cardinality(ToolsOf(e)) = Len(e.results)
      => e.calls = e.results
=============================================================================
