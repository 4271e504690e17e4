--------------------------- MODULE ServiceWiring ----------------------------
(***************************************************************************)
(* Who reads and writes which approval queue: the lazily built singletons  *)
(* of apps/api/agent_service.py and apps/lark_bot/app.py, in the process   *)
(* of the API and in the one of the Lark bot.                              *)
(*                                                                         *)
(* build_agent_service awaits the creation of the tables between the check *)
(* and the assignment of the singleton, so first calls that overlap build  *)
(* one service each, every one with a queue of its own.                    *)
(***************************************************************************)
EXTENDS Naturals, FiniteSets

CONSTANTS
  Calls,         \* HTTP calls, each made once
  Ids,           \* identifiers of approval requests
  None

Channels == {"message", "console", "lark_message", "lark_card"}

ProcessOf(channel) ==
  IF channel \in {"message", "console"} THEN "api" ELSE "lark"

Processes == {"api", "lark"}

\* A service and its queue bear the name of the call that built them.
NoLook == [queue |-> {}, expected |-> {}]

VARIABLES
  service,       \* service[p]: agent_service._service of process p
  requests,      \* requests[c]: what the graph of the service of c has queued
  lark_queue,    \* the Lark app's own _approval_service: {} or its requests
  calls          \* calls[c]: where a call is and what it saw

vars == <<service, requests, lark_queue, calls>>

Process(c) == ProcessOf(calls[c].channel)

\* Every request the graphs of this process have queued.
Queued(p) ==
  UNION { requests[b] : b \in { c \in Calls : calls[c].channel # None /\ Process(c) = p } }

\* get_agent_service: the service there is, or a new one.
Arrive(c, channel) ==
  /\ calls[c].at = "idle"
  /\ LET there == service[ProcessOf(channel)]
     IN  calls' = [calls EXCEPT ![c] =
           [@ EXCEPT !.at = IF there = None THEN "building" ELSE "served",
                     !.channel = channel, !.uses = there]]
  /\ UNCHANGED <<service, requests, lark_queue>>

\* build_agent_service returns; the last one built stays.
Build(c) ==
  /\ calls[c].at = "building"
  /\ service' = [service EXCEPT ![Process(c)] = c]
  /\ calls' = [calls EXCEPT ![c].at = "served", ![c].uses = c]
  /\ UNCHANGED <<requests, lark_queue>>

\* run_message, for a turn in which the model asks for a high-risk tool.
AskForApproval(c, i) ==
  /\ calls[c].at = "served" /\ calls[c].channel \in {"message", "lark_message"}
  /\ \A b \in Calls : i \notin requests[b]
  /\ requests' = [requests EXCEPT ![calls[c].uses] = @ \cup {i}]
  /\ calls' = [calls EXCEPT ![c].at = "ended"]
  /\ UNCHANGED <<service, lark_queue>>

Looks(c, seen) ==
  calls' = [calls EXCEPT ![c].at = "ended",
              ![c].look = [queue |-> seen, expected |-> Queued(Process(c))]]

\* get_approval_service of the API: AgentService has no attribute `graph`, so
\* the call fails and shows nothing.
ConsoleLooks(c) ==
  /\ calls[c].at = "served" /\ calls[c].channel = "console"
  /\ Looks(c, {})
  /\ UNCHANGED <<service, requests, lark_queue>>

\* A card decides on the Lark app's own service, which nobody asks: the id is
\* not found.
CardDecides(c) ==
  /\ calls[c].at = "served" /\ calls[c].channel = "lark_card"
  /\ Looks(c, lark_queue)
  /\ UNCHANGED <<service, requests, lark_queue>>

Init ==
  /\ service = [p \in Processes |-> None]
  /\ requests = [c \in Calls |-> {}]
  /\ lark_queue = {}
  /\ calls = [c \in Calls |-> [at |-> "idle", channel |-> None, uses |-> None,
                               look |-> NoLook]]

Next ==
  \E c \in Calls :
    \/ \E channel \in Channels : Arrive(c, channel)
    \/ Build(c)
    \/ \E i \in Ids : AskForApproval(c, i)
    \/ ConsoleLooks(c)
    \/ CardDecides(c)

Spec == Init /\ [][Next]_vars
-----------------------------------------------------------------------------
(***************************************************************************)
(* A look at the queue, from the web console or from a card of the Lark    *)
(* bot, shows every request that agents of the same process have queued.   *)
(* (get_approval_service: "approvals requested by the agent appear in the  *)
(* web console / Lark bot queue")                                          *)
(***************************************************************************)
RequestsAppear ==
  \A c \in Calls : calls[c].look.expected \subseteq calls[c].look.queue
=============================================================================
