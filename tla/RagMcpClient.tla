---------------------------- MODULE RagMcpClient ----------------------------
(***************************************************************************)
(* The life of one connection to the RAG MCP server: a subprocess that     *)
(* speaks over stdio, a session on top of it, a handshake, one request     *)
(* (fiat_agent/mcp_clients).  Every step is an await that may fail.  The   *)
(* client is driven in one of two ways:                                    *)
(*   "with"  async with RagMcpClient(...): the query handler, RagService   *)
(*   "load"  try ... finally close(): load_rag_tools                       *)
(***************************************************************************)
EXTENDS Naturals

VARIABLES
  client,        \* the client object and the code that drives it
  subprocess     \* the server process is alive

clientVars == <<client, subprocess>>

Places == {"idle", "spawn", "open", "handshake", "use",
           "close_session", "close_process", "out"}

\* inside: the block of the `with` was entered; stuck: a teardown call raised;
\* outcome: what the request gave, in the end what the driver returns.
Client == [ at : Places, by : {"with", "load"}, inside : BOOLEAN,
            stuck : BOOLEAN,
            outcome : {"none", "cited", "uncited", "failed", "raised"} ]

ClientInit ==
  /\ client = [at |-> "idle", by |-> "with", inside |-> FALSE,
               stuck |-> FALSE, outcome |-> "none"]
  /\ subprocess = FALSE

\* A new client object.
NewClient(by) ==
  /\ client.at = "idle"
  /\ client' = [client EXCEPT !.at = "spawn", !.by = by]
  /\ UNCHANGED subprocess

MovesTo(place) == client' = [client EXCEPT !.at = place]

\* An exception before the block is entered: Python leaves a `with` whose
\* __aenter__ raised without calling __aexit__; load_rag_tools closes.
Abandoned(closing) ==
  client' = [client EXCEPT !.at = IF client.by = "with" THEN "out" ELSE closing,
                           !.outcome = "failed"]

\* start: the transport.  A spawn that failed leaves nothing to close: the
\* exit of its context manager does nothing.
Spawn ==
  /\ client.at = "spawn"
  /\ \/ MovesTo("open") /\ subprocess' = TRUE
     \/ Abandoned("close_process") /\ UNCHANGED subprocess

\* start: the session.
OpenSession ==
  /\ client.at = "open"
  /\ MovesTo("handshake") \/ Abandoned("close_session")
  /\ UNCHANGED subprocess

\* initialize
Handshake ==
  /\ client.at = "handshake"
  /\ \/ client' = [client EXCEPT !.at = "use", !.inside = TRUE]
     \/ Abandoned("close_session")
  /\ UNCHANGED subprocess

\* Mutant: an error of the request leaves without closing.
UseSessionOnce ==
  /\ client.at = "use"
  /\ \E outcome \in {"cited", "uncited", "failed"} :
       client' = [client EXCEPT
         !.at = IF outcome = "failed" THEN "out" ELSE "close_session",
         !.outcome = outcome]
  /\ UNCHANGED subprocess

\* call_tool or tools/list: the server answers with text and, or without,
\* resources that become citations; or it reports an error, which raises.
UseSession ==
  /\ client.at = "use"
  /\ \E outcome \in {"cited", "uncited", "failed"} :
       client' = [client EXCEPT !.at = "close_session", !.outcome = outcome]
  /\ UNCHANGED subprocess

\* An exception out of close() replaces what the request gave; load_rag_tools
\* lets it through, the other drivers turn it into an error result.
TeardownRaises ==
  client' = [client EXCEPT !.at = "out", !.stuck = TRUE,
    !.outcome = IF client.by = "load" THEN "raised" ELSE "failed"]

\* close: the session's exit; if it raises the process is not looked at.
CloseSession ==
  /\ client.at = "close_session"
  /\ MovesTo("close_process") \/ TeardownRaises
  /\ UNCHANGED subprocess

\* close: the transport's exit ends the process, if there is one.
CloseProcess ==
  /\ client.at = "close_process"
  /\ \/ MovesTo("out") /\ subprocess' = FALSE
     \/ subprocess /\ TeardownRaises /\ UNCHANGED subprocess

ClientStep ==
  \/ Spawn \/ OpenSession \/ Handshake \/ UseSession
  \/ CloseSession \/ CloseProcess

ClientSpec ==
  ClientInit /\ [][ClientStep \/ \E by \in {"with", "load"} : NewClient(by)]_clientVars
-----------------------------------------------------------------------------
(***************************************************************************)
(* When the driver is done with the client the subprocess is gone, however *)
(* the steps failed, with two exceptions: a teardown call itself raised,   *)
(* or __aenter__ failed after the spawn.  Neither is silent: the driver    *)
(* then returns an error or raises, and hands out no answer of the server. *)
(* (close, __aenter__, load_rag_tools)                                     *)
(***************************************************************************)
ClientReleased ==
  client.at = "out" /\ subprocess =>
    /\ client.stuck \/ (client.by = "with" /\ ~client.inside)
    /\ client.outcome \in {"failed", "raised"}
=============================================================================
