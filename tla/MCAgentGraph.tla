---------------------------- MODULE MCAgentGraph ----------------------------
(***************************************************************************)
(* Instances of AgentGraph for TLC.  The policy table is the part of       *)
(* config/tool_policies.yaml that tells the gates apart:                   *)
(*   rag_query           allowed, harmless, has a handler                  *)
(*   cashback_reconcile  allowed for ops, L4, needs approval               *)
(*   cashback_submit     L5, allowed for nobody                            *)
(*   made_up             a name the model invented: no policy              *)
(***************************************************************************)
EXTENDS AgentGraph, TLC

CONSTANTS r1, r2, s1, s2

MCActors == {"ops", "viewer"}
MCOps == {"ops"}
MCRolesOf == [a \in MCActors |-> <<a>>]
MCEnvOf == [a \in MCActors |-> "dev"]

MCToolNames == {"rag_query", "cashback_reconcile", "cashback_submit", "made_up"}

MCPolicy ==
  "rag_query" :>
    [risk |-> 1, approval |-> FALSE, roles |-> {"ops", "viewer"},
     envs |-> {"dev", "staging", "prod"}] @@
  "cashback_reconcile" :>
    [risk |-> 4, approval |-> TRUE, roles |-> {"ops"},
     envs |-> {"dev", "staging"}] @@
  "cashback_submit" :>
    [risk |-> 5, approval |-> TRUE, roles |-> {}, envs |-> {"prod"}]

\* build_agent_service registers every tool of the table.
MCRegistry == DOMAIN MCPolicy

MCHandlers == {"rag_query", "cashback_reconcile"}

\* An answer, a call that runs, one that must wait.
MCFewReplies == { << >>, <<"rag_query">>, <<"rag_query", "cashback_reconcile">> }

-----------------------------------------------------------------------------
\* For interleaved runs: a graph built by hand, as the integration tests do,
\* may have policies and handlers for more tools than its registry lists.  The
\* plan then hides the call of the unregistered one from the approval node.
MCHiddenNames == MCToolNames \cup {"hidden"}

MCHiddenPolicy ==
  MCPolicy @@
  "hidden" :> [risk |-> 4, approval |-> TRUE, roles |-> {"ops"}, envs |-> {"dev"}]

MCHiddenHandlers == MCHandlers \cup {"hidden"}

MCShortRegistry == MCHiddenNames \ {"hidden", "made_up"}

\* An answer; a batch of an unknown, a harmless, a denied and a risky call, which
\* waits; one that is dispatched with the hidden call in it; and one nothing of
\* which the plan keeps.
MCHiddenReplies ==
  { << >>, <<"made_up", "rag_query", "cashback_submit", "cashback_reconcile">>,
    <<"rag_query", "hidden">>,
    <<"cashback_submit">> }

Symmetry == Permutations(Runs) \cup Permutations(Sessions)
=============================================================================
