----------------------------- MODULE ToolPolicy -----------------------------
(***************************************************************************)
(* The deterministic authorization boundary: the policy table loaded from  *)
(* config/tool_policies.yaml (fiat_agent/auth/rbac.py) and the decision    *)
(* can_execute takes from it (fiat_agent/auth/policy.py).  The module has  *)
(* no state: a decision is a function of the acting principal and of the   *)
(* tool's name, and every gate of the system (registry filter, plan,       *)
(* approval node, tool gateway) evaluates this same function.              *)
(***************************************************************************)
EXTENDS Naturals, Sequences

CONSTANTS
  Actors,        \* the acting principals (ActorContext values)
  RolesOf,       \* RolesOf[a]: the roles of a, in the order ActorContext lists them
  EnvOf,         \* EnvOf[a]: the environment a acts in
  ToolNames,     \* every name a model may put in a tool call, known or not
  Policy         \* the table: tool name -> [risk, roles, envs, approval]

RiskLevels == 1 .. 5        \* L1 .. L5
HighRisk   == {4, 5}

ASSUME PolicyAssumption ==
  /\ DOMAIN Policy \subseteq ToolNames
  /\ \A t \in DOMAIN Policy : Policy[t].risk \in RiskLevels
                              /\ Policy[t].approval \in BOOLEAN

(***************************************************************************)
(* ToolPolicy.allows_role_env for the FIRST role of the actor only: that   *)
(* is what can_execute passes to it (`actor.roles and actor.roles[0]`).    *)
(***************************************************************************)
AllowsRoleEnv(a, t) ==
  /\ RolesOf[a] # << >>
  /\ RolesOf[a][1] \in Policy[t].roles
  /\ EnvOf[a] \in Policy[t].envs

(***************************************************************************)
(* can_execute(actor, tool).allowed as every path that leads to execution  *)
(* calls it: without the `action` argument (only POST /api/auth/check      *)
(* passes one), so the denied_actions branch is not taken.                 *)
(***************************************************************************)
Allowed(a, t) == t \in DOMAIN Policy /\ AllowsRoleEnv(a, t)

(***************************************************************************)
(* can_execute(...).approval_required, meaningful when the call is allowed: *)
(* the table's flag, or an L4/L5 risk whatever the flag says.              *)
(***************************************************************************)
ApprovalRequired(t) == Policy[t].approval \/ Policy[t].risk \in HighRisk

\* filter_tools: the tools of a registry the actor may see.
FilterTools(a, tools) == { t \in tools : Allowed(a, t) }
=============================================================================
