---------------------------- MODULE ModelRouting ----------------------------
(***************************************************************************)
(* Which model answers a task (fiat_agent/models/policies.py, loaded from  *)
(* config/model_policies.yaml).  No state.                                 *)
(***************************************************************************)
EXTENDS Naturals, Sequences, FiniteSets

CONSTANTS
  Routing,       \* the policy: providers, tiers, task_tiers, fallback, default
  NoProvider     \* what stands for the exceptions of select_provider

ProviderSpec == [type : {"openai", "anthropic", "other"}, enabled : BOOLEAN]

ASSUME RoutingAssumption ==
  /\ NoProvider \notin DOMAIN Routing.providers
  /\ \A p \in DOMAIN Routing.providers : Routing.providers[p] \in ProviderSpec
  /\ \A t \in DOMAIN Routing.fallback : Routing.fallback[t] \in Seq(STRING)

\* resolve_tier, for callers that give no complexity: none of them does.
ResolveTier(task) ==
  IF task \in DOMAIN Routing.task_tiers THEN Routing.task_tiers[task]
  ELSE Routing.default_tier

\* The tier and what it falls back to, in this order; not transitive.
Chain(task) ==
  LET tier == ResolveTier(task)
  IN  << tier >> \o (IF tier \in DOMAIN Routing.fallback
                     THEN Routing.fallback[tier] ELSE << >>)

IsOpen(tier) ==
  /\ tier \in DOMAIN Routing.tiers
  /\ Routing.tiers[tier] \in DOMAIN Routing.providers
  /\ Routing.providers[Routing.tiers[tier]].enabled

\* build_provider: only one type is implemented; the others raise, without a
\* look at the rest of the chain.
Build(provider) ==
  IF Routing.providers[provider].type = "openai" THEN provider ELSE NoProvider

\* select_provider
SelectProvider(task) ==
  LET chain == Chain(task)
      open  == { i \in DOMAIN chain : IsOpen(chain[i]) }
  IN  IF open = {} THEN NoProvider
      ELSE LET first == CHOOSE i \in open : \A j \in open : i <= j
           IN  Build(Routing.tiers[chain[first]])
=============================================================================
