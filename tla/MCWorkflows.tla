---------------------------- MODULE MCWorkflows -----------------------------
(***************************************************************************)
(* Instances of Workflows for TLC: the policy rows and the routing of the  *)
(* repository's configuration, jobs of every kind, and small files.        *)
(***************************************************************************)
EXTENDS Workflows, TLC

MCActors == {"ops", "viewer", "ops_prod"}
MCRolesOf == [a \in MCActors |-> IF a = "viewer" THEN <<"viewer">> ELSE <<"ops">>]
MCEnvOf == [a \in MCActors |-> IF a = "ops_prod" THEN "prod" ELSE "dev"]

MCEverywhere == {"dev", "staging", "prod"}

MCRow(risk, roles, envs) ==
  [risk |-> risk, approval |-> FALSE, roles |-> roles, envs |-> envs]

MCPolicy ==
  "es_query"           :> MCRow(2, {"oncall", "ops"}, MCEverywhere) @@
  "db_query"           :> MCRow(2, {"oncall", "ops"}, MCEverywhere) @@
  "rag_query"          :> MCRow(1, {"oncall", "ops", "viewer"}, MCEverywhere) @@
  "lark_notify"        :> MCRow(2, {"oncall", "ops"}, MCEverywhere) @@
  "cashback_parse"     :> MCRow(1, {"oncall", "ops", "viewer"}, MCEverywhere) @@
  "logistics_validate" :> MCRow(1, {"oncall", "ops", "viewer"}, MCEverywhere) @@
  "test_env"           :> MCRow(3, {"oncall", "ops"}, {"dev"})

MCToolNames == DOMAIN MCPolicy

\* The gateway build_agent_service wires, and one with adapters for all the
\* backends but the database.
MCShipped  == [handlers |-> DOMAIN MCPolicy, stubs |-> BackendGated]
MCAdapters == [handlers |-> DOMAIN MCPolicy \ {"db_query"}, stubs |-> {}]

MCRouting ==
  [ providers    |-> "gpt" :> [type |-> "openai", enabled |-> TRUE] @@
                     "deepseek" :> [type |-> "openai", enabled |-> TRUE] @@
                     "local" :> [type |-> "anthropic", enabled |-> FALSE],
    tiers        |-> "complex" :> "gpt" @@ "medium" :> "deepseek" @@ "simple" :> "local",
    task_tiers   |-> "alert_diagnosis" :> "complex" @@ "table_parse" :> "medium" @@
                     "rag_qa" :> "simple",
    fallback     |-> "simple" :> <<"medium", "complex">> @@ "medium" :> <<"complex">> @@
                     "complex" :> << >>,
    default_tier |-> "medium" ]

\* Amounts as people write them.
MCWritten(sign, groups, marks) ==
  [form |-> "number", sign |-> sign, groups |-> groups, marks |-> marks]

MCAmounts ==
  { [form |-> "blank"], [form |-> "nan"],
    MCWritten("", << <<5>> >>, << >>),
    MCWritten("", << <<1>>, <<2, 0, 0>>, <<5, 0>> >>, <<",", ".">>),   \* 1,200.50
    MCWritten("()", << <<7>>, <<5>> >>, <<",">>),                      \* (7,5)
    MCWritten("$-", << <<1>>, <<5>> >>, <<",">>),                      \* $-1,5
    MCWritten("-", << <<1>>, <<2, 3>>, <<4>> >>, <<",", ",">>),        \* -1,23,4
    MCWritten("", << <<1>>, <<2>>, <<3>> >>, <<".", ".">>) }           \* 1.2.3

MCCashbackRows ==
  [txn : {"", "a"}, amount : MCAmounts, status : {"paid", "odd"}]
    \cup [txn : {"b"}, amount : { MCWritten("", << <<5>> >>, << >>) }, status : {"pending", ""}]

\* Every file of two rows, and longer ones in which an id comes back late.
MCCashbackFiles ==
  { << >> } \cup { <<r>> : r \in MCCashbackRows }
    \cup { <<p, q>> : p, q \in MCCashbackRows }
    \cup { <<p, q, p>> : p, q \in { r \in MCCashbackRows : r.status \in {"paid", "pending"} } }

\* A card number, one with two digits swapped, one of odd length, a short one.
MCCards ==
  { << >>, <<4,5,3,9,1,4,8,8,0,3,4,3,6,4,6,7>>, <<4,5,3,9,1,4,8,8,0,3,4,3,6,4,7,6>>,
    <<3,7,8,2,8,2,2,4,6,3,1,0,0,0,5>>, <<1, 8>> }

MCLogisticsRows ==
  [ tracking_no : {"T1", "bad"}, address : {"A1", ""}, card_no : MCCards,
    prev_status : {"", "created", "lost"}, new_status : {"picked_up", "delivered", ""} ]

\* Every file of one row, pairs of faulty rows, every history of four updates.
MCLogisticsFiles ==
  { << >> } \cup { <<r>> : r \in MCLogisticsRows }
    \cup { <<p, q>> : p, q \in { r \in MCLogisticsRows :
                                    r.card_no = << >> /\ r.tracking_no = "bad" } }
    \cup { [ i \in 1 .. 4 |-> [ tracking_no |-> "T1", address |-> "A1", card_no |-> << >>,
                                prev_status |-> (<<"created">> \o h)[i],
                                new_status |-> h[i] ] ]
           : h \in [1 .. 4 -> ParcelStatuses] }

MCAlerts ==
  [ kind : {"alert"}, actor : MCActors, wiring : {MCShipped, MCAdapters},
    chat : BOOLEAN, force : BOOLEAN, long : BOOLEAN ]

MCTests ==
  [ kind : {"test"}, actor : MCActors, wiring : {MCShipped, MCAdapters},
    actions : {None, <<"create_account", "", "kyc">>} ]

MCQuestions == [kind : {"rag_qa"}, actor : {"viewer"}, wiring : {MCShipped}]

MCTables ==
  [ kind : {"cashback"}, actor : {"ops"}, wiring : {MCShipped}, narrated : {FALSE},
    file : MCCashbackFiles ]
    \cup [ kind : {"logistics"}, actor : {"ops"}, wiring : {MCShipped}, narrated : {FALSE},
           file : MCLogisticsFiles ]
    \cup [ kind : {"cashback", "logistics"}, actor : {"viewer"}, wiring : {MCShipped},
           narrated : {TRUE}, file : {None, << >>} ]

MCJobs ==
  MCAlerts \cup MCTests \cup MCQuestions \cup MCTables
    \cup [kind : {"load"}, actor : {"ops"}, wiring : {MCShipped}]
=============================================================================
