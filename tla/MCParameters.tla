---------------------------- MODULE MCParameters ----------------------------
(* Parameters on small instances for TLC: an operator who gives nothing,    *)
(* one of the settings a deployment may need, all of them or all but one,   *)
(* what external_worker/local/docker-compose.yml gives, alone or with all   *)
(* of them, or all and a timeout, which as text does not work.  A path or   *)
(* an address that is given may lack its directory or its port.             *)
EXTENDS Parameters, FiniteSets

Needed == {"STAKE_KEY_PATH", "BOOTSTRAP_PATH", "OPERATING_PRIVATE_KEY", "STAKING_PRIVATE_KEY",
           "STORAGE_CONNECTION_STRING"}

External == {"ETH_NODE_ADDRESS", "KEY_MANAGEMENT_ADDRESS", "MIN_CONFIRMATIONS"}

MCGivens == {g \in SUBSET Needed : Cardinality(g) \in {0, 1, 4, 5}}
            \cup {External, Needed \cup External, Needed \cup {"CONTRACT_TIMEOUT"}}
=============================================================================
