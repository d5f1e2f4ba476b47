----------------------------- MODULE Environment -----------------------------
(***************************************************************************)
(* The predicates of worker/scripts/p2p/environment.py on the two settings *)
(* a worker is deployed with: ENIGMA_ENV, by its family, and BOOTSTRAP.    *)
(* They decide where a worker's two Ethereum identities come from and      *)
(* whether it stakes by itself.                                            *)
(***************************************************************************)

Envs == {"testing", "testnet", "mainnet"}   \* COMPOSE and K8S are testing
Deployments == [env : Envs, bootstrap : BOOLEAN]

testing(d) == d.env = "testing"
testnet(d) == d.env = "testnet"

load_staking_from_config(d) == d.bootstrap /\ ~testing(d)
load_operating_key_from_config(d) == d.bootstrap /\ testnet(d)
should_auto_deposit(d) == testing(d) \/ (d.bootstrap /\ testnet(d))
load_staking_from_cli(d) == ~d.bootstrap /\ ~testing(d)

(* load_staking_address: the branch taken.  An address typed into the CLI  *)
(* comes without its private key.                                          *)
StakingSource(d) == IF load_staking_from_cli(d) THEN "cli"
                    ELSE IF load_staking_from_config(d) THEN "config"
                    ELSE "keystore"

HasStakingKey(d) == StakingSource(d) # "cli"
=============================================================================
