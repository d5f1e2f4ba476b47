------------------------------ MODULE MCStaking ------------------------------
(* Staking on small instances for TLC: two workers that share one chain.    *)
EXTENDS Staking

CONSTANTS w1, w2

MCWorkers == {w1, w2}
=============================================================================
