------------------------------ MODULE MCFunding ------------------------------
(* Funding on a small instance for TLC: the key manager and one worker,     *)
(* whose accounts are its own, each killed and failing in every order.      *)
EXTENDS Funding

CONSTANTS km, w1

MCWorkers == {w1}
=============================================================================
