---------------------------- MODULE MCIdentities ----------------------------
(* Identities on a small instance for TLC: every deployment, one address to *)
(* type, and enough crashes to interrupt a creation, and then its repair.   *)
EXTENDS Identities

CONSTANT a1
MCTyped == {a1}
=============================================================================
