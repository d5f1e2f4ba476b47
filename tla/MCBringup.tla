------------------------------ MODULE MCBringup ------------------------------
(* Bringup on a small instance for TLC: each thing that can go wrong goes   *)
(* wrong up to twice, in every order.                                       *)
EXTENDS Bringup
=============================================================================
