------------------------------ MODULE MCWorker ------------------------------
(* Worker and the CLI's status line on a small instance for TLC: every      *)
(* deployment, one exception, two stop or restart requests and one node     *)
(* that dies or hangs, so that each interrupts a run at every step and the  *)
(* others can follow in that run or in the next.                            *)
EXTENDS StatusLine
=============================================================================
