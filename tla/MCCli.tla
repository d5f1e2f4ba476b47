-------------------------------- MODULE MCCli --------------------------------
(* Cli on a small instance for TLC: two lines with every pair of commands,  *)
(* and the exit, fall in every order between their steps, with one key and  *)
(* one thing the node does by itself; three dialogs cannot be open at once. *)
EXTENDS Cli
=============================================================================
