------------------------------- MODULE NodeLife -------------------------------
(***************************************************************************)
(* What a run of a worker's start-up script promises its p2p node and the  *)
(* user: it starts its node, tells it to log out and then to stop,         *)
(* never the other way round, and does not end before it has, unless the   *)
(* node is gone by itself or the run is killed; and a run that ends for    *)
(* good has told its node both and taken its status down.  Nothing is said *)
(* of signals, handlers, threads, exceptions or of what the run is for.    *)
(***************************************************************************)
EXTENDS Naturals

VARIABLES run,   \* "up"; or how the last one ended: "left" for good, "failed" or "killed"
          node,  \* the run's node is there
          told,  \* the run told it: 0 nothing, 1 to log out, 2 to stop too
          sign   \* the status is not Down

life == <<run, node, told, sign>>

Init == run = "failed" /\ node = FALSE /\ told = 0 /\ sign = FALSE

(* A node that a killed run left behind is nobody's.                       *)
Begin == /\ run # "up"
         /\ run' = "up" /\ node' = FALSE /\ told' = 0
         /\ UNCHANGED sign

Launch == /\ run = "up" /\ ~node /\ told = 0
          /\ node' = TRUE
          /\ UNCHANGED <<run, told, sign>>

LogOut == /\ run = "up" /\ node /\ told = 0
          /\ told' = 1
          /\ UNCHANGED <<run, node, sign>>

Interrupt == /\ run = "up" /\ told = 1
             /\ told' = 2
             /\ UNCHANGED <<run, node, sign>>

NodeGoes == /\ node' = FALSE
            /\ UNCHANGED <<run, told, sign>>

Report == /\ run = "up"
          /\ sign' \in BOOLEAN
          /\ UNCHANGED <<run, node, told>>

Leave == /\ run = "up" /\ told = 2 /\ ~sign
         /\ run' = "left"
         /\ UNCHANGED <<node, told, sign>>

FailRun == /\ run = "up"
           /\ node => told = 2
           /\ run' = "failed"
           /\ UNCHANGED <<node, told, sign>>

KillRun == /\ run = "up"
           /\ run' = "killed"
           /\ UNCHANGED <<node, told, sign>>

Next == \/ Begin \/ Launch \/ LogOut \/ Interrupt \/ NodeGoes \/ Report
        \/ Leave \/ FailRun \/ KillRun

Spec == Init /\ [][Next]_life
=============================================================================
