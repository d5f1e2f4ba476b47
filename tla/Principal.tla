------------------------------ MODULE Principal ------------------------------
(***************************************************************************)
(* What the containers of a local network promise each other about the     *)
(* principal's key, of which the Enigma contract is told at its            *)
(* deployment: until its address is handed out the key manager may make    *)
(* another, and none afterwards; the contract is deployed for the key that *)
(* was handed out; and the key manager works on a contract that was        *)
(* deployed for the key it holds.  Nothing is said of processes, files,    *)
(* servers, waits or failures.                                             *)
(***************************************************************************)
EXTENDS Naturals

VARIABLES key,       \* the key manager's key; keys are numbered, 0 is none
          served,    \* the key whose address the contract container was given
          contract,  \* the key the contract on the chain is deployed for
          working    \* the key manager works, and nothing has come between

principal == <<key, served, contract, working>>

Init == key = 0 /\ served = 0 /\ contract = 0 /\ working = FALSE

MakeKey == /\ served = 0
           /\ key' = key + 1
           /\ UNCHANGED <<served, contract, working>>

HandOut == /\ served = 0 /\ key # 0
           /\ served' = key
           /\ UNCHANGED <<key, contract, working>>

Deploy == /\ served # 0 /\ ~working
          /\ contract' = served
          /\ UNCHANGED <<key, served, working>>

Work == /\ contract # 0 /\ contract = key
        /\ working' = TRUE
        /\ UNCHANGED <<key, served, contract>>

Stop == /\ working' = FALSE
        /\ UNCHANGED <<key, served, contract>>

LoseChain == /\ contract' = 0 /\ working' = FALSE
             /\ UNCHANGED <<key, served>>

Next == MakeKey \/ HandOut \/ Deploy \/ Work \/ Stop \/ LoseChain

Spec == Init /\ [][Next]_principal
=============================================================================
