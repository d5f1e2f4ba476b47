----------------------------- MODULE StakeLedger -----------------------------
(***************************************************************************)
(* What automatic staking promises the owner of a staking address: the     *)
(* address is bound to the worker's operating address first, the deposit   *)
(* is made afterwards, and it is made once, however often the worker's     *)
(* start-up script is killed and started again.  Nothing is said of        *)
(* processes, nodes, pending transactions or confirmations.                *)
(***************************************************************************)
EXTENDS Naturals

CONSTANT Workers

VARIABLES bound,     \* bound[w]: w's staking address points to its operating address
          deposits   \* deposits[w]: deposits made from w's staking address

ledger == <<bound, deposits>>

Init == /\ bound = [w \in Workers |-> FALSE]
        /\ deposits = [w \in Workers |-> 0]

Bind(w) == /\ ~bound[w]
           /\ bound' = [bound EXCEPT ![w] = TRUE]
           /\ UNCHANGED deposits

Deposit(w) == /\ bound[w]
              /\ deposits[w] = 0
              /\ deposits' = [deposits EXCEPT ![w] = 1]
              /\ UNCHANGED bound

Next == \E w \in Workers : Bind(w) \/ Deposit(w)

Spec == Init /\ [][Next]_ledger
=============================================================================
