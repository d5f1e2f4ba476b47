------------------------------- MODULE Funding -------------------------------
(***************************************************************************)
(* How the programs of a local network get their first coins:              *)
(* get_initial_coins of faucet_api.py, called by the key manager for its   *)
(* account (km_startup.py) and by a worker for its operating and staking   *)
(* accounts (request_coins_from_faucet in start.py), and the transfers of  *)
(* faucet_service.py.  A client reads a balance, asks for a transfer if it *)
(* is too low, and polls until the coins are there.  It can be killed at   *)
(* any of these steps, its request going on without it, and starts again.  *)
(*                                                                         *)
(* The Ethereum node is external.  A balance is the number of transfers    *)
(* that arrived: one is more than the minimum, and nothing is spent yet.   *)
(***************************************************************************)
EXTENDS Naturals, Sequences

CONSTANTS Workers,
          Km,
          MaxKills,     \* bound on the kills of each client
          MaxFailures   \* bound on the errors each client meets

ASSUME FundingAssumption ==
  Km \notin Workers /\ MaxKills \in Nat /\ MaxFailures \in Nat

Clients == Workers \cup {Km}
Purses == {"operating", "staking", "eng"}

(* What a client asks for, in this order. *)
Wants(c) == IF c = Km THEN <<"operating">> ELSE <<"operating", "staking", "eng">>

VARIABLES instamine, \* BLOCK_TIME = 0: a transfer is mined as it is sent
          pc,        \* what each client does
          next,      \* position in Wants of the coins it is after
          inflight,  \* requests on their way to the faucet
          pending,   \* transfers sent and not mined
          paid,      \* transfers mined
          kills, failures

counts == <<inflight, pending, paid>>
bounds == <<kills, failures>>
vars == <<instamine, pc, next, counts, bounds>>

Counts == [Clients -> [Purses -> Nat]]

TypeOK ==
  /\ instamine \in BOOLEAN
  /\ pc \in [Clients -> {"down", "balance", "asked", "receipt", "wait", "funded", "ended"}]
  /\ next \in [Clients -> 1 .. 3]
  /\ \A c \in Clients : next[c] <= Len(Wants(c))
  /\ inflight \in Counts /\ pending \in Counts /\ paid \in Counts
  /\ kills \in [Clients -> 0 .. MaxKills]
  /\ failures \in [Clients -> 0 .. MaxFailures]

None == [c \in Clients |-> [p \in Purses |-> 0]]

Init ==
  /\ instamine \in BOOLEAN
  /\ pc = [c \in Clients |-> "down"]
  /\ next = [c \in Clients |-> 1]
  /\ inflight = None /\ pending = None /\ paid = None
  /\ kills = [c \in Clients |-> 0] /\ failures = [c \in Clients |-> 0]

-----------------------------------------------------------------------------
(* The clients. *)

Purse(c) == Wants(c)[next[c]]
Goto(c, step) == pc' = [pc EXCEPT ![c] = step]

(* Mutant: the balance is not compared. *)
EnoughUnread(c) == TRUE

Enough(c) == paid[c][Purse(c)] > 0

(* supervisord, and the key manager's own loop, begin with the first coins.*)
Start(c) == /\ pc[c] = "down"
            /\ Goto(c, "balance")
            /\ next' = [next EXCEPT ![c] = 1]
            /\ UNCHANGED <<instamine, counts, bounds>>

(* Mutant: one too many. *)
AdvancePast(c) == IF next[c] > Len(Wants(c))
                    THEN Goto(c, "funded") /\ UNCHANGED next
                    ELSE Goto(c, "balance") /\ next' = [next EXCEPT ![c] = @ + 1]

(* get_initial_coins returns: on to the next coins. *)
Advance(c) == IF next[c] = Len(Wants(c))
                THEN Goto(c, "funded") /\ UNCHANGED next
                ELSE Goto(c, "balance") /\ next' = [next EXCEPT ![c] = @ + 1]

Send(count, c) == count' = [count EXCEPT ![c][Purse(c)] = @ + 1]

(* Mutant: coins are asked for without a look at the balance. *)
ReadBalanceSkipped(c) == /\ pc[c] = "balance"
                         /\ Send(inflight, c) /\ Goto(c, "asked")
                         /\ UNCHANGED <<next, instamine, pending, paid, bounds>>

(* get_balance, and the request if it is too low. *)
ReadBalance(c) ==
  /\ pc[c] = "balance"
  /\ IF Enough(c) THEN Advance(c) /\ UNCHANGED inflight
     ELSE Send(inflight, c) /\ Goto(c, "asked") /\ UNCHANGED next
  /\ UNCHANGED <<instamine, pending, paid, bounds>>

(* wait_for_balance *)
CoinsArrived(c) == /\ pc[c] = "wait"
                   /\ Enough(c)
                   /\ Advance(c)
                   /\ UNCHANGED <<instamine, counts, bounds>>

(* A faucet that cannot be reached, an error it answers with, or coins     *)
(* that do not arrive in time.  A worker exits; the key manager tries      *)
(* again after a ConnectionError and is over after a RuntimeError.  A      *)
(* request the faucet died with may have been served.                      *)
Error(c) ==
  /\ pc[c] \in {"balance", "asked", "receipt", "wait"}
  /\ failures[c] < MaxFailures
  /\ failures' = [failures EXCEPT ![c] = @ + 1]
  /\ \E step \in {"down"} \cup (IF c = Km THEN {"ended"} ELSE {}) : Goto(c, step)
  /\ IF pc[c] # "asked" THEN UNCHANGED counts
     ELSE /\ inflight' = [inflight EXCEPT ![c][Purse(c)] = @ - 1]
          /\ \/ UNCHANGED <<pending, paid>>
             \/ instamine /\ Send(paid, c) /\ UNCHANGED pending
             \/ ~instamine /\ Send(pending, c) /\ UNCHANGED paid
  /\ UNCHANGED <<instamine, next, kills>>

Kill(c) == /\ pc[c] # "down"
           /\ kills[c] < MaxKills
           /\ kills' = [kills EXCEPT ![c] = @ + 1]
           /\ Goto(c, "down")
           /\ UNCHANGED <<instamine, next, counts, failures>>

-----------------------------------------------------------------------------
(* The faucet and the chain. *)

Asking(c, p) == pc[c] = "asked" /\ Purse(c) = p

(* Mutant: a transfer that was answered for is lost. *)
TransferLost(c, p) == UNCHANGED <<pending, paid>>

Transfer(c, p) == IF instamine
                    THEN paid' = [paid EXCEPT ![c][p] = @ + 1] /\ UNCHANGED pending
                    ELSE pending' = [pending EXCEPT ![c][p] = @ + 1] /\ UNCHANGED paid

(* TransferEther answers when the transfer is sent, TransferEng when it is *)
(* mined.  The request is the client's, or one of a client since killed.   *)
Serve(c, p) ==
  /\ inflight[c][p] > 0
  /\ inflight' = [inflight EXCEPT ![c][p] = @ - 1]
  /\ Transfer(c, p)
  /\ \/ Asking(c, p) /\ Goto(c, IF p = "eng" THEN "receipt" ELSE "wait")
     \/ (Asking(c, p) => inflight[c][p] > 1) /\ UNCHANGED pc
  /\ UNCHANGED <<instamine, next, bounds>>

Receipt(c) == /\ pc[c] = "receipt"
              /\ pending[c]["eng"] = 0
              /\ Goto(c, "wait")
              /\ UNCHANGED <<instamine, next, counts, bounds>>

Mine(c, p) == /\ pending[c][p] > 0
              /\ pending' = [pending EXCEPT ![c][p] = @ - 1]
              /\ paid' = [paid EXCEPT ![c][p] = @ + 1]
              /\ UNCHANGED <<instamine, pc, next, inflight, bounds>>

Next ==
  \E c \in Clients :
    \/ Start(c) \/ ReadBalance(c) \/ CoinsArrived(c) \/ Error(c) \/ Kill(c) \/ Receipt(c)
    \/ \E p \in Purses : Serve(c, p) \/ Mine(c, p)

(* The programs run, the faucet serves what reaches it, blocks come.       *)
Fairness ==
  \A c \in Clients :
    /\ WF_vars(Start(c)) /\ WF_vars(ReadBalance(c)) /\ WF_vars(CoinsArrived(c))
    /\ WF_vars(Receipt(c))
    /\ \A p \in Purses : WF_vars(Serve(c, p)) /\ WF_vars(Mine(c, p))

Spec == Init /\ [][Next]_vars
FairSpec == Spec /\ Fairness

-----------------------------------------------------------------------------
(* Properties. *)

Transfers(c, p) == pending[c][p] + paid[c][p]

(* A client that goes on has all the coins it was to wait for, whichever   *)
(* of its runs asked for them.                                             *)
FundedHasCoins ==
  \A c \in Clients : pc[c] = "funded" => \A i \in DOMAIN Wants(c) : paid[c][Wants(c)[i]] > 0

(* Nobody is paid more than once for each attempt, whatever is served late *)
(* or was asked for by a client since killed.  Where transfers are mined   *)
(* as they are sent an attempt that ends in an error counts for nothing:   *)
(* the next one reads the balance.  Only a kill can make a client ask      *)
(* again while its request is on its way.                                  *)
PaidPerRun ==
  \A c \in Clients, p \in Purses :
    Transfers(c, p) + inflight[c][p] <= 1 + kills[c] + (IF instamine THEN 0 ELSE failures[c])

(* Every client gets its coins, but for a key manager that met an error    *)
(* it takes for final.                                                     *)
EventuallyFunded ==
  \A c \in Clients :
    <>[](pc[c] = "funded") \/ (c = Km /\ <>[](pc[c] = "ended" /\ failures[c] > 0))
=============================================================================
