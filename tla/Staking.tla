------------------------------- MODULE Staking -------------------------------
(***************************************************************************)
(* Automatic staking: the part of worker/scripts/p2p/start.py that runs    *)
(* once the p2p node has registered, for workers in an environment where   *)
(* should_auto_deposit() holds, with the contract calls of                 *)
(* enigma_docker_common/enigma.py.  Each worker's script approves the      *)
(* deposit, binds its staking address to its operating address, deposits,  *)
(* and asks the node to log in.  The script can die between any two steps  *)
(* and supervisord starts it again from the top.                           *)
(*                                                                         *)
(* The Ethereum node is external.  With Instamine (BLOCK_TIME = 0, the     *)
(* shipped setting) it is Ganache, which runs a transaction inside the     *)
(* call that sends it and answers with the revert.  Otherwise a sent       *)
(* transaction waits in the pool, in nonce order, for a block, and its     *)
(* receipt comes back whether it reverted or not.                          *)
(***************************************************************************)
EXTENDS Naturals, Sequences, FiniteSets

CONSTANTS Workers,
          Confirmations,  \* MIN_CONFIRMATIONS
          Instamine,      \* BLOCK_TIME = 0
          AutoMiner,      \* somebody produces blocks that hold none of our transactions
          RejectsHappen,  \* the node may refuse a transaction, or answer a question with an error
          MaxCrashes      \* bound on the deaths of each worker's script

ASSUME StakingAssumption ==
  /\ Confirmations \in Nat
  /\ MaxCrashes \in Nat
  /\ {Instamine, AutoMiner, RejectsHappen} \subseteq BOOLEAN

VARIABLES pc,         \* next statement of each script
          registered, \* the p2p node has registered the operating address
          loggedIn,   \* the p2p node reports logged-in
          stake,      \* what the contracts hold for each staking address
          mempool,    \* sent transactions no block holds yet, oldest first
          age,        \* blocks on top of the last mined transaction, up to Confirmations
          crashes     \* deaths of each script so far

vars == <<pc, registered, loggedIn, stake, mempool, age, crashes>>
chain == <<stake, mempool, age>>
node == <<registered, loggedIn>>

Calls == {"approve", "setOperatingAddress", "deposit"}
Done == {"running", "failedLogin"}
Steps == {"down", "register", "approve", "approveReceipt", "setOperatingAddress",
          "setOperatingReceipt", "setOperatingConfirm", "deposit",
          "depositReceipt", "depositConfirm", "login"} \cup Done

Stakes == [bound : BOOLEAN, allowance : BOOLEAN, deposits : Nat]
NoStake == [bound |-> FALSE, allowance |-> FALSE, deposits |-> 0]

TypeOK ==
  /\ pc \in [Workers -> Steps]
  /\ registered \in [Workers -> BOOLEAN]
  /\ loggedIn \in [Workers -> BOOLEAN]
  /\ stake \in [Workers -> Stakes]
  /\ mempool \in [Workers -> Seq(Calls)]
  /\ age \in [Workers -> 0 .. Confirmations]
  /\ crashes \in [Workers -> 0 .. MaxCrashes]

Init == /\ pc = [w \in Workers |-> "down"]
        /\ registered = [w \in Workers |-> FALSE]
        /\ loggedIn = [w \in Workers |-> FALSE]
        /\ stake = [w \in Workers |-> NoStake]
        /\ mempool = [w \in Workers |-> <<>>]
        /\ age = [w \in Workers |-> 0]
        /\ crashes = [w \in Workers |-> 0]

-----------------------------------------------------------------------------
(* The contracts, as the scripts rely on them.  An approval sets the       *)
(* allowance to deposit_amount, a deposit consumes it.                     *)

Reverts(s, call) == \/ call = "setOperatingAddress" /\ s.bound
                    \/ call = "deposit" /\ ~s.allowance

After(s, call) ==
  IF Reverts(s, call) THEN s
  ELSE CASE call = "approve" -> [s EXCEPT !.allowance = TRUE]
         [] call = "setOperatingAddress" -> [s EXCEPT !.bound = TRUE]
         [] call = "deposit" -> [s EXCEPT !.allowance = FALSE, !.deposits = s.deposits + 1]

(* Mutant: blocks stop coming. *)
NewTipStalled(S) == age' = [w \in Workers |-> IF w \in S THEN 0 ELSE age[w]]

(* A block holding the next transaction of each worker in S: their latest  *)
(* transaction is now on the tip, everybody else's is one block deeper.    *)
NewTip(S) == age' = [w \in Workers |-> IF w \in S THEN 0
                                       ELSE IF age[w] < Confirmations THEN age[w] + 1
                                       ELSE age[w]]

MineBlock(S) ==
  /\ S = {} => AutoMiner
  /\ \A w \in S : mempool[w] # <<>>
  /\ stake' = [w \in Workers |-> IF w \in S THEN After(stake[w], Head(mempool[w]))
                                 ELSE stake[w]]
  /\ mempool' = [w \in Workers |-> IF w \in S THEN Tail(mempool[w]) ELSE mempool[w]]
  /\ NewTip(S)
  /\ UNCHANGED <<pc, node, crashes>>

-----------------------------------------------------------------------------
(* The script. *)

Goto(w, step) == pc' = [pc EXCEPT ![w] = step]

(* Contract.transact up to sendRawTransaction. *)
Send(w, call) ==
  IF Instamine
    THEN /\ stake' = [stake EXCEPT ![w] = After(@, call)]
         /\ NewTip({w})
         /\ UNCHANGED mempool
    ELSE /\ mempool' = [mempool EXCEPT ![w] = Append(@, call)]
         /\ UNCHANGED <<stake, age>>

(* Mutant: the message of the revert is not recognised. *)
RaisesRevertMissed(w, call) == FALSE

(* What the node answers at once: only Ganache reports a revert. *)
RaisesRevert(w, call) == Instamine /\ Reverts(stake[w], call)

(* Mutant: the script goes on as soon as the transaction is sent. *)
HasReceiptUnawaited(w) == TRUE

(* waitForTransactionReceipt: the worker's latest transaction is mined.    *)
HasReceipt(w) == mempool[w] = <<>>

(* Mutant: one confirmation short. *)
ConfirmedEarly(w) == ~(age[w] < Confirmations - 1)

(* wait_for_confirmations on that receipt. *)
Confirmed(w) == ~(age[w] < Confirmations)

Start(w) == /\ pc[w] = "down"
            /\ Goto(w, "register")
            /\ UNCHANGED <<chain, node, crashes>>

NodeRegisters(w) == /\ pc[w] = "register"
                    /\ ~registered[w]
                    /\ registered' = [registered EXCEPT ![w] = TRUE]
                    /\ UNCHANGED <<pc, loggedIn, chain, crashes>>

(* Mutant: a registered node is taken for one that is logged in. *)
WaitForRegisterMisread(w) ==
  /\ pc[w] = "register"
  /\ registered[w]
  /\ Goto(w, "running")
  /\ UNCHANGED <<chain, node, crashes>>

WaitForRegister(w) ==
  /\ pc[w] = "register"
  /\ registered[w]
  /\ Goto(w, IF loggedIn[w] THEN "running" ELSE "approve")
  /\ UNCHANGED <<chain, node, crashes>>

Approve(w) == /\ pc[w] = "approve"
              /\ Send(w, "approve")
              /\ Goto(w, "approveReceipt")
              /\ UNCHANGED <<node, crashes>>

ApproveReceipt(w) == /\ pc[w] = "approveReceipt"
                     /\ HasReceipt(w)
                     /\ Goto(w, "setOperatingAddress")
                     /\ UNCHANGED <<chain, node, crashes>>

(* A revert here is StakingAddressAlreadySet: start.py skips the deposit.  *)
SetOperatingAddress(w) ==
  /\ pc[w] = "setOperatingAddress"
  /\ Send(w, "setOperatingAddress")
  /\ Goto(w, IF RaisesRevert(w, "setOperatingAddress") THEN "login"
             ELSE "setOperatingReceipt")
  /\ UNCHANGED <<node, crashes>>

(* Mutant: start.py goes on to log in when the node refuses the binding. *)
SetOperatingRejectedLogsIn(w) ==
  /\ RejectsHappen
  /\ pc[w] \in {"setOperatingAddress", "setOperatingReceipt", "setOperatingConfirm"}
  /\ Goto(w, "login")
  /\ UNCHANGED <<chain, node, crashes>>

(* Any other ValueError, with which the node answers the transaction or a  *)
(* question about its receipt or its block, is swallowed:                  *)
(* setOperatingAddress returns None and start.py goes on to deposit.       *)
SetOperatingRejected(w) ==
  /\ RejectsHappen
  /\ pc[w] \in {"setOperatingAddress", "setOperatingReceipt", "setOperatingConfirm"}
  /\ Goto(w, "deposit")
  /\ UNCHANGED <<chain, node, crashes>>

SetOperatingReceipt(w) == /\ pc[w] = "setOperatingReceipt"
                          /\ HasReceipt(w)
                          /\ Goto(w, "setOperatingConfirm")
                          /\ UNCHANGED <<chain, node, crashes>>

SetOperatingConfirm(w) == /\ pc[w] = "setOperatingConfirm"
                          /\ Confirmed(w)
                          /\ Goto(w, "deposit")
                          /\ UNCHANGED <<chain, node, crashes>>

(* Mutant: the deposit is sent again until a receipt shows up. *)
DepositRepeated(w) ==
  /\ pc[w] = "deposit"
  /\ Send(w, "deposit")
  /\ \E step \in {"deposit", "depositReceipt"} : Goto(w, step)
  /\ UNCHANGED <<node, crashes>>

(* A revert reported here is an uncaught ValueError: the script exits.     *)
Deposit(w) == /\ pc[w] = "deposit"
              /\ Send(w, "deposit")
              /\ Goto(w, IF RaisesRevert(w, "deposit") THEN "down" ELSE "depositReceipt")
              /\ UNCHANGED <<node, crashes>>

DepositReceipt(w) == /\ pc[w] = "depositReceipt"
                     /\ HasReceipt(w)
                     /\ Goto(w, "depositConfirm")
                     /\ UNCHANGED <<chain, node, crashes>>

DepositConfirm(w) == /\ pc[w] = "depositConfirm"
                     /\ Confirmed(w)
                     /\ Goto(w, "login")
                     /\ UNCHANGED <<chain, node, crashes>>

(* Mutant: a refusal is handed back as it came. *)
LoginRefusalKept(w) ==
  /\ pc[w] = "login"
  /\ \E answer \in {"running", "refused"} : Goto(w, answer)
  /\ loggedIn' = [loggedIn EXCEPT ![w] = pc'[w] = "running"]
  /\ UNCHANGED <<registered, chain, crashes>>

(* P2PNode.login: the management API accepts or refuses, or cannot be      *)
(* reached; then the command goes to the node's stdin and is reported as a *)
(* success before the node has acted on it, if it ever does.               *)
Login(w) ==
  /\ pc[w] = "login"
  /\ \E answer \in {"accepted", "refused", "unreachable"} :
       /\ Goto(w, IF answer = "refused" THEN "failedLogin" ELSE "running")
       /\ \E in \in BOOLEAN :
            /\ answer = "accepted" => in
            /\ answer = "refused" => ~in
            /\ loggedIn' = [loggedIn EXCEPT ![w] = in]
  /\ UNCHANGED <<registered, chain, crashes>>

(* The script dies: killed, or by an exception it does not catch (a lost   *)
(* connection, a receipt that took over two minutes, a refused approve or  *)
(* deposit).  What it sent stays sent; the node may or may not log out.    *)
Crash(w) ==
  /\ pc[w] # "down"
  /\ crashes[w] < MaxCrashes
  /\ crashes' = [crashes EXCEPT ![w] = @ + 1]
  /\ Goto(w, "down")
  /\ \E in \in {loggedIn[w], FALSE} : loggedIn' = [loggedIn EXCEPT ![w] = in]
  /\ UNCHANGED <<registered, chain>>

Script(w) == \/ WaitForRegister(w)
             \/ Approve(w) \/ ApproveReceipt(w)
             \/ SetOperatingAddress(w) \/ SetOperatingRejected(w)
             \/ SetOperatingReceipt(w) \/ SetOperatingConfirm(w)
             \/ Deposit(w) \/ DepositReceipt(w) \/ DepositConfirm(w)
             \/ Login(w)

Next == \/ \E w \in Workers : Start(w) \/ NodeRegisters(w) \/ Script(w) \/ Crash(w)
        \/ \E S \in SUBSET Workers : MineBlock(S)

(* supervisord restarts the script, the node registers, the script runs on *)
(* and blocks keep coming, both with our transactions and on top of them.  *)
Fairness == /\ \A w \in Workers : /\ WF_vars(Start(w))
                                  /\ WF_vars(NodeRegisters(w))
                                  /\ WF_vars(Script(w))
                                  /\ WF_vars(\E S \in SUBSET Workers : w \in S /\ MineBlock(S))
            /\ WF_vars(MineBlock({}))

Spec == Init /\ [][Next]_vars
FairSpec == Spec /\ Fairness

-----------------------------------------------------------------------------
(* Properties. *)

(* The required number of blocks is on top of w's latest transaction. *)
Buried(w) == age[w] >= Confirmations

(* When the script is about to deposit, its staking address is bound to    *)
(* its operating address and the required number of blocks is on top of    *)
(* the binding (start.py logs "Done waiting for ... confirmations for      *)
(* setOperatingAddress" just before).  Any ValueError swallowed by         *)
(* setOperatingAddress breaks it, hence the assumption.                    *)
DepositFollowsBinding ==
  ~RejectsHappen =>
    \A w \in Workers : pc[w] = "deposit" => stake[w].bound /\ Buried(w)

(* The allowance the script set for this deposit is there when it          *)
(* deposits: no transaction left over from a run that died has taken it,   *)
(* so the deposit cannot revert.                                           *)
AllowanceCoversDeposit ==
  \A w \in Workers : pc[w] = "deposit" => stake[w].allowance

(* On a node that reports reverts, a staking address deposits once, at     *)
(* whatever points its script is killed and started again: the second run  *)
(* finds the address bound and skips the deposit.                          *)
AtMostOneDeposit ==
  \A w \in Workers : stake[w].deposits <= 1

(* Where reverts are not reported the second run does deposit again, but a *)
(* run never deposits twice: what is mined or still pending is at most one *)
(* deposit for each start of the script.                                   *)
PendingDeposits(w) ==
  Cardinality({i \in 1 .. Len(mempool[w]) : mempool[w][i] = "deposit"})

DepositsBoundedByStarts ==
  \A w \in Workers : stake[w].deposits + PendingDeposits(w) <= crashes[w] + 1

(* A script that logs in, or has, is backed by a confirmed deposit.        *)
LoginAfterDeposit ==
  \A w \in Workers :
    pc[w] \in {"login"} \cup Done => stake[w].deposits >= 1 /\ Buried(w)

(* The same where a killed script makes it false: it needs a death after   *)
(* the binding and before the deposit, nothing less.                       *)
LoginAfterDepositUnlessKilled ==
  \A w \in Workers :
    pc[w] \in {"login"} \cup Done =>
      /\ stake[w].bound
      /\ stake[w].deposits = 1 \/ crashes[w] > 0
      /\ crashes[w] = 0 => Buried(w)

(* Every script gets through: no receipt, confirmation or registration is  *)
(* waited for in vain once the deaths stop, whatever was left pending.     *)
EventuallyUp == \A w \in Workers : <>[](pc[w] \in Done)

(* The scripts, the node and the contracts together keep what StakeLedger  *)
(* promises.                                                               *)
Ledger == INSTANCE StakeLedger WITH
            bound <- [w \in Workers |-> stake[w].bound],
            deposits <- [w \in Workers |-> stake[w].deposits]

ImplementsLedger == Ledger!Spec

(* The assertions at each statement of the script from which the three     *)
(* safety properties of a run follow.  Transactions are mined in the order *)
(* they were sent, so a receipt for the latest one accounts for all of     *)
(* them, those of a run that died included.                                *)
Stable(w) == mempool[w] = <<>>

Backed(w) == stake[w].deposits >= 1 /\ Buried(w) /\ Stable(w)

ScriptInvOf(w) ==
  /\ Instamine => Stable(w)
  /\ pc[w] = "approveReceipt" =>
       \/ stake[w].allowance /\ Stable(w)
       \/ ~Stable(w) /\ mempool[w][Len(mempool[w])] = "approve"
  /\ pc[w] = "setOperatingAddress" => stake[w].allowance /\ Stable(w)
  /\ pc[w] = "setOperatingReceipt" =>
       /\ stake[w].allowance
       /\ \/ stake[w].bound /\ Stable(w)
          \/ mempool[w] = <<"setOperatingAddress">>
  /\ pc[w] = "setOperatingConfirm" => stake[w].allowance /\ stake[w].bound /\ Stable(w)
  /\ pc[w] = "deposit" =>
       /\ stake[w].allowance
       /\ Stable(w) \/ mempool[w] = <<"setOperatingAddress">>
       /\ ~RejectsHappen => Stable(w) /\ stake[w].bound /\ Buried(w)
  /\ pc[w] = "depositReceipt" =>
       \/ stake[w].deposits >= 1 /\ Stable(w)
       \/ /\ stake[w].allowance
          /\ mempool[w] \in {<<"deposit">>, <<"setOperatingAddress", "deposit">>}
  /\ pc[w] = "depositConfirm" => stake[w].deposits >= 1 /\ Stable(w)
  /\ ~Instamine /\ pc[w] \in {"login"} \cup Done => Backed(w)
  /\ loggedIn[w] => /\ pc[w] \in {"down", "register", "running"}
                    /\ ~Instamine => Backed(w)

ScriptInv == \A w \in Workers : ScriptInvOf(w)
=============================================================================
