--------------------------- MODULE Staking_proofs ---------------------------
(***************************************************************************)
(* Proofs about Staking, for every set of workers, every number of         *)
(* confirmations and every bound on the crashes.                           *)
(***************************************************************************)
EXTENDS Staking, SequenceTheorems, FiniteSetTheorems, TLAPS

USE DEF chain, node

(* What a contract call does to one staking address: it keeps the record's *)
(* type, never unbinds, and adds a deposit only when there is an allowance *)
(* to take it from.                                                        *)
LEMMA AfterFacts ==
  ASSUME NEW s \in Stakes, NEW call \in Calls
  PROVE  /\ After(s, call) \in Stakes
         /\ s.bound \/ call = "setOperatingAddress" => After(s, call).bound
         /\ call # "setOperatingAddress" => After(s, call).bound = s.bound
         /\ call = "deposit" /\ s.allowance => After(s, call).deposits = s.deposits + 1
         /\ ~(call = "deposit" /\ s.allowance) => After(s, call).deposits = s.deposits
         /\ call = "approve" => After(s, call).allowance
         /\ call = "setOperatingAddress" => After(s, call).allowance = s.allowance
<1>1. CASE call = "approve"
  BY <1>1 DEF After, Reverts, Stakes
<1>2. CASE call = "setOperatingAddress"
  BY <1>2 DEF After, Reverts, Stakes
<1>3. CASE call = "deposit"
  <2>1. CASE s.allowance
    <3>1. After(s, call) = [bound |-> s.bound, allowance |-> FALSE,
                            deposits |-> s.deposits + 1]
      BY <1>3, <2>1 DEF After, Reverts, Stakes
    <3>2. /\ After(s, call) \in Stakes
          /\ After(s, call).bound = s.bound
          /\ After(s, call).deposits = s.deposits + 1
          /\ After(s, call).allowance = FALSE
      BY <3>1 DEF Stakes
    <3>3. QED
      BY <1>3, <2>1, <3>2 DEF Stakes
  <2>2. CASE ~s.allowance
    BY <1>3, <2>2 DEF After, Reverts, Stakes
  <2>3. QED
    BY <2>1, <2>2
<1>4. QED
  BY <1>1, <1>2, <1>3 DEF Calls

(* A new block keeps every age between 0 and Confirmations.                *)
LEMMA NewTipType ==
  ASSUME NEW S, TypeOK, NewTip(S)
  PROVE  age' \in [Workers -> 0 .. Confirmations]
BY StakingAssumption DEF TypeOK, NewTip

(* Sending keeps the type.                                                 *)
LEMMA SendType ==
  ASSUME TypeOK, NEW w \in Workers, NEW call \in Calls, Send(w, call)
  PROVE  /\ stake' \in [Workers -> Stakes]
         /\ mempool' \in [Workers -> Seq(Calls)]
         /\ age' \in [Workers -> 0 .. Confirmations]
<1>1. CASE Instamine
  <2>1. NewTip({w}) /\ stake' = [stake EXCEPT ![w] = After(@, call)] /\ mempool' = mempool
    BY <1>1 DEF Send
  <2>2. stake' \in [Workers -> Stakes]
    BY <2>1, AfterFacts DEF TypeOK
  <2>3. QED
    BY <2>1, <2>2, NewTipType DEF TypeOK
<1>2. CASE ~Instamine
  <2>1. /\ mempool' = [mempool EXCEPT ![w] = Append(mempool[w], call)]
        /\ stake' = stake
        /\ age' = age
    BY <1>2 DEF Send
  <2>2. mempool[w] \in Seq(Calls)
    BY DEF TypeOK
  <2>3. Append(mempool[w], call) \in Seq(Calls)
    BY <2>2
  <2>4. QED
    BY <2>1, <2>3 DEF TypeOK
<1>3. QED
  BY <1>1, <1>2

(* Every reachable state is well typed.                                    *)
THEOREM TypeCorrect == Spec => []TypeOK
<1>1. Init => TypeOK
  BY StakingAssumption DEF Init, TypeOK, Steps, Stakes, NoStake
<1>2. TypeOK /\ [Next]_vars => TypeOK'
  <2> SUFFICES ASSUME TypeOK, [Next]_vars PROVE TypeOK'
    OBVIOUS
  <2> USE StakingAssumption
  <2>1. ASSUME NEW w \in Workers, Start(w) PROVE TypeOK'
    BY <2>1 DEF TypeOK, Start, Goto, Steps
  <2>2. ASSUME NEW w \in Workers, NodeRegisters(w) PROVE TypeOK'
    BY <2>2 DEF TypeOK, NodeRegisters
  <2>3. ASSUME NEW w \in Workers, Script(w) PROVE TypeOK'
    <3>1. CASE WaitForRegister(w)
      BY <3>1 DEF TypeOK, WaitForRegister, Goto, Steps, Done
    <3>2. CASE Approve(w)
      BY <3>2, SendType DEF TypeOK, Approve, Goto, Steps, Calls
    <3>3. CASE ApproveReceipt(w)
      BY <3>3 DEF TypeOK, ApproveReceipt, Goto, Steps
    <3>4. CASE SetOperatingAddress(w)
      BY <3>4, SendType DEF TypeOK, SetOperatingAddress, Goto, Steps, Calls
    <3>5. CASE SetOperatingRejected(w)
      BY <3>5 DEF TypeOK, SetOperatingRejected, Goto, Steps
    <3>6. CASE SetOperatingReceipt(w)
      BY <3>6 DEF TypeOK, SetOperatingReceipt, Goto, Steps
    <3>7. CASE SetOperatingConfirm(w)
      BY <3>7 DEF TypeOK, SetOperatingConfirm, Goto, Steps
    <3>8. CASE Deposit(w)
      BY <3>8, SendType DEF TypeOK, Deposit, Goto, Steps, Calls
    <3>9. CASE DepositReceipt(w)
      BY <3>9 DEF TypeOK, DepositReceipt, Goto, Steps
    <3>10. CASE DepositConfirm(w)
      BY <3>10 DEF TypeOK, DepositConfirm, Goto, Steps
    <3>11. CASE Login(w)
      BY <3>11 DEF TypeOK, Login, Goto, Steps, Done
    <3>12. QED
      BY <2>3, <3>1, <3>2, <3>3, <3>4, <3>5, <3>6, <3>7, <3>8, <3>9, <3>10, <3>11 DEF Script
  <2>4. ASSUME NEW w \in Workers, Crash(w) PROVE TypeOK'
    <3>1. loggedIn' \in [Workers -> BOOLEAN]
      BY <2>4 DEF TypeOK, Crash
    <3>2. crashes' \in [Workers -> 0 .. MaxCrashes]
      BY <2>4 DEF TypeOK, Crash
    <3>3. QED
      BY <2>4, <3>1, <3>2 DEF TypeOK, Crash, Goto, Steps
  <2>5. ASSUME NEW S \in SUBSET Workers, MineBlock(S) PROVE TypeOK'
    <3>1. \A w \in S : mempool[w] # <<>> /\ Head(mempool[w]) \in Calls
                       /\ Tail(mempool[w]) \in Seq(Calls)
      BY <2>5 DEF MineBlock, TypeOK
    <3>2. \A w \in S : After(stake[w], Head(mempool[w])) \in Stakes
      BY <3>1, AfterFacts DEF TypeOK
    <3>3. age' \in [Workers -> 0 .. Confirmations]
      BY <2>5, NewTipType DEF MineBlock
    <3>4. QED
      BY <2>5, <3>1, <3>2, <3>3 DEF MineBlock, TypeOK
  <2>6. CASE UNCHANGED vars
    BY <2>6 DEF vars, TypeOK
  <2>7. QED
    BY <2>1, <2>2, <2>3, <2>4, <2>5, <2>6 DEF Next
<1>3. QED
  BY <1>1, <1>2, PTL DEF Spec

-----------------------------------------------------------------------------
(* One deposit, on a node that runs transactions at once and reports their *)
(* reverts, when it refuses none for another reason.                       *)

Reporting == Instamine /\ ~RejectsHappen

(* Between the binding this run made and the deposit, nothing has been     *)
(* deposited yet: if an earlier run had, the address would have been bound *)
(* and this run would not have got past SetOperatingAddress.               *)
AboutToDeposit == {"setOperatingReceipt", "setOperatingConfirm", "deposit"}

OnceInv ==
  \A v \in Workers :
    /\ mempool[v] = <<>>
    /\ stake[v].deposits <= 1
    /\ stake[v].deposits = 1 => stake[v].bound
    /\ pc[v] \in AboutToDeposit => stake[v].deposits = 0 /\ stake[v].bound

(* Every step keeps OnceInv.                                               *)
LEMMA OnceInductive ==
  ASSUME Reporting, TypeOK, OnceInv, [Next]_vars
  PROVE  OnceInv'
<1> USE DEF Reporting, OnceInv
<1> SUFFICES ASSUME NEW v \in Workers
             PROVE  /\ mempool'[v] = <<>>
                    /\ stake'[v].deposits <= 1
                    /\ stake'[v].deposits = 1 => stake'[v].bound
                    /\ pc'[v] \in AboutToDeposit =>
                         stake'[v].deposits = 0 /\ stake'[v].bound
  OBVIOUS
<1>1. /\ stake[v] \in Stakes
      /\ stake[v].deposits \in Nat
      /\ pc[v] \in Steps
  BY DEF TypeOK, Stakes
<1>2. ASSUME stake'[v] = stake[v], mempool' = mempool,
             pc'[v] \in AboutToDeposit => pc[v] \in AboutToDeposit
      PROVE  /\ mempool'[v] = <<>>
             /\ stake'[v].deposits <= 1
             /\ stake'[v].deposits = 1 => stake'[v].bound
             /\ pc'[v] \in AboutToDeposit =>
                  stake'[v].deposits = 0 /\ stake'[v].bound
  BY <1>2
<1>3. ASSUME NEW w \in Workers, NEW call \in Calls, Send(w, call)
      PROVE  /\ mempool' = mempool
             /\ stake'[v] = IF v = w THEN After(stake[v], call) ELSE stake[v]
  BY <1>3 DEF Send, TypeOK
<1>4. ASSUME NEW w \in Workers, Start(w) \/ NodeRegisters(w) \/ Crash(w)
      PROVE  /\ stake' = stake /\ mempool' = mempool
             /\ pc'[v] \in AboutToDeposit => pc[v] \in AboutToDeposit
  BY <1>4 DEF Start, NodeRegisters, Crash, Goto, AboutToDeposit, TypeOK
<1>5. ASSUME NEW w \in Workers, Script(w)
      PROVE  /\ mempool'[v] = <<>>
             /\ stake'[v].deposits <= 1
             /\ stake'[v].deposits = 1 => stake'[v].bound
             /\ pc'[v] \in AboutToDeposit =>
                  stake'[v].deposits = 0 /\ stake'[v].bound
  <2>1. CASE Approve(w)
    <3>1. /\ mempool' = mempool
          /\ stake'[v] = IF v = w THEN After(stake[v], "approve") ELSE stake[v]
      BY <2>1, <1>3 DEF Approve, Calls
    <3>2. stake'[v].deposits = stake[v].deposits /\ (stake[v].bound => stake'[v].bound)
      BY <3>1, <1>1, AfterFacts DEF Calls
    <3>3. pc'[v] \in AboutToDeposit => pc[v] \in AboutToDeposit
      BY <2>1 DEF Approve, Goto, AboutToDeposit, TypeOK
    <3>4. QED
      BY <3>1, <3>2, <3>3
  <2>2. CASE SetOperatingAddress(w)
    <3>1. /\ mempool' = mempool
          /\ stake'[v] = IF v = w THEN After(stake[v], "setOperatingAddress") ELSE stake[v]
      BY <2>2, <1>3 DEF SetOperatingAddress, Calls
    <3>2. /\ stake'[v].deposits = stake[v].deposits
          /\ stake[v].bound => stake'[v].bound
          /\ v = w => stake'[v].bound
      BY <3>1, <1>1, AfterFacts DEF Calls
    <3>3. ASSUME v = w, pc'[v] \in AboutToDeposit
          PROVE  stake[v].deposits = 0
      <4>1. ~Reverts(stake[v], "setOperatingAddress")
        BY <2>2, <3>3 DEF SetOperatingAddress, Goto, RaisesRevert, AboutToDeposit, TypeOK
      <4>2. ~stake[v].bound
        BY <4>1 DEF Reverts
      <4>3. QED
        BY <4>2, <1>1
    <3>4. v # w => pc'[v] = pc[v]
      BY <2>2 DEF SetOperatingAddress, Goto, TypeOK
    <3>5. QED
      BY <3>1, <3>2, <3>3, <3>4
  <2>3. CASE Deposit(w)
    <3>1. /\ mempool' = mempool
          /\ stake'[v] = IF v = w THEN After(stake[v], "deposit") ELSE stake[v]
      BY <2>3, <1>3 DEF Deposit, Calls
    <3>2. /\ v = w => stake'[v].deposits <= stake[v].deposits + 1
          /\ v = w => stake'[v].deposits = stake[v].deposits
                      \/ stake'[v].deposits = stake[v].deposits + 1
          /\ stake[v].bound => stake'[v].bound
      BY <3>1, <1>1, AfterFacts DEF Calls
    <3>3. v = w => stake[v].deposits = 0 /\ stake[v].bound
      BY <2>3 DEF Deposit, AboutToDeposit
    <3>4. /\ v = w => pc'[v] \notin AboutToDeposit
          /\ v # w => pc'[v] = pc[v]
      BY <2>3 DEF Deposit, Goto, AboutToDeposit, TypeOK
    <3>5. QED
      BY <3>1, <3>2, <3>3, <3>4
  <2>4. ASSUME \/ WaitForRegister(w) \/ ApproveReceipt(w) \/ SetOperatingReceipt(w)
               \/ SetOperatingConfirm(w) \/ DepositReceipt(w) \/ DepositConfirm(w)
               \/ Login(w)
        PROVE  /\ stake' = stake /\ mempool' = mempool
               /\ pc'[v] \in AboutToDeposit => pc[v] \in AboutToDeposit
    BY <2>4 DEF WaitForRegister, ApproveReceipt, SetOperatingReceipt, SetOperatingConfirm,
                DepositReceipt, DepositConfirm, Login, Goto, AboutToDeposit, TypeOK
  <2>5. ~SetOperatingRejected(w)
    BY DEF SetOperatingRejected
  <2>6. QED
    BY <1>5, <1>2, <2>1, <2>2, <2>3, <2>4, <2>5 DEF Script
<1>6. ASSUME NEW S \in SUBSET Workers, MineBlock(S)
      PROVE  stake' = stake /\ mempool' = mempool /\ pc' = pc
  <2>1. S = {}
    BY <1>6 DEF MineBlock
  <2>2. QED
    BY <1>6, <2>1 DEF MineBlock, TypeOK
<1>7. CASE UNCHANGED vars
  BY <1>7, <1>2 DEF vars
<1>8. QED
  BY <1>2, <1>4, <1>5, <1>6, <1>7 DEF Next

(* A staking address deposits at most once, however often and wherever its *)
(* script is killed.                                                       *)
THEOREM DepositOnce ==
  ASSUME Reporting
  PROVE  Spec => []AtMostOneDeposit
<1>1. Init => OnceInv
  BY DEF Init, OnceInv, NoStake, AboutToDeposit
<1>2. TypeOK /\ OnceInv /\ [Next]_vars => OnceInv'
  BY OnceInductive
<1>3. OnceInv => AtMostOneDeposit
  BY DEF OnceInv, AtMostOneDeposit
<1>4. QED
  BY <1>1, <1>2, <1>3, TypeCorrect, PTL DEF Spec

-----------------------------------------------------------------------------
(* The assertions of the script.                                           *)

(* The end of a sequence with one more element.                            *)
LEMMA AppendLast ==
  ASSUME NEW s \in Seq(Calls), NEW call \in Calls
  PROVE  /\ Append(s, call) # <<>>
         /\ Append(s, call)[Len(Append(s, call))] = call
         /\ s = <<>> => Append(s, call) = <<call>>
<1>1. /\ Append(s, call) # <<>>
      /\ Append(s, call)[Len(Append(s, call))] = call
  BY AppendProperties
<1>2. Append(<<>>, call) = <<call>>
  OBVIOUS
<1>3. QED
  BY <1>1, <1>2

(* The last element stays the last when the first is taken away.           *)
LEMMA TailLast ==
  ASSUME NEW s \in Seq(Calls), s # <<>>
  PROVE  /\ Head(s) \in Calls
         /\ Tail(s) = <<>> => Head(s) = s[Len(s)]
         /\ Tail(s) # <<>> => Tail(s)[Len(Tail(s))] = s[Len(s)]
<1>1. /\ Head(s) \in Calls
      /\ Tail(s) \in Seq(Calls)
      /\ Len(Tail(s)) = Len(s) - 1
      /\ \A i \in 1 .. Len(Tail(s)) : Tail(s)[i] = s[i + 1]
  BY HeadTailProperties
<1>2. Len(s) \in Nat \ {0}
  BY EmptySeq
<1>3. ASSUME Tail(s) = <<>> PROVE Head(s) = s[Len(s)]
  <2>1. Len(Tail(s)) = 0
    BY <1>3, EmptySeq
  <2>2. Len(s) - 1 = 0
    BY <1>1, <2>1
  <2>3. Len(s) = 1
    BY <1>2, <2>2
  <2>4. QED
    BY <2>3
<1>4. ASSUME Tail(s) # <<>> PROVE Tail(s)[Len(Tail(s))] = s[Len(s)]
  <2>1. Len(Tail(s)) \in Nat \ {0}
    BY <1>1, <1>4, EmptySeq
  <2>2. QED
    BY <1>1, <1>2, <2>1
<1>5. QED
  BY <1>1, <1>3, <1>4

(* The tail of a single element is empty.                                  *)
LEMMA SingletonTail ==
  ASSUME NEW call \in Calls
  PROVE  <<call>> # <<>> /\ Head(<<call>>) = call /\ Tail(<<call>>) = <<>>
OBVIOUS

(* Two elements, taken apart and put together.                             *)
LEMMA PairTail ==
  ASSUME NEW first \in Calls, NEW second \in Calls
  PROVE  /\ <<first, second>> # <<>>
         /\ Head(<<first, second>>) = first
         /\ Tail(<<first, second>>) = <<second>>
         /\ Append(<<first>>, second) = <<first, second>>
<1>1. <<first, second>> # <<>> /\ Head(<<first, second>>) = first
  OBVIOUS
<1>2. Tail(<<first, second>>) = <<second>>
  OBVIOUS
<1>3. Append(<<first>>, second) = <<first, second>>
  <2>1. <<first>> \in Seq(Calls) /\ Len(<<first>>) = 1 /\ <<first>>[1] = first
    OBVIOUS
  <2> DEFINE longer == Append(<<first>>, second)
  <2>2. /\ longer \in Seq(Calls) /\ Len(longer) = 2
        /\ longer[1] = first /\ longer[2] = second
    BY <2>1, AppendProperties
  <2>3. /\ <<first, second>> \in Seq(Calls) /\ Len(<<first, second>>) = 2
        /\ <<first, second>>[1] = first /\ <<first, second>>[2] = second
    OBVIOUS
  <2> HIDE DEF longer
  <2>4. longer = <<first, second>>
    BY <2>2, <2>3, SeqEqual
  <2>5. QED
    BY <2>4 DEF longer
<1>4. QED
  BY <1>1, <1>2, <1>3

(* Where the script waits for confirmations it goes on with enough of them. *)
LEMMA ConfirmedIsBuried ==
  ASSUME TypeOK, NEW w \in Workers
  PROVE  Confirmed(w) <=> Buried(w)
BY StakingAssumption DEF TypeOK, Confirmed, Buried

(* A block deepens what it does not replace.                               *)
LEMMA DeeperStaysBuried ==
  ASSUME TypeOK, NEW S, NewTip(S), NEW v \in Workers, v \notin S, Buried(v)
  PROVE  Buried(v)'
BY StakingAssumption DEF TypeOK, NewTip, Buried

(* A step that leaves v's script, stake and pending transactions alone and *)
(* confirms no less keeps v's assertions.                                  *)
LEMMA ScriptFrame ==
  ASSUME NEW v \in Workers, ScriptInvOf(v),
         pc'[v] = pc[v], stake'[v] = stake[v], mempool'[v] = mempool[v],
         loggedIn'[v] = loggedIn[v], Buried(v) /\ Stable(v) => Buried(v)'
  PROVE  ScriptInvOf(v)'
BY DEF ScriptInvOf, Backed, Stable

(* What Send does to the sender, in either kind of node, and to the rest.  *)
LEMMA SendFacts ==
  ASSUME TypeOK, NEW w \in Workers, NEW call \in Calls, Send(w, call)
  PROVE  /\ Instamine => /\ stake'[w] = After(stake[w], call)
                         /\ mempool'[w] = mempool[w]
         /\ ~Instamine => /\ stake'[w] = stake[w]
                          /\ mempool'[w] = Append(mempool[w], call)
         /\ \A v \in Workers : v # w =>
              /\ stake'[v] = stake[v]
              /\ mempool'[v] = mempool[v]
              /\ Buried(v) => Buried(v)'
<1>1. CASE Instamine
  <2>1. NewTip({w})
    BY <1>1 DEF Send
  <2>2. ASSUME NEW v \in Workers, v # w, Buried(v) PROVE Buried(v)'
    BY <2>1, <2>2, DeeperStaysBuried
  <2>3. QED
    BY <1>1, <2>2 DEF Send, TypeOK
<1>2. CASE ~Instamine
  BY <1>2 DEF Send, TypeOK, Buried
<1>3. QED
  BY <1>1, <1>2

(* A mined transaction keeps the assertions of its script.                 *)
LEMMA ScriptMine ==
  ASSUME TypeOK, NEW v \in Workers, ScriptInvOf(v), NEW S \in SUBSET Workers, MineBlock(S)
  PROVE  ScriptInvOf(v)'
<1>1. pc' = pc /\ loggedIn' = loggedIn
  BY DEF MineBlock
<1>2. CASE v \notin S
  <2>1. stake'[v] = stake[v] /\ mempool'[v] = mempool[v]
    BY <1>2 DEF MineBlock
  <2>2. Buried(v) => Buried(v)'
    BY <1>2, DeeperStaysBuried DEF MineBlock
  <2>3. QED
    BY <1>1, <2>1, <2>2, ScriptFrame
<1>3. CASE v \in S
  <2> DEFINE call == Head(mempool[v])
  <2>1. /\ ~Stable(v)
        /\ ~Instamine
        /\ mempool[v] \in Seq(Calls)
        /\ mempool'[v] = Tail(mempool[v])
        /\ stake'[v] = After(stake[v], call)
        /\ stake[v] \in Stakes
    BY <1>3 DEF MineBlock, TypeOK, Stable, ScriptInvOf
  <2>2. /\ call \in Calls
        /\ Tail(mempool[v]) = <<>> => call = mempool[v][Len(mempool[v])]
        /\ Tail(mempool[v]) # <<>> =>
             Tail(mempool[v])[Len(Tail(mempool[v]))] = mempool[v][Len(mempool[v])]
    BY <2>1, TailLast DEF Stable
  <2> HIDE DEF call
  <2>3. /\ call # "deposit" => /\ stake'[v].deposits = stake[v].deposits
                               /\ stake[v].allowance => stake'[v].allowance
        /\ call = "deposit" /\ stake[v].allowance =>
             stake'[v].deposits = stake[v].deposits + 1
        /\ call = "approve" => stake'[v].allowance
        /\ call = "setOperatingAddress" => stake'[v].bound
        /\ stake[v].deposits \in Nat
    <3>1. stake[v].deposits \in Nat
      BY <2>1 DEF Stakes
    <3>2. CASE call = "approve"
      BY <2>1, <2>2, <3>1, <3>2, AfterFacts
    <3>3. CASE call = "setOperatingAddress"
      BY <2>1, <2>2, <3>1, <3>3, AfterFacts
    <3>4. CASE call = "deposit"
      BY <2>1, <2>2, <3>1, <3>4, AfterFacts
    <3>5. QED
      BY <2>2, <3>1, <3>2, <3>3, <3>4 DEF Calls
  <2>4. pc[v] \notin {"setOperatingAddress", "setOperatingConfirm", "depositConfirm"}
    BY <2>1 DEF ScriptInvOf
  <2>5. ~Instamine /\ pc[v] \in {"login"} \cup Done => FALSE
    BY <2>1 DEF ScriptInvOf, Backed
  <2>6. loggedIn[v] => pc[v] \in {"down", "register", "running"} /\ Instamine
    BY <2>1 DEF ScriptInvOf, Backed
  <2>7. CASE pc[v] = "approveReceipt"
    <3>1. mempool[v][Len(mempool[v])] = "approve"
      BY <2>1, <2>7 DEF ScriptInvOf
    <3>2. \/ stake'[v].allowance /\ mempool'[v] = <<>>
          \/ mempool'[v] # <<>> /\ mempool'[v][Len(mempool'[v])] = "approve"
      BY <3>1, <2>1, <2>2, <2>3
    <3>3. QED
      BY <1>1, <2>1, <2>6, <2>7, <3>2 DEF ScriptInvOf, Stable, Done
  <2>8. CASE pc[v] = "setOperatingReceipt"
    <3>1. mempool[v] = <<"setOperatingAddress">> /\ stake[v].allowance
      BY <2>1, <2>8 DEF ScriptInvOf
    <3>2. call = "setOperatingAddress" /\ mempool'[v] = <<>>
      BY <3>1, <2>1, SingletonTail DEF call, Calls
    <3>3. stake'[v].allowance /\ stake'[v].bound
      BY <3>1, <3>2, <2>3
    <3>4. QED
      BY <1>1, <2>1, <2>6, <2>8, <3>2, <3>3 DEF ScriptInvOf, Stable, Done
  <2>9. CASE pc[v] = "depositReceipt"
    <3>1. CASE mempool[v] = <<"deposit">> /\ stake[v].allowance
      <4>1. call = "deposit" /\ mempool'[v] = <<>>
        BY <3>1, <2>1, SingletonTail DEF call, Calls
      <4>2. stake'[v].deposits >= 1
        BY <3>1, <4>1, <2>3
      <4>3. QED
        BY <1>1, <2>1, <2>6, <2>9, <4>1, <4>2 DEF ScriptInvOf, Stable, Done
    <3>2. CASE mempool[v] = <<"setOperatingAddress", "deposit">> /\ stake[v].allowance
      <4>1. call = "setOperatingAddress" /\ mempool'[v] = <<"deposit">>
        BY <3>2, <2>1, PairTail DEF call, Calls
      <4>2. stake'[v].allowance
        BY <3>2, <4>1, <2>3
      <4>3. QED
        BY <1>1, <2>1, <2>6, <2>9, <4>1, <4>2 DEF ScriptInvOf, Stable, Done
    <3>3. QED
      BY <2>1, <2>9, <3>1, <3>2 DEF ScriptInvOf
  <2>10. CASE pc[v] = "deposit"
    <3>1. mempool[v] = <<"setOperatingAddress">> /\ stake[v].allowance /\ RejectsHappen
      BY <2>1, <2>10 DEF ScriptInvOf
    <3>2. call = "setOperatingAddress" /\ mempool'[v] = <<>>
      BY <3>1, <2>1, SingletonTail DEF call, Calls
    <3>3. stake'[v].allowance
      BY <3>1, <3>2, <2>3
    <3>4. QED
      BY <1>1, <2>1, <2>6, <2>10, <3>1, <3>2, <3>3 DEF ScriptInvOf, Stable, Done
  <2>11. CASE pc[v] \notin {"approveReceipt", "setOperatingReceipt", "deposit", "depositReceipt"}
    BY <1>1, <2>1, <2>4, <2>5, <2>6, <2>11 DEF ScriptInvOf
  <2>12. QED
    BY <2>7, <2>8, <2>9, <2>10, <2>11
<1>4. QED
  BY <1>2, <1>3

(* Every step of a script keeps its assertions.                            *)
LEMMA ScriptStep ==
  ASSUME TypeOK, NEW v \in Workers, ScriptInvOf(v), NEW w \in Workers,
         Start(w) \/ NodeRegisters(w) \/ Script(w) \/ Crash(w)
  PROVE  ScriptInvOf(v)'
<1> USE DEF Goto
<1>0. /\ pc[w] \in Steps
      /\ loggedIn[w] \in BOOLEAN
      /\ mempool[w] \in Seq(Calls)
      /\ stake[w] \in Stakes
      /\ stake[w].deposits \in Nat
  BY DEF TypeOK, Stakes
<1>1. CASE v # w
  <2>1. pc'[v] = pc[v] /\ loggedIn'[v] = loggedIn[v]
    BY <1>1 DEF TypeOK, Start, NodeRegisters, Script, Crash, WaitForRegister, Approve,
                ApproveReceipt, SetOperatingAddress, SetOperatingRejected,
                SetOperatingReceipt, SetOperatingConfirm, Deposit, DepositReceipt,
                DepositConfirm, Login
  <2>2. \/ stake' = stake /\ mempool' = mempool /\ age' = age
        \/ \E call \in Calls : Send(w, call)
    BY DEF Start, NodeRegisters, Script, Crash, WaitForRegister, Approve,
           ApproveReceipt, SetOperatingAddress, SetOperatingRejected,
           SetOperatingReceipt, SetOperatingConfirm, Deposit, DepositReceipt,
           DepositConfirm, Login, Calls
  <2>3. /\ stake'[v] = stake[v] /\ mempool'[v] = mempool[v]
        /\ Buried(v) => Buried(v)'
    <3>1. CASE stake' = stake /\ mempool' = mempool /\ age' = age
      BY <3>1 DEF Buried
    <3>2. ASSUME NEW call \in Calls, Send(w, call)
          PROVE  /\ stake'[v] = stake[v] /\ mempool'[v] = mempool[v]
                 /\ Buried(v) => Buried(v)'
      BY <3>2, <1>1, SendFacts
    <3>3. QED
      BY <2>2, <3>1, <3>2
  <2>4. QED
    BY <2>1, <2>3, ScriptFrame
<1>2. CASE v = w
  <2> USE <1>2
  <2>1. CASE Start(w)
    BY <2>1 DEF Start, ScriptInvOf, Backed, Stable, Buried, TypeOK, Done
  <2>2. CASE NodeRegisters(w)
    BY <2>2 DEF NodeRegisters, ScriptInvOf, Backed, Stable, Buried
  <2>3. CASE Crash(w)
    <3>1. pc'[w] = "down" /\ (loggedIn'[w] => loggedIn[w])
      BY <2>3 DEF Crash, TypeOK
    <3>2. stake' = stake /\ mempool' = mempool /\ age' = age
      BY <2>3 DEF Crash
    <3>3. QED
      BY <3>1, <3>2 DEF ScriptInvOf, Backed, Stable, Buried, Done
  <2>4. CASE WaitForRegister(w)
    BY <2>4 DEF WaitForRegister, ScriptInvOf, Backed, Stable, Buried, TypeOK, Done
  <2>5. CASE Approve(w)
    <3>1. pc'[w] = "approveReceipt" /\ loggedIn'[w] = loggedIn[w] /\ ~loggedIn[w]
      BY <2>5 DEF Approve, TypeOK, ScriptInvOf
    <3>2. CASE Instamine
      <4>1. stake'[w].allowance
        BY <3>2, <2>5, <1>0, SendFacts, AfterFacts DEF Approve, Calls
      <4>2. mempool'[w] = <<>>
        BY <3>2, <2>5 DEF Approve, Send, ScriptInvOf, Stable
      <4>3. QED
        BY <3>1, <4>1, <4>2 DEF ScriptInvOf, Stable, Done
    <3>3. CASE ~Instamine
      <4>1. mempool'[w] # <<>> /\ mempool'[w][Len(mempool'[w])] = "approve"
        BY <3>3, <2>5, <1>0, SendFacts, AppendLast DEF Approve, Calls
      <4>2. QED
        BY <3>1, <3>3, <4>1 DEF ScriptInvOf, Stable, Done
    <3>4. QED
      BY <3>2, <3>3
  <2>6. CASE ApproveReceipt(w)
    BY <2>6 DEF ApproveReceipt, HasReceipt, ScriptInvOf, Backed, Stable, TypeOK, Done
  <2>7. CASE SetOperatingAddress(w)
    <3>1. /\ stake[w].allowance /\ mempool[w] = <<>> /\ ~loggedIn[w]
          /\ loggedIn'[w] = loggedIn[w]
      BY <2>7 DEF SetOperatingAddress, ScriptInvOf, Stable
    <3>2. CASE Instamine
      <4>1. /\ stake'[w].allowance /\ stake'[w].bound
            /\ mempool'[w] = <<>>
        BY <3>1, <3>2, <2>7, <1>0, SendFacts, AfterFacts DEF SetOperatingAddress, Calls
      <4>2. pc'[w] \in {"login", "setOperatingReceipt"}
        BY <2>7 DEF SetOperatingAddress, TypeOK
      <4>3. QED
        BY <3>1, <3>2, <4>1, <4>2 DEF ScriptInvOf, Stable, Done
    <3>3. CASE ~Instamine
      <4>1. /\ stake'[w] = stake[w]
            /\ mempool'[w] = <<"setOperatingAddress">>
        BY <3>1, <3>3, <2>7, <1>0, SendFacts, AppendLast DEF SetOperatingAddress, Calls
      <4>2. pc'[w] = "setOperatingReceipt"
        BY <3>3, <2>7 DEF SetOperatingAddress, RaisesRevert, TypeOK
      <4>3. QED
        BY <3>1, <3>3, <4>1, <4>2 DEF ScriptInvOf, Stable, Done
    <3>4. QED
      BY <3>2, <3>3
  <2>8. CASE SetOperatingRejected(w)
    BY <2>8 DEF SetOperatingRejected, ScriptInvOf, Backed, Stable, TypeOK, Done
  <2>9. CASE SetOperatingReceipt(w)
    <3>1. mempool[w] = <<>> /\ <<"setOperatingAddress">> # <<>>
      BY <2>9, SingletonTail DEF SetOperatingReceipt, HasReceipt, Calls
    <3>2. stake[w].allowance /\ stake[w].bound /\ ~loggedIn[w]
      BY <2>9, <3>1 DEF SetOperatingReceipt, ScriptInvOf
    <3>3. QED
      BY <2>9, <3>1, <3>2 DEF SetOperatingReceipt, ScriptInvOf, Stable, TypeOK, Done
  <2>10. CASE SetOperatingConfirm(w)
    BY <2>10, ConfirmedIsBuried DEF SetOperatingConfirm, Buried, ScriptInvOf, Backed, Stable, TypeOK, Done
  <2>11. CASE Deposit(w)
    <3>1. /\ stake[w].allowance /\ ~loggedIn[w]
          /\ mempool[w] = <<>> \/ mempool[w] = <<"setOperatingAddress">>
          /\ loggedIn'[w] = loggedIn[w]
      BY <2>11 DEF Deposit, ScriptInvOf, Stable
    <3>2. pc'[w] = "depositReceipt"
      BY <2>11, <3>1 DEF Deposit, RaisesRevert, Reverts, TypeOK
    <3>3. CASE Instamine
      <4>1. mempool[w] = <<>>
        BY <3>3 DEF ScriptInvOf, Stable
      <4>2. stake'[w].deposits >= 1 /\ mempool'[w] = <<>>
        BY <3>1, <3>3, <4>1, <2>11, <1>0, SendFacts, AfterFacts DEF Deposit, Calls
      <4>3. QED
        BY <3>1, <3>2, <3>3, <4>2 DEF ScriptInvOf, Stable, Done
    <3>4. CASE ~Instamine
      <4>1. stake'[w] = stake[w] /\ mempool'[w] = Append(mempool[w], "deposit")
        BY <3>4, <2>11, <1>0, SendFacts DEF Deposit, Calls
      <4>2. mempool'[w] \in {<<"deposit">>, <<"setOperatingAddress", "deposit">>}
        BY <3>1, <4>1, <1>0, AppendLast, PairTail DEF Calls
      <4>3. QED
        BY <3>1, <3>2, <3>4, <4>1, <4>2 DEF ScriptInvOf, Stable, Done
    <3>5. QED
      BY <3>3, <3>4
  <2>12. CASE DepositReceipt(w)
    <3>1. mempool[w] = <<>> /\ <<"deposit">> # <<>>
      BY <2>12, SingletonTail DEF DepositReceipt, HasReceipt, Calls
    <3>2. stake[w].deposits >= 1 /\ ~loggedIn[w]
      BY <2>12, <3>1 DEF DepositReceipt, ScriptInvOf
    <3>3. QED
      BY <2>12, <3>1, <3>2 DEF DepositReceipt, ScriptInvOf, Stable, TypeOK, Done
  <2>13. CASE DepositConfirm(w)
    BY <2>13, ConfirmedIsBuried DEF DepositConfirm, Buried, ScriptInvOf, Backed, Stable, TypeOK, Done
  <2>14. CASE Login(w)
    <3>1. pc'[w] \in Done /\ (loggedIn'[w] => pc'[w] = "running")
      BY <2>14 DEF Login, TypeOK, Done
    <3>2. stake' = stake /\ mempool' = mempool /\ age' = age
      BY <2>14 DEF Login
    <3>3. ~Instamine => Backed(w)
      BY <2>14 DEF Login, ScriptInvOf
    <3>4. ~Instamine => Backed(w)'
      BY <3>2, <3>3 DEF Backed, Buried, Stable
    <3>5. QED
      BY <3>1, <3>2, <3>4 DEF ScriptInvOf, Stable, Done
  <2>15. QED
    BY <2>1, <2>2, <2>3, <2>4, <2>5, <2>6, <2>7, <2>8, <2>9, <2>10, <2>11, <2>12,
       <2>13, <2>14 DEF Script
<1>3. QED
  BY <1>1, <1>2

(* The assertions at each statement of the script hold, for every number   *)
(* of workers, confirmations and deaths, on either kind of node.           *)
THEOREM ScriptInvariant == Spec => []ScriptInv
<1>1. Init => ScriptInv
  BY DEF Init, ScriptInv, ScriptInvOf, Backed, Stable, Done
<1>2. TypeOK /\ ScriptInv /\ [Next]_vars => ScriptInv'
  <2> SUFFICES ASSUME TypeOK, ScriptInv, [Next]_vars, NEW v \in Workers
               PROVE  ScriptInvOf(v)'
    BY DEF ScriptInv
  <2>1. ScriptInvOf(v)
    BY DEF ScriptInv
  <2>2. CASE UNCHANGED vars
    BY <2>1, <2>2, ScriptFrame DEF vars, Buried
  <2>3. CASE Next
    BY <2>1, <2>3, ScriptStep, ScriptMine DEF Next
  <2>4. QED
    BY <2>2, <2>3
<1>3. QED
  BY <1>1, <1>2, TypeCorrect, PTL DEF Spec

(* No script deposits before its binding is confirmed.                     *)
THEOREM DepositOrder == Spec => []DepositFollowsBinding
<1>1. ScriptInv => DepositFollowsBinding
  BY DEF ScriptInv, ScriptInvOf, DepositFollowsBinding
<1>2. QED
  BY <1>1, ScriptInvariant, PTL

(* No deposit the script sends can revert.                                 *)
THEOREM DepositCovered == Spec => []AllowanceCoversDeposit
<1>1. ScriptInv => AllowanceCoversDeposit
  BY DEF ScriptInv, ScriptInvOf, AllowanceCoversDeposit
<1>2. QED
  BY <1>1, ScriptInvariant, PTL

(* Where reverts are not reported, no script logs in without a confirmed   *)
(* deposit, killed and restarted or not.                                   *)
THEOREM LoginBacked ==
  ASSUME ~Instamine
  PROVE  Spec => []LoginAfterDeposit
<1>1. ScriptInv => LoginAfterDeposit
  BY DEF ScriptInv, ScriptInvOf, Backed, LoginAfterDeposit
<1>2. QED
  BY <1>1, ScriptInvariant, PTL

-----------------------------------------------------------------------------
(* At most one deposit for each start, with or without reports of reverts. *)

(* The positions of the deposits among pending transactions.               *)
DepositsIn(s) == {i \in 1 .. Len(s) : s[i] = "deposit"}

(* A pool holds finitely many deposits.                                    *)
LEMMA DepositsInFinite ==
  ASSUME NEW s \in Seq(Calls)
  PROVE  IsFiniteSet(DepositsIn(s)) /\ Cardinality(DepositsIn(s)) \in Nat
<1>1. IsFiniteSet(1 .. Len(s))
  BY FS_Interval
<1>2. DepositsIn(s) \in SUBSET (1 .. Len(s))
  BY DEF DepositsIn
<1>3. IsFiniteSet(DepositsIn(s))
  BY <1>1, <1>2, FS_Subset
<1>4. QED
  BY <1>3, FS_CardinalityType

(* Sending a transaction adds one pending deposit if it is a deposit.      *)
LEMMA DepositsInAppend ==
  ASSUME NEW s \in Seq(Calls), NEW call \in Calls
  PROVE  Cardinality(DepositsIn(Append(s, call)))
           = Cardinality(DepositsIn(s)) + (IF call = "deposit" THEN 1 ELSE 0)
<1> DEFINE n == Len(s)
<1>1. /\ n \in Nat
      /\ Len(Append(s, call)) = n + 1
      /\ \A i \in 1 .. n : Append(s, call)[i] = s[i]
      /\ Append(s, call)[n + 1] = call
  BY AppendProperties, LenProperties
<1>2. /\ IsFiniteSet(DepositsIn(s))
      /\ Cardinality(DepositsIn(s)) \in Nat
      /\ n + 1 \notin DepositsIn(s)
  BY <1>1, DepositsInFinite DEF DepositsIn
<1>3. CASE call = "deposit"
  <2>1. DepositsIn(Append(s, call)) = DepositsIn(s) \cup {n + 1}
    BY <1>1, <1>3 DEF DepositsIn
  <2>2. Cardinality(DepositsIn(s) \cup {n + 1}) = Cardinality(DepositsIn(s)) + 1
    BY <1>2, FS_AddElement
  <2>3. QED
    BY <1>3, <2>1, <2>2
<1>4. CASE call # "deposit"
  <2>1. DepositsIn(Append(s, call)) = DepositsIn(s)
    BY <1>1, <1>4 DEF DepositsIn
  <2>2. QED
    BY <1>2, <1>4, <2>1
<1>5. QED
  BY <1>3, <1>4

(* Mining the oldest one takes one away if that is a deposit.              *)
LEMMA DepositsInTail ==
  ASSUME NEW s \in Seq(Calls), s # <<>>
  PROVE  Cardinality(DepositsIn(s))
           = Cardinality(DepositsIn(Tail(s))) + (IF Head(s) = "deposit" THEN 1 ELSE 0)
<1> DEFINE n == Len(s)
           rest == DepositsIn(s) \ {1}
           shift == [i \in DepositsIn(Tail(s)) |-> i + 1]
<1>1. /\ Tail(s) \in Seq(Calls)
      /\ Len(Tail(s)) = n - 1
      /\ \A i \in 1 .. Len(Tail(s)) : Tail(s)[i] = s[i + 1]
      /\ Head(s) = s[1]
      /\ n \in Nat \ {0}
  BY HeadTailProperties, EmptySeq, LenProperties
<1>2. shift \in Bijection(DepositsIn(Tail(s)), rest)
  <2>1. shift \in [DepositsIn(Tail(s)) -> rest]
    <3> SUFFICES ASSUME NEW i \in DepositsIn(Tail(s)) PROVE i + 1 \in rest
      OBVIOUS
    <3>1. i \in 1 .. n - 1 /\ Tail(s)[i] = "deposit"
      BY <1>1 DEF DepositsIn
    <3>2. i + 1 \in 1 .. n /\ i + 1 # 1 /\ s[i + 1] = "deposit"
      BY <1>1, <3>1
    <3>3. QED
      BY <3>2 DEF DepositsIn
  <2>2. \A i, j \in DepositsIn(Tail(s)) : shift[i] = shift[j] => i = j
    BY <1>1 DEF DepositsIn
  <2>3. ASSUME NEW k \in rest
        PROVE  \E i \in DepositsIn(Tail(s)) : shift[i] = k
    <3>1. k \in 2 .. n /\ s[k] = "deposit"
      BY <1>1 DEF DepositsIn
    <3>2. k - 1 \in 1 .. n - 1 /\ (k - 1) + 1 = k
      BY <1>1, <3>1
    <3>3. k - 1 \in DepositsIn(Tail(s))
      BY <1>1, <3>1, <3>2 DEF DepositsIn
    <3>4. QED
      BY <3>2, <3>3
  <2>4. QED
    BY <2>1, <2>2, <2>3 DEF Bijection, Injection, Surjection, IsInjective
<1> HIDE DEF shift
<1>3. /\ IsFiniteSet(DepositsIn(Tail(s)))
      /\ Cardinality(DepositsIn(Tail(s))) \in Nat
  BY <1>1, DepositsInFinite
<1>4. Cardinality(rest) = Cardinality(DepositsIn(Tail(s)))
  BY <1>2, <1>3, FS_Bijection DEF ExistsBijection
<1>5. /\ IsFiniteSet(DepositsIn(s)) /\ Cardinality(DepositsIn(s)) \in Nat
      /\ Cardinality(rest) = IF 1 \in DepositsIn(s) THEN Cardinality(DepositsIn(s)) - 1
                             ELSE Cardinality(DepositsIn(s))
  BY DepositsInFinite, FS_RemoveElement
<1>6. 1 \in DepositsIn(s) <=> Head(s) = "deposit"
  BY <1>1 DEF DepositsIn
<1>7. QED
  BY <1>3, <1>4, <1>5, <1>6

(* What has been deposited from w's address, or is on its way.             *)
Total(w) == stake[w].deposits + Cardinality(DepositsIn(mempool[w]))

Charged == {"depositReceipt", "depositConfirm", "login"} \cup Done

(* Every deposit is charged to a start of the script: one to each run that *)
(* has died, and one to this run once it is past its deposit.              *)
ChargeInvOf(w) ==
  Total(w) <= crashes[w] + (IF pc[w] \in Charged THEN 1 ELSE 0)

(* Deposits, mined and pending, are counted by a number.                   *)
LEMMA TotalType ==
  ASSUME TypeOK, NEW v \in Workers
  PROVE  /\ stake[v] \in Stakes /\ stake[v].deposits \in Nat
         /\ mempool[v] \in Seq(Calls)
         /\ Cardinality(DepositsIn(mempool[v])) \in Nat
         /\ crashes[v] \in Nat
<1>1. stake[v] \in Stakes /\ mempool[v] \in Seq(Calls) /\ crashes[v] \in Nat
  BY StakingAssumption DEF TypeOK
<1>2. QED
  BY <1>1, DepositsInFinite DEF Stakes

(* A transaction adds at most one deposit, and only a deposit does.        *)
LEMMA AfterDeposits ==
  ASSUME NEW s \in Stakes, NEW call \in Calls
  PROVE  /\ After(s, call).deposits \in Nat
         /\ After(s, call).deposits <= s.deposits + (IF call = "deposit" THEN 1 ELSE 0)
<1>1. s.deposits \in Nat
  BY DEF Stakes
<1>2. CASE call = "deposit" /\ s.allowance
  BY <1>1, <1>2, AfterFacts
<1>3. CASE ~(call = "deposit" /\ s.allowance)
  <2>1. After(s, call).deposits = s.deposits
    BY <1>3, AfterFacts
  <2>2. QED
    BY <1>1, <2>1
<1>4. QED
  BY <1>2, <1>3

(* Sending adds at most one, and only if it is a deposit.                  *)
LEMMA SendTotal ==
  ASSUME TypeOK, NEW w \in Workers, NEW call \in Calls, Send(w, call), NEW v \in Workers
  PROVE  Total(v)' <= Total(v) + (IF v = w /\ call = "deposit" THEN 1 ELSE 0)
<1>1. /\ stake[v].deposits \in Nat /\ Cardinality(DepositsIn(mempool[v])) \in Nat
      /\ stake[v] \in Stakes /\ mempool[v] \in Seq(Calls)
  BY TotalType
<1>2. CASE v # w
  <2>1. stake'[v] = stake[v] /\ mempool'[v] = mempool[v]
    BY <1>2, SendFacts
  <2>2. QED
    BY <1>1, <1>2, <2>1 DEF Total
<1>3. CASE v = w /\ Instamine
  <2>1. stake'[v] = After(stake[v], call) /\ mempool'[v] = mempool[v]
    BY <1>3, SendFacts
  <2>2. /\ stake'[v].deposits \in Nat
        /\ stake'[v].deposits <= stake[v].deposits + (IF call = "deposit" THEN 1 ELSE 0)
    BY <1>1, <2>1, AfterDeposits
  <2>3. QED
    BY <1>1, <1>3, <2>1, <2>2 DEF Total
<1>4. CASE v = w /\ ~Instamine
  <2>1. stake'[v] = stake[v] /\ mempool'[v] = Append(mempool[v], call)
    BY <1>4, SendFacts
  <2>2. Cardinality(DepositsIn(mempool'[v]))
          = Cardinality(DepositsIn(mempool[v])) + (IF call = "deposit" THEN 1 ELSE 0)
    BY <1>1, <2>1, DepositsInAppend
  <2>3. QED
    BY <1>1, <1>4, <2>1, <2>2 DEF Total
<1>5. QED
  BY <1>2, <1>3, <1>4

(* Mining moves a deposit from the pool to the contract, or drops it.      *)
LEMMA MineTotal ==
  ASSUME TypeOK, NEW S \in SUBSET Workers, MineBlock(S), NEW v \in Workers
  PROVE  Total(v)' <= Total(v)
<1>1. /\ stake[v].deposits \in Nat /\ Cardinality(DepositsIn(mempool[v])) \in Nat
      /\ stake[v] \in Stakes /\ mempool[v] \in Seq(Calls)
  BY TotalType
<1>2. CASE v \notin S
  <2>1. stake'[v] = stake[v] /\ mempool'[v] = mempool[v]
    BY <1>2 DEF MineBlock
  <2>2. QED
    BY <1>1, <2>1 DEF Total
<1>3. CASE v \in S
  <2>1. /\ mempool[v] # <<>>
        /\ stake'[v] = After(stake[v], Head(mempool[v]))
        /\ mempool'[v] = Tail(mempool[v])
    BY <1>3 DEF MineBlock
  <2>2. Head(mempool[v]) \in Calls /\ Tail(mempool[v]) \in Seq(Calls)
    BY <1>1, <2>1, HeadTailProperties
  <2>3. /\ stake'[v].deposits \in Nat
        /\ stake'[v].deposits <=
             stake[v].deposits + (IF Head(mempool[v]) = "deposit" THEN 1 ELSE 0)
    BY <1>1, <2>1, <2>2, AfterDeposits
  <2>4. Cardinality(DepositsIn(mempool[v]))
          = Cardinality(DepositsIn(Tail(mempool[v])))
            + (IF Head(mempool[v]) = "deposit" THEN 1 ELSE 0)
    BY <1>1, <2>1, DepositsInTail
  <2>5. Cardinality(DepositsIn(Tail(mempool[v]))) \in Nat
    BY <2>2, DepositsInFinite
  <2>6. QED
    BY <1>1, <2>1, <2>3, <2>4, <2>5 DEF Total
<1>4. QED
  BY <1>2, <1>3

(* A step that adds nothing to v's total, and takes nothing from its runs. *)
LEMMA ChargeKept ==
  ASSUME TypeOK, TypeOK', NEW v \in Workers, ChargeInvOf(v), Total(v)' <= Total(v),
         crashes'[v] = crashes[v], pc[v] \in Charged => pc'[v] \in Charged
  PROVE  ChargeInvOf(v)'
<1>1. Total(v) \in Nat /\ Total(v)' \in Nat /\ crashes[v] \in Nat
  <2>1. Total(v) \in Nat /\ crashes[v] \in Nat
    BY TotalType DEF Total
  <2>2. stake'[v] \in Stakes /\ mempool'[v] \in Seq(Calls)
    BY DEF TypeOK
  <2>3. stake'[v].deposits \in Nat /\ Cardinality(DepositsIn(mempool'[v])) \in Nat
    BY <2>2, DepositsInFinite DEF Stakes
  <2>4. QED
    BY <2>1, <2>3 DEF Total
<1>2. QED
  BY <1>1 DEF ChargeInvOf

(* Every step of a script keeps its charge.                                *)
LEMMA ChargeStep ==
  ASSUME TypeOK, TypeOK', NEW v \in Workers, ChargeInvOf(v),
         NEW w \in Workers, Start(w) \/ NodeRegisters(w) \/ Script(w) \/ Crash(w)
  PROVE  ChargeInvOf(v)'
<1>1. Total(v) \in Nat /\ crashes[v] \in Nat
  BY TotalType DEF Total
<1>2. ASSUME stake' = stake, mempool' = mempool PROVE Total(v)' <= Total(v)
  BY <1>1, <1>2 DEF Total
<1>3. CASE Approve(w) \/ SetOperatingAddress(w)
  <2>1. \E call \in {"approve", "setOperatingAddress"} : Send(w, call)
    BY <1>3 DEF Approve, SetOperatingAddress
  <2>2. Total(v)' <= Total(v)
    BY <1>1, <2>1, SendTotal DEF Calls
  <2>3. /\ crashes'[v] = crashes[v]
        /\ pc[v] \in Charged => pc'[v] \in Charged
    BY <1>3 DEF Approve, SetOperatingAddress, Goto, Charged, Done, TypeOK
  <2>4. QED
    BY <2>2, <2>3, ChargeKept
<1>4. CASE Deposit(w)
  <2>1. Send(w, "deposit") /\ crashes'[v] = crashes[v]
    BY <1>4 DEF Deposit
  <2>2. CASE v # w
    <3>1. Total(v)' <= Total(v)
      BY <1>1, <2>1, <2>2, SendTotal DEF Calls
    <3>2. pc'[v] = pc[v]
      BY <1>4, <2>2 DEF Deposit, Goto, TypeOK
    <3>3. QED
      BY <2>1, <3>1, <3>2, ChargeKept
  <2>3. CASE v = w /\ RaisesRevert(w, "deposit")
    <3>1. stake'[v] = After(stake[v], "deposit") /\ mempool'[v] = mempool[v]
      BY <2>1, <2>3, SendFacts DEF RaisesRevert, Calls
    <3>2. stake'[v] = stake[v]
      BY <2>3, <3>1 DEF RaisesRevert, After
    <3>3. Total(v)' <= Total(v)
      BY <1>1, <3>1, <3>2 DEF Total
    <3>4. pc[v] \notin Charged
      BY <1>4, <2>3 DEF Deposit, Charged, Done
    <3>5. QED
      BY <2>1, <3>3, <3>4, ChargeKept
  <2>4. CASE v = w /\ ~RaisesRevert(w, "deposit")
    <3>1. Total(v)' <= Total(v) + 1
      BY <2>1, <2>4, SendTotal DEF Calls
    <3>2. pc[v] \notin Charged /\ pc'[v] \in Charged
      BY <1>4, <2>4 DEF Deposit, Goto, Charged, Done, TypeOK
    <3>3. stake'[v].deposits \in Nat /\ Cardinality(DepositsIn(mempool'[v])) \in Nat
      <4>1. stake'[v] \in Stakes /\ mempool'[v] \in Seq(Calls)
        BY DEF TypeOK
      <4>2. QED
        BY <4>1, DepositsInFinite DEF Stakes
    <3>4. Total(v)' \in Nat
      BY <3>3 DEF Total
    <3>5. QED
      BY <1>1, <2>1, <3>1, <3>2, <3>4 DEF ChargeInvOf
  <2>5. QED
    BY <2>2, <2>3, <2>4
<1>5. CASE Crash(w)
  <2>1. Total(v)' = Total(v)
    BY <1>5 DEF Crash, Total
  <2>2. CASE v = w
    <3>1. crashes'[v] = crashes[v] + 1 /\ pc'[v] = "down"
      BY <1>5, <2>2 DEF Crash, Goto, TypeOK
    <3>2. pc'[v] \notin Charged
      BY <3>1 DEF Charged, Done
    <3>3. QED
      BY <1>1, <2>1, <3>1, <3>2 DEF ChargeInvOf
  <2>3. CASE v # w
    <3>1. crashes'[v] = crashes[v] /\ pc'[v] = pc[v]
      BY <1>5, <2>3 DEF Crash, Goto, TypeOK
    <3>2. QED
      BY <2>1, <3>1 DEF ChargeInvOf
  <2>4. QED
    BY <2>2, <2>3
<1>6. CASE \/ Start(w) \/ NodeRegisters(w) \/ WaitForRegister(w) \/ ApproveReceipt(w)
           \/ SetOperatingReceipt(w) \/ SetOperatingConfirm(w) \/ SetOperatingRejected(w)
           \/ DepositReceipt(w) \/ DepositConfirm(w) \/ Login(w)
  <2>1. stake' = stake /\ mempool' = mempool /\ crashes' = crashes
    BY <1>6 DEF Start, NodeRegisters, WaitForRegister, ApproveReceipt, SetOperatingReceipt,
                SetOperatingConfirm, SetOperatingRejected, DepositReceipt, DepositConfirm, Login
  <2>2. pc[v] \in Charged => pc'[v] \in Charged
    BY <1>6 DEF Start, NodeRegisters, WaitForRegister, ApproveReceipt, SetOperatingReceipt,
                SetOperatingConfirm, SetOperatingRejected, DepositReceipt, DepositConfirm,
                Login, Goto, Charged, Done, TypeOK
  <2>3. QED
    BY <1>2, <2>1, <2>2, ChargeKept
<1>7. QED
  BY <1>3, <1>4, <1>5, <1>6 DEF Script

(* Reported or not, reverts or refusals, pending or mined: at most one     *)
(* deposit for each start of the script.                                   *)
THEOREM DepositPerStart == Spec => []DepositsBoundedByStarts
<1> DEFINE ChargeInv == \A v \in Workers : ChargeInvOf(v)
<1>1. Init => ChargeInv
  <2> SUFFICES ASSUME Init, NEW v \in Workers PROVE ChargeInvOf(v)
    OBVIOUS
  <2>1. stake[v].deposits = 0 /\ mempool[v] = <<>> /\ crashes[v] = 0
    BY DEF Init, NoStake
  <2>2. DepositsIn(<<>>) = {}
    BY DEF DepositsIn
  <2>3. Cardinality(DepositsIn(mempool[v])) = 0
    BY <2>1, <2>2, FS_EmptySet
  <2>4. Total(v) = 0
    BY <2>1, <2>3 DEF Total
  <2>5. QED
    BY <2>1, <2>4 DEF ChargeInvOf
<1>2. TypeOK /\ TypeOK' /\ ChargeInv /\ [Next]_vars => ChargeInv'
  <2> SUFFICES ASSUME TypeOK, TypeOK', ChargeInv, [Next]_vars, NEW v \in Workers
               PROVE  ChargeInvOf(v)'
    OBVIOUS
  <2>1. ChargeInvOf(v)
    OBVIOUS
  <2>2. ASSUME NEW S \in SUBSET Workers, MineBlock(S) PROVE ChargeInvOf(v)'
    <3>1. pc' = pc /\ crashes' = crashes
      BY <2>2 DEF MineBlock
    <3>2. QED
      BY <2>1, <2>2, <3>1, MineTotal, ChargeKept
  <2>3. CASE UNCHANGED vars
    BY <2>1, <2>3 DEF vars, ChargeInvOf, Total
  <2>4. QED
    BY <2>1, <2>2, <2>3, ChargeStep DEF Next
<1>3. TypeOK /\ ChargeInv => DepositsBoundedByStarts
  <2> SUFFICES ASSUME TypeOK, ChargeInv, NEW w \in Workers
               PROVE  stake[w].deposits + PendingDeposits(w) <= crashes[w] + 1
    BY DEF DepositsBoundedByStarts
  <2>1. Total(w) \in Nat /\ crashes[w] \in Nat
    BY TotalType DEF Total
  <2>2. Total(w) = stake[w].deposits + PendingDeposits(w)
    BY DEF Total, DepositsIn, PendingDeposits
  <2>3. QED
    BY <2>1, <2>2 DEF ChargeInvOf
<1>4. QED
  BY <1>1, <1>2, <1>3, TypeCorrect, PTL DEF Spec

-----------------------------------------------------------------------------
(* Where reverts are reported a login can lack a deposit, but only after a *)
(* death: an address that is bound before its run binds it was bound by a  *)
(* run that died, and every other way to a login leads through a deposit.  *)
BeforeBinding == {"down", "register", "approve", "approveReceipt", "setOperatingAddress"}

LoginInvOf(v) ==
  /\ pc[v] \in BeforeBinding /\ stake[v].bound => crashes[v] > 0
  /\ loggedIn[v] => stake[v].bound /\ (pc[v] # "running" => crashes[v] > 0)
  /\ pc[v] \in {"depositReceipt", "depositConfirm"} => stake[v].bound /\ stake[v].deposits = 1
  /\ pc[v] \in {"login"} \cup Done =>
       /\ stake[v].bound
       /\ stake[v].deposits = 1 \/ crashes[v] > 0
       /\ crashes[v] = 0 => Buried(v)

(* What leaves a script alone keeps LoginInvOf.                            *)
LEMMA LoginFrame ==
  ASSUME NEW v \in Workers, LoginInvOf(v),
         pc'[v] = pc[v], stake'[v] = stake[v], loggedIn'[v] = loggedIn[v],
         crashes'[v] = crashes[v], Buried(v) => Buried(v)'
  PROVE  LoginInvOf(v)'
BY DEF LoginInvOf

(* Every step of a script keeps LoginInvOf.                                *)
LEMMA LoginStep ==
  ASSUME Reporting, TypeOK, NEW v \in Workers, OnceInv, ScriptInvOf(v), LoginInvOf(v),
         Start(v) \/ NodeRegisters(v) \/ Script(v) \/ Crash(v)
  PROVE  LoginInvOf(v)'
<1> DEFINE s == stake[v]
<1>1. /\ s \in Stakes /\ s.deposits \in Nat /\ crashes[v] \in Nat
      /\ loggedIn[v] => pc[v] \in {"down", "register", "running"}
  BY TotalType DEF ScriptInvOf
<1>2. ASSUME NEW call \in Calls, Send(v, call) PROVE stake'[v] = After(stake[v], call)
  BY <1>2, SendFacts DEF Reporting
<1>3. CASE Start(v) \/ NodeRegisters(v)
  <2>1. /\ stake' = stake /\ crashes' = crashes /\ loggedIn' = loggedIn
        /\ pc[v] \in {"down", "register"} /\ pc'[v] = "register"
    BY <1>3 DEF Start, NodeRegisters, Goto, TypeOK
  <2>2. QED
    BY <2>1 DEF LoginInvOf, BeforeBinding, Done
<1>4. CASE WaitForRegister(v)
  <2>1. /\ stake' = stake /\ crashes' = crashes /\ loggedIn' = loggedIn
        /\ pc[v] = "register" /\ pc'[v] = IF loggedIn[v] THEN "running" ELSE "approve"
    BY <1>4 DEF WaitForRegister, Goto, TypeOK
  <2>2. CASE loggedIn[v]
    BY <2>1, <2>2, <1>1 DEF LoginInvOf, BeforeBinding, Done
  <2>3. CASE ~loggedIn[v]
    BY <2>1, <2>3, <1>1 DEF LoginInvOf, BeforeBinding, Done
  <2>4. QED
    BY <2>2, <2>3
<1>5. CASE Approve(v)
  <2>1. /\ stake'[v] = After(s, "approve") /\ crashes' = crashes /\ loggedIn' = loggedIn
        /\ pc[v] = "approve" /\ pc'[v] = "approveReceipt"
    BY <1>2, <1>5 DEF Approve, Goto, TypeOK, Calls
  <2>2. stake'[v].bound = s.bound
    BY <1>1, <2>1, AfterFacts DEF Calls
  <2>3. ~loggedIn[v]
    BY <1>1, <2>1
  <2>4. QED
    BY <2>1, <2>2, <2>3 DEF LoginInvOf, BeforeBinding, Done
<1>6. CASE ApproveReceipt(v)
  <2>1. /\ stake' = stake /\ crashes' = crashes /\ loggedIn' = loggedIn
        /\ pc[v] = "approveReceipt" /\ pc'[v] = "setOperatingAddress"
    BY <1>6 DEF ApproveReceipt, Goto, TypeOK
  <2>2. ~loggedIn[v]
    BY <1>1, <2>1
  <2>3. QED
    BY <2>1, <2>2 DEF LoginInvOf, BeforeBinding, Done
<1>7. CASE SetOperatingAddress(v)
  <2>1. /\ stake'[v] = After(s, "setOperatingAddress")
        /\ crashes' = crashes /\ loggedIn' = loggedIn
        /\ pc[v] = "setOperatingAddress"
        /\ pc'[v] = IF RaisesRevert(v, "setOperatingAddress") THEN "login"
                    ELSE "setOperatingReceipt"
    BY <1>2, <1>7 DEF SetOperatingAddress, Goto, TypeOK, Calls
  <2>2. stake'[v].bound /\ ~loggedIn[v]
    BY <1>1, <2>1, AfterFacts DEF Calls
  <2>3. CASE RaisesRevert(v, "setOperatingAddress")
    <3>1. s.bound
      BY <2>3 DEF RaisesRevert, Reverts
    <3>2. crashes[v] > 0
      BY <2>1, <3>1 DEF LoginInvOf, BeforeBinding
    <3>3. QED
      BY <1>1, <2>1, <2>2, <2>3, <3>2 DEF LoginInvOf, BeforeBinding, Done
  <2>4. CASE ~RaisesRevert(v, "setOperatingAddress")
    BY <2>1, <2>2, <2>4 DEF LoginInvOf, BeforeBinding, Done
  <2>5. QED
    BY <2>3, <2>4
<1>8. CASE SetOperatingReceipt(v) \/ SetOperatingConfirm(v)
  <2>1. /\ stake' = stake /\ crashes' = crashes /\ loggedIn' = loggedIn
        /\ pc[v] \in {"setOperatingReceipt", "setOperatingConfirm"}
        /\ pc'[v] \in {"setOperatingConfirm", "deposit"}
    BY <1>8 DEF SetOperatingReceipt, SetOperatingConfirm, Goto, TypeOK
  <2>2. ~loggedIn[v]
    BY <1>1, <2>1
  <2>3. QED
    BY <2>1, <2>2 DEF LoginInvOf, BeforeBinding, Done
<1>9. CASE Deposit(v)
  <2>1. /\ stake'[v] = After(s, "deposit") /\ crashes' = crashes /\ loggedIn' = loggedIn
        /\ pc[v] = "deposit"
        /\ pc'[v] = IF RaisesRevert(v, "deposit") THEN "down" ELSE "depositReceipt"
    BY <1>2, <1>9 DEF Deposit, Goto, TypeOK, Calls
  <2>2. s.allowance
    BY <2>1 DEF ScriptInvOf
  <2>3. s.deposits = 0 /\ s.bound
    BY <2>1 DEF OnceInv, AboutToDeposit
  <2>4. stake'[v].deposits = 1 /\ stake'[v].bound
    BY <1>1, <2>1, <2>2, <2>3, AfterFacts DEF Calls
  <2>5. pc'[v] = "depositReceipt" /\ ~loggedIn[v]
    BY <1>1, <2>1, <2>2 DEF RaisesRevert, Reverts
  <2>6. QED
    BY <2>1, <2>4, <2>5 DEF LoginInvOf, BeforeBinding, Done
<1>10. CASE DepositReceipt(v)
  <2>1. /\ stake' = stake /\ crashes' = crashes /\ loggedIn' = loggedIn
        /\ pc[v] = "depositReceipt" /\ pc'[v] = "depositConfirm"
    BY <1>10 DEF DepositReceipt, Goto, TypeOK
  <2>2. ~loggedIn[v]
    BY <1>1, <2>1
  <2>3. QED
    BY <2>1, <2>2 DEF LoginInvOf, BeforeBinding, Done
<1>11. CASE DepositConfirm(v)
  <2>1. /\ stake' = stake /\ age' = age /\ crashes' = crashes /\ loggedIn' = loggedIn
        /\ pc[v] = "depositConfirm" /\ pc'[v] = "login"
    BY <1>11 DEF DepositConfirm, Goto, TypeOK
  <2>2. ~loggedIn[v]
    BY <1>1, <2>1
  <2>3. Buried(v)'
    BY <1>11, <2>1, ConfirmedIsBuried DEF DepositConfirm, Buried
  <2>4. QED
    BY <2>1, <2>2, <2>3 DEF LoginInvOf, BeforeBinding, Done
<1>12. CASE Login(v)
  <2>1. /\ stake' = stake /\ age' = age /\ crashes' = crashes
        /\ pc[v] = "login" /\ pc'[v] \in Done
        /\ loggedIn'[v] => pc'[v] = "running"
    BY <1>12 DEF Login, Goto, Done, TypeOK
  <2>2. Buried(v)' <=> Buried(v)
    BY <2>1 DEF Buried
  <2>3. QED
    BY <2>1, <2>2 DEF LoginInvOf, BeforeBinding, Done
<1>13. CASE Crash(v)
  <2>1. /\ stake' = stake /\ crashes'[v] = crashes[v] + 1 /\ pc'[v] = "down"
        /\ loggedIn'[v] => loggedIn[v]
    BY <1>13 DEF Crash, Goto, TypeOK
  <2>2. crashes'[v] > 0
    BY <1>1, <2>1
  <2>3. QED
    BY <2>1, <2>2 DEF LoginInvOf, BeforeBinding, Done
<1>14. ~SetOperatingRejected(v)
  BY DEF SetOperatingRejected, Reporting
<1>15. QED
  BY <1>3, <1>4, <1>5, <1>6, <1>7, <1>8, <1>9, <1>10, <1>11, <1>12, <1>13, <1>14 DEF Script

(* What the scripts of the others leave of v's.                            *)
LEMMA LoginElsewhere ==
  ASSUME TypeOK, NEW v \in Workers, LoginInvOf(v), NEW w \in Workers, w # v,
         Start(w) \/ NodeRegisters(w) \/ Script(w) \/ Crash(w)
  PROVE  LoginInvOf(v)'
<1>1. pc'[v] = pc[v] /\ loggedIn'[v] = loggedIn[v] /\ crashes'[v] = crashes[v]
  BY DEF Start, NodeRegisters, Script, Crash, WaitForRegister, Approve, ApproveReceipt,
         SetOperatingAddress, SetOperatingRejected, SetOperatingReceipt, SetOperatingConfirm,
         Deposit, DepositReceipt, DepositConfirm, Login, Goto, TypeOK
<1>2. \/ \E call \in Calls : Send(w, call)
      \/ UNCHANGED <<stake, mempool, age>>
  BY DEF Start, NodeRegisters, Script, Crash, WaitForRegister, Approve, ApproveReceipt,
         SetOperatingAddress, SetOperatingRejected, SetOperatingReceipt, SetOperatingConfirm,
         Deposit, DepositReceipt, DepositConfirm, Login, Calls
<1>3. stake'[v] = stake[v] /\ (Buried(v) => Buried(v)')
  <2>1. CASE UNCHANGED <<stake, mempool, age>>
    BY <2>1 DEF Buried
  <2>2. CASE \E call \in Calls : Send(w, call)
    BY <2>2, SendFacts
  <2>3. QED
    BY <1>2, <2>1, <2>2
<1>4. QED
  BY <1>1, <1>3, LoginFrame

(* On a node that reports reverts and refuses nothing else, no script logs *)
(* in unbound, and none without a confirmed deposit unless a run has died. *)
THEOREM LoginBackedUnlessKilled ==
  ASSUME Reporting
  PROVE  Spec => []LoginAfterDepositUnlessKilled
<1> DEFINE LoginInv == \A v \in Workers : LoginInvOf(v)
<1>1. Init => OnceInv /\ LoginInv
  <2>1. Init => OnceInv
    BY DEF Init, OnceInv, NoStake, AboutToDeposit
  <2>2. Init => LoginInv
    BY DEF Init, NoStake, LoginInvOf, BeforeBinding, Done
  <2>3. QED
    BY <2>1, <2>2
<1>2. TypeOK /\ OnceInv /\ [Next]_vars => OnceInv'
  BY OnceInductive
<1>3. TypeOK /\ OnceInv /\ ScriptInv /\ LoginInv /\ [Next]_vars => LoginInv'
  <2> SUFFICES ASSUME TypeOK, OnceInv, ScriptInv, LoginInv, [Next]_vars, NEW v \in Workers
               PROVE  LoginInvOf(v)'
    OBVIOUS
  <2>1. LoginInvOf(v) /\ ScriptInvOf(v)
    BY DEF ScriptInv
  <2>2. ASSUME NEW S \in SUBSET Workers, MineBlock(S) PROVE LoginInvOf(v)'
    <3>1. pc' = pc /\ loggedIn' = loggedIn /\ crashes' = crashes /\ NewTip(S)
      BY <2>2 DEF MineBlock
    <3>2. v \notin S
      BY <2>2 DEF MineBlock, OnceInv
    <3>3. stake'[v] = stake[v] /\ (Buried(v) => Buried(v)')
      BY <2>2, <3>1, <3>2, DeeperStaysBuried DEF MineBlock
    <3>4. QED
      BY <2>1, <3>1, <3>3, LoginFrame
  <2>3. CASE UNCHANGED vars
    BY <2>1, <2>3, LoginFrame DEF vars, Buried
  <2>4. ASSUME NEW w \in Workers, Start(w) \/ NodeRegisters(w) \/ Script(w) \/ Crash(w)
        PROVE  LoginInvOf(v)'
    <3>1. CASE w = v
      BY <2>1, <2>4, <3>1, LoginStep
    <3>2. CASE w # v
      BY <2>1, <2>4, <3>2, LoginElsewhere
    <3>3. QED
      BY <3>1, <3>2
  <2>5. QED
    BY <2>2, <2>3, <2>4 DEF Next
<1>4. LoginInv => LoginAfterDepositUnlessKilled
  BY DEF LoginInvOf, LoginAfterDepositUnlessKilled
<1>5. QED
  BY <1>1, <1>2, <1>3, <1>4, TypeCorrect, ScriptInvariant, PTL DEF Spec

-----------------------------------------------------------------------------
(* Refinement of the ledger.                                               *)

(* Every step is one of StakeLedger, or a stutter.                         *)
LEMMA LedgerStep ==
  ASSUME Reporting, TypeOK, OnceInv, [Next]_vars
  PROVE  [Ledger!Next]_(Ledger!ledger)
<1> DEFINE bnd == [w \in Workers |-> stake[w].bound]
           dep == [w \in Workers |-> stake[w].deposits]
<1>1. ASSUME stake' = stake PROVE Ledger!ledger' = Ledger!ledger
  BY <1>1 DEF Ledger!ledger
<1>2. ASSUME NEW w \in Workers, NEW call \in Calls, Send(w, call)
      PROVE  /\ stake' = [stake EXCEPT ![w] = After(stake[w], call)]
             /\ \A v \in Workers : v # w => stake'[v] = stake[v]
             /\ stake'[w] = After(stake[w], call)
             /\ stake[w] \in Stakes
  BY <1>2 DEF Reporting, Send, TypeOK
<1>3. ASSUME NEW w \in Workers, Approve(w) PROVE Ledger!ledger' = Ledger!ledger
  <2>1. /\ \A v \in Workers : v # w => stake'[v] = stake[v]
        /\ stake'[w] = After(stake[w], "approve")
        /\ stake[w] \in Stakes
    BY <1>2, <1>3 DEF Approve, Calls
  <2>2. stake'[w].bound = stake[w].bound /\ stake'[w].deposits = stake[w].deposits
    BY <2>1, AfterFacts DEF Calls
  <2>3. bnd' = bnd /\ dep' = dep
    BY <2>1, <2>2
  <2>4. QED
    BY <2>3 DEF Ledger!ledger
<1>4. ASSUME NEW w \in Workers, SetOperatingAddress(w)
      PROVE  Ledger!Bind(w) \/ Ledger!ledger' = Ledger!ledger
  <2>1. /\ \A v \in Workers : v # w => stake'[v] = stake[v]
        /\ stake'[w] = After(stake[w], "setOperatingAddress")
        /\ stake[w] \in Stakes
    BY <1>2, <1>4 DEF SetOperatingAddress, Calls
  <2>2. CASE stake[w].bound
    <3>1. stake'[w] = stake[w]
      BY <2>1, <2>2 DEF After, Reverts
    <3>2. bnd' = bnd /\ dep' = dep
      BY <2>1, <3>1
    <3>3. QED
      BY <3>2 DEF Ledger!ledger
  <2>3. CASE ~stake[w].bound
    <3>1. stake'[w] = [stake[w] EXCEPT !.bound = TRUE]
      BY <2>1, <2>3 DEF After, Reverts
    <3>2. stake'[w].bound = TRUE /\ stake'[w].deposits = stake[w].deposits
      BY <2>1, <3>1 DEF Stakes
    <3>3. dep' = dep /\ bnd' = [bnd EXCEPT ![w] = TRUE]
      BY <2>1, <3>2
    <3>4. QED
      BY <2>3, <3>3 DEF Ledger!Bind
  <2>4. QED
    BY <2>2, <2>3
<1>5. ASSUME NEW w \in Workers, Deposit(w)
      PROVE  Ledger!Deposit(w) \/ Ledger!ledger' = Ledger!ledger
  <2>1. /\ \A v \in Workers : v # w => stake'[v] = stake[v]
        /\ stake'[w] = After(stake[w], "deposit")
        /\ stake[w] \in Stakes
    BY <1>2, <1>5 DEF Deposit, Calls
  <2>2. stake[w].deposits = 0 /\ stake[w].bound
    BY <1>5 DEF Deposit, OnceInv, AboutToDeposit
  <2>3. stake'[w].bound = stake[w].bound
    BY <2>1, AfterFacts DEF Calls
  <2>4. bnd' = bnd
    BY <2>1, <2>3
  <2>5. CASE stake[w].allowance
    <3>1. stake'[w].deposits = 1
      BY <2>1, <2>2, <2>5, AfterFacts DEF Calls
    <3>2. dep' = [dep EXCEPT ![w] = 1]
      BY <2>1, <3>1
    <3>3. QED
      BY <2>2, <2>4, <3>2 DEF Ledger!Deposit
  <2>6. CASE ~stake[w].allowance
    <3>1. stake'[w].deposits = stake[w].deposits
      BY <2>1, <2>6, AfterFacts DEF Calls
    <3>2. dep' = dep
      BY <2>1, <3>1
    <3>3. QED
      BY <2>4, <3>2 DEF Ledger!ledger
  <2>7. QED
    BY <2>5, <2>6
<1>6. ASSUME NEW S \in SUBSET Workers, MineBlock(S) PROVE stake' = stake
  <2>1. S = {}
    BY <1>6 DEF MineBlock, OnceInv
  <2>2. QED
    BY <1>6, <2>1 DEF MineBlock, TypeOK
<1>7. ASSUME NEW w \in Workers,
             \/ Start(w) \/ NodeRegisters(w) \/ Crash(w) \/ WaitForRegister(w)
             \/ ApproveReceipt(w) \/ SetOperatingReceipt(w) \/ SetOperatingConfirm(w)
             \/ SetOperatingRejected(w) \/ DepositReceipt(w) \/ DepositConfirm(w)
             \/ Login(w)
      PROVE  stake' = stake
  BY <1>7 DEF Start, NodeRegisters, Crash, WaitForRegister, ApproveReceipt,
              SetOperatingReceipt, SetOperatingConfirm, SetOperatingRejected,
              DepositReceipt, DepositConfirm, Login
<1>8. CASE UNCHANGED vars
  BY <1>1, <1>8 DEF vars
<1>9. CASE Next
  BY <1>1, <1>3, <1>4, <1>5, <1>6, <1>7, <1>9 DEF Next, Script, Ledger!Next
<1>10. QED
  BY <1>8, <1>9

(* On a node that reports reverts and refuses nothing else, the scripts    *)
(* implement the ledger: bind first, deposit once.                         *)
THEOREM LedgerImplemented ==
  ASSUME Reporting
  PROVE  Spec => ImplementsLedger
<1>1. Init => Ledger!Init
  BY DEF Init, Ledger!Init, NoStake
<1>2. Init => OnceInv
  BY DEF Init, OnceInv, NoStake, AboutToDeposit
<1>3. TypeOK /\ OnceInv /\ [Next]_vars => OnceInv'
  BY OnceInductive
<1>4. TypeOK /\ OnceInv /\ [Next]_vars => [Ledger!Next]_(Ledger!ledger)
  BY LedgerStep
<1>5. QED
  BY <1>1, <1>2, <1>3, <1>4, TypeCorrect, PTL DEF Spec, ImplementsLedger, Ledger!Spec
=============================================================================
