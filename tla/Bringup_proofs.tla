--------------------------- MODULE Bringup_proofs ---------------------------
(***************************************************************************)
(* Proofs about Bringup: its type invariant, that the contract is deployed *)
(* for the key the key manager holds, and that the key manager runs on its *)
(* own contract, for any number of kills, timeouts, failures and deaths.   *)
(***************************************************************************)
EXTENDS Bringup, TLAPS

Deployed == {"serve", "dead"}

(* A key manager that got past its key files has both, and they agree.     *)
KeysInv ==
  /\ public # 0 => public = keypair
  /\ km \in {"keypair", "public"} => public = 0
  /\ km = "public" => keypair # 0
  /\ km \in {"account", "address"} \cup AfterServer => public # 0
  /\ kmServes => public # 0

(* What the contract container knows of the key, it knows from the key     *)
(* manager's files.                                                        *)
DeployInv ==
  /\ principalFile # 0 => principalFile = public
  /\ deployed => principal = principalFile /\ migrate \in Deployed
  /\ addressFiles => migrate \in Deployed
  /\ addressFiles /\ deaths = 0 => deployed
  /\ migrate # "startup" /\ timeouts = 0 => principalFile # 0
  /\ km \in {"eth", "run"} => addressFiles

BringupInv == TypeOK /\ KeysInv /\ DeployInv

-----------------------------------------------------------------------------
(* Type correctness.                                                       *)

(* The initial state has its type.                                         *)
LEMMA InitTyped ==
  ASSUME Init
  PROVE  TypeOK
<1>1. /\ {kmServes, account, addressFiles} \subseteq BOOLEAN
      /\ {ganache, deployed, funded, faucet, worker} \subseteq BOOLEAN
  BY DEF Init
<1>2. /\ {keypair, public, minted, principalFile, principal} \subseteq Nat
      /\ kills \in 0 .. MaxKills /\ timeouts \in 0 .. MaxTimeouts
      /\ failures \in 0 .. MaxFailures /\ deaths \in 0 .. MaxDeaths
  BY BringupAssumption DEF Init
<1>3. km = "down" /\ migrate = "startup"
  BY DEF Init
<1>4. QED
  BY <1>1, <1>2, <1>3 DEF TypeOK

(* Every step keeps the type.                                              *)
LEMMA TypeStep ==
  ASSUME TypeOK, [Next]_vars
  PROVE  TypeOK'
<1> USE DEF TypeOK, Goto, OthersUnchanged, KmUnchanged, kmVars, kmFiles, migrateVars, chain, clients, bounds,
            Generating, BeforeServer, AfterServer
<1>1. CASE SpawnKm
  BY <1>1, BringupAssumption DEF SpawnKm
<1>2. CASE FindKeys
  BY <1>2, BringupAssumption DEF FindKeys
<1>3. CASE GenerateKeypair
  <2>1. account' \in BOOLEAN
    BY <1>3 DEF GenerateKeypair
  <2>2. QED
    BY <1>3, <2>1, BringupAssumption DEF GenerateKeypair
<1>4. CASE StartServer
  BY <1>4, BringupAssumption DEF StartServer
<1>5. CASE GetCoins
  BY <1>5, BringupAssumption DEF GetCoins
<1>6. CASE NoAccount
  BY <1>6, BringupAssumption DEF NoAccount
<1>7. CASE GetContract
  BY <1>7, BringupAssumption DEF GetContract
<1>8. CASE CheckEth
  BY <1>8, BringupAssumption DEF CheckEth
<1>9. CASE ContractTimeout
  BY <1>9, BringupAssumption DEF ContractTimeout
<1>10. CASE KmFails
  BY <1>10, BringupAssumption DEF KmFails
<1>11. CASE KillKm
  <2>1. kmServes' \in BOOLEAN
    BY <1>11 DEF KillKm
  <2>2. QED
    BY <1>11, <2>1, BringupAssumption DEF KillKm
<1>12. CASE DownloadPrincipal
  BY <1>12, BringupAssumption DEF DownloadPrincipal, KMAddress
<1>13. CASE PrincipalTimeout
  BY <1>13, BringupAssumption DEF PrincipalTimeout
<1>14. CASE GanacheListens
  BY <1>14, BringupAssumption DEF GanacheListens
<1>15. CASE Deploy
  BY <1>15, BringupAssumption DEF Deploy
<1>16. CASE DeployFails
  BY <1>16, BringupAssumption DEF DeployFails
<1>17. CASE ServerDies
  BY <1>17, BringupAssumption DEF ServerDies
<1>18. CASE SpawnGanache
  BY <1>18, BringupAssumption DEF SpawnGanache
<1>19. CASE GanacheDies
  <2>1. ganache' \in BOOLEAN /\ deployed' \in BOOLEAN /\ funded' \in BOOLEAN
    BY <1>19 DEF GanacheDies
  <2>2. QED
    BY <1>19, <2>1, BringupAssumption DEF GanacheDies
<1>20. CASE StartFaucet
  BY <1>20, BringupAssumption DEF StartFaucet
<1>21. CASE FaucetDies
  <2>1. faucet' \in BOOLEAN
    BY <1>21 DEF FaucetDies
  <2>2. QED
    BY <1>21, <2>1, BringupAssumption DEF FaucetDies
<1>22. CASE LoadContracts
  BY <1>22, BringupAssumption DEF LoadContracts
<1>23. CASE UNCHANGED vars
  BY <1>23 DEF vars
<1>24. QED
  BY <1>1, <1>2, <1>3, <1>4, <1>5, <1>6, <1>7, <1>8, <1>9, <1>10, <1>11, <1>12, <1>13, <1>14, <1>15, <1>16, <1>17, <1>18, <1>19, <1>20, <1>21, <1>22, <1>23
     DEF Next, KmSteps, MigrateSteps

(* The state of the key manager, the contract container and their clients  *)
(* always has its type.                                                    *)
THEOREM TypeCorrect == Spec => []TypeOK
<1>1. Init => TypeOK
  BY InitTyped
<1>2. TypeOK /\ [Next]_vars => TypeOK'
  BY TypeStep
<1>3. QED
  BY <1>1, <1>2, PTL DEF Spec

-----------------------------------------------------------------------------
(* The key manager's files.                                                *)

(* Every step keeps the invariant about keys and contracts.                *)
LEMMA KeysStep ==
  ASSUME TypeOK, KeysInv, [Next]_vars
  PROVE  KeysInv'
<1> USE DEF TypeOK, KeysInv, Goto, OthersUnchanged, KmUnchanged, kmVars, kmFiles,
            Generating, BeforeServer, AfterServer
<1>1. CASE SpawnKm
  BY <1>1 DEF SpawnKm
<1>2. CASE FindKeys
  BY <1>2 DEF FindKeys, KeysMissing
<1>3. CASE GenerateKeypair
  BY <1>3 DEF GenerateKeypair
<1>4. CASE StartServer
  BY <1>4 DEF StartServer
<1>5. CASE GetCoins
  BY <1>5 DEF GetCoins
<1>6. CASE NoAccount
  BY <1>6 DEF NoAccount
<1>7. CASE GetContract
  BY <1>7 DEF GetContract
<1>8. CASE CheckEth
  BY <1>8 DEF CheckEth
<1>9. CASE ContractTimeout
  BY <1>9 DEF ContractTimeout
<1>10. CASE KmFails
  BY <1>10 DEF KmFails
<1>11. CASE KillKm
  BY <1>11 DEF KillKm
<1>12. CASE KmUnchanged
  BY <1>12
<1>13. QED
  BY <1>1, <1>2, <1>3, <1>4, <1>5, <1>6, <1>7, <1>8, <1>9, <1>10, <1>11, <1>12
     DEF Next, KmSteps, MigrateSteps, vars, DownloadPrincipal, PrincipalTimeout, GanacheListens, Deploy, DeployFails, ServerDies, SpawnGanache, GanacheDies, StartFaucet, FaucetDies, LoadContracts

(* What the contract container holds.                                      *)
LEMMA DeployStep ==
  ASSUME TypeOK, KeysInv, DeployInv, [Next]_vars
  PROVE  DeployInv'
<1> USE DEF TypeOK, KeysInv, DeployInv, Deployed, Goto, OthersUnchanged, KmUnchanged,
            kmVars, kmFiles, migrateVars, chain, clients, bounds, Generating, BeforeServer, AfterServer
<1>1. CASE SpawnKm
  BY <1>1 DEF SpawnKm
<1>2. CASE FindKeys
  BY <1>2 DEF FindKeys, KeysMissing
<1>3. CASE GenerateKeypair
  BY <1>3 DEF GenerateKeypair
<1>4. CASE StartServer
  BY <1>4 DEF StartServer
<1>5. CASE GetCoins
  BY <1>5 DEF GetCoins
<1>6. CASE NoAccount
  BY <1>6 DEF NoAccount
<1>7. CASE GetContract
  BY <1>7 DEF GetContract, GetAddress, ContractListens
<1>8. CASE CheckEth
  BY <1>8 DEF CheckEth
<1>9. CASE ContractTimeout
  BY <1>9 DEF ContractTimeout
<1>10. CASE KmFails
  BY <1>10 DEF KmFails
<1>11. CASE KillKm
  BY <1>11 DEF KillKm
<1>12. CASE DownloadPrincipal
  BY <1>12 DEF DownloadPrincipal, KMAddress
<1>13. CASE PrincipalTimeout
  BY <1>13 DEF PrincipalTimeout
<1>14. CASE GanacheListens
  BY <1>14 DEF GanacheListens
<1>15. CASE Deploy
  BY <1>15 DEF Deploy
<1>16. CASE DeployFails
  BY <1>16 DEF DeployFails
<1>17. CASE ServerDies
  BY <1>17 DEF ServerDies
<1>18. CASE SpawnGanache
  BY <1>18 DEF SpawnGanache
<1>19. CASE GanacheDies
  BY <1>19 DEF GanacheDies
<1>20. CASE StartFaucet
  BY <1>20 DEF StartFaucet
<1>21. CASE FaucetDies
  BY <1>21 DEF FaucetDies
<1>22. CASE LoadContracts
  BY <1>22 DEF LoadContracts
<1>23. CASE UNCHANGED vars
  BY <1>23 DEF vars
<1>24. QED
  BY <1>1, <1>2, <1>3, <1>4, <1>5, <1>6, <1>7, <1>8, <1>9, <1>10, <1>11, <1>12, <1>13, <1>14, <1>15, <1>16, <1>17, <1>18, <1>19, <1>20, <1>21, <1>22, <1>23
     DEF Next, KmSteps, MigrateSteps

(* The inductive invariant always holds.                                   *)
THEOREM BringupInvariant == Spec => []BringupInv
<1>1. Init => BringupInv
  <2>1. Init => KeysInv
    BY DEF Init, KeysInv, AfterServer
  <2>2. Init => DeployInv
    BY DEF Init, DeployInv
  <2>3. QED
    BY <2>1, <2>2, InitTyped DEF BringupInv
<1>2. BringupInv /\ [Next]_vars => BringupInv'
  BY TypeStep, KeysStep, DeployStep DEF BringupInv
<1>3. QED
  BY <1>1, <1>2, PTL DEF Spec

(* The contract is deployed for the key the key manager holds, however     *)
(* often and wherever the key manager is killed while it makes its keys.   *)
THEOREM PrincipalCorrect == Spec => []PrincipalIsKms
<1>1. BringupInv => PrincipalIsKms
  BY DEF BringupInv, KeysInv, DeployInv, PrincipalIsKms
<1>2. QED
  BY <1>1, BringupInvariant, PTL

(* The key manager runs on a contract deployed for its own key, unless     *)
(* somebody gave up waiting or the chain was lost.                         *)
THEOREM KmContractCorrect == Spec => []KmRunsItsContract
<1>1. BringupInv => KmRunsItsContract
  BY DEF BringupInv, TypeOK, KeysInv, DeployInv, KmRunsItsContract, Deployed
<1>2. QED
  BY <1>1, BringupInvariant, PTL

-----------------------------------------------------------------------------
(* Dead ends: what has gone wrong where the bring-up cannot go on.         *)
Fault == timeouts + failures + deaths > 0

FaultInv ==
  /\ public # 0 /\ ~account /\ km # "account" => kills > 0 \/ failures > 0
  /\ migrate = "dead" => failures > 0
  /\ migrate = "deploy" /\ ~ganache => deaths > 0
  /\ addressFiles /\ ~ganache => deaths > 0
  /\ faucet => addressFiles
  /\ migrate = "serve" /\ ~addressFiles => Fault
  /\ km = "ended" => public # 0 /\ (Fault \/ (kills > 0 /\ ~account))

(* Every step keeps FaultInv.                                              *)
LEMMA FaultStep ==
  ASSUME BringupInv, FaultInv, [Next]_vars
  PROVE  FaultInv'
<1> USE DEF BringupInv, TypeOK, KeysInv, DeployInv, FaultInv, Fault, Deployed, Goto, OthersUnchanged, KmUnchanged,
            kmVars, kmFiles, migrateVars, chain, clients, bounds, Generating, BeforeServer, AfterServer
<1>1. CASE SpawnKm
  BY <1>1 DEF SpawnKm
<1>2. CASE FindKeys
  BY <1>2 DEF FindKeys, KeysMissing
<1>3. CASE GenerateKeypair
  BY <1>3 DEF GenerateKeypair
<1>4. CASE StartServer
  BY <1>4 DEF StartServer
<1>5. CASE GetCoins
  BY <1>5 DEF GetCoins
<1>6. CASE NoAccount
  BY <1>6 DEF NoAccount
<1>7. CASE GetContract
  BY <1>7 DEF GetContract, GetAddress, ContractListens
<1>8. CASE CheckEth
  BY <1>8 DEF CheckEth
<1>9. CASE ContractTimeout
  BY <1>9 DEF ContractTimeout
<1>10. CASE KmFails
  BY <1>10 DEF KmFails
<1>11. CASE KillKm
  BY <1>11 DEF KillKm
<1>12. CASE DownloadPrincipal
  BY <1>12 DEF DownloadPrincipal, KMAddress
<1>13. CASE PrincipalTimeout
  BY <1>13 DEF PrincipalTimeout
<1>14. CASE GanacheListens
  BY <1>14 DEF GanacheListens
<1>15. CASE Deploy
  BY <1>15 DEF Deploy
<1>16. CASE DeployFails
  BY <1>16 DEF DeployFails
<1>17. CASE ServerDies
  BY <1>17 DEF ServerDies
<1>18. CASE SpawnGanache
  BY <1>18 DEF SpawnGanache
<1>19. CASE GanacheDies
  BY <1>19 DEF GanacheDies
<1>20. CASE StartFaucet
  BY <1>20 DEF StartFaucet, GetAddress, ContractListens
<1>21. CASE FaucetDies
  BY <1>21 DEF FaucetDies
<1>22. CASE LoadContracts
  BY <1>22 DEF LoadContracts, GetAddress, ContractListens
<1>23. CASE UNCHANGED vars
  BY <1>23 DEF vars
<1>24. QED
  BY <1>1, <1>2, <1>3, <1>4, <1>5, <1>6, <1>7, <1>8, <1>9, <1>10, <1>11, <1>12, <1>13, <1>14, <1>15, <1>16, <1>17, <1>18, <1>19, <1>20, <1>21, <1>22, <1>23
     DEF Next, KmSteps, MigrateSteps

(* Nobody gets stuck without a fault: a key manager whose main is over, or *)
(* a migrate.sh that has nothing to serve, met a timeout, a failure or a   *)
(* loss of the chain, or was killed while its keys were made.              *)
THEOREM NoIdleDeadEnd == Spec => []DeadEndNeedsFault
<1>1. Init => FaultInv
  BY DEF Init, FaultInv
<1>2. BringupInv /\ FaultInv /\ [Next]_vars => FaultInv'
  BY FaultStep
<1>3. BringupInv /\ FaultInv => DeadEndNeedsFault
  BY DEF BringupInv, TypeOK, FaultInv, DeadEndNeedsFault, NoAddresses, Fault
<1>4. QED
  BY <1>1, <1>2, <1>3, BringupInvariant, PTL DEF Spec

-----------------------------------------------------------------------------
(* Bringup implements Principal.                                           *)

(* Keys are made one after the other, and the last one is kept.            *)
LastKept == keypair = minted

Contract == IF deployed THEN principal ELSE 0
Working == km = "run" /\ timeouts = 0 /\ deaths = 0

(* What each action is for Principal.                                      *)
LEMMA PromiseStep ==
  ASSUME BringupInv, LastKept, [Next]_vars
  PROVE  LastKept' /\ [Promise!Next]_(Promise!principal)
<1> USE DEF BringupInv, TypeOK, KeysInv, DeployInv, LastKept, Deployed, Goto, OthersUnchanged, KmUnchanged,
            kmVars, kmFiles, migrateVars, chain, clients, bounds, Generating, BeforeServer, AfterServer,
            Contract, Working
<1>a. ASSUME UNCHANGED <<keypair, minted, principalFile, Contract, Working>>
      PROVE  LastKept' /\ [Promise!Next]_(Promise!principal)
  BY <1>a DEF Promise!principal
<1>b. ASSUME UNCHANGED <<keypair, minted, principalFile, Contract>>, ~Working'
      PROVE  LastKept' /\ [Promise!Next]_(Promise!principal)
  BY <1>b DEF Promise!Next, Promise!Stop
<1>1. CASE SpawnKm
  BY <1>1, <1>a DEF SpawnKm
<1>2. CASE FindKeys
  BY <1>2, <1>a DEF FindKeys
<1>3. CASE GenerateKeypair
  <2>1. CASE km = "keypair"
    <3>1. keypair' = keypair + 1 /\ minted' = keypair'
      BY <1>3, <2>1 DEF GenerateKeypair
    <3>2. UNCHANGED <<principalFile, Contract, Working>> /\ principalFile = 0
      BY <1>3, <2>1 DEF GenerateKeypair
    <3>3. Promise!MakeKey
      BY <3>1, <3>2 DEF Promise!MakeKey
    <3>4. QED
      BY <3>1, <3>3 DEF Promise!Next
  <2>2. CASE km # "keypair"
    BY <1>3, <1>a, <2>2 DEF GenerateKeypair
  <2>3. QED
    BY <2>1, <2>2
<1>4. CASE StartServer
  BY <1>4, <1>a DEF StartServer
<1>5. CASE GetCoins
  BY <1>5, <1>a DEF GetCoins
<1>6. CASE NoAccount
  BY <1>6, <1>a DEF NoAccount
<1>7. CASE GetContract
  BY <1>7, <1>a DEF GetContract
<1>8. CASE CheckEth
  <2>1. UNCHANGED <<keypair, minted, principalFile, Contract>> /\ ~Working
    BY <1>8 DEF CheckEth
  <2>2. CASE Working'
    <3>1. Contract # 0 /\ Contract = keypair
      BY <1>8, <2>2 DEF CheckEth
    <3>2. Promise!Work
      BY <2>1, <2>2, <3>1 DEF Promise!Work
    <3>3. QED
      BY <2>1, <3>2 DEF Promise!Next
  <2>3. QED
    BY <1>b, <2>1, <2>2
<1>9. CASE ContractTimeout
  BY <1>9, <1>b DEF ContractTimeout
<1>10. CASE KmFails
  BY <1>10, <1>b DEF KmFails
<1>11. CASE KillKm
  BY <1>11, <1>b DEF KillKm
<1>12. CASE DownloadPrincipal
  <2>1. UNCHANGED <<keypair, minted, Contract, Working>>
    BY <1>12 DEF DownloadPrincipal
  <2>2. principalFile' = keypair /\ keypair # 0
    BY <1>12 DEF DownloadPrincipal, KMAddress
  <2>3. CASE principalFile = 0
    <3>1. Promise!HandOut
      BY <2>1, <2>2, <2>3 DEF Promise!HandOut
    <3>2. QED
      BY <2>1, <3>1 DEF Promise!Next
  <2>4. CASE principalFile # 0
    BY <1>a, <2>1, <2>2, <2>4
  <2>5. QED
    BY <2>3, <2>4
<1>13. CASE PrincipalTimeout
  BY <1>13, <1>b DEF PrincipalTimeout
<1>14. CASE GanacheListens
  BY <1>14, <1>a DEF GanacheListens
<1>15. CASE Deploy
  <2>1. UNCHANGED <<keypair, minted, principalFile, Working>> /\ ~Working
    BY <1>15 DEF Deploy
  <2>2. Contract' = principalFile /\ Contract = 0
    BY <1>15 DEF Deploy
  <2>3. CASE principalFile = 0
    BY <1>a, <2>1, <2>2, <2>3
  <2>4. CASE principalFile # 0
    <3>1. Promise!Deploy
      BY <2>1, <2>2, <2>4 DEF Promise!Deploy
    <3>2. QED
      BY <2>1, <3>1 DEF Promise!Next
  <2>5. QED
    BY <2>3, <2>4
<1>16. CASE DeployFails
  BY <1>16, <1>a DEF DeployFails
<1>17. CASE ServerDies
  BY <1>17, <1>a DEF ServerDies
<1>18. CASE SpawnGanache
  BY <1>18, <1>a DEF SpawnGanache
<1>19. CASE GanacheDies
  <2>1. UNCHANGED <<keypair, minted, principalFile>> /\ Contract' = 0 /\ ~Working'
    BY <1>19 DEF GanacheDies
  <2>2. Promise!LoseChain
    BY <2>1 DEF Promise!LoseChain
  <2>3. QED
    BY <2>1, <2>2 DEF Promise!Next
<1>20. CASE StartFaucet
  BY <1>20, <1>a DEF StartFaucet
<1>21. CASE FaucetDies
  BY <1>21, <1>a DEF FaucetDies
<1>22. CASE LoadContracts
  BY <1>22, <1>a DEF LoadContracts
<1>23. CASE UNCHANGED vars
  BY <1>23, <1>a DEF vars
<1>24. QED
  BY <1>1, <1>2, <1>3, <1>4, <1>5, <1>6, <1>7, <1>8, <1>9, <1>10, <1>11, <1>12, <1>13, <1>14, <1>15, <1>16, <1>17, <1>18, <1>19, <1>20, <1>21, <1>22, <1>23
     DEF Next, KmSteps, MigrateSteps

(* The containers, with all their waits, timeouts, failures and kills,     *)
(* implement Principal: no key is made once one was handed out, the        *)
(* contract is deployed for that one, and is the key manager's to work on. *)
THEOREM PrincipalImplemented == Spec => ImplementsPrincipal
<1>1. Init => LastKept /\ Promise!Init
  BY DEF Init, LastKept, Promise!Init
<1>2. BringupInv /\ LastKept /\ [Next]_vars => LastKept' /\ [Promise!Next]_(Promise!principal)
  BY PromiseStep
<1>3. QED
  BY <1>1, <1>2, BringupInvariant, PTL DEF Spec, ImplementsPrincipal, Promise!Spec
=============================================================================
