-------------------------- MODULE Parameters_proofs --------------------------
(***************************************************************************)
(* Proofs about Parameters: the type invariant, and what the caches of     *)
(* Provider and BootstrapLoader promise, for every set of settings, any    *)
(* number of deployments, of key files and of crashes.                     *)
(***************************************************************************)
EXTENDS Parameters, TLAPS

(* The steps the two programs take.                                        *)
LEMMA ProgramSteps ==
  /\ First \in Steps /\ "ended" \in Steps
  /\ Items \subseteq Steps /\ Up \subseteq Started /\ Started \subseteq Steps
BY DEF First, Steps, Items, Started, Up

(* Where a fetch leads.                                                    *)
LEMMA AfterItemSteps ==
  ASSUME NEW p \in {"start", "cli"}, NEW item \in Items
  PROVE  /\ AfterItem[p][item] \in Items \cup {"operating", "ready"}
         /\ AfterItem[p][item] = "operating" => p = "start"
         /\ AfterItem[p][item] = "ready" => p = "cli"
<1>1. CASE p = "start"
  BY <1>1 DEF AfterItem, Items
<1>2. CASE p = "cli"
  BY <1>2 DEF AfterItem, Items
<1>3. QED
  BY <1>1, <1>2

(* The key file on its way from the loader to the node: one load for both  *)
(* of its uses, whole on disk before anything reads it.                    *)
KeyfileInv ==
  /\ pc \in {"json", "write"} => id = loaded /\ loaded # 0
  /\ bootstrap /\ program = "start" /\ pc \in {"addresses", "eth", "node"} => disk = id /\ id # 0
  /\ bootstrap /\ program = "start" /\ pc \in Started => peer = id /\ id # 0

(* The steps that only read settings.                                      *)
Reading == \/ LoadConfig \/ CreateEnvironment \/ CreateInterface \/ LoadOperatingAddress
           \/ LoadStakingAddress \/ RequestCoins \/ CreateLoader \/ BootstrapAddresses

(* What a step that reads settings does.                                   *)
LEMMA ReadingSteps ==
  ASSUME Reading
  PROVE  \E step \in Steps, next \in Steps :
           /\ Read(step, next)
           /\ next \in Items => step = "interface" \/ step = "environment"
           /\ next \notin Started \cup {"json", "write", "node", "ended"}
           /\ next = "addresses" => ~bootstrap
           /\ next = "eth" => step = "addresses"
<1>1. /\ {"config", "environment", "operating", "staking", "faucet", "loader", "keyfile",
          "addresses", "eth", "interface", "abi", "enigmaAddress"} \subseteq Steps
      /\ {"config", "environment", "operating", "staking", "faucet", "loader", "keyfile",
          "addresses", "eth", "interface"} \cap (Items \cup Started) = {}
      /\ {"abi", "enigmaAddress"} \cap Started = {}
  BY DEF Steps, Items, Started, Up
<1>2. CASE LoadConfig
  BY <1>1, <1>2 DEF LoadConfig
<1>3. CASE CreateEnvironment
  BY <1>1, <1>3 DEF CreateEnvironment
<1>4. CASE CreateInterface
  BY <1>1, <1>4 DEF CreateInterface
<1>5. CASE LoadOperatingAddress
  BY <1>1, <1>5 DEF LoadOperatingAddress
<1>6. CASE LoadStakingAddress
  BY <1>1, <1>6 DEF LoadStakingAddress
<1>7. CASE RequestCoins
  BY <1>1, <1>7 DEF RequestCoins
<1>8. CASE CreateLoader
  BY <1>1, <1>8 DEF CreateLoader
<1>9. CASE BootstrapAddresses
  BY <1>1, <1>9 DEF BootstrapAddresses
<1>10. QED
  BY <1>2, <1>3, <1>4, <1>5, <1>6, <1>7, <1>8, <1>9 DEF Reading

(* Every step keeps the type.                                              *)
LEMMA TypeStep ==
  ASSUME TypeOK, KeyfileInv, [Next]_vars
  PROVE  TypeOK'
<1> USE ParametersAssumption, ProgramSteps
        DEF TypeOK, deployment, run, provider, loader, outside, Goto, At, End
<1>1. CASE Missing
  BY <1>1 DEF Missing
<1>2. CASE Reading
  <2>1. PICK step \in Steps, next \in Steps : Read(step, next)
    BY <1>2, ReadingSteps
  <2>2. QED
    BY <2>1 DEF Read
<1>3. CASE LoadKeyfile
  BY <1>3 DEF LoadKeyfile, Load, Steps
<1>4. CASE OpenKeyfile
  BY <1>4 DEF OpenKeyfile, Load, Steps
<1>5. CASE WriteKeyfile
  BY <1>5 DEF WriteKeyfile, KeyfileInv, Steps
<1>6. CASE ParseUrl
  BY <1>6 DEF ParseUrl, Steps
<1>7. CASE StartNode
  BY <1>7 DEF StartNode, Steps, Started, Up
<1>8. CASE Approve
  BY <1>8 DEF Approve, Spender, Steps, Started, Up, Items
<1>9. CASE Spawn
  BY <1>9 DEF Spawn
<1>10. CASE Fetches
  <2>1. PICK item \in Items : Fetch(item) \/ FetchFails(item)
    BY <1>10 DEF Fetches
  <2>2. CASE Fetch(item)
    <3>1. AfterItem[program][item] \in Steps
      BY AfterItemSteps DEF Steps, Started, Up
    <3>2. cache' \in [Items -> 0 .. MaxDeploys] /\ contract' \in 0 .. MaxDeploys
      BY <2>2 DEF Fetch
    <3>3. connected' \subseteq {"abi", "address"}
      BY <2>2 DEF Fetch, Service
    <3>4. QED
      BY <2>2, <3>1, <3>2, <3>3 DEF Fetch
  <2>3. CASE FetchFails(item)
    BY <2>3 DEF FetchFails
  <2>4. QED
    BY <2>1, <2>2, <2>3
<1>11. CASE Generate
  BY <1>11 DEF Generate, Spender, Items
<1>12. CASE Crash
  BY <1>12 DEF Crash
<1>13. CASE ServerUp
  BY <1>13 DEF ServerUp
<1>14. CASE Redeploy
  <2>1. deployed' \in 1 .. MaxDeploys
    BY <1>14 DEF Redeploy
  <2>2. QED
    BY <1>14, <2>1 DEF Redeploy
<1>15. CASE ReplaceKeyfile
  BY <1>15 DEF ReplaceKeyfile
<1>16. CASE UNCHANGED vars
  BY <1>16 DEF vars
<1>17. QED
  BY <1>1, <1>2, <1>3, <1>4, <1>5, <1>6, <1>7, <1>8, <1>9, <1>10, <1>11, <1>12, <1>13, <1>14, <1>15, <1>16
  DEF Next, Settle, Reading

(* Every step keeps KeyfileInv.                                            *)
LEMMA KeyfileStep ==
  ASSUME TypeOK, KeyfileInv, [Next]_vars
  PROVE  KeyfileInv'
<1> USE ParametersAssumption
        DEF KeyfileInv, Started, Up, deployment, run, provider, loader, outside, Goto, At, End
<1>1. CASE Missing \/ Crash
  BY <1>1 DEF Missing, Crash
<1>2. CASE Reading
  <2>1. PICK step \in Steps, next \in Steps :
           /\ Read(step, next)
           /\ next \notin Started \cup {"json", "write", "node", "ended"}
           /\ next = "addresses" => ~bootstrap
           /\ next = "eth" => step = "addresses"
    BY <1>2, ReadingSteps
  <2>2. QED
    BY <2>1 DEF Read
<1>3. CASE LoadKeyfile
  BY <1>3 DEF LoadKeyfile, Load, TypeOK
<1>4. CASE OpenKeyfile
  BY <1>4 DEF OpenKeyfile, Load
<1>5. CASE WriteKeyfile
  BY <1>5 DEF WriteKeyfile
<1>6. CASE ParseUrl
  BY <1>6 DEF ParseUrl
<1>7. CASE StartNode
  BY <1>7 DEF StartNode
<1>8. CASE Approve
  BY <1>8 DEF Approve
<1>9. CASE Spawn
  BY <1>9 DEF Spawn, First
<1>10. CASE Fetches
  <2>1. PICK item \in Items : Fetch(item) \/ FetchFails(item)
    BY <1>10 DEF Fetches
  <2>2. CASE Fetch(item)
    <3>1. /\ pc' \in Items \cup {"operating", "ready"}
          /\ pc' = "ready" => program = "cli"
      BY <2>2, AfterItemSteps DEF Fetch, TypeOK
    <3>2. UNCHANGED <<deployment, loader>>
      BY <2>2 DEF Fetch
    <3>3. QED
      BY <3>1, <3>2 DEF Items
  <2>3. CASE FetchFails(item)
    BY <2>3 DEF FetchFails
  <2>4. QED
    BY <2>1, <2>2, <2>3
<1>11. CASE Generate \/ ServerUp \/ Redeploy \/ ReplaceKeyfile
  BY <1>11 DEF Generate, ServerUp, Redeploy, ReplaceKeyfile
<1>12. CASE UNCHANGED vars
  BY <1>12 DEF vars
<1>13. QED
  BY <1>1, <1>2, <1>3, <1>4, <1>5, <1>6, <1>7, <1>8, <1>9, <1>10, <1>11, <1>12
  DEF Next, Settle, Reading

(* The type and KeyfileInv always hold.                                    *)
LEMMA ParametersInvariant == Spec => [](TypeOK /\ KeyfileInv)
<1>1. Init => TypeOK /\ KeyfileInv
  <2> SUFFICES ASSUME Init PROVE TypeOK /\ KeyfileInv
    OBVIOUS
  <2>1. pc \in Steps /\ at \in Steps
    BY ProgramSteps DEF Init
  <2>2. cache \in [Items -> 0 .. MaxDeploys]
    BY ParametersAssumption DEF Init
  <2>3. /\ contract \in 0 .. MaxDeploys /\ spender \in 0 .. MaxDeploys
        /\ deployed \in 1 .. MaxDeploys /\ began \in 1 .. MaxDeploys
    BY ParametersAssumption DEF Init
  <2>4. /\ loaded \in 0 .. MaxKeyfiles /\ id \in 0 .. MaxKeyfiles
        /\ stored \in 1 .. MaxKeyfiles /\ crashes \in 0 .. MaxCrashes
    BY ParametersAssumption DEF Init
  <2>5. program \in {"start", "cli"} /\ bootstrap \in BOOLEAN /\ serving \in BOOLEAN
    BY DEF Init
  <2>6. TypeOK
    BY <2>1, <2>2, <2>3, <2>4, <2>5 DEF Init, TypeOK
  <2>7. KeyfileInv
    BY DEF Init, KeyfileInv, First, Started, Up
  <2>8. QED
    BY <2>6, <2>7
<1>2. TypeOK /\ KeyfileInv /\ [Next]_vars => (TypeOK /\ KeyfileInv)'
  BY TypeStep, KeyfileStep
<1>3. QED
  BY <1>1, <1>2, PTL DEF Spec

(* The state of the programs, of what they have read and of the outside    *)
(* always has its type.                                                    *)
THEOREM TypeCorrect == Spec => []TypeOK
  BY ParametersInvariant, PTL

(* A bootstrap node is started with the whole key file its id was read     *)
(* from, whatever is replaced in storage and wherever runs ended: the      *)
(* loader loads once, and a file that is left empty is written again.      *)
THEOREM KeyfileCorrect == Spec => []KeyfileOfId
<1>1. KeyfileInv => KeyfileOfId
  BY DEF KeyfileInv, KeyfileOfId
<1>2. QED
  BY <1>1, ParametersInvariant, PTL

-----------------------------------------------------------------------------
(* Provider's cache: what it holds was deployed during this run or when it *)
(* began, and the contract and the spender come from the same entry.       *)
CacheInv ==
  /\ began <= deployed
  /\ \A item \in Items : cache[item] # 0 => cache[item] \in began .. deployed
  /\ contract = cache["enigmaAddress"]
  /\ spender # 0 => spender = contract /\ pc \in Up \cup {"ended"}

(* Every step keeps CacheInv.                                              *)
LEMMA CacheStep ==
  ASSUME TypeOK, CacheInv, [Next]_vars
  PROVE  CacheInv'
<1> USE ParametersAssumption DEF deployment, run, provider, loader, outside, Goto, At, End
<1>1. CASE UNCHANGED <<provider, began, deployed>> /\ (pc \in Up => pc' \in Up \cup {"ended"})
           /\ (pc = "ended" => pc' = "ended")
  BY <1>1 DEF CacheInv
<1>2. CASE Reading
  <2>1. PICK step \in Steps, next \in Steps : Read(step, next)
    BY <1>2, ReadingSteps
  <2>2. step # "ended" /\ step \notin Up
    BY <1>2, <2>1 DEF Read, Reading, LoadConfig, CreateEnvironment, CreateInterface,
       LoadOperatingAddress, LoadStakingAddress, RequestCoins, CreateLoader, BootstrapAddresses, Up
  <2>3. QED
    BY <2>1, <2>2, <1>1 DEF Read
<1>3. CASE Missing
  BY <1>3, <1>1 DEF Missing
<1>4. CASE LoadKeyfile \/ OpenKeyfile \/ WriteKeyfile \/ ParseUrl \/ StartNode
  BY <1>4, <1>1 DEF LoadKeyfile, OpenKeyfile, WriteKeyfile, ParseUrl, StartNode, Up
<1>5. CASE Approve \/ Generate
  BY <1>5 DEF Approve, Generate, Spender, CacheInv, Up
<1>6. CASE Spawn
  BY <1>6 DEF Spawn, CacheInv, TypeOK, Items
<1>7. CASE Fetches
  <2>1. PICK item \in Items : Fetch(item) \/ FetchFails(item)
    BY <1>7 DEF Fetches
  <2>2. CASE Fetch(item)
    <3>1. pc \notin Up \cup {"ended"} /\ spender' = spender
      BY <2>2 DEF Fetch, Items, Up
    <3>2. spender' = 0
      BY <3>1 DEF CacheInv
    <3>3. began' = began /\ deployed' = deployed /\ began <= deployed
      BY <2>2 DEF Fetch, CacheInv
    <3>4. \A i \in Items : cache'[i] = IF i = item THEN deployed ELSE cache[i]
      BY <2>2 DEF Fetch, TypeOK
    <3>5. \A i \in Items : cache'[i] # 0 => cache'[i] \in began .. deployed
      BY <3>3, <3>4 DEF CacheInv, TypeOK
    <3>6. contract' = cache'["enigmaAddress"]
      BY <2>2, <3>4 DEF Fetch, CacheInv, Items
    <3>7. QED
      BY <3>2, <3>3, <3>5, <3>6 DEF CacheInv
  <2>3. CASE FetchFails(item)
    BY <2>3, <1>1 DEF FetchFails
  <2>4. QED
    BY <2>1, <2>2, <2>3
<1>8. CASE Crash
  BY <1>8, <1>1 DEF Crash
<1>9. CASE ServerUp \/ ReplaceKeyfile
  BY <1>9, <1>1 DEF ServerUp, ReplaceKeyfile
<1>10. CASE Redeploy
  <2>1. UNCHANGED <<cache, contract, spender, pc, began>> /\ deployed' = deployed + 1
    BY <1>10 DEF Redeploy
  <2>2. QED
    BY <2>1 DEF CacheInv, TypeOK
<1>11. CASE UNCHANGED vars
  BY <1>11, <1>1 DEF vars
<1>12. QED
  BY <1>2, <1>3, <1>4, <1>5, <1>6, <1>7, <1>8, <1>9, <1>10, <1>11 DEF Next, Settle, Reading

(* CacheInv always holds.                                                  *)
LEMMA CacheInvariant == Spec => []CacheInv
<1>1. Init => CacheInv
  BY DEF Init, CacheInv, Items
<1>2. TypeOK /\ CacheInv /\ [Next]_vars => CacheInv'
  BY CacheStep
<1>3. QED
  BY <1>1, <1>2, TypeCorrect, PTL DEF Spec

(* The deposit is approved to the contract that is then asked to take it,  *)
(* however often the contracts are deployed in between, and that contract  *)
(* is one deployed in this run or the last before it.                      *)
THEOREM ApprovedToOne == Spec => []OneContract
<1>1. TypeOK /\ CacheInv => OneContract
  <2> SUFFICES ASSUME TypeOK, CacheInv, spender # 0
               PROVE  spender = contract /\ contract >= began
    BY DEF OneContract
  <2>1. spender = contract /\ contract = cache["enigmaAddress"]
    BY DEF CacheInv
  <2>2. cache["enigmaAddress"] \in began .. deployed
    BY <2>1 DEF CacheInv, Items
  <2>3. began \in Nat /\ deployed \in Nat
    BY DEF TypeOK
  <2>4. QED
    BY <2>1, <2>2, <2>3
<1>2. QED
  BY <1>1, TypeCorrect, CacheInvariant, PTL

-----------------------------------------------------------------------------
(* What each part of start.py, or of the CLI, has made sure of, for all    *)
(* that come after it.                                                     *)
Named == setting # "unset"
NumericTimeout == "CONTRACT_TIMEOUT" \in given => setting \in {"TESTNET", "MAINNET"}
OperatingGiven == bootstrap /\ setting = "TESTNET" => "OPERATING_PRIVATE_KEY" \in given
StakingGiven ==
  /\ bootstrap /\ setting \in {"TESTNET", "MAINNET"} => "STAKING_PRIVATE_KEY" \in given
  /\ ~bootstrap /\ setting = "MAINNET" => "STAKE_KEY_PATH" \in given
CredentialGiven == bootstrap /\ setting # "COMPOSE" => "STORAGE_CONNECTION_STRING" \in given
PathGiven == bootstrap => /\ "BOOTSTRAP_PATH" \notin bare
                          /\ setting = "MAINNET" => "BOOTSTRAP_PATH" \in given
PortKnown == "ETH_NODE_ADDRESS" \notin bare

FromNode == {"node", "approve", "serving", "ready"}
FromAddresses == FromNode \cup {"write", "addresses", "eth"}
FromJson == FromAddresses \cup {"json"}
FromFaucet == FromJson \cup {"faucet", "loader", "keyfile"}
FromStaking == FromFaucet \cup {"staking"}
FromTokenAbi == FromStaking \cup {"tokenAbi", "enigmaAddress", "operating"}
FromAbi == FromTokenAbi \cup {"abi", "tokenAddress"}

StartInv ==
  /\ pc # "interface"
  /\ pc \in FromAbi => Named
  /\ pc \in FromTokenAbi => NumericTimeout
  /\ pc \in FromStaking => OperatingGiven
  /\ pc \in FromFaucet => StakingGiven
  /\ pc \in FromJson => CredentialGiven
  /\ pc \in FromAddresses => PathGiven
  /\ pc \in FromNode => PortKnown

CliInv ==
  /\ pc \in {"ended", "interface", "ready"} \cup Items
  /\ pc \in {"ready"} \cup Items => (setting = "MAINNET" => "STAKE_KEY_PATH" \in given)
  /\ pc \in {"ready", "tokenAddress", "abi", "tokenAbi"} => NumericTimeout
  /\ pc \in {"ready", "tokenAbi"} => Named

GivenInv ==
  /\ program = "start" => StartInv
  /\ program = "cli" => CliInv
  /\ "address" \in connected => NumericTimeout

(* What the shipped files leave out.                                       *)
LEMMA NotShipped ==
  /\ {"OPERATING_PRIVATE_KEY", "STAKING_PRIVATE_KEY"} \cap File("TESTNET") = {}
  /\ {"STAKING_PRIVATE_KEY", "STAKE_KEY_PATH"} \cap File("MAINNET") = {}
  /\ \A s : "ENIGMA_ENV" \notin File(s)
<1>1. {"OPERATING_PRIVATE_KEY", "STAKING_PRIVATE_KEY", "STAKE_KEY_PATH", "ENIGMA_ENV"} \cap Common = {}
  BY DEF Common
<1>2. /\ {"OPERATING_PRIVATE_KEY", "STAKING_PRIVATE_KEY"} \cap File("TESTNET") = {}
      /\ {"STAKING_PRIVATE_KEY", "STAKE_KEY_PATH"} \cap File("MAINNET") = {}
  BY <1>1 DEF File
<1>3. ASSUME NEW s PROVE "ENIGMA_ENV" \notin File(s)
  BY <1>1 DEF File
<1>4. QED
  BY <1>2, <1>3

(* What is in neither the file nor the environment is not read.            *)
LEMMA GivenOrShipped ==
  ASSUME TypeOK, NEW name \in Available, name # "ENIGMA_ENV"
  PROVE  name \in given \/ name \in File(setting)
BY DEF Available

(* Only the environment says which deployment this is.                     *)
LEMMA NamedWhenRead ==
  ASSUME TypeOK, "ENIGMA_ENV" \in Available
  PROVE  Named
BY NotShipped, ParametersAssumption DEF TypeOK, Available, Named, Settable

(* A fetch of an address finds a timeout it can use.                       *)
LEMMA FetchedAddress ==
  ASSUME TypeOK, GivenInv, NEW item \in Items, Fetch(item)
  PROVE  /\ Service(item) = "address" => NumericTimeout
         /\ "address" \in connected' => NumericTimeout
         /\ Service(item) = "abi" => setting \in {"TESTNET", "MAINNET"} \/ Named
<1>1. CASE Local
  <2>1. ~TextTimeout(item) /\ ~WrongName(item) /\ connected' = connected \cup {Service(item)}
    BY <1>1 DEF Fetch
  <2>2. QED
    BY <2>1 DEF TextTimeout, WrongName, Service, GivenInv, NumericTimeout, Named
<1>2. CASE ~Local
  BY <1>2 DEF Fetch, Local, NumericTimeout
<1>3. QED
  BY <1>1, <1>2

(* Settings do not change.                                                 *)
LEMMA DeploymentFixed ==
  ASSUME [Next]_vars
  PROVE  UNCHANGED deployment
BY DEF Next, Settle, Fetches, Missing, LoadConfig, CreateEnvironment, CreateInterface,
     LoadOperatingAddress, LoadStakingAddress, RequestCoins, CreateLoader, LoadKeyfile, OpenKeyfile,
     WriteKeyfile, BootstrapAddresses, ParseUrl, StartNode, Approve, Spawn, Fetch, FetchFails,
     Generate, Crash, ServerUp, Redeploy, ReplaceKeyfile, Read, vars

(* Every step keeps StartInv.                                              *)
LEMMA StartStep ==
  ASSUME TypeOK, GivenInv, program = "start", [Next]_vars
  PROVE  StartInv'
<1>1. StartInv
  BY DEF GivenInv
<1>2. UNCHANGED deployment
  BY DeploymentFixed
<1>3. /\ Named' = Named /\ NumericTimeout' = NumericTimeout /\ OperatingGiven' = OperatingGiven
      /\ StakingGiven' = StakingGiven /\ CredentialGiven' = CredentialGiven
      /\ PathGiven' = PathGiven /\ PortKnown' = PortKnown
  BY <1>2 DEF deployment, Named, NumericTimeout, OperatingGiven, StakingGiven, CredentialGiven, PathGiven, PortKnown
<1> USE DEF FromAbi, FromTokenAbi, FromStaking, FromFaucet, FromJson, FromAddresses, FromNode, At, Goto, End
<1>4. CASE pc' = pc \/ pc' \in {"ended", "config"}
  BY <1>1, <1>3, <1>4 DEF StartInv
<1>5. CASE LoadConfig
  BY <1>1, <1>3, <1>5 DEF StartInv, LoadConfig, Read
<1>6. CASE CreateEnvironment
  <2>1. Named
    BY <1>6, NamedWhenRead DEF CreateEnvironment, Read, Reads
  <2>2. QED
    BY <1>1, <1>3, <1>6, <2>1 DEF StartInv, CreateEnvironment, Read
<1>7. CASE LoadOperatingAddress
  <2>1. OperatingGiven
    BY <1>7, GivenOrShipped, NotShipped
    DEF LoadOperatingAddress, Read, Reads, OperatingGiven, load_operating_key_from_config, testnet, d
  <2>2. QED
    BY <1>1, <1>3, <1>7, <2>1 DEF StartInv, LoadOperatingAddress, Read
<1>8. CASE LoadStakingAddress
  <2>1. ASSUME bootstrap, setting \in {"TESTNET", "MAINNET"} PROVE "STAKING_PRIVATE_KEY" \in given
    <3>1. StakingSource(d) = "config"
      BY <2>1 DEF StakingSource, load_staking_from_config, load_staking_from_cli, testing, d
    <3>2. "STAKING_PRIVATE_KEY" \in Available
      BY <1>8, <3>1 DEF LoadStakingAddress, Read, Reads
    <3>3. QED
      BY <2>1, <3>2, GivenOrShipped, NotShipped
  <2>2. ASSUME ~bootstrap, setting = "MAINNET" PROVE "STAKE_KEY_PATH" \in given
    <3>1. StakingSource(d) = "cli"
      BY <2>2 DEF StakingSource, load_staking_from_cli, testing, d
    <3>2. "STAKE_KEY_PATH" \in Available
      BY <1>8, <3>1 DEF LoadStakingAddress, Read, Reads
    <3>3. QED
      BY <2>2, <3>2, GivenOrShipped, NotShipped
  <2>3. StakingGiven
    BY <2>1, <2>2 DEF StakingGiven
  <2>4. QED
    BY <1>1, <1>3, <1>8, <2>3 DEF StartInv, LoadStakingAddress, Read
<1>9. CASE RequestCoins
  BY <1>1, <1>3, <1>9 DEF StartInv, RequestCoins, Read
<1>10. CASE CreateLoader
  <2>1. ~bootstrap => CredentialGiven /\ PathGiven
    BY DEF CredentialGiven, PathGiven
  <2>2. QED
    BY <1>1, <1>3, <1>10, <2>1 DEF StartInv, CreateLoader, Read
<1>11. CASE LoadKeyfile /\ pc' # "ended"
  <2>1. CredentialGiven
    BY <1>11 DEF LoadKeyfile, CredentialGiven, Credential
  <2>2. QED
    BY <1>1, <1>3, <1>11, <2>1 DEF StartInv, LoadKeyfile
<1>12. CASE OpenKeyfile /\ pc' # "ended"
  <2>1. PathGiven
    BY <1>12 DEF OpenKeyfile, PathGiven, Openable, TypeOK
  <2>2. QED
    BY <1>1, <1>3, <1>12, <2>1 DEF StartInv, OpenKeyfile
<1>13. CASE WriteKeyfile \/ BootstrapAddresses
  BY <1>1, <1>3, <1>13 DEF StartInv, WriteKeyfile, BootstrapAddresses, Read
<1>14. CASE ParseUrl /\ pc' # "ended"
  <2>1. PortKnown
    BY <1>14 DEF ParseUrl, PortKnown, HasPort
  <2>2. QED
    BY <1>1, <1>3, <1>14, <2>1 DEF StartInv, ParseUrl
<1>15. CASE StartNode \/ Approve
  BY <1>1, <1>3, <1>15 DEF StartInv, StartNode, Approve
<1>16. CASE CreateInterface
  BY <1>1, <1>3, <1>16 DEF StartInv, CreateInterface, Read, GivenInv
<1>17. CASE \E item \in Items : Fetch(item)
  <2>1. PICK item \in Items : Fetch(item)
    BY <1>17
  <2>2. pc = item /\ pc' = AfterItem["start"][item]
    BY <2>1 DEF Fetch
  <2>3. item \in {"abi", "tokenAddress", "tokenAbi", "enigmaAddress"}
    BY DEF Items
  <2>4. CASE item = "abi"
    <3>1. pc' = "tokenAddress"
      BY <2>2, <2>4 DEF AfterItem
    <3>2. QED
      BY <1>1, <1>3, <2>2, <2>4, <3>1 DEF StartInv
  <2>5. CASE item = "tokenAddress"
    <3>1. pc' = "tokenAbi"
      BY <2>2, <2>5 DEF AfterItem
    <3>2. NumericTimeout
      BY <2>1, <2>5, FetchedAddress DEF Service
    <3>3. QED
      BY <1>1, <1>3, <2>2, <2>5, <3>1, <3>2 DEF StartInv
  <2>6. CASE item = "tokenAbi"
    <3>1. pc' = "enigmaAddress"
      BY <2>2, <2>6 DEF AfterItem
    <3>2. QED
      BY <1>1, <1>3, <2>2, <2>6, <3>1 DEF StartInv
  <2>7. CASE item = "enigmaAddress"
    <3>1. pc' = "operating"
      BY <2>2, <2>7 DEF AfterItem
    <3>2. QED
      BY <1>1, <1>3, <2>2, <2>7, <3>1 DEF StartInv
  <2>8. QED
    BY <2>3, <2>4, <2>5, <2>6, <2>7
<1>18. CASE Missing \/ Crash \/ Spawn \/ Generate \/ ServerUp \/ Redeploy \/ ReplaceKeyfile
            \/ (\E item \in Items : FetchFails(item)) \/ UNCHANGED vars
  <2>1. pc' = pc \/ pc' \in {"ended", "config"}
    BY <1>18 DEF Missing, Crash, Spawn, First, Generate, ServerUp, Redeploy, ReplaceKeyfile, FetchFails,
       run, vars
  <2>2. QED
    BY <2>1, <1>4
<1>19. QED
  BY <1>4, <1>5, <1>6, <1>7, <1>8, <1>9, <1>10, <1>11, <1>12, <1>13, <1>14, <1>15, <1>16, <1>17, <1>18
  DEF Next, Settle, Fetches

(* Every step keeps CliInv.                                                *)
LEMMA CliStep ==
  ASSUME TypeOK, GivenInv, program = "cli", [Next]_vars
  PROVE  CliInv'
<1>1. CliInv
  BY DEF GivenInv
<1>2. UNCHANGED deployment
  BY DeploymentFixed
<1>3. Named' = Named /\ NumericTimeout' = NumericTimeout
  BY <1>2 DEF deployment, Named, NumericTimeout
<1> USE DEF At, Goto, End, deployment
<1>4. CASE pc' = pc \/ pc' \in {"ended", "interface"}
  BY <1>1, <1>2, <1>3, <1>4 DEF CliInv, Items
<1>5. CASE CreateInterface
  <2>1. setting = "MAINNET" => "STAKE_KEY_PATH" \in given
    BY <1>5, GivenOrShipped, NotShipped DEF CreateInterface, Read, Reads
  <2>2. QED
    BY <1>1, <1>2, <1>3, <1>5, <2>1 DEF CliInv, CreateInterface, Read, Items
<1>6. CASE \E item \in Items : Fetch(item)
  <2>1. PICK item \in Items : Fetch(item)
    BY <1>6
  <2>2. pc = item /\ pc' = AfterItem["cli"][item]
    BY <2>1 DEF Fetch
  <2>3. item \in {"abi", "tokenAddress", "tokenAbi", "enigmaAddress"}
    BY DEF Items
  <2>4. setting = "MAINNET" => "STAKE_KEY_PATH" \in given
    BY <1>1, <2>2 DEF CliInv
  <2>5. CASE item = "enigmaAddress"
    <3>1. pc' = "tokenAddress"
      BY <2>2, <2>5 DEF AfterItem
    <3>2. NumericTimeout
      BY <2>1, <2>5, FetchedAddress DEF Service
    <3>3. QED
      BY <1>2, <1>3, <2>4, <3>1, <3>2 DEF CliInv, Items
  <2>6. CASE item = "tokenAddress"
    <3>1. pc' = "abi"
      BY <2>2, <2>6 DEF AfterItem
    <3>2. QED
      BY <1>1, <1>2, <1>3, <2>2, <2>4, <2>6, <3>1 DEF CliInv, Items
  <2>7. CASE item = "abi"
    <3>1. pc' = "tokenAbi"
      BY <2>2, <2>7 DEF AfterItem
    <3>2. Named
      BY <2>1, <2>7, FetchedAddress DEF Service, Named
    <3>3. QED
      BY <1>1, <1>2, <1>3, <2>2, <2>4, <2>7, <3>1, <3>2 DEF CliInv, Items
  <2>8. CASE item = "tokenAbi"
    <3>1. pc' = "ready"
      BY <2>2, <2>8 DEF AfterItem
    <3>2. QED
      BY <1>1, <1>2, <1>3, <2>2, <2>4, <2>8, <3>1 DEF CliInv, Items
  <2>9. QED
    BY <2>3, <2>5, <2>6, <2>7, <2>8
<1>7. CASE Missing \/ Crash \/ Spawn \/ Generate \/ ServerUp \/ Redeploy \/ ReplaceKeyfile
           \/ (\E item \in Items : FetchFails(item)) \/ UNCHANGED vars
  <2>1. pc' = pc \/ pc' \in {"ended", "interface"}
    BY <1>7 DEF Missing, Crash, Spawn, First, Generate, ServerUp, Redeploy, ReplaceKeyfile, FetchFails,
       run, vars
  <2>2. QED
    BY <2>1, <1>4
<1>8. CASE LoadConfig \/ CreateEnvironment \/ LoadOperatingAddress \/ LoadStakingAddress
           \/ RequestCoins \/ CreateLoader \/ LoadKeyfile \/ OpenKeyfile \/ WriteKeyfile
           \/ BootstrapAddresses \/ ParseUrl \/ StartNode \/ Approve
  <2>1. pc \in {"config", "environment", "operating", "staking", "faucet", "loader", "keyfile",
               "json", "write", "addresses", "eth", "node", "approve"}
    BY <1>8 DEF LoadConfig, CreateEnvironment, LoadOperatingAddress, LoadStakingAddress, RequestCoins,
       CreateLoader, LoadKeyfile, OpenKeyfile, WriteKeyfile, BootstrapAddresses, ParseUrl, StartNode,
       Approve, Read
  <2>2. QED
    BY <1>1, <2>1 DEF CliInv, Items
<1>9. QED
  BY <1>5, <1>6, <1>7, <1>8 DEF Next, Settle, Fetches

(* Every step keeps what is known of the settings.                         *)
LEMMA GivenStep ==
  ASSUME TypeOK, GivenInv, [Next]_vars
  PROVE  GivenInv'
<1>1. UNCHANGED deployment
  BY DeploymentFixed
<1>2. NumericTimeout' = NumericTimeout /\ program' = program
  BY <1>1 DEF deployment, NumericTimeout
<1>3. "address" \in connected' => NumericTimeout
  <2>1. CASE connected' \subseteq connected
    BY <2>1 DEF GivenInv
  <2>2. CASE \E item \in Items : Fetch(item)
    BY <2>2, FetchedAddress
  <2>3. QED
    BY <2>1, <2>2 DEF Next, Settle, Fetches, Missing, LoadConfig, CreateEnvironment, CreateInterface,
     LoadOperatingAddress, LoadStakingAddress, RequestCoins, CreateLoader, LoadKeyfile, OpenKeyfile,
     WriteKeyfile, BootstrapAddresses, ParseUrl, StartNode, Approve, Spawn, FetchFails,
     Generate, Crash, ServerUp, Redeploy, ReplaceKeyfile, Read, provider, vars
<1>4. QED
  BY <1>2, <1>3, StartStep, CliStep DEF GivenInv

(* A program gets to its node, or to its prompt, only with everything it   *)
(* needs: what is missing ends it before.                                  *)
THEOREM CompleteWhenStarted == Spec => []StartedComplete
<1>1. Init => GivenInv
  BY DEF Init, First, GivenInv, StartInv, CliInv, Items, FromAbi, FromTokenAbi, FromStaking, FromFaucet,
     FromJson, FromAddresses, FromNode
<1>2. TypeOK /\ GivenInv /\ [Next]_vars => GivenInv'
  BY GivenStep
<1>3. TypeOK /\ GivenInv => StartedComplete
  <2> SUFFICES ASSUME TypeOK, GivenInv, pc \in Started PROVE Sufficient
    BY DEF StartedComplete
  <2>1. CASE program = "start"
    <3>1. /\ Named /\ NumericTimeout /\ OperatingGiven /\ StakingGiven /\ CredentialGiven
          /\ PathGiven /\ PortKnown
      BY <2>1 DEF GivenInv, StartInv, Started, Up, FromAbi, FromTokenAbi, FromStaking, FromFaucet,
         FromJson, FromAddresses, FromNode
    <3>2. QED
      BY <2>1, <3>1 DEF Sufficient, Named, NumericTimeout, OperatingGiven, StakingGiven, CredentialGiven,
         PathGiven, PortKnown
  <2>2. CASE program = "cli"
    BY <2>2 DEF GivenInv, CliInv, Started, Up, Items, Sufficient, Named, NumericTimeout
  <2>3. QED
    BY <2>1, <2>2 DEF TypeOK
<1>4. QED
  BY <1>1, <1>2, <1>3, TypeCorrect, PTL DEF Spec
-----------------------------------------------------------------------------
(* EnoughGiven: the other half.  With a sufficient setting every name that *)
(* is read is there.                                                       *)
LEMMA CommonAvailable ==
  ASSUME TypeOK, Named
  PROVE  Common \cup {"ENIGMA_ENV"} \subseteq Available
BY DEF Available, File, Named

(* The names the files share are all that most steps read.                 *)
LEMMA MostlyCommon ==
  /\ Reads("config") \subseteq Common
  /\ Reads("environment") \subseteq Common \cup {"ENIGMA_ENV"}
  /\ Reads("faucet") \subseteq Common \cup {"ENIGMA_ENV"}
  /\ Reads("eth") \subseteq Common
  /\ Reads("loader") \subseteq Common \cup (IF setting = "COMPOSE" THEN {"LOCAL_LIBP2P_KEY_PATH"} ELSE {})
<1>1. Reads("config") \subseteq Common
  BY DEF Reads, required_config, Common
<1>2. Reads("environment") \subseteq Common \cup {"ENIGMA_ENV"}
  BY DEF Reads, Common
<1>3. Reads("faucet") \subseteq Common \cup {"ENIGMA_ENV"}
  BY DEF Reads, Common
<1>4. Reads("eth") \subseteq Common
  BY DEF Reads, Common
<1>5. Reads("loader") \subseteq Common \cup (IF setting = "COMPOSE" THEN {"LOCAL_LIBP2P_KEY_PATH"} ELSE {})
  BY DEF Reads, Common
<1>6. QED
  BY <1>1, <1>2, <1>3, <1>4, <1>5

(* A keystore's place is known unless the setting is MAINNET.              *)
LEMMA StakePathShipped ==
  ASSUME setting # "MAINNET"
  PROVE  "STAKE_KEY_PATH" \in Available
BY DEF Available, File

(* Nothing that a step reads is missing from a sufficient setting.         *)
LEMMA NothingMissing ==
  ASSUME TypeOK, GivenInv, Sufficient
  PROVE  Reads(pc) \subseteq Available
<1>1. Named /\ Common \cup {"ENIGMA_ENV"} \subseteq Available
  BY CommonAvailable DEF Sufficient, Named
<1>2. CASE pc \in {"config", "environment", "faucet", "eth"}
  BY <1>1, <1>2, MostlyCommon
<1>3. CASE pc = "loader"
  <2>1. setting = "COMPOSE" => "LOCAL_LIBP2P_KEY_PATH" \in Available
    BY DEF Available, File
  <2>2. QED
    BY <1>1, <1>3, <2>1, MostlyCommon
<1>4. CASE pc = "operating"
  <2>1. program = "start"
    BY <1>4 DEF GivenInv, CliInv, Items, TypeOK
  <2>2. bootstrap /\ setting = "TESTNET" => "OPERATING_PRIVATE_KEY" \in Available
    BY <2>1 DEF Sufficient, Available
  <2>3. load_operating_key_from_config(d) => bootstrap /\ setting = "TESTNET"
    BY DEF load_operating_key_from_config, testnet, d
  <2>4. QED
    BY <1>4, <2>2, <2>3 DEF Reads
<1>5. CASE pc = "staking"
  <2>1. program = "start"
    BY <1>5 DEF GivenInv, CliInv, Items, TypeOK
  <2>2. CASE StakingSource(d) = "config"
    <3>1. bootstrap /\ setting \in {"TESTNET", "MAINNET"}
      <4>1. load_staking_from_config(d)
        BY <2>2 DEF StakingSource
      <4>2. d.bootstrap = bootstrap /\ (d.env # "testing" => setting \in {"TESTNET", "MAINNET"})
        BY DEF d
      <4>3. QED
        BY <4>1, <4>2 DEF load_staking_from_config, testing
    <3>2. "STAKING_PRIVATE_KEY" \in Available
      BY <2>1, <3>1 DEF Sufficient, Available
    <3>3. QED
      BY <1>5, <2>2, <3>2 DEF Reads
  <2>3. CASE StakingSource(d) = "cli"
    <3>1. ~bootstrap
      <4>1. load_staking_from_cli(d)
        BY <2>3 DEF StakingSource
      <4>2. d.bootstrap = bootstrap
        BY DEF d
      <4>3. QED
        BY <4>1, <4>2 DEF load_staking_from_cli
    <3>2. setting = "MAINNET" => "STAKE_KEY_PATH" \in Available
      BY <2>1, <3>1 DEF Sufficient, Available
    <3>3. {"STAKE_KEY_PATH", "STAKE_KEY_NAME"} \subseteq Available
      BY <1>1, <3>2, StakePathShipped DEF Common
    <3>4. QED
      BY <1>5, <2>3, <3>3 DEF Reads
  <2>4. CASE StakingSource(d) \notin {"config", "cli"}
    BY <1>5, <2>4 DEF Reads
  <2>5. QED
    BY <2>2, <2>3, <2>4
<1>6. CASE pc = "interface"
  <2>1. program = "cli"
    BY <1>6 DEF GivenInv, StartInv, TypeOK
  <2>2. "STAKE_KEY_PATH" \in Available
    BY <2>1, StakePathShipped DEF Sufficient, Available
  <2>3. QED
    BY <1>6, <2>2 DEF Reads
<1>7. CASE pc \notin {"config", "environment", "faucet", "eth", "loader", "operating", "staking", "interface"}
  BY <1>7 DEF Reads
<1>8. QED
  BY <1>2, <1>3, <1>4, <1>5, <1>6, <1>7

(* The key file is asked for by bootstrap nodes only, and why a run ended  *)
(* is nothing the operator could have given.                               *)
SufficeInv ==
  /\ pc \in {"keyfile", "json"} => bootstrap
  /\ Sufficient => why \in {"none", "connection", "timeout", "crash"}

(* Every step keeps SufficeInv.                                            *)
LEMMA SufficeStep ==
  ASSUME TypeOK, GivenInv, SufficeInv, [Next]_vars
  PROVE  SufficeInv'
<1>1. UNCHANGED deployment
  BY DeploymentFixed
<1>2. Sufficient' = Sufficient /\ bootstrap' = bootstrap
  BY <1>1 DEF deployment, Sufficient
<1> USE DEF At, Goto, End
<1>3. ASSUME why' = why, pc' \in {"keyfile", "json"} => bootstrap PROVE SufficeInv'
  BY <1>2, <1>3 DEF SufficeInv
<1>4. ASSUME pc' = "ended", Sufficient => why' \in {"connection", "timeout", "crash"} PROVE SufficeInv'
  BY <1>2, <1>4 DEF SufficeInv
<1>5. CASE Missing
  BY <1>4, <1>5, NothingMissing DEF Missing
<1>6. CASE \/ LoadConfig \/ CreateEnvironment \/ CreateInterface \/ LoadOperatingAddress
           \/ LoadStakingAddress \/ RequestCoins \/ CreateLoader \/ BootstrapAddresses
  BY <1>3, <1>6 DEF LoadConfig, CreateEnvironment, CreateInterface, LoadOperatingAddress,
     LoadStakingAddress, RequestCoins, CreateLoader, BootstrapAddresses, Read
<1>7. CASE LoadKeyfile
  <2>1. bootstrap /\ program = "start"
    BY <1>7 DEF LoadKeyfile, SufficeInv, GivenInv, CliInv, Items, TypeOK
  <2>2. Sufficient => Credential
    BY <2>1 DEF Sufficient, Credential
  <2>3. QED
    BY <1>3, <1>4, <1>7, <2>1, <2>2 DEF LoadKeyfile
<1>8. CASE OpenKeyfile
  <2>1. bootstrap /\ program = "start"
    BY <1>8 DEF OpenKeyfile, SufficeInv, GivenInv, CliInv, Items, TypeOK
  <2>2. Sufficient => Openable
    BY <2>1 DEF Sufficient, Openable
  <2>3. QED
    BY <1>3, <1>4, <1>8, <2>1, <2>2 DEF OpenKeyfile
<1>9. CASE WriteKeyfile \/ StartNode \/ Approve
  BY <1>3, <1>9 DEF WriteKeyfile, StartNode, Approve
<1>10. CASE ParseUrl
  <2>1. program = "start"
    BY <1>10 DEF ParseUrl, GivenInv, CliInv, Items, TypeOK
  <2>2. Sufficient => HasPort
    BY <2>1 DEF Sufficient, HasPort
  <2>3. QED
    BY <1>3, <1>4, <1>10, <2>2 DEF ParseUrl
<1>11. CASE Spawn
  BY <1>3, <1>11 DEF Spawn, First
<1>12. ASSUME NEW item \in Items, Fetch(item) PROVE SufficeInv'
  <2>1. AfterItem[program][item] \notin {"keyfile", "json"}
    BY DEF AfterItem, Items, TypeOK
  <2>2. QED
    BY <1>3, <1>12, <2>1 DEF Fetch
<1>13. ASSUME NEW item \in Items, FetchFails(item) PROVE SufficeInv'
  <2>1. Sufficient => ~TextTimeout(item) /\ ~WrongName(item)
    BY <1>13 DEF FetchFails, Sufficient, TextTimeout, WrongName, Local
  <2>2. QED
    BY <1>4, <1>13, <2>1 DEF FetchFails
<1>14. CASE Crash
  BY <1>4, <1>14 DEF Crash
<1>15. CASE Generate \/ ServerUp \/ Redeploy \/ ReplaceKeyfile \/ UNCHANGED vars
  <2>1. UNCHANGED run
    BY <1>15 DEF Generate, ServerUp, Redeploy, ReplaceKeyfile, vars
  <2>2. QED
    BY <1>3, <2>1 DEF run, SufficeInv
<1>16. QED
  BY <1>5, <1>6, <1>7, <1>8, <1>9, <1>10, <1>11, <1>12, <1>13, <1>14, <1>15
  DEF Next, Settle, Fetches

(* The settings Sufficient asks for are enough: a run that was given them  *)
(* ends for want of a server, or of luck, never of a parameter.            *)
THEOREM GivenIsEnough == Spec => []EnoughGiven
<1>1. Init => GivenInv
  BY DEF Init, First, GivenInv, StartInv, CliInv, Items, FromAbi, FromTokenAbi, FromStaking, FromFaucet,
     FromJson, FromAddresses, FromNode
<1>2. TypeOK /\ GivenInv /\ [Next]_vars => GivenInv'
  BY GivenStep
<1>3. Init => SufficeInv
  BY DEF Init, First, SufficeInv
<1>4. TypeOK /\ GivenInv /\ SufficeInv /\ [Next]_vars => SufficeInv'
  BY SufficeStep
<1>5. SufficeInv => EnoughGiven
  BY DEF SufficeInv, EnoughGiven
<1>6. QED
  BY <1>1, <1>2, <1>3, <1>4, <1>5, TypeCorrect, PTL DEF Spec

(* Sufficient is what decides: a program gets to its node or its prompt    *)
(* only with it, and with it no parameter keeps it from there.             *)
THEOREM SettingsDecide == Spec => []SufficientExactly
<1>1. StartedComplete /\ EnoughGiven => SufficientExactly
  BY DEF SufficientExactly
<1>2. QED
  BY <1>1, CompleteWhenStarted, GivenIsEnough, PTL

(* Where a parameter of a worker can be missing.  It is never among those  *)
(* Config checks, since every shipped file has all of these: a missing one *)
(* is found at the statement that reads it, in one of these four ways.     *)
Misses(step) ==
  \/ step = "environment" /\ setting = "unset"
  \/ step = "operating" /\ bootstrap /\ setting = "TESTNET" /\ "OPERATING_PRIVATE_KEY" \notin given
  \/ step = "staking" /\ bootstrap /\ setting \in {"TESTNET", "MAINNET"}
     /\ "STAKING_PRIVATE_KEY" \notin given
  \/ step = "staking" /\ ~bootstrap /\ setting = "MAINNET" /\ "STAKE_KEY_PATH" \notin given

MissesInv == program = "start" /\ why = "missing" => Misses(at)

(* A step of a worker that finds a name missing is one of these four.      *)
LEMMA MissingHere ==
  ASSUME TypeOK, GivenInv, program = "start", ~ Reads(pc) \subseteq Available
  PROVE  Misses(pc)
<1>1. Common \subseteq Available /\ (setting # "unset" => "ENIGMA_ENV" \in Available)
  BY DEF Available, File
<1>2. CASE pc \in {"config", "eth"}
  BY <1>1, <1>2, MostlyCommon
<1>3. CASE pc = "environment"
  BY <1>1, <1>3, MostlyCommon DEF Misses
<1>4. CASE pc = "faucet"
  <2>1. Named
    BY <1>4 DEF GivenInv, StartInv, FromAbi, FromTokenAbi, FromStaking, FromFaucet
  <2>2. QED
    BY <1>1, <1>4, <2>1, MostlyCommon DEF Named
<1>5. CASE pc = "loader"
  <2>1. setting = "COMPOSE" => "LOCAL_LIBP2P_KEY_PATH" \in Available
    BY DEF Available, File
  <2>2. QED
    BY <1>1, <1>5, <2>1, MostlyCommon
<1>6. CASE pc = "operating"
  <2>1. load_operating_key_from_config(d) /\ "OPERATING_PRIVATE_KEY" \notin Available
    BY <1>6 DEF Reads
  <2>2. bootstrap /\ setting = "TESTNET"
    BY <2>1 DEF load_operating_key_from_config, testnet, d
  <2>3. QED
    BY <1>6, <2>1, <2>2 DEF Misses, Available
<1>7. CASE pc = "staking" /\ StakingSource(d) = "config"
  <2>1. "STAKING_PRIVATE_KEY" \notin Available
    BY <1>7 DEF Reads
  <2>2. load_staking_from_config(d)
    BY <1>7 DEF StakingSource
  <2>3. d.bootstrap = bootstrap /\ (d.env # "testing" => setting \in {"TESTNET", "MAINNET"})
    BY DEF d
  <2>4. bootstrap /\ setting \in {"TESTNET", "MAINNET"}
    BY <2>2, <2>3 DEF load_staking_from_config, testing
  <2>5. QED
    BY <1>7, <2>1, <2>4 DEF Misses, Available
<1>8. CASE pc = "staking" /\ StakingSource(d) = "cli"
  <2>1. "STAKE_KEY_PATH" \notin Available
    BY <1>1, <1>8 DEF Reads, Common
  <2>2. setting = "MAINNET"
    BY <2>1, StakePathShipped
  <2>3. load_staking_from_cli(d) /\ d.bootstrap = bootstrap
    BY <1>8 DEF StakingSource, d
  <2>4. ~bootstrap
    BY <2>3 DEF load_staking_from_cli
  <2>5. QED
    BY <1>8, <2>1, <2>2, <2>4 DEF Misses, Available
<1>9. CASE pc = "staking" /\ StakingSource(d) \notin {"config", "cli"}
  BY <1>9 DEF Reads
<1>10. CASE pc = "interface"
  BY <1>10 DEF GivenInv, StartInv
<1>11. CASE pc \notin {"config", "environment", "faucet", "eth", "loader", "operating", "staking", "interface"}
  BY <1>11 DEF Reads
<1>12. QED
  BY <1>2, <1>3, <1>4, <1>5, <1>6, <1>7, <1>8, <1>9, <1>10, <1>11

(* Every step keeps MissesInv.                                             *)
LEMMA MissesStep ==
  ASSUME TypeOK, GivenInv, MissesInv, [Next]_vars
  PROVE  MissesInv'
<1>1. UNCHANGED deployment
  BY DeploymentFixed
<1>2. program' = program /\ (at' = at => Misses(at)' = Misses(at))
  BY <1>1 DEF deployment, Misses
<1> USE DEF At, Goto, End
<1>3. ASSUME why' = why, at' = at PROVE MissesInv'
  BY <1>2, <1>3 DEF MissesInv
<1>4. ASSUME why' # "missing" PROVE MissesInv'
  BY <1>4 DEF MissesInv
<1>5. CASE Missing
  <2>1. at' = pc /\ (program = "start" => Misses(pc))
    BY <1>5, MissingHere DEF Missing
  <2>2. Misses(at)' = Misses(pc)
    BY <1>1, <2>1 DEF deployment, Misses
  <2>3. QED
    BY <1>2, <2>1, <2>2 DEF MissesInv
<1>6. CASE \/ LoadConfig \/ CreateEnvironment \/ CreateInterface \/ LoadOperatingAddress
           \/ LoadStakingAddress \/ RequestCoins \/ CreateLoader \/ BootstrapAddresses
  BY <1>3, <1>6 DEF LoadConfig, CreateEnvironment, CreateInterface, LoadOperatingAddress,
     LoadStakingAddress, RequestCoins, CreateLoader, BootstrapAddresses, Read
<1>7. CASE LoadKeyfile \/ OpenKeyfile \/ WriteKeyfile \/ ParseUrl \/ StartNode \/ Approve \/ Spawn
  BY <1>3, <1>4, <1>7 DEF LoadKeyfile, OpenKeyfile, WriteKeyfile, ParseUrl, StartNode, Approve, Spawn
<1>8. ASSUME NEW item \in Items, Fetch(item) \/ FetchFails(item) PROVE MissesInv'
  BY <1>3, <1>4, <1>8 DEF Fetch, FetchFails
<1>9. CASE Crash
  BY <1>4, <1>9 DEF Crash
<1>10. CASE Generate \/ ServerUp \/ Redeploy \/ ReplaceKeyfile \/ UNCHANGED vars
  <2>1. UNCHANGED run
    BY <1>10 DEF Generate, ServerUp, Redeploy, ReplaceKeyfile, vars
  <2>2. QED
    BY <1>3, <2>1 DEF run
<1>11. QED
  BY <1>5, <1>6, <1>7, <1>8, <1>9, <1>10 DEF Next, Settle, Fetches

(* A worker ends for want of a parameter in these four ways only.          *)
THEOREM MissingWhere == Spec => []MissesInv
<1>1. Init => GivenInv
  BY DEF Init, First, GivenInv, StartInv, CliInv, Items, FromAbi, FromTokenAbi, FromStaking, FromFaucet,
     FromJson, FromAddresses, FromNode
<1>2. TypeOK /\ GivenInv /\ [Next]_vars => GivenInv'
  BY GivenStep
<1>3. Init => MissesInv
  BY DEF Init, MissesInv
<1>4. TypeOK /\ GivenInv /\ MissesInv /\ [Next]_vars => MissesInv'
  BY MissesStep
<1>5. QED
  BY <1>1, <1>2, <1>3, <1>4, TypeCorrect, PTL DEF Spec
=============================================================================
