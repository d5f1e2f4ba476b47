----------------------------- MODULE Parameters -----------------------------
(***************************************************************************)
(* Where a worker's parameters come from: the configuration (config.py:    *)
(* environment variables before the shipped file), the contract container  *)
(* or a bucket (provider.py, storage.py), and the bootstrap storage        *)
(* (bootstrap_loader.py), in the order in which a program of the worker    *)
(* reads them: start.py, up to its node and the approval of the deposit,   *)
(* or the CLI's WorkerInterface, up to its first generated transaction.    *)
(* A setting is read when it is needed, which may be late.                 *)
(*                                                                         *)
(* External: the contract container, which may be deployed anew at any     *)
(* time, the storage, where the key file may be replaced, and the          *)
(* operator, who sets environment variables.                               *)
(***************************************************************************)
EXTENDS Environment, Naturals

CONSTANTS Settings,       \* values of ENIGMA_ENV; "unset" is one
          Givens,         \* sets of the other environment variables an operator may have set
          NoFile, Empty,  \* contents of the key file on disk
          MaxDeploys,     \* bound on the deployments of the contract container
          MaxKeyfiles,    \* bound on the versions of the key file in storage
          MaxCrashes      \* bound on what ends a run for no reason given here

(* The variables an operator has a reason to set: what the shipped files   *)
(* leave out or have wrong, and what external_worker sets.                 *)
Settable == {"STAKE_KEY_PATH", "BOOTSTRAP_PATH", "OPERATING_PRIVATE_KEY", "STAKING_PRIVATE_KEY",
             "STORAGE_CONNECTION_STRING", "CONTRACT_TIMEOUT", "ETH_NODE_ADDRESS",
             "KEY_MANAGEMENT_ADDRESS", "MIN_CONFIRMATIONS"}

(* Those of a form the code takes for granted: an address with a port, a   *)
(* path with a directory.                                                  *)
Formed == {"ETH_NODE_ADDRESS", "BOOTSTRAP_PATH"}

ASSUME ParametersAssumption ==
  /\ Settings \subseteq {"COMPOSE", "K8S", "TESTNET", "MAINNET", "unset"}
  /\ \A g \in Givens : g \subseteq Settable
  /\ NoFile # Empty /\ {NoFile, Empty} \cap Nat = {}
  /\ MaxDeploys \in Nat \ {0} /\ MaxKeyfiles \in Nat \ {0} /\ MaxCrashes \in Nat

VARIABLES program, setting, bootstrap, given,  \* how the worker is deployed
          bare,          \* those given without the port, or the directory, they should have
          pc, why, at,   \* next step; how the last run ended, and in which step
          connected,     \* file services that have seen their server listen
          cache,         \* Provider: deployment of each item it has fetched, or 0
          contract,      \* deployment eng_contract was built for
          spender,       \* deployment the deposit was approved to, or approve was generated for
          loaded, id,    \* BootstrapLoader: version of keyfile, and of the id read from it
          disk,          \* the key file in BOOTSTRAP_PATH
          peer,          \* the key file the node was started with
          deployed, serving, began,  \* contract container; began: when this run began
          stored,        \* version of the key file in storage
          crashes

deployment == <<program, setting, bootstrap, given, bare>>
run == <<pc, why, at>>
provider == <<connected, cache, contract, spender>>
loader == <<loaded, id, disk, peer>>
outside == <<deployed, serving, began, stored, crashes>>
vars == <<deployment, run, provider, loader, outside>>

Items == {"abi", "tokenAddress", "tokenAbi", "enigmaAddress"}
Up == {"serving", "ready"}
Started == {"approve"} \cup Up
Steps == {"config", "environment", "operating", "staking", "faucet", "loader", "keyfile", "json",
          "write", "addresses", "eth", "node", "interface"} \cup Items \cup Started \cup {"ended"}

-----------------------------------------------------------------------------
(* Configuration.                                                          *)

(* Names in all the files of worker/config/p2p; then those in some.        *)
Common == {"CONTRACT_DISCOVERY_ADDRESS", "ETH_NODE_ADDRESS", "ENIGMA_CONTRACT_FILE_NAME", "CORE_ADDRESS",
           "CORE_PORT", "CONTRACTS_FOLDER", "KEY_MANAGEMENT_ADDRESS", "FAUCET_URL", "MINIMUM_ETHER_BALANCE",
           "MINIMUM_ENG_BALANCE", "DEPOSIT_AMOUNT", "ETH_KEY_PATH", "BOOTSTRAP_ID", "BOOTSTRAP_PORT",
           "BOOTSTRAP_PATH", "BALANCE_WAIT_TIME", "MIN_CONFIRMATIONS", "CONTRACT_TIMEOUT",
           "HEALTH_CHECK_PORT", "STATUS_FILENAME", "STAKE_KEY_NAME"}

File(s) ==
  Common \cup CASE s = "TESTNET" -> {"STAKE_KEY_PATH"}
                [] s = "MAINNET" -> {"BOOTSTRAP_ADDRESS"}
                [] s = "K8S" -> {"STAKE_KEY_PATH", "LOCAL_LIBP2P_KEY_PATH", "BOOTSTRAP_ADDRESS"}
                [] OTHER -> {"STAKE_KEY_PATH", "LOCAL_LIBP2P_KEY_PATH", "STAKING_PRIVATE_KEY"}

(* Mutant: the environment is looked at by check_required only. *)
AvailableInFile == File(setting) \cup (IF setting = "unset" THEN {} ELSE {"ENIGMA_ENV"})

(* Mutant: what is in neither is taken from the default configuration, a   *)
(* published private key among it.                                         *)
AvailableInDefaults == given \cup File(setting) \cup File("COMPOSE") \cup
                       (IF setting = "unset" THEN {} ELSE {"ENIGMA_ENV"})

Available == given \cup File(setting) \cup (IF setting = "unset" THEN {} ELSE {"ENIGMA_ENV"})

d == [env |-> CASE setting = "TESTNET" -> "testnet" [] setting = "MAINNET" -> "mainnet"
                [] OTHER -> "testing",
      bootstrap |-> bootstrap]

required_config == {"ETH_NODE_ADDRESS", "ENIGMA_CONTRACT_FILE_NAME", "CORE_ADDRESS", "CORE_PORT",
                    "CONTRACTS_FOLDER", "KEY_MANAGEMENT_ADDRESS", "MINIMUM_ETHER_BALANCE",
                    "MIN_CONFIRMATIONS"}

(* The names each step reads without a default.                            *)
Reads(step) ==
  CASE step = "config" -> required_config
    [] step = "environment" -> {"ENIGMA_ENV", "ETH_NODE_ADDRESS", "CONTRACTS_FOLDER", "DEPOSIT_AMOUNT",
                                "ENIGMA_CONTRACT_FILE_NAME", "MIN_CONFIRMATIONS", "ETH_KEY_PATH",
                                "STATUS_FILENAME"}
    [] step = "operating" -> IF load_operating_key_from_config(d) THEN {"OPERATING_PRIVATE_KEY"} ELSE {}
    [] step = "staking" -> CASE StakingSource(d) = "config" -> {"STAKING_PRIVATE_KEY"}
                             [] StakingSource(d) = "cli" -> {"STAKE_KEY_PATH", "STAKE_KEY_NAME"}
                             [] OTHER -> {}
    [] step = "faucet" -> {"MINIMUM_ETHER_BALANCE", "MINIMUM_ENG_BALANCE", "FAUCET_URL", "ENIGMA_ENV",
                           "BALANCE_WAIT_TIME"}
    [] step = "loader" -> {"BOOTSTRAP_PATH", "BOOTSTRAP_PORT"} \cup
                          (IF setting = "COMPOSE" THEN {"LOCAL_LIBP2P_KEY_PATH"} ELSE {})
    [] step = "eth" -> {"MINIMUM_ETHER_BALANCE", "KEY_MANAGEMENT_ADDRESS", "HEALTH_CHECK_PORT"}
    [] step = "interface" -> {"STAKE_KEY_PATH"}
    [] OTHER -> {}

-----------------------------------------------------------------------------
TypeOK ==
  /\ program \in {"start", "cli"} /\ setting \in Settings /\ bootstrap \in BOOLEAN
  /\ given \in Givens /\ bare \subseteq given \cap Formed
  /\ pc \in Steps /\ at \in Steps
  /\ why \in {"none", "missing", "type", "connection", "timeout", "credential", "path", "port", "crash"}
  /\ connected \subseteq {"abi", "address"}
  /\ cache \in [Items -> 0 .. MaxDeploys]
  /\ contract \in 0 .. MaxDeploys /\ spender \in 0 .. MaxDeploys
  /\ loaded \in 0 .. MaxKeyfiles /\ id \in 0 .. MaxKeyfiles
  /\ {disk, peer} \subseteq 1 .. MaxKeyfiles \cup {NoFile, Empty}
  /\ deployed \in 1 .. MaxDeploys /\ serving \in BOOLEAN /\ began \in 1 .. MaxDeploys
  /\ stored \in 1 .. MaxKeyfiles /\ crashes \in 0 .. MaxCrashes

First == IF program = "start" THEN "config" ELSE "interface"

Init ==
  /\ program \in {"start", "cli"} /\ setting \in Settings
  /\ bootstrap \in BOOLEAN /\ given \in Givens /\ bare \in SUBSET (given \cap Formed)
  /\ pc = First /\ why = "none" /\ at = First
  /\ connected = {} /\ cache = [i \in Items |-> 0] /\ contract = 0 /\ spender = 0
  /\ loaded = 0 /\ id = 0 /\ disk = NoFile /\ peer = NoFile
  /\ deployed = 1 /\ serving = FALSE /\ began = 1
  /\ stored = 1 /\ crashes = 0

-----------------------------------------------------------------------------
At(step) == pc = step /\ Reads(step) \subseteq Available
Goto(step) == pc' = step /\ UNCHANGED <<why, at>>
End(reason) == pc' = "ended" /\ why' = reason /\ at' = pc

(* A name that is nowhere: KeyError, or check_required's EnvironmentError. *)
Missing ==
  /\ ~ Reads(pc) \subseteq Available
  /\ End("missing")
  /\ UNCHANGED <<deployment, provider, loader, outside>>

(* Steps that only read settings, wait for the user or ask the faucet: see *)
(* Identities and Funding.                                                 *)
Read(step, next) ==
  /\ At(step)
  /\ Goto(next)
  /\ UNCHANGED <<deployment, provider, loader, outside>>

LoadConfig == Read("config", "environment")
CreateEnvironment == Read("environment", "abi")
LoadOperatingAddress == Read("operating", "staking")
LoadStakingAddress == Read("staking", IF testing(d) THEN "faucet" ELSE "loader")
RequestCoins == Read("faucet", "loader")
CreateLoader == Read("loader", IF bootstrap THEN "keyfile" ELSE "addresses")
CreateInterface == Read("interface", "enigmaAddress")

-----------------------------------------------------------------------------
(* Provider and its file services.                                         *)

Local == setting \notin {"TESTNET", "MAINNET"}
Service(item) == IF item \in {"abi", "tokenAbi"} THEN "abi" ELSE "address"

(* The order in which the two programs ask for the items.                  *)
AfterItem == [start |-> [abi |-> "tokenAddress", tokenAddress |-> "tokenAbi",
                         tokenAbi |-> "enigmaAddress", enigmaAddress |-> "operating"],
              cli |-> [enigmaAddress |-> "tokenAddress", tokenAddress |-> "abi",
                       abi |-> "tokenAbi", tokenAbi |-> "ready"]]

(* CONTRACT_TIMEOUT is a number in the files and text in the environment,  *)
(* where range() does not take it; the ABI service has a default.          *)
TextTimeout(item) ==
  Service(item) = "address" /\ Service(item) \notin connected /\ "CONTRACT_TIMEOUT" \in given

(* Without ENIGMA_ENV the ABI is asked for as an archive, which the local  *)
(* server does not have.                                                   *)
WrongName(item) == Service(item) = "abi" /\ setting = "unset"

Fetch(item) ==
  /\ At(item)
  /\ IF Local THEN /\ serving /\ ~TextTimeout(item) /\ ~WrongName(item)
                   /\ connected' = connected \cup {Service(item)}
              ELSE UNCHANGED connected
  /\ cache' = [cache EXCEPT ![item] = deployed]
  /\ contract' = IF item = "enigmaAddress" THEN deployed ELSE contract
  /\ Goto(AfterItem[program][item])
  /\ UNCHANGED <<deployment, spender, loader, outside>>

(* A service waits for its server the first time only.                     *)
FetchFails(item) ==
  /\ At(item) /\ Local
  /\ \/ TextTimeout(item) /\ End("type")
     \/ serving /\ WrongName(item) /\ End("type")
     \/ ~serving /\ ~TextTimeout(item)
        /\ End(IF Service(item) \in connected THEN "connection" ELSE "timeout")
  /\ UNCHANGED <<deployment, provider, loader, outside>>

(* Mutant: the address is not cached. *)
SpenderUncached == deployed

(* provider.enigma_contract_address, once more.                            *)
Spender == cache["enigmaAddress"]

Approve ==
  /\ At("approve")
  /\ spender' = Spender
  /\ Goto("serving")
  /\ UNCHANGED <<deployment, connected, cache, contract, loader, outside>>

(* generate_approve; the CLI lives on, and so does its cache.              *)
Generate ==
  /\ At("ready") /\ program = "cli"
  /\ spender' = Spender
  /\ UNCHANGED <<deployment, run, connected, cache, contract, loader, outside>>

-----------------------------------------------------------------------------
(* BootstrapLoader and load_bootstrap_parameters.                          *)

Credential == setting = "COMPOSE" \/ "STORAGE_CONNECTION_STRING" \in given

(* Mutant: the file is read each time. *)
LoadAgain == loaded' = stored

(* Mutant: the condition is the wrong way round. *)
LoadInverted == loaded' = IF loaded = 0 THEN loaded ELSE stored

(* load(), called for the id and again for the file.                       *)
Load == loaded' = IF loaded = 0 THEN stored ELSE loaded

LoadKeyfile ==
  /\ At("keyfile")
  /\ IF Credential THEN Load /\ id' = loaded' /\ Goto("json")
                   ELSE End("credential") /\ UNCHANGED <<loaded, id>>
  /\ UNCHANGED <<deployment, provider, disk, peer, outside>>

(* save_to_path creates the directory and truncates the file.  MAINNET's   *)
(* BOOTSTRAP_PATH is a file name, as one that is given may be, and         *)
(* makedirs('') an exception.                                              *)
Openable == IF "BOOTSTRAP_PATH" \in given THEN "BOOTSTRAP_PATH" \notin bare ELSE setting # "MAINNET"

OpenKeyfile ==
  /\ At("json")
  /\ Load
  /\ IF Openable THEN disk' = Empty /\ Goto("write")
                 ELSE End("path") /\ UNCHANGED disk
  /\ UNCHANGED <<deployment, provider, id, peer, outside>>

WriteKeyfile ==
  /\ At("write")
  /\ disk' = loaded
  /\ Goto("addresses")
  /\ UNCHANGED <<deployment, provider, loaded, id, peer, outside>>

(* Configured, or all_bootstrap_addresses, which needs no credential.      *)
BootstrapAddresses == Read("addresses", "eth")

(* p2p_parse_url.  The addresses in the files have a port, as the one that *)
(* external_worker sets; a hosted node's may have none.                    *)
HasPort == "ETH_NODE_ADDRESS" \notin bare

ParseUrl ==
  /\ At("eth")
  /\ IF HasPort THEN Goto("node") ELSE End("port")
  /\ UNCHANGED <<deployment, provider, loader, outside>>

(* The node may have logged in by itself when it has registered.           *)
StartNode ==
  /\ At("node")
  /\ peer' = IF bootstrap THEN disk ELSE NoFile
  /\ \/ should_auto_deposit(d) /\ Goto("approve")
     \/ Goto("serving")
  /\ UNCHANGED <<deployment, provider, loaded, id, disk, outside>>

-----------------------------------------------------------------------------
(* supervisord, or the user, who opens the CLI again.                      *)

Crash ==
  /\ pc # "ended" /\ crashes < MaxCrashes /\ crashes' = crashes + 1
  /\ End("crash")
  /\ UNCHANGED <<deployment, provider, loader, deployed, serving, began, stored>>

Spawn ==
  /\ pc = "ended"
  /\ Goto(First)
  /\ connected' = {} /\ cache' = [i \in Items |-> 0] /\ contract' = 0 /\ spender' = 0
  /\ loaded' = 0 /\ id' = 0 /\ peer' = NoFile
  /\ began' = deployed
  /\ UNCHANGED <<deployment, disk, deployed, serving, stored, crashes>>

(* The world outside.                                                      *)
ServerUp ==
  /\ ~serving /\ serving' = TRUE
  /\ UNCHANGED <<deployment, run, provider, loader, deployed, began, stored, crashes>>

Redeploy ==
  /\ deployed < MaxDeploys /\ deployed' = deployed + 1
  /\ serving' = FALSE
  /\ UNCHANGED <<deployment, run, provider, loader, began, stored, crashes>>

ReplaceKeyfile ==
  /\ stored < MaxKeyfiles /\ stored' = stored + 1
  /\ UNCHANGED <<deployment, run, provider, loader, deployed, serving, began, crashes>>

-----------------------------------------------------------------------------
Settle == \/ Missing \/ LoadConfig \/ CreateEnvironment \/ CreateInterface
          \/ LoadOperatingAddress \/ LoadStakingAddress \/ RequestCoins
          \/ CreateLoader \/ LoadKeyfile \/ OpenKeyfile \/ WriteKeyfile \/ BootstrapAddresses
          \/ ParseUrl \/ StartNode \/ Approve \/ Spawn

Fetches == \E item \in Items : Fetch(item) \/ FetchFails(item)

Next == \/ Settle \/ Fetches \/ Generate \/ Crash
        \/ ServerUp \/ Redeploy \/ ReplaceKeyfile

(* The program runs and is started again; a server that is down comes up.  *)
Fairness == WF_vars(Settle) /\ WF_vars(Fetches) /\ WF_vars(ServerUp)

Spec == Init /\ [][Next]_vars
FairSpec == Spec /\ Fairness

-----------------------------------------------------------------------------
(* Properties. *)

(* What a worker has to be given besides its shipped configuration, and in *)
(* what form, to get to its node, or its CLI to its prompt.                *)
Sufficient ==
  /\ setting # "unset"
  /\ "CONTRACT_TIMEOUT" \in given => setting \in {"TESTNET", "MAINNET"}
  /\ program = "cli" /\ setting = "MAINNET" => "STAKE_KEY_PATH" \in given
  /\ program = "start" =>
       /\ "ETH_NODE_ADDRESS" \notin bare
       /\ setting = "MAINNET" /\ ~bootstrap => "STAKE_KEY_PATH" \in given
       /\ bootstrap =>
            /\ "BOOTSTRAP_PATH" \notin bare
            /\ setting # "COMPOSE" => "STORAGE_CONNECTION_STRING" \in given
            /\ setting = "TESTNET" => {"OPERATING_PRIVATE_KEY", "STAKING_PRIVATE_KEY"} \subseteq given
            /\ setting = "MAINNET" => {"STAKING_PRIVATE_KEY", "BOOTSTRAP_PATH"} \subseteq given

(* Given that, it gets there, whatever is deployed anew, replaced or ends  *)
(* in between ...                                                          *)
EventuallyStarted == Sufficient => <>[](pc \in Up)

(* ... and without it never, with half of its parameters.                  *)
StartedComplete == pc \in Started => Sufficient

(* With what it has to be given, a run never ends because a parameter is   *)
(* missing or of the wrong form, wherever it is read: only what is outside *)
(* its configuration ends it.                                              *)
EnoughGiven == Sufficient => why \in {"none", "connection", "timeout", "crash"}

(* Sufficient asks neither for too much nor for too little: what starts    *)
(* was given it, and what was given it fails for want of no parameter.     *)
SufficientExactly == StartedComplete /\ EnoughGiven

(* A deposit is approved to the contract that is then asked to take it,    *)
(* and an approval generated in the CLI is for the contract its other      *)
(* transactions go to, when the contracts are deployed anew in between;    *)
(* and after a new deployment a restart is enough to use none before it.   *)
OneContract == spender # 0 => spender = contract /\ contract >= began

(* A bootstrap node is started with a whole key file, the one its id was   *)
(* read from, when the file in storage is replaced in between, or an       *)
(* earlier run has left an empty one.                                      *)
KeyfileOfId == bootstrap /\ pc \in Started /\ program = "start" => id # 0 /\ peer = id

(* Config: with the list of required names missing parameters are caught   *)
(* early, before its initialization passes.                                *)
MissingFoundEarly == program = "start" /\ why = "missing" => at = "config"
=============================================================================
