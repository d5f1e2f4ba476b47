------------------------------- MODULE Bringup -------------------------------
(***************************************************************************)
(* How a local network (ENIGMA_ENV = COMPOSE or K8S) comes up.  The key    *)
(* manager (km_startup.py, km_address_server.py) makes its key, serves the *)
(* signing address, and waits for coins and for the address of the Enigma  *)
(* contract.  The contract container (migrate.sh, contract_startup.py,     *)
(* contract_server.py, faucet_service.py) waits for the signing address,   *)
(* deploys the contract for it, and serves the contract's address; its     *)
(* faucet and the workers start with that address.  supervisord restarts   *)
(* the key manager, ganache and the faucet, but not migrate.sh.            *)
(*                                                                         *)
(* The key manager's executable, truffle and ganache are external.  Keys   *)
(* are numbered in the order in which they are made; 0 is no key.          *)
(***************************************************************************)
EXTENDS Naturals

CONSTANTS MaxKills,     \* bound on the kills of the key manager's process
          MaxTimeouts,  \* bound on the waits for another container that time out
          MaxFailures,  \* bound on the failures of a program
          MaxDeaths     \* bound on the deaths of ganache

ASSUME BringupAssumption ==
  MaxKills \in Nat /\ MaxTimeouts \in Nat /\ MaxFailures \in Nat /\ MaxDeaths \in Nat

VARIABLES km,            \* next step of km_startup.py; "ended": main is over, the process is not
          kmServes,      \* the thread of the address server runs
          keypair,       \* the key in KEYPAIR_PATH
          public,        \* the key whose address is in principal-sign-addr.txt
          account,       \* ethereum-account-addr.txt is there
          minted,        \* keys made so far
          migrate,       \* next step of migrate.sh
          principalFile, \* the key whose address contract_startup.py saved
          addressFiles,  \* truffle has written the contracts' addresses
          ganache,       \* ganache listens
          deployed,      \* the chain holds the Enigma contract
          principal,     \* the key the contract was deployed for
          funded,        \* the key manager's account holds ether
          faucet,        \* the faucet listens
          worker,        \* the worker has loaded the contracts
          kills, timeouts, failures, deaths

kmFiles == <<keypair, public, account, minted>>
kmVars == <<km, kmServes, kmFiles>>
migrateVars == <<migrate, principalFile, addressFiles>>
chain == <<ganache, deployed, principal, funded>>
clients == <<faucet, worker>>
bounds == <<kills, timeouts, failures, deaths>>
vars == <<kmVars, migrateVars, chain, clients, bounds>>

Generating == {"keypair", "public", "account"}
BeforeServer == {"keys", "address"} \cup Generating
AfterServer == {"coins", "contract", "eth", "run"}

TypeOK ==
  /\ km \in BeforeServer \cup AfterServer \cup {"down", "ended"}
  /\ kmServes \in BOOLEAN
  /\ keypair \in Nat /\ public \in Nat /\ account \in BOOLEAN /\ minted \in Nat
  /\ migrate \in {"startup", "ganache", "deploy", "serve", "dead"}
  /\ principalFile \in Nat /\ addressFiles \in BOOLEAN
  /\ ganache \in BOOLEAN /\ deployed \in BOOLEAN /\ principal \in Nat /\ funded \in BOOLEAN
  /\ faucet \in BOOLEAN /\ worker \in BOOLEAN
  /\ kills \in 0 .. MaxKills /\ timeouts \in 0 .. MaxTimeouts
  /\ failures \in 0 .. MaxFailures /\ deaths \in 0 .. MaxDeaths

Init ==
  /\ km = "down" /\ kmServes = FALSE
  /\ keypair = 0 /\ public = 0 /\ account = FALSE /\ minted = 0
  /\ migrate = "startup" /\ principalFile = 0 /\ addressFiles = FALSE
  /\ ganache = FALSE /\ deployed = FALSE /\ principal = 0 /\ funded = FALSE
  /\ faucet = FALSE /\ worker = FALSE
  /\ kills = 0 /\ timeouts = 0 /\ failures = 0 /\ deaths = 0

-----------------------------------------------------------------------------
(* The key manager. *)

(* A client of HttpFileService waits for this: whoever listens is asked    *)
(* once, and its answer is kept for the life of the process.               *)
ContractListens == migrate = "serve"

(* It reads its file for every request, and answers 404 without one.       *)
GetAddress == addressFiles

(* The key manager's server reads its file for every request, too.         *)
KMAddress == public

Goto(step) == km' = step /\ UNCHANGED kmServes
OthersUnchanged == UNCHANGED <<migrateVars, clients>>

SpawnKm == /\ km = "down"
           /\ Goto("keys")
           /\ UNCHANGED <<kmFiles, chain, bounds>> /\ OthersUnchanged

(* Mutant: the files of an earlier run are not looked for. *)
KeysMissingAlways == TRUE

KeysMissing == keypair = 0 \/ public = 0

FindKeys == /\ km = "keys"
            /\ Goto(IF KeysMissing THEN "keypair" ELSE "address")
            /\ UNCHANGED <<kmFiles, chain, bounds>> /\ OthersUnchanged

(* The executable, with -w: one file after the other, and it can be killed *)
(* or fail in between.                                                     *)
GenerateKeypair ==
  \/ /\ km = "keypair"
     /\ minted' = minted + 1 /\ keypair' = minted'
     /\ Goto("public")
     /\ UNCHANGED <<public, account, chain, bounds>> /\ OthersUnchanged
  \/ /\ km = "public"
     /\ public' = keypair
     /\ Goto("account")
     /\ UNCHANGED <<keypair, account, minted, chain, bounds>> /\ OthersUnchanged
  \/ /\ km = "account"
     /\ account' = TRUE
     /\ Goto("address")
     /\ UNCHANGED <<keypair, public, minted, chain, bounds>> /\ OthersUnchanged

(* Mutant: the address is served when the contract is known. *)
StartServerLate == /\ km = "address"
                   /\ Goto("coins")
                   /\ UNCHANGED <<kmFiles, chain, bounds>> /\ OthersUnchanged

(* The signing address is read, and served from now on by a thread that is *)
(* not a daemon.                                                           *)
StartServer == /\ km = "address"
               /\ km' = "coins" /\ kmServes' = TRUE
               /\ UNCHANGED <<kmFiles, chain, bounds>> /\ OthersUnchanged

(* get_initial_coins.  While the faucet does not listen it is tried again; *)
(* an error of the faucet is a RuntimeError and ends main ...              *)
GetCoins == /\ km = "coins"
            /\ account /\ faucet
            /\ IF ganache
                 THEN Goto("contract") /\ funded' = TRUE
                 ELSE Goto("ended") /\ UNCHANGED funded
            /\ UNCHANGED <<kmFiles, ganache, deployed, principal, bounds>> /\ OthersUnchanged

(* ... and so does the account that was not found, a NameError here.       *)
NoAccount == /\ km = "coins"
             /\ ~account
             /\ Goto("ended")
             /\ UNCHANGED <<kmFiles, chain, bounds>> /\ OthersUnchanged

(* The answer 404 is taken for an address and raises when it is used.      *)
GetContract == /\ km = "contract"
               /\ ContractListens
               /\ Goto(IF GetAddress THEN "eth" ELSE "ended")
               /\ UNCHANGED <<kmFiles, chain, bounds>> /\ OthersUnchanged

ContractTimeout == /\ km = "contract"
                   /\ ~ContractListens
                   /\ timeouts < MaxTimeouts /\ timeouts' = timeouts + 1
                   /\ Goto("ended")
                   /\ UNCHANGED <<kmFiles, chain, kills, failures, deaths>> /\ OthersUnchanged

(* check_eth_limit, until there is enough; without a node it raises.       *)
CheckEth == /\ km = "eth"
            /\ ganache => funded
            /\ Goto(IF ganache THEN "run" ELSE "ended")
            /\ UNCHANGED <<kmFiles, chain, bounds>> /\ OthersUnchanged

(* Mutant: main hands back the code of the executable. *)
KmFailsReported == /\ km = "run"
                   /\ failures < MaxFailures /\ failures' = failures + 1
                   /\ Goto("exited")
                   /\ UNCHANGED <<kmFiles, chain, kills, timeouts, deaths>> /\ OthersUnchanged

(* sys.exit or an exception: before the server's thread runs the process   *)
(* ends with main, afterwards it does not.  An executable that fails with  *)
(* its first two files written is not noticed.                             *)
KmFails == /\ km \in BeforeServer \cup AfterServer
           /\ failures < MaxFailures /\ failures' = failures + 1
           /\ Goto(IF kmServes THEN "ended" ELSE IF km = "account" THEN "address" ELSE "down")
           /\ UNCHANGED <<kmFiles, chain, kills, timeouts, deaths>> /\ OthersUnchanged

KillKm == /\ km # "down"
          /\ kills < MaxKills /\ kills' = kills + 1
          /\ km' = "down" /\ kmServes' = FALSE
          /\ UNCHANGED <<kmFiles, chain, timeouts, failures, deaths>> /\ OthersUnchanged

-----------------------------------------------------------------------------
(* The contract container. *)

KmUnchanged == UNCHANGED kmVars

(* contract_startup.py *)
DownloadPrincipal == /\ migrate = "startup"
                     /\ kmServes
                     /\ principalFile' = KMAddress
                     /\ migrate' = "ganache"
                     /\ UNCHANGED <<addressFiles, chain, clients, bounds>> /\ KmUnchanged

(* It gives up; migrate.sh does not look at its exit code.                 *)
PrincipalTimeout == /\ migrate = "startup"
                    /\ ~kmServes
                    /\ timeouts < MaxTimeouts /\ timeouts' = timeouts + 1
                    /\ migrate' = "ganache"
                    /\ UNCHANGED <<principalFile, addressFiles, chain, clients,
                                   kills, failures, deaths>>
                    /\ KmUnchanged

(* Mutant: migrate.sh does not wait for the chain. *)
GanacheUnawaited == /\ migrate = "ganache"
                    /\ migrate' = "deploy"
                    /\ UNCHANGED <<principalFile, addressFiles, chain, clients, bounds>>
                    /\ KmUnchanged

GanacheListens == /\ migrate = "ganache"
                  /\ ganache
                  /\ migrate' = "deploy"
                  /\ UNCHANGED <<principalFile, addressFiles, chain, clients, bounds>>
                  /\ KmUnchanged

(* truffle migrate, which can fail, and does without a chain; migrate.sh   *)
(* goes on to serve whatever address files there are.                      *)
Deploy == /\ migrate = "deploy"
          /\ ganache
          /\ deployed' = TRUE /\ principal' = principalFile
          /\ addressFiles' = TRUE
          /\ migrate' = "serve"
          /\ UNCHANGED <<principalFile, ganache, funded, clients, bounds>> /\ KmUnchanged

DeployFails == /\ migrate = "deploy"
               /\ \/ ~ganache /\ UNCHANGED failures
                  \/ principalFile = 0 /\ UNCHANGED failures
                  \/ failures < MaxFailures /\ failures' = failures + 1
               /\ migrate' = "serve"
               /\ UNCHANGED <<principalFile, addressFiles, chain, clients,
                              kills, timeouts, deaths>>
               /\ KmUnchanged

(* autorestart=false: the end of contract_server.py is the end of it.      *)
ServerDies == /\ migrate = "serve"
              /\ failures < MaxFailures /\ failures' = failures + 1
              /\ migrate' = "dead"
              /\ UNCHANGED <<principalFile, addressFiles, chain, clients,
                             kills, timeouts, deaths>>
              /\ KmUnchanged

SpawnGanache == /\ ~ganache
                /\ ganache' = TRUE
                /\ UNCHANGED <<deployed, principal, funded, migrateVars, clients, bounds>>
                /\ KmUnchanged

(* Its chain is in memory. *)
GanacheDies == /\ ganache
               /\ deaths < MaxDeaths /\ deaths' = deaths + 1
               /\ ganache' = FALSE /\ deployed' = FALSE /\ principal' = 0 /\ funded' = FALSE
               /\ UNCHANGED <<migrateVars, clients, kills, timeouts, failures>>
               /\ KmUnchanged

(* The module-level code of faucet_service.py needs the addresses.         *)
StartFaucet == /\ ~faucet
               /\ ContractListens /\ GetAddress
               /\ faucet' = TRUE
               /\ UNCHANGED <<migrateVars, chain, worker, bounds>> /\ KmUnchanged

FaucetDies == /\ faucet
              /\ failures < MaxFailures /\ failures' = failures + 1
              /\ faucet' = FALSE
              /\ UNCHANGED <<migrateVars, chain, worker, kills, timeouts, deaths>>
              /\ KmUnchanged

(* load_contracts of the worker's start.py, retried by supervisord.        *)
LoadContracts == /\ ~worker
                 /\ ContractListens /\ GetAddress
                 /\ worker' = TRUE
                 /\ UNCHANGED <<migrateVars, chain, faucet, bounds>> /\ KmUnchanged

-----------------------------------------------------------------------------
KmSteps == \/ SpawnKm \/ FindKeys \/ GenerateKeypair \/ StartServer \/ GetCoins
           \/ NoAccount \/ GetContract \/ CheckEth

MigrateSteps == DownloadPrincipal \/ GanacheListens \/ Deploy \/ DeployFails

Next == \/ KmSteps \/ ContractTimeout \/ KmFails \/ KillKm
        \/ MigrateSteps \/ PrincipalTimeout \/ ServerDies
        \/ SpawnGanache \/ GanacheDies \/ StartFaucet \/ FaucetDies \/ LoadContracts

(* Every program runs, and supervisord starts those that ended.  Timeouts  *)
(* and failures are not forced.                                            *)
Fairness == /\ WF_vars(KmSteps) /\ WF_vars(MigrateSteps)
            /\ WF_vars(SpawnGanache) /\ WF_vars(StartFaucet) /\ WF_vars(LoadContracts)

Spec == Init /\ [][Next]_vars
FairSpec == Spec /\ Fairness

-----------------------------------------------------------------------------
(* Properties. *)

(* Whatever the key manager is killed in the middle of, the contract was   *)
(* deployed for the key it holds now: a key whose address has been served  *)
(* is not replaced.                                                        *)
PrincipalIsKms ==
  deployed /\ principal # 0 => principal = keypair /\ principal = public

(* The key manager does not start to work on a contract that was deployed  *)
(* for somebody else, or for nobody, unless contract_startup.py gave up    *)
(* waiting for its address (migrate.sh deploys all the same), or the chain *)
(* was lost.                                                               *)
KmRunsItsContract ==
  km = "run" /\ timeouts = 0 /\ deaths = 0 => deployed /\ principal = keypair

(* The containers wait for each other in a circle, and still come up when  *)
(* nothing goes wrong.  When something did, the ways not to come up are a  *)
(* key manager whose main ended while its process did not, and a           *)
(* migrate.sh that did not deploy or whose server died; and a chain that   *)
(* was lost stays lost.                                                    *)
Up == km = "run" /\ migrate = "serve" /\ faucet /\ worker

NoAddresses == migrate = "dead" \/ (migrate = "serve" /\ ~addressFiles)

WentWrong == kills + timeouts + failures > 0

EventuallyUp ==
  \/ <>[]Up
  \/ <>[](WentWrong /\ (km = "ended" \/ NoAddresses))
  \/ <>(deaths > 0)

(* What the exits of km_startup.py and autorestart=true are for: a key     *)
(* manager that gave up is started again.                                  *)
KmRestarted == km = "ended" ~> km # "ended"

(* The containers together keep what Principal promises: the contract that *)
(* migrate.sh deploys is for the key whose address km_address_server.py    *)
(* served, the key manager makes no other key from then on, and it works   *)
(* on that contract, unless contract_startup.py gave up waiting for the    *)
(* address or the chain was lost.                                          *)
Promise == INSTANCE Principal WITH
             key <- keypair,
             served <- principalFile,
             contract <- IF deployed THEN principal ELSE 0,
             working <- km = "run" /\ timeouts = 0 /\ deaths = 0

ImplementsPrincipal == Promise!Spec

(* The containers are never stuck by the order of their steps alone: that  *)
(* migrate.sh left no addresses behind takes a timeout, a failure or a     *)
(* lost chain, and so does a key manager whose main ended while its        *)
(* process goes on; or the executable was killed before it had written an  *)
(* account to ask the faucet for coins for.                                *)
DeadEndNeedsFault ==
  /\ NoAddresses => timeouts + failures + deaths > 0
  /\ km = "ended" => timeouts + failures + deaths > 0 \/ (kills > 0 /\ ~account)
=============================================================================
