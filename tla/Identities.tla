----------------------------- MODULE Identities -----------------------------
(***************************************************************************)
(* The two Ethereum identities of a worker, operating and staking, and the *)
(* files they are kept in.  The worker loads them at every start           *)
(* (environment.py, p2p/utils.py): from its configuration, from a keystore *)
(* of two files that open_eth_keystore of enigma_docker_common/crypto.py   *)
(* creates when either is missing, or, for the staking address, from the   *)
(* file the CLI's setup command writes.  In every shipped configuration    *)
(* that file is also the address file of the staking keystore.             *)
(*                                                                         *)
(* Opening a file for writing truncates it; the content follows when it is *)
(* closed.  The script can end between any two steps, and the CLI writes   *)
(* and polls the files while it runs.                                      *)
(***************************************************************************)
EXTENDS Environment, Naturals

CONSTANTS Absent,      \* no such file; nothing loaded; "N/A" in the CLI
          Empty,       \* the empty string
          Typed,       \* what can be typed as a staking address
          MaxCrashes,  \* bound on the ends of the script (signals, restarts, exceptions)
          MaxForces,   \* bound on the starts with FORCE_NEW_ETH_ADDR
          MaxSetups    \* bound on the setup commands

ASSUME IdentitiesAssumption ==
  /\ Absent # Empty
  /\ {Absent, Empty} \cap (Nat \cup Typed) = {}
  /\ Typed \cap Nat = {}
  /\ MaxCrashes \in Nat /\ MaxForces \in Nat /\ MaxSetups \in Nat

VARIABLES deployment,
          pc,       \* "down", "load", "readKey", "save" or "up"
          role,     \* the identity that is being loaded
          force,    \* FORCE_NEW_ETH_ADDR of this run
          written,  \* writes of _create_keystore done so far
          held,     \* what open_eth_keystore has read or generated so far
          loaded,   \* the EthereumKeys of this run
          minted,   \* keys generated so far; they are numbered
          file,     \* the files of each identity
          cli,      \* the address the CLI is about to write, or Absent
          shown,    \* what the CLI shows
          identity, \* history: the private key each identity was last loaded with
          crashes, forces, setups

script == <<pc, role, force, written, held, loaded, minted, identity>>
terminal == <<cli, shown>>
bounds == <<crashes, forces, setups>>
vars == <<deployment, script, file, terminal, bounds>>

(* A key stands for its address too: keys are numbers, and an address that *)
(* is a number is the address of that key.  The configured key is key 0.   *)
Configured == 0
Roles == {"operating", "staking"}
Contents == {Absent, Empty} \cup Nat \cup Typed
Keystores == [key : {Absent, Empty} \cup Nat, addr : Contents]
Nothing == [key |-> Absent, addr |-> Absent]

TypeOK ==
  /\ deployment \in Deployments
  /\ pc \in {"down", "load", "readKey", "save", "up"}
  /\ role \in Roles
  /\ force \in BOOLEAN
  /\ written \in 0 .. 3
  /\ held \in Keystores
  /\ loaded \in [Roles -> Keystores]
  /\ loaded["operating"].key # Empty
  /\ minted \in Nat
  /\ file \in [Roles -> Keystores]
  /\ cli \in Typed \cup {Absent}
  /\ shown \in [eth : Contents, staking : Contents]
  /\ identity \in [Roles -> {Absent, Empty} \cup Nat]
  /\ crashes \in 0 .. MaxCrashes
  /\ forces \in 0 .. MaxForces
  /\ setups \in 0 .. MaxSetups

Init ==
  /\ deployment \in Deployments
  /\ pc = "down" /\ role = "operating" /\ force = FALSE /\ written = 0
  /\ held = Nothing
  /\ loaded = [r \in Roles |-> Nothing]
  /\ minted = 0
  /\ file = [r \in Roles |-> Nothing]
  /\ cli = Absent
  /\ shown = [eth |-> Absent, staking |-> Absent]
  /\ identity = [r \in Roles |-> Absent]
  /\ crashes = 0 /\ forces = 0 /\ setups = 0

Source(r) == IF r = "staking" THEN StakingSource(deployment)
             ELSE IF load_operating_key_from_config(deployment) THEN "config"
             ELSE "keystore"

-----------------------------------------------------------------------------
(* The script: main, up to the point where it has both identities.         *)

Start ==
  /\ pc = "down"
  /\ \/ force' = FALSE /\ UNCHANGED forces
     \/ force' = TRUE /\ forces < MaxForces /\ forces' = forces + 1
  /\ pc' = "load" /\ role' = "operating"
  /\ written' = 0 /\ held' = Nothing
  /\ loaded' = [r \in Roles |-> Nothing]
  /\ UNCHANGED <<deployment, minted, identity, file, terminal, crashes, setups>>

(* The identity is complete; next the staking identity, or the rest.       *)
Take(ethereumKey) ==
  /\ loaded' = [loaded EXCEPT ![role] = ethereumKey]
  /\ identity' = [identity EXCEPT ![role] = ethereumKey.key]
  /\ role' = "staking"
  /\ pc' = IF role = "operating" THEN "load" ELSE "up"
  /\ written' = 0
  /\ UNCHANGED force

(* Mutant: no __post_init__. *)
EthereumKeyUnderived(key, addr) == [key |-> key, addr |-> addr]

EthereumKey(key, addr) == [key |-> key, addr |-> IF addr = Empty THEN key ELSE addr]

LoadConfigured ==
  /\ pc = "load"
  /\ Source(role) = "config"
  /\ Take(EthereumKey(Configured, Empty))
  /\ UNCHANGED <<deployment, held, minted, file, terminal, bounds>>

(* wait_for_staking_address goes on as soon as the file is there.          *)
StakingAddressFound ==
  /\ pc = "load"
  /\ Source(role) = "cli"
  /\ file["staking"].addr # Absent
  /\ Take([key |-> Empty, addr |-> file["staking"].addr])
  /\ UNCHANGED <<deployment, held, minted, file, terminal, bounds>>

(* get_eth_address: a new private key and its address.                     *)
Generate ==
  /\ minted' = minted + 1
  /\ held' = [key |-> minted + 1, addr |-> minted + 1]
  /\ pc' = "save"
  /\ UNCHANGED <<role, force, written, loaded, identity>>

(* Mutant: the default of FORCE_NEW_ETH_ADDR is True. *)
ForceCreateAlways == /\ pc = "load"
                     /\ Source(role) = "keystore"
                     /\ Generate
                     /\ UNCHANGED <<deployment, file, terminal, bounds>>

ForceCreate == /\ pc = "load"
               /\ Source(role) = "keystore"
               /\ force
               /\ Generate
               /\ UNCHANGED <<deployment, file, terminal, bounds>>

OpenAddress ==
  /\ pc = "load"
  /\ Source(role) = "keystore"
  /\ ~force
  /\ \/ file[role].addr = Absent /\ Generate
     \/ /\ file[role].addr # Absent
        /\ held' = [key |-> Absent, addr |-> file[role].addr]
        /\ pc' = "readKey"
        /\ UNCHANGED <<role, force, written, loaded, minted, identity>>
  /\ UNCHANGED <<deployment, file, terminal, bounds>>

(* Mutant: an empty key file is decrypted to an empty key. *)
UndecryptableIgnored(key) == FALSE

(* decrypt() of an empty file is an uncaught ValueError.                   *)
Undecryptable(key) == key = Empty

(* Mutant: a missing key file is fatal. *)
OpenKeyRequired ==
  /\ pc = "readKey"
  /\ \/ file[role].key \in {Absent, Empty} /\ pc' = "down"
        /\ UNCHANGED <<role, force, written, held, loaded, minted, identity>>
     \/ /\ file[role].key \notin {Absent, Empty}
        /\ Take(EthereumKey(file[role].key, held.addr))
        /\ UNCHANGED <<held, minted>>
  /\ UNCHANGED <<deployment, file, terminal, bounds>>

OpenKey ==
  /\ pc = "readKey"
  /\ \/ file[role].key = Absent /\ Generate
     \/ /\ Undecryptable(file[role].key)
        /\ pc' = "down"
        /\ UNCHANGED <<role, force, written, held, loaded, minted, identity>>
     \/ /\ file[role].key # Absent
        /\ ~Undecryptable(file[role].key)
        /\ Take(EthereumKey(file[role].key, held.addr))
        /\ UNCHANGED <<held, minted>>
  /\ UNCHANGED <<deployment, file, terminal, bounds>>

(* Mutant: the address is saved before the key. *)
NextWriteSwapped == CASE written = 0 -> [file EXCEPT ![role].addr = Empty]
                      [] written = 1 -> [file EXCEPT ![role].addr = held.addr]
                      [] written = 2 -> [file EXCEPT ![role].key = Empty]
                      [] written = 3 -> [file EXCEPT ![role].key = held.key]

(* _create_keystore: the two files, each truncated and then written.       *)
NextWrite == CASE written = 0 -> [file EXCEPT ![role].key = Empty]
               [] written = 1 -> [file EXCEPT ![role].key = held.key]
               [] written = 2 -> [file EXCEPT ![role].addr = Empty]
               [] written = 3 -> [file EXCEPT ![role].addr = held.addr]

Save ==
  /\ pc = "save"
  /\ file' = NextWrite
  /\ IF written < 3
       THEN /\ written' = written + 1
            /\ UNCHANGED <<pc, role, force, loaded, identity>>
       ELSE Take(EthereumKey(held.key, held.addr))
  /\ UNCHANGED <<deployment, held, minted, terminal, bounds>>

Crash == /\ pc # "down"
         /\ crashes < MaxCrashes
         /\ crashes' = crashes + 1
         /\ pc' = "down"
         /\ UNCHANGED <<deployment, role, force, written, held, loaded, minted, identity,
                        file, terminal, forces, setups>>

-----------------------------------------------------------------------------
(* The CLI *)

(* setup: set_staking_address opens the file, and writes the answer of the *)
(* dialog, which is None after Cancel: an exception, the file stays empty. *)
Setup ==
  /\ cli = Absent
  /\ setups < MaxSetups
  /\ setups' = setups + 1
  /\ file' = [file EXCEPT !["staking"].addr = Empty]
  /\ cli' \in Typed \cup {Absent}
  /\ UNCHANGED <<deployment, script, shown, crashes, forces>>

SetupWrites ==
  /\ cli # Absent
  /\ file' = [file EXCEPT !["staking"].addr = cli]
  /\ cli' = Absent
  /\ UNCHANGED <<deployment, script, shown, bounds>>

(* Ctrl-C, or the terminal goes away.                                      *)
Quit == /\ cli # Absent
        /\ cli' = Absent
        /\ UNCHANGED <<deployment, script, shown, file, bounds>>

(* Mutant: an address that was shown once is not looked up again. *)
PollEthAddressOnce ==
  /\ shown.eth = Absent
  /\ shown' = [shown EXCEPT !.eth = file["operating"].addr]
  /\ UNCHANGED <<deployment, script, file, cli, bounds>>

PollEthAddress ==
  /\ shown' = [shown EXCEPT !.eth = file["operating"].addr]
  /\ UNCHANGED <<deployment, script, file, cli, bounds>>

PollStakingAddress ==
  /\ shown' = [shown EXCEPT !.staking = file["staking"].addr]
  /\ UNCHANGED <<deployment, script, file, cli, bounds>>

-----------------------------------------------------------------------------
ScriptSteps == \/ Start \/ LoadConfigured \/ StakingAddressFound
               \/ ForceCreate \/ OpenAddress \/ OpenKey \/ Save

Next == \/ ScriptSteps \/ Crash
        \/ Setup \/ SetupWrites \/ Quit \/ PollEthAddress \/ PollStakingAddress

(* supervisord starts the script, which runs; the CLI polls.  Nobody has   *)
(* to type setup, or to wait for its answer.                               *)
Fairness == /\ WF_vars(ScriptSteps)
            /\ WF_vars(PollEthAddress) /\ WF_vars(PollStakingAddress)

Spec == Init /\ [][Next]_vars
FairSpec == Spec /\ Fairness

-----------------------------------------------------------------------------
(* Properties. *)

(* A worker that is up has the keys it signs with, the operating key and,  *)
(* where it stakes by itself, the staking key; and the address it goes by  *)
(* is the address of the key, wherever its last run was interrupted,       *)
(* unless a new key was forced on it or, for the staking identity, the CLI *)
(* wrote into its keystore.                                                *)
CanSign ==
  pc = "up" => /\ loaded["operating"].key \in Nat
               /\ should_auto_deposit(deployment) => loaded["staking"].key \in Nat

KeyMatchesAddress ==
  /\ CanSign
  /\ \A r \in Roles :
       /\ loaded[r].key \in Nat
       /\ forces = 0
       /\ r = "operating" \/ setups = 0
       => loaded[r].addr = loaded[r].key

(* A key that a worker has used is never replaced, and so never lost with  *)
(* the stake it controls, unless a new one was forced on it.               *)
IdentityStable ==
  [][forces' = 0 => \A r \in Roles : identity[r] \in {Absent, identity'[r]}]_vars

(* The address the CLI shows, to which the user sends ether and for which  *)
(* generate set-address binds the stake, is of the key the worker uses.    *)
ShownIsOperated ==
  forces = 0 /\ shown.eth \in Nat /\ identity["operating"] # Absent
    => shown.eth = identity["operating"]

(* A worker gets past both identities, unless it waits for setup, or there *)
(* is an empty key file beside an address file, which no restart repairs;  *)
(* that takes a forced key, or a setup that preceded the staking keystore. *)
Waiting == pc = "load" /\ Source(role) = "cli" /\ file[role].addr = Absent

Unreadable == \E r \in Roles : /\ Source(r) = "keystore"
                               /\ file[r].key = Empty /\ file[r].addr # Absent

EventuallyUp ==
  \/ <>[](pc = "up") \/ <>[]Waiting
  \/ <>[](Unreadable /\ (forces > 0 \/ setups > 0))

(* In the end the CLI shows what is in the keystore: the address the worker*)
(* goes by, or nothing if the write of its file was interrupted.           *)
ShownInTheEnd ==
  [](pc = "up" /\ Source("operating") = "keystore" =>
       <>(shown.eth \in {loaded["operating"].addr, Empty} \/ pc # "up"))

(* What the CLI's welcome text and the worker's log say: the worker waits  *)
(* until setup has given it a staking address.                             *)
StakingEntered == pc = "up" => loaded["staking"].addr # Empty
=============================================================================
