-------------------------- MODULE Identities_proofs --------------------------
(***************************************************************************)
(* Proofs about Identities, for every set of addresses and every bound.    *)
(* Inv is the inductive invariant; its conjuncts say how far a keystore is *)
(* written, and that what a worker has once used stays on disk.            *)
(***************************************************************************)
EXTENDS Identities, TLAPS

(* While a new key is saved: which one, and when it is on disk.            *)
SaveInv ==
  pc = "save" =>
    /\ Source(role) = "keystore"
    /\ held.key \in Nat /\ held.addr = held.key
    /\ written >= 2 => file[role].key = held.key

(* Nothing is saved yet when an identity is looked for; the key file is    *)
(* read after an address file was.                                         *)
ReadInv ==
  /\ pc \in {"load", "readKey"} => written = 0
  /\ pc = "readKey" => /\ Source(role) = "keystore"
                       /\ file[role].addr # Absent

(* Keystores nobody uses are not there.                                    *)
UnusedInv ==
  \A r \in Roles : Source(r) # "keystore" =>
    /\ file[r].key = Absent
    /\ r = "operating" => file[r].addr = Absent

ForceInv == forces = 0 => ~force

PendingInv == cli # Absent => setups # 0

(* Nothing but this run's saves has touched the keystore of r.             *)
Clean(r) == forces = 0 /\ (r = "operating" \/ setups = 0)

(* A clean keystore: the address is written after the key it belongs to.   *)
CleanInv ==
  \A r \in Roles : Clean(r) /\ Source(r) = "keystore" =>
    /\ \/ file[r].addr = Absent
       \/ file[r].key \in Nat /\ file[r].addr \in {Empty, file[r].key}
    /\ pc = "save" /\ role = r => file[r].addr = IF written = 3 THEN Empty ELSE Absent
    /\ pc = "readKey" /\ role = r => held.addr = file[r].addr

(* A key that was used is on disk, with an address file, and is not being  *)
(* replaced.                                                               *)
KeptInv ==
  forces = 0 => \A r \in Roles : identity[r] # Absent =>
    /\ Source(r) = "config" => identity[r] = Configured
    /\ Source(r) = "cli" => identity[r] = Empty
    /\ Source(r) = "keystore" => /\ identity[r] \in Nat
                                 /\ file[r].key = identity[r]
                                 /\ file[r].addr # Absent
                                 /\ ~(pc = "save" /\ role = r)

(* An address that the CLI shows is still in the address file.             *)
ShownInv == forces = 0 /\ shown.eth \in Nat => file["operating"].addr = shown.eth

(* A clean identity that has a key goes by its address.                    *)
MatchInv == \A r \in Roles : Clean(r) /\ loaded[r].key \in Nat => loaded[r].addr = loaded[r].key

Inv == /\ TypeOK /\ SaveInv /\ ReadInv /\ UnusedInv /\ ForceInv
       /\ PendingInv /\ CleanInv /\ KeptInv /\ ShownInv /\ MatchInv

-----------------------------------------------------------------------------
(* Facts about the operators. *)

(* The three places an identity comes from.                                *)
LEMMA Sources ==
  \A r \in Roles : /\ Source(r) \in {"config", "cli", "keystore"}
                   /\ r = "operating" => Source(r) # "cli"
BY DEF Source, StakingSource, Roles

(* A write changes one of the two files of the identity being loaded.      *)
LEMMA SaveWrites ==
  ASSUME TypeOK, Save
  PROVE  /\ written = 0 => file' = [file EXCEPT ![role].key = Empty]
         /\ written = 1 => file' = [file EXCEPT ![role].key = held.key]
         /\ written = 2 => file' = [file EXCEPT ![role].addr = Empty]
         /\ written = 3 => file' = [file EXCEPT ![role].addr = held.addr]
         /\ written \in 0 .. 3
BY DEF Save, NextWrite, TypeOK

-----------------------------------------------------------------------------
(* Type correctness. *)

(* What a run holds before it has read anything has its type.              *)
LEMMA NothingType == Nothing \in Keystores /\ Nothing.key # Empty
BY IdentitiesAssumption DEF Nothing, Keystores, Contents

(* The initial state has its type.                                         *)
LEMMA TypeInit == Init => TypeOK
<1> SUFFICES ASSUME Init PROVE TypeOK
  OBVIOUS
<1>1. loaded \in [Roles -> Keystores] /\ loaded["operating"].key # Empty
  BY NothingType DEF Init, Roles
<1>2. file \in [Roles -> Keystores] /\ held \in Keystores
  BY NothingType DEF Init
<1>3. identity \in [Roles -> {Absent, Empty} \cup Nat]
  BY DEF Init
<1>4. shown \in [eth : Contents, staking : Contents]
  BY DEF Init, Contents
<1>5. force \in BOOLEAN
  BY DEF Init
<1>6. deployment \in Deployments
  BY DEF Init
<1>7. /\ pc = "down" /\ role = "operating" /\ written = 0 /\ minted = 0 /\ cli = Absent
      /\ crashes = 0 /\ forces = 0 /\ setups = 0
  BY DEF Init
<1> QED BY <1>1, <1>2, <1>3, <1>4, <1>5, <1>6, <1>7, IdentitiesAssumption DEF TypeOK, Roles

(* Taking an identity keeps the type.                                      *)
LEMMA TakeType ==
  ASSUME TypeOK, pc \in {"load", "readKey", "save"}, NEW e \in Keystores, Take(e),
         role = "operating" => e.key # Empty
  PROVE  /\ pc' \in {"load", "up"}
         /\ role' \in Roles
         /\ written' \in 0 .. 3
         /\ loaded' \in [Roles -> Keystores]
         /\ loaded'["operating"].key # Empty
         /\ identity' \in [Roles -> {Absent, Empty} \cup Nat]
         /\ force' = force
BY DEF Take, TypeOK, Roles, Keystores

(* Every step keeps the type.                                              *)
LEMMA TypeNext == TypeOK /\ SaveInv /\ [Next]_vars => TypeOK'
<1> SUFFICES ASSUME TypeOK, SaveInv, [Next]_vars PROVE TypeOK'
  OBVIOUS
<1> USE IdentitiesAssumption
<1> USE DEF Keystores, Contents
<1>0. CASE UNCHANGED vars
  BY <1>0 DEF vars, script, terminal, bounds, TypeOK
<1>1. CASE Start
  <2>1. loaded' \in [Roles -> Keystores] /\ loaded'["operating"].key # Empty
    BY <1>1, NothingType DEF Start, Roles
  <2>2. force' \in BOOLEAN
    BY <1>1 DEF Start
  <2>3. forces' \in 0 .. MaxForces
    BY <1>1 DEF Start, TypeOK
  <2>4. pc' = "load" /\ role' = "operating" /\ written' = 0 /\ held' = Nothing
    BY <1>1 DEF Start
  <2>5. UNCHANGED <<deployment, minted, identity, file, terminal, crashes, setups>>
    BY <1>1 DEF Start
  <2> QED BY <2>1, <2>2, <2>3, <2>4, <2>5, NothingType DEF terminal, TypeOK, Roles
<1>2. CASE LoadConfigured
  <2>1. EthereumKey(Configured, Empty) \in Keystores /\ EthereumKey(Configured, Empty).key # Empty
    BY DEF EthereumKey, Configured
  <2>2. Take(EthereumKey(Configured, Empty)) /\ pc = "load"
    BY <1>2 DEF LoadConfigured
  <2> QED BY <1>2, <2>1, <2>2, TakeType DEF LoadConfigured, terminal, bounds, TypeOK
<1>3. CASE StakingAddressFound
  <2> DEFINE e == [key |-> Empty, addr |-> file["staking"].addr]
  <2>1. e \in Keystores
    BY DEF TypeOK, Roles
  <2>2. Take(e) /\ pc = "load" /\ role # "operating"
    BY <1>3, Sources DEF StakingAddressFound, TypeOK
  <2> HIDE DEF e
  <2> QED BY <1>3, <2>1, <2>2, TakeType DEF StakingAddressFound, terminal, bounds, TypeOK
<1>4. CASE ForceCreate
  BY <1>4 DEF ForceCreate, Generate, terminal, bounds, TypeOK
<1>5. CASE OpenAddress
  BY <1>5 DEF OpenAddress, Generate, terminal, bounds, TypeOK
<1>6. CASE OpenKey
  <2>1. CASE file[role].key = Absent /\ Generate
    BY <1>6, <2>1 DEF OpenKey, Generate, terminal, bounds, TypeOK
  <2>2. CASE pc' = "down" /\ UNCHANGED <<role, force, written, held, loaded, minted, identity>>
    BY <1>6, <2>2 DEF OpenKey, terminal, bounds, TypeOK
  <2>3. CASE /\ file[role].key # Absent /\ ~Undecryptable(file[role].key)
             /\ Take(EthereumKey(file[role].key, held.addr)) /\ UNCHANGED <<held, minted>>
    <3> DEFINE e == EthereumKey(file[role].key, held.addr)
    <3>1. e \in Keystores /\ e.key # Empty
      BY <2>3 DEF EthereumKey, Undecryptable, TypeOK
    <3>2. Take(e) /\ pc = "readKey"
      BY <1>6, <2>3 DEF OpenKey
    <3> HIDE DEF e
    <3> QED BY <1>6, <2>3, <3>1, <3>2, TakeType DEF OpenKey, terminal, bounds, TypeOK
  <2> QED BY <1>6, <2>1, <2>2, <2>3 DEF OpenKey
<1>7. CASE Save
  <2>1. file' \in [Roles -> Keystores]
    BY <1>7, SaveWrites DEF TypeOK
  <2>2. CASE written < 3
    BY <1>7, <2>1, <2>2 DEF Save, terminal, bounds, TypeOK
  <2>3. CASE ~(written < 3)
    <3> DEFINE e == EthereumKey(held.key, held.addr)
    <3>1. e \in Keystores /\ e.key # Empty
      BY <1>7 DEF EthereumKey, SaveInv, Save, TypeOK
    <3>2. Take(e) /\ pc = "save"
      BY <1>7, <2>3 DEF Save
    <3> HIDE DEF e
    <3> QED BY <1>7, <2>1, <3>1, <3>2, TakeType DEF Save, terminal, bounds, TypeOK
  <2> QED BY <2>2, <2>3
<1>8. CASE Crash
  BY <1>8 DEF Crash, terminal, TypeOK
<1>9. CASE Setup \/ SetupWrites \/ Quit
  BY <1>9 DEF Setup, SetupWrites, Quit, script, bounds, TypeOK, Roles
<1>10. CASE PollEthAddress \/ PollStakingAddress
  BY <1>10 DEF PollEthAddress, PollStakingAddress, script, bounds, TypeOK, Roles
<1> QED BY <1>0, <1>1, <1>2, <1>3, <1>4, <1>5, <1>6, <1>7, <1>8, <1>9, <1>10
           DEF Next, ScriptSteps

-----------------------------------------------------------------------------
(* The invariant. *)

(* Inv holds in the initial states.                                        *)
LEMMA InitInv == Init => Inv
<1> SUFFICES ASSUME Init PROVE Inv
  OBVIOUS
<1> USE IdentitiesAssumption DEF Init
<1>1. TypeOK
  BY TypeInit
<1>2. SaveInv /\ ReadInv
  BY DEF SaveInv, ReadInv
<1>3. UnusedInv
  BY DEF UnusedInv, Nothing
<1>4. ForceInv
  BY DEF ForceInv
<1>9. PendingInv
  BY DEF PendingInv
<1>5. CleanInv
  BY DEF CleanInv, Nothing
<1>6. KeptInv
  BY DEF KeptInv
<1>7. ShownInv
  BY DEF ShownInv
<1>8. MatchInv
  BY DEF MatchInv, Clean, Nothing
<1> QED BY <1>1, <1>2, <1>3, <1>4, <1>5, <1>6, <1>7, <1>8, <1>9 DEF Inv

(* Every step preserves the invariant.                                     *)
LEMMA StartInv ==
  ASSUME Inv, Start PROVE Inv'
<1> USE IdentitiesAssumption DEF Inv
<1>1. UNCHANGED <<deployment, file, shown, identity, setups>> /\ pc' = "load"
  BY DEF Start, terminal
<1>2. forces' = 0 => forces = 0 /\ ~force'
  BY DEF Start, TypeOK
<1>3. \A r : Source(r)' = Source(r)
  BY <1>1 DEF Source
<1>4. TypeOK'
  BY TypeNext DEF Next, ScriptSteps
<1>5. SaveInv' /\ ReadInv'
  BY <1>1 DEF SaveInv, ReadInv, Start
<1>6. UnusedInv'
  BY <1>1, <1>3 DEF UnusedInv
<1>7. ForceInv' /\ PendingInv'
  BY <1>2 DEF ForceInv, PendingInv, Start, terminal
<1>8. CleanInv'
  BY <1>1, <1>2, <1>3 DEF CleanInv, Clean
<1>9. KeptInv'
  BY <1>1, <1>2, <1>3 DEF KeptInv
<1>10. ShownInv'
  BY <1>1, <1>2 DEF ShownInv
<1>11. MatchInv'
  BY DEF Start, MatchInv, Clean, Nothing
<1> QED BY <1>4, <1>5, <1>6, <1>7, <1>8, <1>9, <1>10, <1>11

(* The invariant survives when an identity is taken whose key, if it is    *)
(* from a keystore, is on disk, and matches its address.                   *)
LEMMA TakeInv ==
  ASSUME Inv, TypeOK', NEW e, Take(e), pc \in {"load", "readKey", "save"},
         UNCHANGED <<deployment, file, terminal, bounds>>,
         Clean(role) /\ e.key \in Nat => e.addr = e.key,
         Source(role) = "config" => e.key = Configured,
         Source(role) = "cli" => e.key = Empty,
         Source(role) = "keystore" => /\ e.key \in Nat /\ file[role].key = e.key
                                      /\ file[role].addr # Absent
  PROVE  Inv'
<1> USE IdentitiesAssumption DEF Inv
<1>1. UNCHANGED <<deployment, file, shown, setups, forces, force>> /\ pc' \in {"load", "up"}
  BY DEF Take, terminal, bounds
<1>2. \A r : Source(r)' = Source(r)
  BY <1>1 DEF Source
<1>3. /\ identity' \in [Roles -> {Absent, Empty} \cup Nat]
      /\ loaded' \in [Roles -> Keystores]
      /\ \A r \in Roles : identity'[r] = IF r = role THEN e.key ELSE identity[r]
      /\ \A r \in Roles : loaded'[r] = IF r = role THEN e ELSE loaded[r]
  BY DEF Take, TypeOK
<1>4. SaveInv' /\ ReadInv'
  BY <1>1 DEF SaveInv, ReadInv, Take
<1>5. UnusedInv'
  BY <1>1, <1>2 DEF UnusedInv
<1>6. ForceInv' /\ PendingInv'
  BY <1>1 DEF ForceInv, PendingInv, terminal, bounds
<1>7. CleanInv'
  BY <1>1, <1>2 DEF CleanInv, Clean
<1>8. KeptInv'
  BY <1>1, <1>2, <1>3 DEF KeptInv
<1>9. ShownInv'
  BY <1>1 DEF ShownInv
<1>10. MatchInv'
  BY <1>1, <1>3 DEF MatchInv, Clean
<1> QED BY <1>4, <1>5, <1>6, <1>7, <1>8, <1>9, <1>10

(* The invariant survives a decision to make a new key: the one in use, if *)
(* there is one, is in a complete keystore.                                *)
LEMMA GenerateInv ==
  ASSUME Inv, TypeOK', Generate, pc \in {"load", "readKey"},
         UNCHANGED <<deployment, file, terminal, bounds>>,
         Source(role) = "keystore",
         force \/ file[role].addr = Absent \/ file[role].key = Absent
  PROVE  Inv'
<1> USE IdentitiesAssumption DEF Inv
<1>1. /\ UNCHANGED <<deployment, file, shown, setups, forces, force, role>>
      /\ pc' = "save" /\ written' = 0
  BY DEF Generate, terminal, bounds, ReadInv
<1>2. \A r : Source(r)' = Source(r)
  BY <1>1 DEF Source
<1>3. UNCHANGED <<identity, loaded>>
  BY DEF Generate
<1>4. forces = 0 => file[role].addr = Absent \/ file[role].key = Absent
  BY DEF ForceInv
<1>5. SaveInv' /\ ReadInv'
  <2>1. held'.key = minted + 1 /\ held'.addr = minted + 1 /\ minted \in Nat
    BY DEF Generate, TypeOK
  <2> QED BY <1>1, <1>2, <2>1 DEF SaveInv, ReadInv
<1>6. UnusedInv'
  BY <1>1, <1>2 DEF UnusedInv
<1>7. ForceInv' /\ PendingInv'
  BY <1>1 DEF ForceInv, PendingInv, terminal, bounds
<1>8. CleanInv'
  BY <1>1, <1>2, <1>4 DEF CleanInv, Clean, TypeOK
<1>9. KeptInv'
  BY <1>1, <1>2, <1>3, <1>4 DEF KeptInv, TypeOK
<1>10. ShownInv'
  BY <1>1 DEF ShownInv
<1>11. MatchInv'
  BY <1>1, <1>3 DEF MatchInv, Clean
<1> QED BY <1>5, <1>6, <1>7, <1>8, <1>9, <1>10, <1>11

(* A write of the new key survives: nothing used is overwritten, and the   *)
(* address follows the key.                                                *)
LEMMA SaveInvariant ==
  ASSUME Inv, TypeOK', Save PROVE Inv'
<1> USE IdentitiesAssumption DEF Inv
<1>1. /\ UNCHANGED <<deployment, shown, setups, forces, force, held>>
      /\ pc = "save" /\ role \in Roles /\ written \in 0 .. 3
      /\ held.key \in Nat /\ held.addr = held.key /\ Source(role) = "keystore"
  BY DEF Save, SaveInv, Take, terminal, bounds, TypeOK
<1>2. \A r : Source(r)' = Source(r)
  BY <1>1 DEF Source
<1>3. \A r \in Roles : r # role => file'[r] = file[r]
  BY SaveWrites DEF TypeOK
<1>4. /\ file'[role].key = IF written = 0 THEN Empty
                           ELSE IF written = 1 THEN held.key ELSE file[role].key
      /\ file'[role].addr = IF written = 2 THEN Empty
                            ELSE IF written = 3 THEN held.addr ELSE file[role].addr
  BY <1>1, SaveWrites DEF TypeOK, Keystores
<1>5. UnusedInv'
  BY <1>1, <1>2, <1>3 DEF UnusedInv
<1>6. ForceInv' /\ PendingInv'
  BY <1>1 DEF ForceInv, PendingInv, Save, terminal, bounds
<1>7. ShownInv'
  <2> SUFFICES ASSUME forces = 0, shown.eth \in Nat
               PROVE  file'["operating"].addr = shown.eth
    BY <1>1 DEF ShownInv
  <2>1. file["operating"].addr = shown.eth
    BY DEF ShownInv
  <2>2. CASE role # "operating"
    BY <1>3, <2>1, <2>2 DEF Roles
  <2>3. CASE role = "operating"
    <3>1. file["operating"].addr \in {Absent, Empty}
      BY <1>1, <2>3 DEF CleanInv, Clean, Roles
    <3> QED BY <2>1, <3>1
  <2> QED BY <2>2, <2>3
<1>8. CASE written < 3
  <2>1. /\ UNCHANGED <<pc, role, identity, loaded>>
        /\ written' = written + 1
    BY <1>8 DEF Save
  <2>2. SaveInv' /\ ReadInv'
    BY <1>1, <1>2, <1>4, <1>8, <2>1 DEF SaveInv, ReadInv
  <2>3. CleanInv'
    BY <1>1, <1>2, <1>3, <1>4, <1>8, <2>1 DEF CleanInv, Clean, SaveInv
  <2>4. KeptInv'
    BY <1>1, <1>2, <1>3, <1>4, <2>1 DEF KeptInv
  <2>5. MatchInv'
    BY <1>1, <2>1 DEF MatchInv, Clean
  <2> QED BY <1>5, <1>6, <1>7, <2>2, <2>3, <2>4, <2>5
<1>9. CASE written = 3
  <2> DEFINE e == EthereumKey(held.key, held.addr)
  <2>1. Take(e) /\ e.key = held.key /\ e.addr = held.key
    BY <1>1, <1>9 DEF Save, EthereumKey
  <2>2. file[role].key = held.key
    BY <1>1, <1>9 DEF SaveInv
  <2> HIDE DEF e
  <2>3. /\ pc' \in {"load", "up"} /\ written' = 0
        /\ \A r \in Roles : identity'[r] = IF r = role THEN e.key ELSE identity[r]
        /\ \A r \in Roles : loaded'[r] = IF r = role THEN e ELSE loaded[r]
    BY <2>1 DEF Take, TypeOK
  <2>4. SaveInv' /\ ReadInv'
    BY <2>3 DEF SaveInv, ReadInv
  <2>5. CleanInv'
    BY <1>1, <1>2, <1>3, <1>4, <1>9, <2>2, <2>3 DEF CleanInv, Clean
  <2>6. KeptInv'
    BY <1>1, <1>2, <1>3, <1>4, <1>9, <2>1, <2>2, <2>3 DEF KeptInv
  <2>7. MatchInv'
    BY <1>1, <2>1, <2>3 DEF MatchInv, Clean
  <2> QED BY <1>5, <1>6, <1>7, <2>4, <2>5, <2>6, <2>7
<1> QED BY <1>1, <1>8, <1>9

(* The CLI writes only the address file of the staking identity.           *)
LEMMA SetupInv ==
  ASSUME Inv, TypeOK', Setup \/ SetupWrites \/ Quit PROVE Inv'
<1> USE IdentitiesAssumption DEF Inv
<1>1. /\ UNCHANGED <<deployment, pc, role, force, written, held, loaded, identity, shown, forces>>
      /\ setups' = 0 => file' = file /\ setups = 0
  <2>1. Setup => setups' # 0
    BY DEF Setup, TypeOK
  <2>2. SetupWrites => setups # 0
    BY DEF SetupWrites, PendingInv
  <2> QED BY <2>1, <2>2 DEF Setup, SetupWrites, Quit, script, bounds
<1>2. \A r : Source(r)' = Source(r)
  BY <1>1 DEF Source
<1>3. file'["operating"] = file["operating"]
  BY DEF Setup, SetupWrites, Quit, TypeOK, Roles
<1>4. /\ file'["staking"].key = file["staking"].key
      /\ file["staking"].addr # Absent => file'["staking"].addr # Absent
  BY DEF Setup, SetupWrites, Quit, TypeOK, Roles, Keystores
<1>5. SaveInv' /\ ReadInv'
  BY <1>1, <1>2, <1>3, <1>4 DEF SaveInv, ReadInv, TypeOK, Roles
<1>6. UnusedInv'
  BY <1>1, <1>2, <1>3, <1>4 DEF UnusedInv, Roles
<1>7. ForceInv' /\ PendingInv'
  BY <1>1 DEF ForceInv, PendingInv, Setup, SetupWrites, Quit, bounds, TypeOK
<1>8. CleanInv'
  BY <1>1, <1>2, <1>3 DEF CleanInv, Clean, Roles
<1>9. KeptInv'
  BY <1>1, <1>2, <1>3, <1>4 DEF KeptInv, Roles
<1>10. ShownInv'
  BY <1>1, <1>3 DEF ShownInv
<1>11. MatchInv'
  BY <1>1 DEF MatchInv, Clean, TypeOK
<1> QED BY <1>5, <1>6, <1>7, <1>8, <1>9, <1>10, <1>11

(* Every step preserves the invariant.                                     *)
LEMMA NextInv == Inv /\ [Next]_vars => Inv'
<1> SUFFICES ASSUME Inv, [Next]_vars PROVE Inv'
  OBVIOUS
<1> USE IdentitiesAssumption
<1>0. TypeOK /\ TypeOK'
  BY TypeNext DEF Inv
<1>1. CASE Start
  BY <1>1, StartInv
<1>2. CASE LoadConfigured
  <2> DEFINE e == EthereumKey(Configured, Empty)
  <2>1. e.key = Configured /\ e.addr = e.key /\ Configured \in Nat
    BY DEF EthereumKey, Configured
  <2>2. /\ Take(e) /\ pc = "load" /\ Source(role) = "config"
        /\ UNCHANGED <<deployment, file, terminal, bounds>>
    BY <1>2 DEF LoadConfigured
  <2> HIDE DEF e
  <2> QED BY <1>0, <2>1, <2>2, TakeInv
<1>3. CASE StakingAddressFound
  <2> DEFINE e == [key |-> Empty, addr |-> file["staking"].addr]
  <2>1. e.key = Empty
    OBVIOUS
  <2>2. /\ Take(e) /\ pc = "load" /\ Source(role) = "cli"
        /\ UNCHANGED <<deployment, file, terminal, bounds>>
    BY <1>3 DEF StakingAddressFound
  <2> HIDE DEF e
  <2> QED BY <1>0, <2>1, <2>2, TakeInv
<1>4. CASE ForceCreate
  BY <1>0, <1>4, GenerateInv DEF ForceCreate
<1>5. CASE OpenAddress
  <2>1. CASE file[role].addr = Absent /\ Generate
    BY <1>0, <1>5, <2>1, GenerateInv DEF OpenAddress
  <2>2. CASE /\ file[role].addr # Absent
             /\ held' = [key |-> Absent, addr |-> file[role].addr]
             /\ pc' = "readKey"
             /\ UNCHANGED <<role, force, written, loaded, minted, identity>>
    <3>1. UNCHANGED <<deployment, file, shown, cli, forces, setups>> /\ Source(role) = "keystore"
      BY <1>5 DEF OpenAddress, terminal, bounds
    <3>2. \A r : Source(r)' = Source(r)
      BY <3>1 DEF Source
    <3>3. pc = "load" /\ held'.addr = file[role].addr
      BY <1>5, <2>2 DEF OpenAddress
    <3>4. SaveInv' /\ ReadInv'
      BY <2>2, <3>1, <3>2, <3>3 DEF Inv, SaveInv, ReadInv
    <3>5. UnusedInv' /\ ForceInv' /\ PendingInv' /\ ShownInv'
      BY <2>2, <3>1, <3>2 DEF Inv, UnusedInv, ForceInv, PendingInv, ShownInv
    <3>6. CleanInv'
      BY <2>2, <3>1, <3>2, <3>3 DEF Inv, CleanInv, Clean
    <3>7. KeptInv' /\ MatchInv'
      BY <2>2, <3>1, <3>2, <3>3 DEF Inv, KeptInv, MatchInv, Clean
    <3> QED BY <1>0, <3>4, <3>5, <3>6, <3>7 DEF Inv
  <2> QED BY <1>5, <2>1, <2>2 DEF OpenAddress
<1>6. CASE OpenKey
  <2>0. /\ pc = "readKey" /\ Source(role) = "keystore" /\ file[role].addr # Absent
        /\ UNCHANGED <<deployment, file, terminal, bounds>>
    BY <1>6 DEF OpenKey, Inv, ReadInv
  <2>1. CASE file[role].key = Absent /\ Generate
    BY <1>0, <2>0, <2>1, GenerateInv
  <2>2. CASE /\ pc' = "down"
             /\ UNCHANGED <<role, force, written, held, loaded, minted, identity>>
    <3>2. \A r : Source(r)' = Source(r)
      BY <2>0 DEF Source
    <3>3. UNCHANGED <<shown, cli, forces, setups>>
      BY <2>0 DEF terminal, bounds
    <3>4. SaveInv' /\ ReadInv'
      BY <2>2 DEF SaveInv, ReadInv
    <3>5. UnusedInv' /\ ForceInv' /\ PendingInv' /\ ShownInv'
      BY <2>0, <2>2, <3>2, <3>3 DEF Inv, UnusedInv, ForceInv, PendingInv, ShownInv
    <3>6. CleanInv'
      BY <2>0, <2>2, <3>2, <3>3 DEF Inv, CleanInv, Clean
    <3>7. KeptInv' /\ MatchInv'
      BY <2>0, <2>2, <3>2, <3>3 DEF Inv, KeptInv, MatchInv, Clean
    <3> QED BY <1>0, <3>4, <3>5, <3>6, <3>7 DEF Inv
  <2>3. CASE /\ file[role].key # Absent /\ ~Undecryptable(file[role].key)
             /\ Take(EthereumKey(file[role].key, held.addr))
    <3> DEFINE e == EthereumKey(file[role].key, held.addr)
    <3>1. e.key = file[role].key /\ e.addr = IF held.addr = Empty THEN e.key ELSE held.addr
      BY DEF EthereumKey
    <3>2. e.key \in Nat
      BY <1>0, <2>3, <3>1 DEF Undecryptable, TypeOK, Keystores
    <3>3. Take(e)
      BY <2>3
    <3> HIDE DEF e
    <3>4. Clean(role) => e.addr = e.key
      BY <1>0, <2>0, <3>1, <3>2 DEF Inv, CleanInv, TypeOK
    <3> QED BY <1>0, <2>0, <3>1, <3>2, <3>3, <3>4, TakeInv
  <2> QED BY <1>6, <2>1, <2>2, <2>3 DEF OpenKey
<1>7. CASE Save
  BY <1>0, <1>7, SaveInvariant
<1>8. CASE Setup \/ SetupWrites \/ Quit
  BY <1>0, <1>8, SetupInv
<1>9. CASE Crash \/ PollEthAddress \/ PollStakingAddress \/ UNCHANGED vars
  <2>1. /\ UNCHANGED <<deployment, role, force, written, held, loaded, identity, file,
                       cli, forces, setups>>
        /\ pc' \in {pc, "down"}
        /\ shown'.eth \in {shown.eth, file["operating"].addr}
    BY <1>0, <1>9 DEF Crash, PollEthAddress, PollStakingAddress, vars, script, terminal,
                     bounds, TypeOK
  <2>2. \A r : Source(r)' = Source(r)
    BY <2>1 DEF Source
  <2>3. SaveInv' /\ ReadInv'
    BY <2>1, <2>2 DEF Inv, SaveInv, ReadInv
  <2>4. UnusedInv' /\ ForceInv' /\ PendingInv' /\ ShownInv'
    BY <2>1, <2>2 DEF Inv, UnusedInv, ForceInv, PendingInv, ShownInv
  <2>5. CleanInv'
    BY <2>1, <2>2 DEF Inv, CleanInv, Clean
  <2>6. KeptInv' /\ MatchInv'
    BY <2>1, <2>2 DEF Inv, KeptInv, MatchInv, Clean
  <2> QED BY <1>0, <2>3, <2>4, <2>5, <2>6 DEF Inv
<1> QED BY <1>1, <1>2, <1>3, <1>4, <1>5, <1>6, <1>7, <1>8, <1>9 DEF Next, ScriptSteps

(* Inv always holds.                                                       *)
LEMMA Invariance == Spec => []Inv
BY InitInv, NextInv, PTL DEF Spec

-----------------------------------------------------------------------------
(* Theorems. *)

(* The state of the script, the CLI and the files always has its type; in  *)
(* particular a worker never operates with an empty private key.           *)
THEOREM TypeCorrect == Spec => []TypeOK
BY Invariance, PTL DEF Inv

(* What has been taken so far of the keys a worker signs with.             *)
SignInv ==
  /\ pc # "down" /\ role = "staking" => loaded["operating"].key \in Nat
  /\ pc = "up" => role = "staking"
  /\ CanSign

(* Taking an identity gives it a key, unless its address was typed.        *)
LEMMA TakeSigns ==
  ASSUME Inv, SignInv, NEW e, Take(e), pc \in {"load", "readKey", "save"}, deployment' = deployment,
         Source(role) # "cli" => e.key \in Nat
  PROVE  SignInv'
<1>1. role \in Roles /\ loaded \in [Roles -> Keystores]
  BY DEF Inv, TypeOK
<1>2. loaded'[role] = e /\ \A r \in Roles : r # role => loaded'[r] = loaded[r]
  BY <1>1 DEF Take
<1>3. role' = "staking" /\ (pc' = "up" => role = "staking")
  BY <1>1 DEF Take, Roles
<1>4. loaded'["operating"].key \in Nat
  BY <1>1, <1>2, Sources DEF SignInv, Roles
<1>5. role = "staking" /\ should_auto_deposit(deployment) => loaded'["staking"].key \in Nat
  <2>1. should_auto_deposit(deployment) => StakingSource(deployment) # "cli"
    BY DEF StakingSource, should_auto_deposit, load_staking_from_cli, load_staking_from_config,
           testing, testnet
  <2> QED BY <1>1, <1>2, <2>1 DEF Source
<1> QED BY <1>3, <1>4, <1>5 DEF SignInv, CanSign

(* Every step keeps SignInv.                                               *)
LEMMA SignStep ==
  ASSUME Inv, SignInv, [Next]_vars PROVE SignInv'
<1>0. TypeOK /\ role \in Roles /\ ReadInv /\ SaveInv
  BY DEF Inv, TypeOK
<1>1. CASE LoadConfigured
  <2>1. EthereumKey(Configured, Empty).key \in Nat
    BY DEF EthereumKey, Configured
  <2> QED BY <1>1, <2>1, TakeSigns DEF LoadConfigured
<1>2. CASE StakingAddressFound
  BY <1>2, TakeSigns DEF StakingAddressFound
<1>3. CASE OpenKey /\ Take(EthereumKey(file[role].key, held.addr))
  <2>1. CASE file[role].key \in Nat
    <3>1. EthereumKey(file[role].key, held.addr).key \in Nat
      BY <2>1 DEF EthereumKey
    <3> QED BY <1>3, <3>1, TakeSigns DEF OpenKey
  <2>2. CASE file[role].key \notin Nat
    <3>1. file[role].key \in {Absent, Empty}
      BY <1>0, <2>2 DEF TypeOK, Keystores
    <3>2. pc' \in {"save", "down"}
      BY <1>3, <3>1 DEF OpenKey, Generate, Undecryptable
    <3> QED BY <1>3, <3>2 DEF Take
  <2> QED BY <2>1, <2>2
<1>4. CASE Save /\ Take(EthereumKey(held.key, held.addr))
  <2>1. EthereumKey(held.key, held.addr).key \in Nat
    BY <1>0, <1>4 DEF EthereumKey, Save, SaveInv
  <2> QED BY <1>4, <2>1, TakeSigns DEF Save
<1>5. CASE Start
  BY <1>5 DEF Start, SignInv, CanSign
<1>6. CASE Crash
  BY <1>6 DEF Crash, SignInv, CanSign
<1>7. CASE \/ ForceCreate \/ OpenAddress
           \/ OpenKey /\ ~Take(EthereumKey(file[role].key, held.addr))
           \/ Save /\ ~Take(EthereumKey(held.key, held.addr))
  <2>1. UNCHANGED <<deployment, role, loaded>> /\ pc # "down" /\ pc' # "up"
    BY <1>7 DEF ForceCreate, OpenAddress, OpenKey, Save, Generate
  <2> QED BY <2>1 DEF SignInv, CanSign
<1>8. CASE Setup \/ SetupWrites \/ Quit \/ PollEthAddress \/ PollStakingAddress \/ UNCHANGED vars
  <2>1. UNCHANGED <<deployment, role, loaded, pc>>
    BY <1>8 DEF Setup, SetupWrites, Quit, PollEthAddress, PollStakingAddress, vars, script
  <2> QED BY <2>1 DEF SignInv, CanSign
<1> QED BY <1>1, <1>2, <1>3, <1>4, <1>5, <1>6, <1>7, <1>8 DEF Next, ScriptSteps

(* KeyMatchesAddress: a worker that is up can sign, and wherever the       *)
(* creation of a keystore is interrupted, the key and the address loaded   *)
(* next belong together.                                                   *)
THEOREM KeyFits == Spec => []KeyMatchesAddress
<1>1. Init => SignInv
  BY DEF Init, SignInv, CanSign
<1>2. Inv /\ SignInv /\ [Next]_vars => SignInv'
  BY SignStep
<1>3. Inv /\ SignInv => KeyMatchesAddress
  BY DEF Inv, MatchInv, Clean, SignInv, KeyMatchesAddress
<1> QED BY <1>1, <1>2, <1>3, Invariance, PTL DEF Spec

(* What StakingEntered leaves: a worker whose staking address comes from   *)
(* the CLI waits until setup was typed, and only such a worker, which may  *)
(* have found the file open, goes by an empty one.                         *)
EnteredInv ==
  /\ Source("staking") = "cli" /\ setups = 0 => file["staking"].addr = Absent /\ pc # "up"
  /\ Source("staking") # "cli" => loaded["staking"].addr # Empty

EnteredBySetup ==
  pc = "up" => /\ Source("staking") = "cli" => setups > 0
               /\ loaded["staking"].addr = Empty => Source("staking") = "cli"

(* Taking an identity of a keystore or of the configuration gives it its   *)
(* address; one of the CLI is taken when its file is there.                *)
LEMMA TakeEntered ==
  ASSUME Inv, EnteredInv, NEW e, Take(e), pc \in {"load", "readKey", "save"},
         UNCHANGED <<deployment, setups>>,
         role = "staking" =>
           IF Source("staking") = "cli" THEN file["staking"].addr # Absent ELSE e.addr # Empty,
         Source("staking") = "cli" => UNCHANGED file
  PROVE  EnteredInv'
<1>1. role \in Roles /\ loaded \in [Roles -> Keystores]
  BY DEF Inv, TypeOK
<1>2. loaded'[role] = e /\ \A r \in Roles : r # role => loaded'[r] = loaded[r]
  BY <1>1 DEF Take
<1>3. role = "operating" => pc' = "load"
  BY DEF Take
<1>4. Source("staking")' = Source("staking")
  BY DEF Source
<1>5. CASE role = "staking"
  BY <1>2, <1>3, <1>4, <1>5 DEF EnteredInv
<1>6. CASE role = "operating"
  <2>1. loaded'["staking"] = loaded["staking"]
    BY <1>2, <1>6 DEF Roles
  <2> QED BY <1>3, <1>4, <1>6, <2>1 DEF EnteredInv
<1> QED BY <1>1, <1>5, <1>6 DEF Roles

(* Every step keeps EnteredInv.                                            *)
LEMMA EnteredStep ==
  ASSUME Inv, EnteredInv, [Next]_vars PROVE EnteredInv'
<1>0. TypeOK /\ role \in Roles /\ ReadInv /\ SaveInv /\ PendingInv
  BY DEF Inv, TypeOK
<1>a. Empty \notin Nat /\ Absent # Empty
  BY IdentitiesAssumption
<1>b. \A key \in Nat : \A addr : EthereumKey(key, addr).addr # Empty
  BY <1>a DEF EthereumKey
<1>1. CASE LoadConfigured
  <2>1. EthereumKey(Configured, Empty).addr # Empty
    BY <1>b DEF Configured
  <2>2. role = "staking" => Source("staking") # "cli"
    BY <1>1 DEF LoadConfigured
  <2> QED BY <1>1, <2>1, <2>2, TakeEntered DEF LoadConfigured, bounds
<1>2. CASE StakingAddressFound
  <2>1. role = "staking" => Source("staking") = "cli"
    BY <1>2 DEF StakingAddressFound
  <2>2. Source("staking") = "cli" => UNCHANGED file
    BY <1>2 DEF StakingAddressFound
  <2> QED BY <1>2, <2>1, <2>2, TakeEntered DEF StakingAddressFound, bounds
<1>3. CASE OpenKey /\ Take(EthereumKey(file[role].key, held.addr))
  <2>1. file[role].key \in Nat
    <3>1. file[role].key \notin Nat => file[role].key \in {Absent, Empty}
      BY <1>0 DEF TypeOK, Keystores
    <3>2. file[role].key \notin Nat => pc' \in {"save", "down"}
      BY <1>3, <3>1 DEF OpenKey, Generate, Undecryptable
    <3> QED BY <1>3, <3>2 DEF Take
  <2>2. EthereumKey(file[role].key, held.addr).addr # Empty
    BY <1>b, <2>1
  <2>3. role = "staking" => Source("staking") # "cli"
    BY <1>0, <1>3 DEF OpenKey, ReadInv
  <2> QED BY <1>3, <2>2, <2>3, TakeEntered DEF OpenKey, bounds
<1>4. CASE Save /\ Take(EthereumKey(held.key, held.addr))
  <2>1. EthereumKey(held.key, held.addr).addr # Empty
    BY <1>0, <1>4, <1>b DEF Save, SaveInv
  <2>2. Source(role) = "keystore"
    BY <1>0, <1>4 DEF Save, SaveInv
  <2>3. CASE role = "staking"
    BY <1>4, <2>1, <2>2, <2>3, TakeEntered DEF Save, bounds
  <2>4. CASE role = "operating"
    <3>1. loaded'["staking"] = loaded["staking"] /\ file'["staking"] = file["staking"]
      BY <1>0, <1>4, <2>4 DEF Save, Take, NextWrite, TypeOK, Roles
    <3>2. Source("staking")' = Source("staking") /\ setups' = setups /\ pc' = "load"
      BY <1>4, <2>4 DEF Save, Take, Source, bounds
    <3> QED BY <3>1, <3>2 DEF EnteredInv
  <2> QED BY <1>0, <2>3, <2>4 DEF Roles
<1>5. CASE Start
  <2>1. loaded'["staking"].addr = Absent /\ pc' = "load" /\ UNCHANGED <<deployment, file, setups>>
    BY <1>5 DEF Start, Nothing, Roles
  <2> QED BY <1>a, <2>1 DEF EnteredInv, Source
<1>6. CASE \/ Crash \/ ForceCreate \/ OpenAddress
           \/ OpenKey /\ ~Take(EthereumKey(file[role].key, held.addr))
  <2>1. UNCHANGED <<deployment, loaded, file, setups>> /\ pc' # "up"
    BY <1>6 DEF Crash, ForceCreate, OpenAddress, OpenKey, Generate, bounds
  <2> QED BY <2>1 DEF EnteredInv, Source
<1>7. CASE Save /\ ~Take(EthereumKey(held.key, held.addr))
  <2>1. UNCHANGED <<deployment, loaded, setups>> /\ pc' # "up"
    BY <1>7 DEF Save, bounds
  <2>2. Source("staking") = "cli" => role = "operating"
    BY <1>0, <1>7 DEF Save, SaveInv, Roles
  <2>3. Source("staking") = "cli" => file'["staking"] = file["staking"]
    BY <1>0, <1>7, <2>2 DEF Save, NextWrite, TypeOK, Roles
  <2> QED BY <2>1, <2>3 DEF EnteredInv, Source
<1>8. CASE Setup \/ SetupWrites \/ Quit
  <2>1. UNCHANGED <<deployment, loaded, role, pc>>
    BY <1>8 DEF Setup, SetupWrites, Quit, script
  <2>2. setups' = 0 => setups = 0 /\ UNCHANGED file
    BY <1>0, <1>8 DEF Setup, SetupWrites, Quit, PendingInv, bounds, TypeOK
  <2> QED BY <2>1, <2>2 DEF EnteredInv, Source
<1>9. CASE PollEthAddress \/ PollStakingAddress \/ UNCHANGED vars
  <2>1. UNCHANGED <<deployment, loaded, role, pc, setups, file>>
    BY <1>9 DEF PollEthAddress, PollStakingAddress, vars, script, bounds
  <2> QED BY <2>1 DEF EnteredInv, Source
<1> QED BY <1>1, <1>2, <1>3, <1>4, <1>5, <1>6, <1>7, <1>8, <1>9 DEF Next, ScriptSteps

(* A worker that depends on setup waits for it, and no other has an empty  *)
(* staking address.                                                        *)
THEOREM WaitsForSetup == Spec => []EnteredBySetup
<1>1. Init => EnteredInv
  BY IdentitiesAssumption DEF Init, EnteredInv, Nothing, Roles
<1>2. Inv /\ EnteredInv /\ [Next]_vars => EnteredInv'
  BY EnteredStep
<1>3. Inv /\ EnteredInv => EnteredBySetup
  BY DEF Inv, TypeOK, EnteredInv, EnteredBySetup
<1> QED BY <1>1, <1>2, <1>3, Invariance, PTL DEF Spec

(* ShownIsOperated: the Ethereum address in the CLI is that of the key the *)
(* worker operates with.                                                   *)
THEOREM ShownCorrect == Spec => []ShownIsOperated
<1>1. Inv => ShownIsOperated
  <2> SUFFICES ASSUME Inv, forces = 0, shown.eth \in Nat, identity["operating"] # Absent
               PROVE  shown.eth = identity["operating"]
    BY DEF ShownIsOperated
  <2> USE IdentitiesAssumption DEF Inv
  <2>1. file["operating"].addr = shown.eth
    BY DEF ShownInv
  <2>2. Source("operating") = "keystore"
    BY <2>1 DEF UnusedInv, Roles
  <2>3. file["operating"].key = identity["operating"]
    BY <2>2 DEF KeptInv, Roles
  <2>4. file["operating"].addr \in {Absent, Empty, file["operating"].key}
    BY <2>2 DEF CleanInv, Clean, Roles
  <2> QED BY <2>1, <2>3, <2>4
<1> QED BY <1>1, Invariance, PTL

(* A key is taken again only if it is the one that was in use.             *)
LEMMA TakeStable ==
  ASSUME Inv, NEW e, Take(e), role \in Roles, forces = 0,
         Source(role) = "config" => e.key = Configured,
         Source(role) = "cli" => e.key = Empty,
         Source(role) = "keystore" => e.key = file[role].key \/ pc = "save"
  PROVE  \A r \in Roles : identity[r] \in {Absent, identity'[r]}
<1>1. \A r \in Roles : identity'[r] = IF r = role THEN e.key ELSE identity[r]
  BY DEF Take, Inv, TypeOK
<1>2. identity[role] \in {Absent, e.key}
  BY Sources DEF Inv, KeptInv
<1> QED BY <1>1, <1>2

(* IdentityStable: a key that was used is never replaced.                  *)
THEOREM NeverReplaced == Spec => IdentityStable
<1> DEFINE Same == \A r \in Roles : identity[r] \in {Absent, identity'[r]}
<1>1. Inv /\ [Next]_vars => [forces' = 0 => Same]_vars
  <2> SUFFICES ASSUME Inv, Next, forces' = 0 PROVE Same
    BY DEF vars
  <2>0. TypeOK /\ role \in Roles
    BY DEF Inv, TypeOK
  <2>1. CASE UNCHANGED identity
    BY <2>1
  <2>2. CASE LoadConfigured
    <3> DEFINE e == EthereumKey(Configured, Empty)
    <3>1. e.key = Configured
      BY DEF EthereumKey
    <3>2. Take(e) /\ Source(role) = "config" /\ forces = 0
      BY <2>2 DEF LoadConfigured, bounds
    <3> HIDE DEF e
    <3> QED BY <2>0, <3>1, <3>2, TakeStable
  <2>3. CASE StakingAddressFound
    <3> DEFINE e == [key |-> Empty, addr |-> file["staking"].addr]
    <3>1. e.key = Empty
      OBVIOUS
    <3>2. Take(e) /\ Source(role) = "cli" /\ forces = 0
      BY <2>3 DEF StakingAddressFound, bounds
    <3> HIDE DEF e
    <3> QED BY <2>0, <3>1, <3>2, TakeStable
  <2>4. CASE OpenKey /\ Take(EthereumKey(file[role].key, held.addr))
    <3> DEFINE e == EthereumKey(file[role].key, held.addr)
    <3>1. e.key = file[role].key
      BY DEF EthereumKey
    <3>2. Take(e) /\ Source(role) = "keystore" /\ forces = 0
      BY <2>4 DEF OpenKey, Inv, ReadInv, bounds
    <3> HIDE DEF e
    <3> QED BY <2>0, <3>1, <3>2, TakeStable
  <2>5. CASE Save /\ Take(EthereumKey(held.key, held.addr))
    <3> DEFINE e == EthereumKey(held.key, held.addr)
    <3>1. Take(e) /\ pc = "save" /\ Source(role) = "keystore" /\ forces = 0
      BY <2>5 DEF Save, Inv, SaveInv, bounds
    <3> HIDE DEF e
    <3> QED BY <2>0, <3>1, TakeStable
  <2>6. CASE Start \/ Crash \/ Setup \/ SetupWrites \/ Quit \/ PollEthAddress \/ PollStakingAddress
    BY <2>1, <2>6 DEF Start, Crash, Setup, SetupWrites, Quit, PollEthAddress,
                     PollStakingAddress, script
  <2>7. CASE ForceCreate \/ OpenAddress
    BY <2>1, <2>7 DEF ForceCreate, OpenAddress, Generate
  <2>8. CASE OpenKey /\ ~Take(EthereumKey(file[role].key, held.addr))
    BY <2>1, <2>8 DEF OpenKey, Generate
  <2>9. CASE Save /\ ~Take(EthereumKey(held.key, held.addr))
    BY <2>1, <2>9 DEF Save
  <2> QED BY <2>2, <2>3, <2>4, <2>5, <2>6, <2>7, <2>8, <2>9 DEF Next, ScriptSteps
<1> HIDE DEF Same
<1> QED BY <1>1, Invariance, PTL DEF Spec, IdentityStable, Same
=============================================================================
