# A verification project for the Enigma docker environment

The repository starts and supervises an Enigma test network, testnet or mainnet node: a contract
container (Ganache, contract deployment, faucet), a key manager container, and worker containers,
each with a p2p node, a core, and a terminal CLI.  Almost all of its own logic is start-up logic:
scripts that load keys, wait for each other, send Ethereum transactions, start the real executables
and die and start again under supervisord.  This directory models that logic in TLA+, checks it with
TLC and proves part of it with TLAPS.

Run a check with `tlc -config X.cfg MCModule` and a proof with `tlapm Module_proofs.tla`.

## 1. Inventory

Paths are below `src/`.

| Component | State | Operations | Interacts with |
|---|---|---|---|
| Worker start-up script, `worker/scripts/p2p/start.py` | its program counter; everything else is in files, in the p2p node and on the chain | `main`, `wait_for_register`, `request_coins_from_faucet` | all of the below |
| P2PNode, `worker/scripts/p2p/node.py` | `proc`, `kill_now`, a thread, signal handlers, an atexit hook | `start`, `_kill`, `stop`, `status`, `login`, `logout` | the p2p node: a child process with an HTTP API and stdin |
| Environment, `worker/scripts/p2p/environment.py` | none | predicates over `ENIGMA_ENV` and `BOOTSTRAP`; loading of the two identities | configuration, keystores, the CLI's file |
| Keystore, `common_scripts/enigma_docker_common/crypto.py` | `keystore.bin` and `eth_address.txt` of each identity | `open_eth_keystore`, `_create_keystore` | read by the script, polled by the CLI |
| Status and staking files, `worker/scripts/p2p/utils.py` | two files | `set_status`, `wait_for_staking_address` | written by one process, polled by the other |
| CLI, `worker/scripts/cli/` | open dialogs, focus, the escape key, requests on their way, what the screen shows | `setup`, `help`, F1, `register`, `login`, `logout`, `restart`, `generate ...`, `exit`, five pollers, one of them a thread | files, the node's HTTP API, the Ethereum node, supervisorctl |
| Contracts, `common_scripts/enigma_docker_common/enigma.py` | none; the chain's | `approve`, `setOperatingAddress`, `deposit`, `wait_for_confirmations` | the Ethereum node |
| supervisord, `worker/devops/supervisord.conf` | the state of each program | start, restart on an unexpected exit, stop with SIGTERM and then SIGKILL | the scripts |
| Faucet client and service, `enigma_docker_common/faucet_api.py`, `contract/scripts/faucet_service.py` | balances; a miner thread | request coins, poll a balance, produce blocks | the Ethereum node |
| Contract container, `contract/scripts/` | deployed addresses in files | wait for the key manager's address, deploy, serve | key manager |
| Key manager container, `km/scripts/` | key pair and address files | create or download keys, serve the address, wait for coins and contract | contract container |
| Discovery, `enigma_docker_common/provider.py`, `storage.py` | per-process caches | fetch files by HTTP or from a bucket | both servers |
| Bootstrap loader, `worker/scripts/p2p/bootstrap_loader.py` | the key file, loaded once; its copy on disk | `load`, `load_bootstrap_parameters` | a bucket; the p2p node |
| Configuration, `enigma_docker_common/config.py` with the files of `worker/config/p2p/` | values of the file | `check_required`, look-up in the environment, then in the file | everything that reads a setting |
| Logger, core start-up | none | | |
| Salad, client, readiness scripts, images, compositions | none | | |

What is hard here: signals that interrupt `main` at any statement while a thread starts the node; scripts that
die between two transactions or two file writes and start again from what is left; transactions that
stay in the pool when their sender dies; receipts of reverted transactions; two programs that share
a file without a lock; waits without a timeout; coroutines, pollers and a thread that share dialogs, buffers and a balance;
settings read only when they are needed; caches that outlive what they hold.  `PROJECT.json` lists these hazards at their
lines with the properties that cover them.

What makes each part correct: *staking* binds before it deposits, deposits once and logs in only with a
deposit behind it; *the start-up script* never leaves its node running, logs it out before it
interrupts it, and a second time in one case only, and comes up again unless told not to; *identities* are never lost or mixed up,
and the address the user is shown is the one the worker signs with; the *bring-up* of a network gets through
its circle of waits, with a contract deployed for the key the key manager holds; *funding* lets nobody go on
without coins and pays nobody more often than it was run; the *CLI* answers every line, truthfully, and gives the keyboard back;
*parameters* that are used together belong together, and a program starts with all of them or not at all.

## 2. Modules

| Module | What it is |
|---|---|
| `StakeLedger` | abstract specification: bind, then deposit, once |
| `Staking` | the staking part of `start.py` with the transactions of `enigma.py`, several workers, a chain |
| `Staking_proofs` | theorems about `Staking` |
| `Environment` | the predicates of `environment.py`, used by `Worker`, `Identities` and `Parameters` |
| `NodeLife` | abstract specification: what a run promises its node and the user |
| `Worker` | life of one worker: `main`, thread, handler, atexit hook, supervisord, status file |
| `Worker_proofs` | theorems about `Worker` and `StatusLine` |
| `StatusLine` | `Worker` with the CLI's status line: the poller of the status file and its animation |
| `Identities` | loading and creating the two keys, with the CLI's `setup` and pollers |
| `Identities_proofs` | theorems about `Identities` |
| `Principal` | abstract specification: one key is handed out, deployed for and worked with |
| `Bringup` | key manager, contract container, ganache, faucet and workers waiting for each other |
| `Bringup_proofs` | theorems about `Bringup` |
| `Funding` | clients asking the faucet for coins, its transfers, and the chain |
| `Funding_proofs` | theorems about `Funding` |
| `Cli` | the terminal CLI: lines, dialogs, requests, the staking file, the balance thread |
| `Cli_proofs` | theorems about `Cli` |
| `Parameters` | configuration, `Provider` with its services, and the bootstrap loader, in the order in which `start.py` or the CLI reads them |
| `Parameters_proofs` | theorems about `Parameters` |
| `MCStaking`, `MCWorker`, `MCIdentities`, `MCBringup`, `MCFunding`, `MCCli`, `MCParameters` | instances for TLC |

`Staking`, `Funding` and `Identities` are each the detail of one or two steps of `Worker` (`Stake`, `RequestCoins`,
`LoadOperatingAddress` and `LoadStakingAddress`); `Parameters` is what all its steps read; `Funding` is also that of `GetCoins` in `Bringup`, and
`Worker` what begins when `LoadContracts` in `Bringup` is done.

### Staking

`pc[w]` is the next statement of worker w's script: each statement that sends (`approve`,
`setOperatingAddress`, `deposit`), each wait for a receipt and each wait for confirmations is a step of
its own, so deaths (`Crash`) and blocks (`MineBlock`) fall between them.  `stake[w]` is what the
contracts hold for w's staking address, `mempool[w]` w's unmined transactions in nonce order, `age[w]`
the number of blocks on top of its last one.  `Instamine` distinguishes the two kinds of node the
repository is deployed with: Ganache with `BLOCK_TIME=0` executes a transaction in the call that sends it
and answers with the revert; any other node takes it into its pool and produces a receipt
whatever comes of it.  `RejectsHappen` lets the node refuse a transaction outright (nonce, price,
funds): `setOperatingAddress` swallows that error.  What `Login` and `registered` say of the node is
how `node.py` uses it.  The contract's answers are external: an address that is bound cannot be bound
again, a deposit needs an allowance and consumes it.

### Worker

`pc` is the next step of `main`, `handler` the progress of `_kill` (which runs on the main thread, so
`main` is suspended: `At`).  `_kill` tests `kill_now` (`MayKill`), writes a log entry (`Kill`) and then sets it (`SetKillNow`); a signal
that falls in between interrupts the atexit hook's call with one of its own (`nested`), after which the hook's goes on.  `thread` is that of `P2PNode.start`, `node` this run's node and `told` what this run told
it.  `Fail` is any uncaught exception, at any step; Python then joins the thread and runs the atexit
hook (`AtExit`, `Exit`).  `RequestStop`, `Deliver` and `Kill9` are supervisord's stop: a signal, and
a SIGKILL to the script alone when it does not end.  `SetupFound` and `EnoughEth` stand for what the
user does.  Staking is one step: its detail is in `Staking`.  A node can hang (`NodeHangs`): it takes requests and answers none, and
whoever asks it waits without a timeout, `main` or the handler; only supervisord's SIGKILL ends that.

`NodeLife` is what all of that is for, seen from the node: it is launched, told to log out, told to stop, and the run does not end before;
a run ends for good only with the status down.  `Life` in `Worker` is the mapping: `run` from `pc`, `killed` and `clean`, `told` from the set of what
was told, `sign` from the status file.  Signals, the handler, the thread, exceptions and all of `main` are stutters of it or none of its business.

### StatusLine

The CLI is another process, opened at any time (`OpenCli`).  Its poller compares the file with `prev`, what it read last, and shows
`shown`, the text it keeps and animates.  `set_status` truncates its file before it writes, so a poll that falls into a step of `Worker` that
writes the status sees an empty file (`PollTruncated`).

### Identities

`file[r]` holds the two files of identity r, each `Absent`, `Empty` or with content; a write is two steps
(`NextWrite`), because opening truncates.  `held` is what `open_eth_keystore` has so far, `loaded` the
`EthereumKey`s of this run.  Keys are numbers in the order of their creation and stand for their
addresses too; what a user types is a separate set.  `file["staking"].addr` is also the file of the CLI's `setup`:
all shipped configurations name it `eth_address.txt`.  `identity` is a history variable:
the key an identity was last loaded with.

### Bringup

`km` is the next step of `km_startup.py`, `migrate` that of `migrate.sh`; the key manager's executable writes
its three files one after the other (`keypair`, `public`, `account`), and can be killed or fail between them.  Keys are numbered, so a contract
deployed for a key that was replaced can be told from one deployed for the key of today.  `kmServes` is the
thread of the address server: from its start on, an exception or `sys.exit` in `main` leaves `km = "ended"`, a
process that lives without its main, which supervisord does not restart.  `PrincipalTimeout` and `DeployFails` go on, since `migrate.sh`
looks at no exit code.  `GanacheDies` empties the chain.  An HTTP request is made once somebody listens and
answered with the file or with 404 (`GetAddress`).  Generating keys in testnet and mainnet differs (they
are downloaded) and is not modelled.

`Principal` is what the containers promise each other about the key manager's key: no other key once its address was handed out, a contract
deployed for the key handed out, and a key manager that works only with such a contract.  In `Bringup` the key handed out is the address file of
the contract container, and `working` is the key manager's main loop as long as nobody gave up waiting and no chain was lost: in these two
cases the code promises nothing, since `migrate.sh` deploys with whatever it has.

### Funding

`pc[c]` is what `get_initial_coins` does for client c: read the balance, ask, wait for the answer, poll.
`inflight` counts requests on their way, including those whose client was killed, `pending` and `paid` the transfers before
and after mining.  `Error` covers every exception of `faucet_api.py`, a deadline that passes too: a worker exits,
the key manager retries after a `ConnectionError` and is over after a `RuntimeError`.  A request
that ended in an error may have been served.

### Cli

Every line typed is a coroutine of its own: `line[i]` is its command, its next `await` and its answer, and everything on one event loop
happens between two awaits.  `shown` is `root_container.floats` without the completion menu, `focus` and `before[i]` the window with the keyboard and
the one dialog i remembers, `escape` the dialog whose handler the key was bound to last.  A line that gave up its request, or was left by `Exit`, can
still have it served (`late`).  `Exit` cuts a setup off that has the file open (`cut`), with its write done or not.  The thread of `do_get_balance` reads the address twice (`CheckAddress`, `AskBalance`), a poller writes it in between.
`alone` and `believed` are history: an answer can only be held against the node if nothing else, given up or not, was on its way to it; and a
setup that began alone can only be overtaken by a later one.

### Parameters

`Reads(step)` are the names a step of the program reads without a default, `Available` those in the shipped file of `setting` or
in the environment; a step whose names are not all there ends the run (`Missing`), and at `config` that is `check_required`.  Deployments of the
contract container and versions of the key file are numbered, so that what was fetched before can be told from what was fetched after:
`cache` holds the deployment of each item of `Provider`, `contract` and `spender` what the contract object and the approval were given, `loaded`, `id`, `disk`
and `peer` the version of the key file in the loader, in the id, on disk and in the started node.  What a value is matters where it ends a run: a timeout
that is text, and the form of a path and an address (`Formed`): those that are given may lack the directory or the port (`bare`), those in the files have
what they have.  `Settable` are the names the environment is taken to give: what a shipped file lacks or has wrong, and what
`external_worker/local/docker-compose.yml` sets.

## 3. Runs

| Run | Shows |
|---|---|
| `staking_ganache` | two workers, two deaths each, 2 confirmations: binding confirmed before the deposit, no login without a binding, and `Staking` implements `StakeLedger`: one deposit, after the binding |
| `staking_chain` | two workers, two deaths each, 1 confirmation, with a pool and refusals: the allowance is there for every deposit, at most one deposit per start, a login is backed by a confirmed deposit, and every script gets through |
| `staking_restart` | *finding*: where reverts are mined silently, a restart deposits again |
| `worker_life` | one worker of each deployment, one exception, two stop requests, one node that dies or hangs, and a CLI: the run implements `NodeLife`, the node is told a second time in one case only, the status and the screen are right, and the worker comes up |
| `identities_life` | one worker of each deployment, two deaths, one forced key, one `setup`: a worker that is up can sign, keys fit addresses, are not lost, are shown correctly, and the worker comes up |
| `identities_setup` | *finding*: a cancelled or half-done `setup` starts the worker with an empty staking address |
| `bringup_life` | two kills of the key manager, two timeouts, two failures of any program, one loss of the chain, in every order: the containers implement `Principal`, nothing is stuck for want of a fault, and the network comes up unless it is kept down by a key manager whose main is over, a `migrate.sh` that could not deploy or serve, or a lost chain |
| `bringup_ended` | *finding*: one failure of the key manager after its server has started, and it stays that way |
| `funding_life` | the key manager and one worker, each killed once and failing once, on both kinds of node: coins before going on, at most one payment per run, errors counting for nothing where transfers are mined at once, everybody funded in the end |
| `cli_session` | two lines with every pair of commands, one operating key, one move of the node: every line is answered, a setup that was acknowledged is in the file unless another that overlapped or followed has opened it, and a file left empty or unacknowledged has its setup; a login or logout that was acknowledged with nothing beside it is the node's state; a register goes out for a funded worker only, the keyboard is with the dialog on the screen, and the input field gets it back |
| `parameters_life` | every shipped configuration, bootstrap or not, and fifteen environments (nothing, one of the five settings that may be needed, all or all but one, what `external_worker` sets, alone or with all, all and a text for a timeout), each with addresses and paths in both forms, two deployments, two key files, one crash: which settings are enough, that without them nothing starts and with them nothing ends for a parameter; that approval, contract object and later transactions use the contract of one deployment, not older than the run; and that a bootstrap node gets the key file its id was read from |
| `parameters_missing` | *finding*: with mainnet's shipped file a worker passes the check of its required settings and dies of a missing one later |

**Bounds.** Two workers share nothing but the blocks, so a third adds no interaction.  Two deaths are enough for
one to interrupt a run and another its repair; the second run can meet leftovers of the first, and the third
leftovers of both.  Confirmations only matter as reached or not reached; 2 lets a block come
too early.  In `Worker`, one exception and two requests meet in one run and in successive ones.  In
`Identities`, one `setup` and one forced key each meet every step of the script.  In `Bringup`, two kills let one interrupt the
generation of the keys and another the run that repairs it; two timeouts are one for each container; two failures are a deployment and its server, or
a key manager and a faucet.  In `Funding` the clients' accounts are their own, so a second worker adds no interaction; a kill and
an error give three runs, with requests of two left behind.  In `Cli` only one dialog can be open, so two lines meet in every way
that dialogs, requests and the file allow; a key lets the address appear and vanish (an address that another replaces needs a second one: `RegisteredFunded` is proved for any number).  In `Parameters` the second deployment, and the second key file, replace the first between any two reads.  Deaths, exceptions,
requests, forced keys and setups are bounded by the constants whose names begin with `Max`, nothing else is;
a run continues after its last death.  `worker_life`, `bringup_life`, `funding_life`, `cli_session` and `parameters_life` check no deadlock: a worker that was stopped stays stopped, and a
network that is up, clients that are funded, a CLI that was left and a worker that serves have nothing left to do.

**Fairness.** supervisord starts a script that ended unexpectedly, and a script that can take its next
statement does (WF on the script's steps).  The p2p node registers, and exits when interrupted:
`start.py` waits for the one without a limit, and the other is what SIGINT does.  Blocks
come: `AUTO_MINER=ON` is shipped, and a public chain has miners; a pending transaction is mined.  The CLI's pollers are
loops.  In `Worker` the user sets the worker up and funds it; in `Identities` nobody has to type `setup`, and the
liveness property says so.  In `Bringup` programs run and supervisord starts those it is told to (`autorestart=true`: key manager, ganache, faucet, the worker);
`migrate.sh` is not among them.  In `Cli` the event loop runs what is ready, aiohttp gives up a request after its default timeout, and the
user presses a button of the dialog in front of it; nobody has to type or to press escape.  In `Parameters` programs are started again and a server that is down comes up.  In `Funding` a request that reached the faucet is served and a transfer is mined.  Deaths, errors, timeouts and
requests to stop have no fairness.

Each property of a passing run has a mutant: a definition with a plausible bug
(named after the original, with `Mutant:` in its comment) under which the property fails.

## 4. Proofs

TLAPS proves the following for every set of workers or addresses and every value of the bounds, from the
assumptions on the constants (`StakingAssumption`, `WorkerAssumption`, `IdentitiesAssumption`, `BringupAssumption`, `FundingAssumption`, `CliAssumption`, `ParametersAssumption`).

*Staking.*  `TypeCorrect`.  `ScriptInvariant`: `ScriptInv` has an assertion for each statement, as in a Hoare
proof; it is inductive together with the type invariant.  Its core is that the pool is emptied in the order it was filled, so when
a run has the receipt of its own transaction, those left by a dead run are mined too and cannot change anything any more.
`DepositOrder`, `DepositCovered` and `LoginBacked` (for `~Instamine`) follow from it.  `DepositOnce` has an invariant of its own, `OnceInv`:
there is no deposit until the address is bound, and only the run that bound it can still deposit; it needs `Reporting`, a node that reports
reverts and refuses nothing.  `LedgerImplemented` maps each step to `Bind`, `Deposit` or a stutter, under the same assumption.
Without it both are false: `staking_restart`.  What holds everywhere is `DepositPerStart`: its invariant charges every deposit, mined or pending, to a start of
the script, and a run that has yet to send its own has one to spare.  `LoginBackedUnlessKilled`, under `Reporting`, says what the login is worth where a
restart finds the address bound and goes on: `LoginInvOf` follows the binding back to a run that died.

*Identities.*  The inductive invariant `Inv` has these parts: `SaveInv` (the key being saved is a new one, and on disk from the second write on),
`ReadInv`, `UnusedInv`, `CleanInv` (an address file has its key beside it), `KeptInv` (a key that was used is on disk with an address file, so nothing
generates another), `ShownInv` (an address the CLI has shown is still in its file), `MatchInv` (a key goes by its address).
`ShownIsOperated` and `IdentityStable` follow; `KeyMatchesAddress` needs `SignInv` beside it: which of the two identities has been taken at each
point, and that one which is not typed comes with a key.  `WaitsForSetup` says what is left of the claim that
`identities_setup` refutes: a worker that takes its staking address from the CLI does wait for a setup, and no other worker ever has an empty one.  The exceptions in the properties, a forced key and a `setup` that wrote into a
keystore, are real: `STAKE_KEY_NAME` is `eth_address.txt` in all shipped configurations, so in a
testing deployment `setup` writes the address file of the staking keystore, and the next start loads the typed address with the key of another.

*Worker.*  The inductive invariant relates where `main`, the handler and the atexit hook are to what the node was told: nothing is told
before `kill_now` is set, the only call that can find it set when it is past the test is the hook's, after a signal's has interrupted it (`NestedInv`), and an exit has a handler or hook behind it unless
it was a SIGKILL.  `CleanExit` and `NodeInterrupted` follow from it, and `LoggedOutAgain`: the node is not always told once.  `_kill` tests `kill_now` and
writes a log entry before it sets it, and after an exception the signal of a stop request can fall in between, in the atexit hook; then the
signal's call logs out and interrupts, and the hook's does so again.  `SecondLogout` says that this is the only way, and that the first time is complete before the second begins.  `StatusForward` needs what the status can be at each
statement (`StatusInv`).  `NodeLifeImplemented` is the refinement of `NodeLife`, one case for each action of `Worker`.  What makes it true is again that invariant: the log-out of
handler or hook finds `told` empty, an exit with a node finds it complete, and an end with code 0 finds the status `Down`.
A second log-out changes nothing in `told`, so `NodeLife` does not see it.  `LineImplementsWorker`: a step of `StatusLine` is one of `Worker` or leaves it alone, so all of this holds with a CLI beside it.

*Bringup.*  `PrincipalCorrect` rests on the order of the executable's writes: whoever has been served an address has been served that of
`public`, and `public` is only written after `keypair`, never again once both are there.  `KmContractCorrect` adds
that without a timeout an address was downloaded before the deployment, and without a loss of the chain it is still deployed when the key manager has its answer.
With both, `PrincipalImplemented` maps each step to one of `Principal` or to a stutter; a timeout or the loss of the chain is `Stop` or `LoseChain`.
`NoIdleDeadEnd` is the safety side of `EventuallyUp`: `FaultInv` says what is to blame for each thing that is missing: a kill or a failure of the executable
for an account that is not beside its public key, a lost chain for one that is not there at the deployment or behind the addresses, any fault for a server
without addresses.

*Funding.*  `Inv` has four assertions for each client and kind of coin.  `RunsAt` is the core of `PaidForRuns`: what was paid, is pending, is on
its way or can still be asked for by this run is at most one for each run; a kill or an error adds to both sides.  `OnceAt` does it where transfers are mined
as they are sent, and there an error adds nothing: nothing is pending, and an attempt after a payment reads a balance that shows it.  `ArrivedAt` gives `Funded`.

*Cli.*  `LineInv` says what a line can be at each step, and that nothing older is on its way beside a line that was alone when it began, requests served late
included.  With it `AnswersAreTrue` follows from two assertions: a request that was accepted with nothing beside it has left the node as its answer will
say (`AcceptedInv`), and once the user was told, nothing is on its way that could move the node unheard (`KnownInv`).  `ConfirmedIsKept` uses the same `LineInv`: a
setup that was acknowledged is over, so whoever opens the file after it is another, and a later one if it began alone; what others have opened stays theirs
until they write, fail or are cut off, which only the exit does (`NoneCut`).  `BalanceInv` gives `RegisteredFunded`: a balance that is enough was asked for an address that had been funded.
`KeyboardIsOnScreen`: `KeyboardInv` adds what each dialog remembers, which with one dialog on the screen can only be the input field, and that `Exit` takes everything down.

*Parameters.*  `KeyfileInv` follows the key file from the loader to the node: one load for id and file, and nothing reads the disk before `WriteKeyfile`,
whatever an earlier run left there (`KeyfileCorrect`).  `CacheInv` relates the caches to the run: the contract and the spender are the same entry, and no entry
is older than the run (`ApprovedToOne`).  The items are fetched one by one, so the token and the contract
can come from two deployments: only the contract's own address is fetched once.  `CompleteWhenStarted` is proved for every set of the names in `Settable`, in either form, along the order of
the steps: `StartInv` and `CliInv` say from which step on each setting is certain.
`GivenIsEnough` is the other half: nothing that a step reads is missing from a sufficient setting (`NothingMissing`), nor is it of the wrong form.  Together they are
`SettingsDecide`: `Sufficient` is exact for these names.  `MissingWhere` tells how far the finding of `parameters_missing` goes: a worker lacks a parameter in four ways only, and
never one of those `check_required` looks for, which all the shipped files have.

*Only model-checked:* liveness (`EventuallyUp`, `EventuallyServing`, `StatusShown`, `ShownInTheEnd`, `EventuallyFunded`, `EventuallyStarted`, `InputUsable`,
`LinesAnswered`), which under fairness is out of the prover's reach.
No recursive operator is used.

## 5. Not modelled

The p2p node, the contracts, the Ethereum node and supervisord are external: modelled from how the code uses them.  Not modelled:

- a node left behind by a killed run, which keeps the ports: what the next run's node does then is a question about the node;
- the data of generated transactions (except which contract an approval is for), the text of the CLI's output field, the peers;
- a second press of a button before its dialog closes; the upper-case spelling `Config` also looks up;
- the keys a key manager downloads in testnet and mainnet, and its generated configuration file;
- the contents of buckets and archives; encryption other than its failure on an empty file;
- what is given for other names than those in `Settable`, and values of other forms than those in section 2;
- a `km_startup.py` killed without the executable it runs: in `Bringup` one kill ends both, as that of a container does;
- the end of the block miner's thread: blocks are assumed in `Staking` and `Funding`;
- the components listed as `not_modelled` in `PROJECT.json`, which keep no state (core start-up, images, compositions, readiness scripts, salad, logger).

## 6. Plan

Order: the transactions with value first (`Staking`), then the process that sends them (`Worker`), the keys that sign
them (`Identities`), the network they run in (`Bringup`), its coins (`Funding`), the user's side (`Cli`, `StatusLine`) and
what all of them read (`Parameters`).  These are done.  Next:

1. The key manager of testnet and mainnet in `Bringup`.
2. `Cli` with `Worker`: the start-up script and the user who log the same node in and out, and what becomes of a stop request during staking.

Theorems worth proving next: that `Cli` with `Worker` implements both, and an abstract ledger for `Funding` (coins asked for, sent, arrived) with its refinement.
