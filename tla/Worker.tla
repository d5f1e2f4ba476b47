------------------------------- MODULE Worker -------------------------------
(***************************************************************************)
(* The life of one worker: main() of worker/scripts/p2p/start.py, the      *)
(* P2PNode object of node.py that starts the p2p node in a child process   *)
(* from a thread and installs the signal handlers, supervisord, which      *)
(* starts, restarts and stops the script, and the status file the CLI      *)
(* shows.  Signals arrive between any two steps; the handler runs on the   *)
(* main thread, so main is suspended while it runs, but the thread and the *)
(* node are not.  Exceptions can end main at any step; Python then joins   *)
(* the thread and runs the atexit hook, which is the handler once more.    *)
(*                                                                         *)
(* The node is external; one that hangs takes requests and answers none,   *)
(* and no request has a timeout.  Staking is one opaque step: see Staking. *)
(***************************************************************************)
EXTENDS Environment, Naturals

CONSTANTS MaxFailures,  \* bound on the exceptions that end main
          MaxStops,     \* bound on the stop and restart requests
          MaxDeaths     \* bound on the nodes that die or hang without having been told to

ASSUME WorkerAssumption ==
  MaxFailures \in Nat /\ MaxStops \in Nat /\ MaxDeaths \in Nat

VARIABLES deployment,
          pc,         \* next step of main
          clean,      \* the last exit was with code 0
          thread,     \* P2PNode.start: "none", "starting", "done" (self.proc is set)
          killNow,    \* P2PNode.kill_now
          handler,    \* progress of P2PNode._kill, of the innermost call of it
          nested,     \* that call is a signal's, and has interrupted the atexit hook's
          node,       \* this run's node
          told,       \* what this run told its node
          sup,        \* supervisord: "up", or a "stop" or "restart" under way
          signal,     \* a SIGTERM is on its way to the script
          killed,     \* this run got a SIGKILL
          status,     \* the status file
          failures, stops, deaths

main == <<pc, clean>>
p2p == <<thread, killNow, handler, nested, node, told>>
supervisor == <<sup, signal, killed>>
counters == <<failures, stops, deaths>>
vars == <<deployment, main, p2p, supervisor, status, counters>>

(* The status strings, in the order in which a run can write them.         *)
Statuses == <<"Down", "Loading Ethereum Address...", "Loading Staking Address...",
              "Waiting for setup", "Compose local setup...", "Reticulating Splines...",
              "Waiting for ETH...", "Registering...", "Setting staking address...",
              "Depositing...", "Logging in...", "Waiting for login...",
              "Failed to login", "Running">>

BeforeNode == {"begin", "operating", "staking", "setup", "faucet", "params", "eth", "node"}
WithNode == {"registering", "approve", "stake", "logIn", "login", "serving"}
Alive == {"starting", "registered", "loggedIn"}

TypeOK ==
  /\ deployment \in Deployments
  /\ pc \in BeforeNode \cup WithNode \cup {"exiting", "exited"}
  /\ clean \in BOOLEAN
  /\ thread \in {"none", "starting", "done"}
  /\ killNow \in BOOLEAN
  /\ handler \in {"idle", "log", "logout", "sigint"} /\ nested \in BOOLEAN
  /\ node \in Alive \cup {"hung", "none"}
  /\ told \subseteq {"logout", "sigint"}
  /\ sup \in {"up", "stop", "restart"}
  /\ signal \in BOOLEAN /\ killed \in BOOLEAN
  /\ status \in {Statuses[i] : i \in DOMAIN Statuses}
  /\ failures \in 0 .. MaxFailures /\ stops \in 0 .. MaxStops
  /\ deaths \in 0 .. MaxDeaths

Init ==
  /\ deployment \in Deployments
  /\ pc = "exited" /\ clean = FALSE
  /\ thread = "none" /\ killNow = FALSE /\ handler = "idle" /\ nested = FALSE
  /\ node = "none" /\ told = {}
  /\ sup = "up" /\ signal = FALSE /\ killed = FALSE
  /\ status = "Down"
  /\ failures = 0 /\ stops = 0 /\ deaths = 0

-----------------------------------------------------------------------------
(* main *)

At(step) == pc = step /\ handler = "idle"
Goto(step) == pc' = step /\ UNCHANGED clean
Elsewhere == UNCHANGED <<deployment, supervisor, counters>>

(* Mutant: the status of the last run stays. *)
BeginKeepsStatus == /\ At("begin")
                    /\ Goto("operating")
                    /\ UNCHANGED <<p2p, status>> /\ Elsewhere

(* Mutant: the status file is truncated and not written. *)
BeginTruncates == /\ At("begin")
                  /\ status' = ""
                  /\ Goto("operating")
                  /\ UNCHANGED p2p /\ Elsewhere

Begin == /\ At("begin")
         /\ status' = "Down"
         /\ Goto("operating")
         /\ UNCHANGED p2p /\ Elsewhere

LoadOperatingAddress == /\ At("operating")
                        /\ status' = "Loading Ethereum Address..."
                        /\ Goto("staking")
                        /\ UNCHANGED p2p /\ Elsewhere

(* After the staking address: the faucet, in a testing environment.        *)
AfterStaking == IF testing(deployment) THEN "faucet" ELSE "params"

LoadStakingAddress ==
  /\ At("staking")
  /\ status' = "Loading Staking Address..."
  /\ Goto(IF load_staking_from_cli(deployment) THEN "setup" ELSE AfterStaking)
  /\ UNCHANGED p2p /\ Elsewhere

(* wait_for_staking_address: the file is not there yet, or it is.          *)
WaitForSetup == /\ At("setup")
                /\ status' = "Waiting for setup"
                /\ UNCHANGED <<main, p2p>> /\ Elsewhere

SetupFound == /\ At("setup")
              /\ Goto(AfterStaking)
              /\ UNCHANGED <<p2p, status>> /\ Elsewhere

RequestCoins == /\ At("faucet")
                /\ status' = "Compose local setup..."
                /\ Goto("params")
                /\ UNCHANGED p2p /\ Elsewhere

LoadBootstrapParameters == /\ At("params")
                           /\ status' = "Reticulating Splines..."
                           /\ Goto("eth")
                           /\ UNCHANGED p2p /\ Elsewhere

WaitForEth == /\ At("eth")
              /\ status' = "Waiting for ETH..."
              /\ UNCHANGED <<main, p2p>> /\ Elsewhere

EnoughEth == /\ At("eth")
             /\ Goto("node")
             /\ UNCHANGED <<p2p, status>> /\ Elsewhere

(* P2PNode(...) installs the handlers, start() runs the thread.            *)
StartNode == /\ At("node")
             /\ thread' = "starting"
             /\ status' = "Registering..."
             /\ Goto("registering")
             /\ UNCHANGED <<killNow, handler, nested, node, told>> /\ Elsewhere

(* Mutant: a node that logged in by itself is not recognised. *)
RegisteredOnly == node = "registered"

Registered == node \in {"registered", "loggedIn"}

WaitForRegister ==
  /\ At("registering")
  /\ Registered
  /\ IF node = "loggedIn"
       THEN Goto("serving") /\ status' = "Running"
       ELSE IF should_auto_deposit(deployment)
         THEN Goto("approve") /\ UNCHANGED status
         ELSE Goto("serving") /\ status' = "Waiting for login..."
  /\ UNCHANGED p2p /\ Elsewhere

Approve == /\ At("approve")
           /\ status' = "Setting staking address..."
           /\ Goto("stake")
           /\ UNCHANGED p2p /\ Elsewhere

(* setOperatingAddress and deposit, or StakingAddressAlreadySet.           *)
Stake == /\ At("stake")
         /\ status' \in {status, "Depositing..."}
         /\ Goto("logIn")
         /\ UNCHANGED p2p /\ Elsewhere

LogIn == /\ At("logIn")
         /\ status' = "Logging in..."
         /\ Goto("login")
         /\ UNCHANGED p2p /\ Elsewhere

(* P2PNode.login with the node there: it accepts, or refuses, or its       *)
(* management API does not answer and the command goes to its stdin, which *)
(* counts as success.                                                      *)
Login == /\ At("login")
         /\ node \in Alive
         /\ \/ node' = "loggedIn" /\ status' = "Running"
            \/ node' = node /\ status' \in {"Running", "Failed to login"}
         /\ Goto("serving")
         /\ UNCHANGED <<thread, killNow, handler, nested, told>> /\ Elsewhere

(* Without a node the write to its stdin is an uncaught BrokenPipeError.   *)
LoginBroken == /\ At("login")
               /\ node = "none"
               /\ pc' = "exiting" /\ clean' = FALSE
               /\ UNCHANGED <<p2p, status>> /\ Elsewhere

Serve == /\ At("serving")
         /\ killNow
         /\ status' = "Down"
         /\ pc' = "exiting" /\ clean' = TRUE
         /\ UNCHANGED p2p /\ Elsewhere

(* An exception nobody catches, or sys.exit in request_coins_from_faucet.  *)
Fail == /\ pc \in BeforeNode \cup WithNode
        /\ handler = "idle"
        /\ failures < MaxFailures
        /\ failures' = failures + 1
        /\ pc' = "exiting" /\ clean' = FALSE
        /\ UNCHANGED <<deployment, p2p, supervisor, status, stops, deaths>>

(* Mutant: no atexit hook. *)
ExitUnhooked == /\ At("exiting")
                /\ thread # "starting"
                /\ Goto("exited")
                /\ UNCHANGED <<p2p, status>> /\ Elsewhere

Exit == /\ At("exiting")
        /\ thread # "starting"
        /\ ~(thread = "done" /\ ~killNow)
        /\ Goto("exited")
        /\ UNCHANGED <<p2p, status>> /\ Elsewhere

-----------------------------------------------------------------------------
(* P2PNode *)

(* The thread: Popen returns and self.proc is set.                         *)
Popen == /\ thread = "starting"
         /\ pc # "exited"
         /\ thread' = "done"
         /\ node' = "starting"
         /\ UNCHANGED <<deployment, main, killNow, handler, nested, told, supervisor, status, counters>>

(* Mutant: kill_now is not looked at. *)
MayKillAgain == thread = "done"

(* The guard of _kill.                                                     *)
MayKill == thread = "done" /\ ~killNow

(* Past the guard: a log entry is written before kill_now is set.          *)
Kill == handler' = "log"

(* The atexit hook, after the thread has been joined.                      *)
AtExit == /\ At("exiting")
          /\ MayKill
          /\ Kill
          /\ UNCHANGED <<deployment, main, thread, killNow, nested, node, told,
                         supervisor, status, counters>>

SetKillNow == /\ handler = "log"
              /\ killNow' = TRUE
              /\ handler' = "logout"
              /\ UNCHANGED <<deployment, main, thread, nested, node, told,
                             supervisor, status, counters>>

(* logout() by the management API or, if that fails, by stdin.             *)
Logout == /\ handler = "logout"
          /\ node \in Alive
          /\ handler' = "sigint"
          /\ told' = told \cup {"logout"}
          /\ node' \in {node, IF node = "loggedIn" THEN "registered" ELSE node}
          /\ UNCHANGED <<deployment, main, thread, killNow, nested, supervisor, status, counters>>

(* With the node gone, stdin is a broken pipe: RuntimeError in main, or,   *)
(* in the atexit hook, an exception that Python prints and drops.  From a  *)
(* signal's call it goes up into the hook's, where the logging module may  *)
(* drop it and the hook go on.                                             *)
LogoutBroken ==
  /\ handler = "logout"
  /\ node = "none"
  /\ nested' = FALSE
  /\ \/ handler' = "idle"
     \/ nested /\ handler' = "log"
  /\ pc' = "exiting" /\ clean' = (clean /\ pc = "exiting")
  /\ UNCHANGED <<deployment, thread, killNow, node, told, supervisor, status, counters>>

(* The last of a call; the atexit hook's goes on where it was interrupted. *)
SendSigint == /\ handler = "sigint"
              /\ handler' = IF nested THEN "log" ELSE "idle"
              /\ nested' = FALSE
              /\ told' = told \cup {"sigint"}
              /\ UNCHANGED <<deployment, main, thread, killNow, node, supervisor, status, counters>>

(* The node, by itself or on a command from the CLI. *)
NodeRegisters == /\ node = "starting"
                 /\ node' = "registered"
                 /\ UNCHANGED <<deployment, main, thread, killNow, handler, nested, told,
                                supervisor, status, counters>>

NodeLogsIn == /\ node = "registered"
              /\ node' = "loggedIn"
              /\ UNCHANGED <<deployment, main, thread, killNow, handler, nested, told,
                             supervisor, status, counters>>

(* It exits when interrupted, or dies or hangs under the script.           *)
NodeExits == /\ node # "none"
             /\ node' = "none"
             /\ \/ "sigint" \in told /\ UNCHANGED deaths
                \/ "sigint" \notin told /\ deaths < MaxDeaths /\ deaths' = deaths + 1
             /\ UNCHANGED <<deployment, main, thread, killNow, handler, nested, told,
                            supervisor, status, failures, stops>>

NodeHangs == /\ node \in Alive
             /\ node' = "hung"
             /\ deaths < MaxDeaths /\ deaths' = deaths + 1
             /\ UNCHANGED <<deployment, main, thread, killNow, handler, nested, told,
                            supervisor, status, failures, stops>>

-----------------------------------------------------------------------------
(* supervisord: autostart, autorestart=unexpected, stopsignal=TERM         *)

Spawn == /\ pc = "exited"
         /\ sup = "restart" \/ (sup = "up" /\ ~clean)
         /\ pc' = "begin" /\ clean' = FALSE
         /\ thread' = "none" /\ killNow' = FALSE /\ handler' = "idle" /\ nested' = FALSE
         /\ node' = "none" /\ told' = {}
         /\ sup' = "up" /\ signal' = FALSE /\ killed' = FALSE
         /\ UNCHANGED <<deployment, status, counters>>

(* "restart" typed in the CLI, or the container is stopped.                *)
RequestStop == /\ sup = "up"
               /\ pc # "exited"
               /\ stops < MaxStops
               /\ stops' = stops + 1
               /\ sup' \in {"stop", "restart"}
               /\ signal' = TRUE
               /\ UNCHANGED <<deployment, main, p2p, killed, status, failures, deaths>>

(* SIGTERM: the default action before P2PNode.__init__, _kill after it,    *)
(* which does nothing while self.proc is not set, and may interrupt the    *)
(* atexit hook's call of it between its test of kill_now and its setting.  *)
Deliver ==
  /\ signal
  /\ pc # "exited"
  /\ signal' = FALSE
  /\ \/ /\ pc \in BeforeNode
        /\ pc' = "exited" /\ clean' = FALSE
        /\ UNCHANGED p2p
     \/ /\ pc \notin BeforeNode
        /\ thread # "none"
        /\ IF MayKill THEN Kill /\ nested' = (handler = "log")
                      ELSE UNCHANGED <<handler, nested>>
        /\ UNCHANGED <<main, thread, killNow, node, told>>
     \/ /\ pc = "exiting"
        /\ thread = "none"
        /\ pc' = "exited" /\ clean' = FALSE
        /\ UNCHANGED p2p
  /\ UNCHANGED <<deployment, sup, killed, status, counters>>

(* stopwaitsecs are over: SIGKILL to the script, not to its children.      *)
Kill9 == /\ sup # "up"
         /\ ~signal
         /\ pc # "exited"
         /\ pc' = "exited" /\ clean' = FALSE
         /\ handler' = "idle" /\ nested' = FALSE
         /\ killed' = TRUE
         /\ UNCHANGED <<deployment, thread, killNow, node, told, sup, signal, status, counters>>

-----------------------------------------------------------------------------
MainSteps == \/ Begin \/ LoadOperatingAddress \/ LoadStakingAddress \/ SetupFound
             \/ RequestCoins \/ LoadBootstrapParameters \/ EnoughEth \/ StartNode
             \/ WaitForRegister \/ Approve \/ Stake \/ LogIn \/ Login \/ LoginBroken
             \/ Serve \/ Exit \/ AtExit

HandlerSteps == SetKillNow \/ Logout \/ LogoutBroken \/ SendSigint

Next == \/ MainSteps \/ WaitForSetup \/ WaitForEth \/ Fail
        \/ HandlerSteps \/ Popen
        \/ NodeRegisters \/ NodeLogsIn \/ NodeExits \/ NodeHangs
        \/ Spawn \/ RequestStop \/ Deliver \/ Kill9

(* The script, its handler and its thread run; supervisord starts the      *)
(* script and follows a SIGTERM by a SIGKILL; the operator sets the worker *)
(* up and funds it (SetupFound and EnoughEth are steps of main); the node  *)
(* registers, and exits when interrupted.                                  *)
Fairness == /\ WF_vars(MainSteps) /\ WF_vars(HandlerSteps) /\ WF_vars(Popen)
            /\ WF_vars(NodeRegisters) /\ WF_vars(NodeExits /\ "sigint" \in told /\ node # "hung")
            /\ WF_vars(Spawn) /\ WF_vars(Deliver) /\ WF_vars(Kill9)

Spec == Init /\ [][Next]_vars
FairSpec == Spec /\ Fairness

-----------------------------------------------------------------------------
(* Properties. *)

(* A script that exits with code 0, which supervisord takes for a wish to  *)
(* stay down, has told its node to log out and to stop, and has left the   *)
(* status at Down.                                                         *)
CleanExitIsComplete ==
  pc = "exited" /\ clean => status = "Down" /\ told = {"logout", "sigint"}

(* However the script ends, by itself, by an exception at any point or by  *)
(* a signal, its node is gone or has been logged out and interrupted,      *)
(* unless supervisord lost patience and killed the script ...              *)
NoAbandonedNode ==
  pc = "exited" /\ node # "none" /\ ~killed => told = {"logout", "sigint"}

(* ... and is told once, by the signal's call or by the atexit hook's.  It *)
(* is logged out and interrupted again in one case only: an exception has  *)
(* ended main, a stop request follows, and its signal meets the atexit     *)
(* hook between its test of kill_now and its setting.  Then the first time *)
(* is over before the second begins.                                       *)
SecondLogout ==
  [][handler' = "logout" /\ handler # "logout" /\ told # {} =>
       told = {"logout", "sigint"} /\ pc = "exiting" /\ ~clean /\ sup # "up" /\ ~signal]_vars

(* The status the CLI shows moves forward through the start-up, and goes   *)
(* back only to Down.                                                      *)
Rank(s) == CHOOSE i \in DOMAIN Statuses : Statuses[i] = s

StatusMovesForward ==
  [][status' # status => Rank(status) < Rank(status') \/ status' = "Down"]_vars

(* A worker that is not stopped gets to serving.  The ways not to: a node  *)
(* that dies before it has registered, since nobody looks at the child and *)
(* wait_for_register waits for ever; a node that hangs, and with it main,  *)
(* or the handler or atexit hook that would log it out.                    *)
NodeLost == At("registering") /\ thread = "done" /\ node = "none"
NodeHung == node = "hung" /\ (pc \in {"registering", "login"} \/ handler = "logout")

EventuallyServing ==
  <>[](pc = "serving") \/ <>[](sup = "stop" /\ pc = "exited") \/ <>[]NodeLost \/ <>[]NodeHung

(* Main, its signal handler and its atexit hook together keep what         *)
(* NodeLife promises, whichever statement of main a stop request or an     *)
(* exception falls on: the node is told to log out and then to stop before *)
(* the run ends, and exit code 0, after which supervisord starts no other  *)
(* run, comes only when both are done.  To be told again changes nothing   *)
(* in told: SecondLogout says when that happens.                           *)
Life == INSTANCE NodeLife WITH
          run <- IF pc # "exited" THEN "up" ELSE IF killed THEN "killed"
                 ELSE IF clean THEN "left" ELSE "failed",
          node <- node # "none",
          told <- CASE told = {} -> 0 [] told = {"logout"} -> 1 [] OTHER -> 2,
          sign <- status # "Down"

ImplementsNodeLife == Life!Spec
=============================================================================
