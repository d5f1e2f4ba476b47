---------------------------- MODULE Worker_proofs ----------------------------
(***************************************************************************)
(* Proofs about Worker: how a worker's script ends, whatever exceptions    *)
(* and signals it meets and at whatever steps, for any number of them.     *)
(***************************************************************************)
EXTENDS StatusLine, TLAPS

Both == {"logout", "sigint"}

(* Nothing is told to a node before kill_now is set; nothing is missing    *)
(* afterwards, unless the node was gone or the script was killed.          *)
HandlerInv ==
  /\ handler \in {"idle", "log", "logout", "sigint"}
  /\ told \in {{}, {"logout"}, Both}
  /\ ~killNow => told = {} /\ handler \in {"idle", "log"}
  /\ killNow \/ handler = "log" => thread = "done"
  /\ handler = "logout" => told \in {{}, Both}
  /\ handler = "sigint" => told \in {{"logout"}, Both}
  /\ told = {"logout"} => handler = "sigint" \/ killed
  /\ killNow /\ handler = "log" => told = Both \/ node = "none"
  /\ killNow /\ handler = "idle" /\ ~killed /\ told # Both =>
       node = "none" /\ pc \in {"exiting", "exited"}

(* Only a stop request starts a call outside the atexit hook, or inside    *)
(* it; a call inside it is the first to set kill_now, and the hook's is    *)
(* the only one that finds it set.                                         *)
NestedInv ==
  /\ signal => sup # "up"
  /\ (sup = "up" \/ signal) /\ handler # "idle" => pc = "exiting" /\ clean = FALSE
  /\ nested => /\ handler # "idle" /\ pc = "exiting" /\ clean = FALSE
               /\ sup # "up" /\ ~signal
               /\ handler = "log" => ~killNow
               /\ handler = "logout" => told = {}
               /\ handler = "sigint" => told = {"logout"}
  /\ killNow /\ handler = "log" => pc = "exiting" /\ clean = FALSE /\ sup # "up" /\ ~signal

(* The thread comes before the node, and main before the thread.           *)
NodeInv ==
  /\ thread \in {"none", "starting", "done"}
  /\ thread # "done" => node = "none"
  /\ pc \in BeforeNode => thread = "none"

(* The two ways in which a run ends.                                       *)
ExitInv ==
  /\ clean = TRUE => /\ pc \in {"exiting", "exited"}
                     /\ handler = "idle" /\ killNow
                     /\ told = Both /\ status = "Down"
  /\ killed => pc = "exited"
  /\ pc = "exited" => handler = "idle"
  /\ pc = "exited" /\ ~killed => node = "none" \/ told = Both

WorkerInv == HandlerInv /\ NestedInv /\ NodeInv /\ ExitInv

-----------------------------------------------------------------------------
(* Type correctness.                                                       *)

StatusSet == {Statuses[i] : i \in DOMAIN Statuses}

(* The statuses there are.                                                 *)
LEMMA StatusesAre ==
  {"Down", "Loading Ethereum Address...",
   "Loading Staking Address...", "Waiting for setup",
   "Compose local setup...", "Reticulating Splines...",
   "Waiting for ETH...", "Registering...",
   "Setting staking address...", "Depositing...",
   "Logging in...", "Waiting for login...",
   "Failed to login", "Running"} \subseteq StatusSet
<1>1. DOMAIN Statuses = 1 .. 14
  BY DEF Statuses
<1>2. \A i \in 1 .. 14 : Statuses[i] \in StatusSet
  BY <1>1 DEF StatusSet
<1>3. /\ Statuses[1] = "Down"
      /\ Statuses[2] = "Loading Ethereum Address..."
      /\ Statuses[3] = "Loading Staking Address..."
      /\ Statuses[4] = "Waiting for setup"
      /\ Statuses[5] = "Compose local setup..."
      /\ Statuses[6] = "Reticulating Splines..."
      /\ Statuses[7] = "Waiting for ETH..."
      /\ Statuses[8] = "Registering..."
      /\ Statuses[9] = "Setting staking address..."
      /\ Statuses[10] = "Depositing..."
      /\ Statuses[11] = "Logging in..."
      /\ Statuses[12] = "Waiting for login..."
      /\ Statuses[13] = "Failed to login"
      /\ Statuses[14] = "Running"
  BY DEF Statuses
<1>4. {Statuses[1], Statuses[2], Statuses[3], Statuses[4], Statuses[5], Statuses[6],
       Statuses[7], Statuses[8], Statuses[9], Statuses[10], Statuses[11], Statuses[12],
       Statuses[13], Statuses[14]} \subseteq StatusSet
  BY <1>2
<1>5. QED
  BY <1>3, <1>4

(* Every step writes a known status.                                       *)
LEMMA StatusStep ==
  ASSUME status \in StatusSet, [Next]_vars
  PROVE  status' \in StatusSet
<1> USE StatusesAre DEF main, p2p, supervisor, counters, At, Goto, Elsewhere, BeforeNode, WithNode, Alive
<1>1. CASE Begin
  BY <1>1 DEF Begin
<1>2. CASE LoadOperatingAddress
  BY <1>2 DEF LoadOperatingAddress
<1>3. CASE LoadStakingAddress
  BY <1>3 DEF LoadStakingAddress, AfterStaking
<1>4. CASE SetupFound
  BY <1>4 DEF SetupFound, AfterStaking
<1>5. CASE RequestCoins
  BY <1>5 DEF RequestCoins
<1>6. CASE LoadBootstrapParameters
  BY <1>6 DEF LoadBootstrapParameters
<1>7. CASE EnoughEth
  BY <1>7 DEF EnoughEth
<1>8. CASE StartNode
  BY <1>8 DEF StartNode
<1>9. CASE WaitForRegister
  BY <1>9 DEF WaitForRegister, Registered
<1>10. CASE Approve
  BY <1>10 DEF Approve
<1>11. CASE Stake
  BY <1>11 DEF Stake
<1>12. CASE LogIn
  BY <1>12 DEF LogIn
<1>13. CASE Login
  BY <1>13 DEF Login
<1>14. CASE LoginBroken
  BY <1>14 DEF LoginBroken
<1>15. CASE Serve
  BY <1>15 DEF Serve
<1>16. CASE Exit
  BY <1>16 DEF Exit, MayKill
<1>17. CASE AtExit
  BY <1>17 DEF AtExit, Kill, MayKill
<1>18. CASE WaitForSetup
  BY <1>18 DEF WaitForSetup
<1>19. CASE WaitForEth
  BY <1>19 DEF WaitForEth
<1>20. CASE Fail
  BY <1>20 DEF Fail
<1>21. CASE Logout
  BY <1>21 DEF Logout
<1>22. CASE LogoutBroken
  BY <1>22 DEF LogoutBroken
<1>23. CASE SendSigint
  BY <1>23 DEF SendSigint
<1>24. CASE Popen
  BY <1>24 DEF Popen
<1>25. CASE NodeRegisters
  BY <1>25 DEF NodeRegisters
<1>26. CASE NodeLogsIn
  BY <1>26 DEF NodeLogsIn
<1>27. CASE NodeExits
  BY <1>27 DEF NodeExits
<1>28. CASE Spawn
  BY <1>28 DEF Spawn
<1>29. CASE RequestStop
  BY <1>29 DEF RequestStop
<1>30. CASE Deliver
  BY <1>30 DEF Deliver, Kill, MayKill
<1>31. CASE Kill9
  BY <1>31 DEF Kill9
<1>32. CASE UNCHANGED vars
  BY <1>32 DEF vars
<1>33. CASE NodeHangs
  BY <1>33 DEF NodeHangs
<1>34. CASE SetKillNow
  BY <1>34 DEF SetKillNow
<1>35. QED
  BY <1>33, <1>34, <1>1, <1>2, <1>3, <1>4, <1>5, <1>6, <1>7, <1>8, <1>9, <1>10, <1>11, <1>12,
     <1>13, <1>14, <1>15, <1>16, <1>17, <1>18, <1>19, <1>20, <1>21, <1>22, <1>23, <1>24,
     <1>25, <1>26, <1>27, <1>28, <1>29, <1>30, <1>31, <1>32
  DEF Next, MainSteps, HandlerSteps

(* Every step keeps the type.                                              *)
LEMMA TypeStep ==
  ASSUME TypeOK, status' \in StatusSet, [Next]_vars
  PROVE  TypeOK'
<1> USE WorkerAssumption DEF TypeOK, StatusSet,
        main, p2p, supervisor, counters, At, Goto, Elsewhere, BeforeNode, WithNode, Alive
<1>1. CASE Begin
  BY <1>1 DEF Begin
<1>2. CASE LoadOperatingAddress
  BY <1>2 DEF LoadOperatingAddress
<1>3. CASE LoadStakingAddress
  BY <1>3 DEF LoadStakingAddress, AfterStaking
<1>4. CASE SetupFound
  BY <1>4 DEF SetupFound, AfterStaking
<1>5. CASE RequestCoins
  BY <1>5 DEF RequestCoins
<1>6. CASE LoadBootstrapParameters
  BY <1>6 DEF LoadBootstrapParameters
<1>7. CASE EnoughEth
  BY <1>7 DEF EnoughEth
<1>8. CASE StartNode
  BY <1>8 DEF StartNode
<1>9. CASE WaitForRegister
  BY <1>9 DEF WaitForRegister, Registered
<1>10. CASE Approve
  BY <1>10 DEF Approve
<1>11. CASE Stake
  BY <1>11 DEF Stake
<1>12. CASE LogIn
  BY <1>12 DEF LogIn
<1>13. CASE Login
  BY <1>13 DEF Login
<1>14. CASE LoginBroken
  BY <1>14 DEF LoginBroken
<1>15. CASE Serve
  BY <1>15 DEF Serve
<1>16. CASE Exit
  BY <1>16 DEF Exit, MayKill
<1>17. CASE AtExit
  BY <1>17 DEF AtExit, Kill, MayKill
<1>18. CASE WaitForSetup
  BY <1>18 DEF WaitForSetup
<1>19. CASE WaitForEth
  BY <1>19 DEF WaitForEth
<1>20. CASE Fail
  <2>1. clean' \in BOOLEAN
    BY <1>20 DEF Fail
  <2>2. failures' \in 0 .. MaxFailures
    BY <1>20 DEF Fail
  <2>3. QED
    BY <1>20, <2>1, <2>2 DEF Fail
<1>21. CASE Logout
  BY <1>21 DEF Logout
<1>22. CASE LogoutBroken
  BY <1>22 DEF LogoutBroken
<1>23. CASE SendSigint
  <2>1. handler' \in {"log", "idle"} /\ nested' \in BOOLEAN /\ told' \subseteq {"logout", "sigint"}
    BY <1>23 DEF SendSigint
  <2>2. QED
    BY <1>23, <2>1 DEF SendSigint
<1>24. CASE Popen
  BY <1>24 DEF Popen
<1>25. CASE NodeRegisters
  BY <1>25 DEF NodeRegisters
<1>26. CASE NodeLogsIn
  BY <1>26 DEF NodeLogsIn
<1>27. CASE NodeExits
  BY <1>27 DEF NodeExits
<1>28. CASE Spawn
  BY <1>28 DEF Spawn
<1>29. CASE RequestStop
  BY <1>29 DEF RequestStop
<1>30. CASE Deliver
  <2>1. clean' \in BOOLEAN
    BY <1>30 DEF Deliver, Kill, MayKill
  <2>2. killNow' \in BOOLEAN
    BY <1>30 DEF Deliver, Kill, MayKill
  <2>3. signal' \in BOOLEAN
    BY <1>30 DEF Deliver, Kill, MayKill
  <2>4. handler' \in {"idle", "log", "logout", "sigint"}
    BY <1>30 DEF Deliver, Kill, MayKill
  <2>5. nested' \in BOOLEAN
    BY <1>30 DEF Deliver, Kill, MayKill
  <2>6. QED
    BY <1>30, <2>1, <2>2, <2>3, <2>4, <2>5 DEF Deliver, Kill, MayKill
<1>31. CASE Kill9
  BY <1>31 DEF Kill9
<1>32. CASE UNCHANGED vars
  BY <1>32 DEF vars
<1>33. CASE NodeHangs
  BY <1>33 DEF NodeHangs
<1>34. CASE SetKillNow
  BY <1>34 DEF SetKillNow
<1>35. QED
  BY <1>33, <1>34, <1>1, <1>2, <1>3, <1>4, <1>5, <1>6, <1>7, <1>8, <1>9, <1>10, <1>11, <1>12,
     <1>13, <1>14, <1>15, <1>16, <1>17, <1>18, <1>19, <1>20, <1>21, <1>22, <1>23, <1>24,
     <1>25, <1>26, <1>27, <1>28, <1>29, <1>30, <1>31, <1>32
  DEF Next, MainSteps, HandlerSteps

(* The state of the script, its handler, its thread, its node and its      *)
(* supervisor always has its type.                                         *)
THEOREM TypeCorrect == Spec => []TypeOK
<1>1. ASSUME Init PROVE TypeOK
  <2>1. /\ deployment \in Deployments
        /\ clean \in BOOLEAN /\ killNow \in BOOLEAN /\ nested \in BOOLEAN
        /\ signal \in BOOLEAN /\ killed \in BOOLEAN
    BY <1>1 DEF Init
  <2>2. status \in StatusSet
    BY <1>1, StatusesAre DEF Init
  <2>3. failures \in 0 .. MaxFailures /\ stops \in 0 .. MaxStops /\ deaths \in 0 .. MaxDeaths
    BY <1>1, WorkerAssumption DEF Init
  <2>4. /\ pc = "exited" /\ thread = "none" /\ handler = "idle"
        /\ node = "none" /\ told = {} /\ sup = "up"
    BY <1>1 DEF Init
  <2>5. QED
    BY <2>1, <2>2, <2>3, <2>4 DEF TypeOK, StatusSet
<1>2. TypeOK /\ [Next]_vars => TypeOK'
  <2>1. TypeOK => status \in StatusSet
    BY DEF TypeOK, StatusSet
  <2>2. QED
    BY <2>1, StatusStep, TypeStep
<1>3. QED
  BY <1>1, <1>2, PTL DEF Spec

-----------------------------------------------------------------------------

(* Every step keeps what is known of the handler.                          *)
LEMMA HandlerStep ==
  ASSUME WorkerInv, [Next]_vars
  PROVE  HandlerInv'
<1> USE DEF WorkerInv, HandlerInv, NestedInv, NodeInv, ExitInv, Both,
        main, p2p, supervisor, counters, At, Goto, Elsewhere, BeforeNode, WithNode, Alive
<1>1. CASE Begin
  BY <1>1 DEF Begin
<1>2. CASE LoadOperatingAddress
  BY <1>2 DEF LoadOperatingAddress
<1>3. CASE LoadStakingAddress
  BY <1>3 DEF LoadStakingAddress, AfterStaking
<1>4. CASE SetupFound
  BY <1>4 DEF SetupFound, AfterStaking
<1>5. CASE RequestCoins
  BY <1>5 DEF RequestCoins
<1>6. CASE LoadBootstrapParameters
  BY <1>6 DEF LoadBootstrapParameters
<1>7. CASE EnoughEth
  BY <1>7 DEF EnoughEth
<1>8. CASE StartNode
  BY <1>8 DEF StartNode
<1>9. CASE WaitForRegister
  BY <1>9 DEF WaitForRegister, Registered
<1>10. CASE Approve
  BY <1>10 DEF Approve
<1>11. CASE Stake
  BY <1>11 DEF Stake
<1>12. CASE LogIn
  BY <1>12 DEF LogIn
<1>13. CASE Login
  BY <1>13 DEF Login
<1>14. CASE LoginBroken
  BY <1>14 DEF LoginBroken
<1>15. CASE Serve
  BY <1>15 DEF Serve
<1>16. CASE Exit
  BY <1>16 DEF Exit, MayKill
<1>17. CASE AtExit
  BY <1>17 DEF AtExit, Kill, MayKill
<1>18. CASE WaitForSetup
  BY <1>18 DEF WaitForSetup
<1>19. CASE WaitForEth
  BY <1>19 DEF WaitForEth
<1>20. CASE Fail
  BY <1>20 DEF Fail
<1>21. CASE Logout
  BY <1>21 DEF Logout
<1>22. CASE LogoutBroken
  BY <1>22 DEF LogoutBroken
<1>23. CASE SendSigint
  BY <1>23 DEF SendSigint
<1>24. CASE Popen
  BY <1>24 DEF Popen
<1>25. CASE NodeRegisters
  BY <1>25 DEF NodeRegisters
<1>26. CASE NodeLogsIn
  BY <1>26 DEF NodeLogsIn
<1>27. CASE NodeExits
  BY <1>27 DEF NodeExits
<1>28. CASE Spawn
  BY <1>28 DEF Spawn
<1>29. CASE RequestStop
  BY <1>29 DEF RequestStop
<1>30. CASE Deliver
  BY <1>30 DEF Deliver, Kill, MayKill
<1>31. CASE Kill9
  BY <1>31 DEF Kill9
<1>32. CASE UNCHANGED vars
  BY <1>32 DEF vars
<1>33. CASE NodeHangs
  BY <1>33 DEF NodeHangs
<1>34. CASE SetKillNow
  BY <1>34 DEF SetKillNow
<1>35. QED
  BY <1>33, <1>34, <1>1, <1>2, <1>3, <1>4, <1>5, <1>6, <1>7, <1>8, <1>9, <1>10, <1>11, <1>12,
     <1>13, <1>14, <1>15, <1>16, <1>17, <1>18, <1>19, <1>20, <1>21, <1>22, <1>23, <1>24,
     <1>25, <1>26, <1>27, <1>28, <1>29, <1>30, <1>31, <1>32
  DEF Next, MainSteps, HandlerSteps

(* Every step keeps what is known of nested calls.                        *)
LEMMA NestedStep ==
  ASSUME WorkerInv, [Next]_vars
  PROVE  NestedInv'
<1> USE DEF WorkerInv, HandlerInv, NestedInv, NodeInv, ExitInv, Both,
        main, p2p, supervisor, counters, At, Goto, Elsewhere, BeforeNode, WithNode, Alive
<1>1. CASE Begin
  BY <1>1 DEF Begin
<1>2. CASE LoadOperatingAddress
  BY <1>2 DEF LoadOperatingAddress
<1>3. CASE LoadStakingAddress
  BY <1>3 DEF LoadStakingAddress, AfterStaking
<1>4. CASE SetupFound
  BY <1>4 DEF SetupFound, AfterStaking
<1>5. CASE RequestCoins
  BY <1>5 DEF RequestCoins
<1>6. CASE LoadBootstrapParameters
  BY <1>6 DEF LoadBootstrapParameters
<1>7. CASE EnoughEth
  BY <1>7 DEF EnoughEth
<1>8. CASE StartNode
  BY <1>8 DEF StartNode
<1>9. CASE WaitForRegister
  BY <1>9 DEF WaitForRegister, Registered
<1>10. CASE Approve
  BY <1>10 DEF Approve
<1>11. CASE Stake
  BY <1>11 DEF Stake
<1>12. CASE LogIn
  BY <1>12 DEF LogIn
<1>13. CASE Login
  BY <1>13 DEF Login
<1>14. CASE LoginBroken
  BY <1>14 DEF LoginBroken
<1>15. CASE Serve
  BY <1>15 DEF Serve
<1>16. CASE Exit
  BY <1>16 DEF Exit, MayKill
<1>17. CASE AtExit
  BY <1>17 DEF AtExit, Kill, MayKill
<1>18. CASE WaitForSetup
  BY <1>18 DEF WaitForSetup
<1>19. CASE WaitForEth
  BY <1>19 DEF WaitForEth
<1>20. CASE Fail
  BY <1>20 DEF Fail
<1>21. CASE Logout
  BY <1>21 DEF Logout
<1>22. CASE LogoutBroken
  BY <1>22 DEF LogoutBroken
<1>23. CASE SendSigint
  BY <1>23 DEF SendSigint
<1>24. CASE Popen
  BY <1>24 DEF Popen
<1>25. CASE NodeRegisters
  BY <1>25 DEF NodeRegisters
<1>26. CASE NodeLogsIn
  BY <1>26 DEF NodeLogsIn
<1>27. CASE NodeExits
  BY <1>27 DEF NodeExits
<1>28. CASE Spawn
  BY <1>28 DEF Spawn
<1>29. CASE RequestStop
  BY <1>29 DEF RequestStop
<1>30. CASE Deliver
  <2>1. sup # "up" /\ UNCHANGED <<sup, killNow, told>> /\ ~signal' /\ signal
    BY <1>30 DEF Deliver
  <2>2. ~nested /\ (handler # "idle" => pc = "exiting" /\ clean = FALSE)
    BY <2>1
  <2>3. CASE handler' = "log" /\ nested' = (handler = "log") /\ UNCHANGED main /\ ~killNow
    BY <2>1, <2>2, <2>3
  <2>4. CASE UNCHANGED <<handler, nested>>
    BY <1>30, <2>1, <2>2, <2>4 DEF Deliver
  <2>5. QED
    BY <1>30, <2>3, <2>4 DEF Deliver, Kill, MayKill
<1>31. CASE Kill9
  BY <1>31 DEF Kill9
<1>32. CASE UNCHANGED vars
  BY <1>32 DEF vars
<1>33. CASE NodeHangs
  BY <1>33 DEF NodeHangs
<1>34. CASE SetKillNow
  BY <1>34 DEF SetKillNow
<1>35. QED
  BY <1>33, <1>34, <1>1, <1>2, <1>3, <1>4, <1>5, <1>6, <1>7, <1>8, <1>9, <1>10, <1>11, <1>12,
     <1>13, <1>14, <1>15, <1>16, <1>17, <1>18, <1>19, <1>20, <1>21, <1>22, <1>23, <1>24,
     <1>25, <1>26, <1>27, <1>28, <1>29, <1>30, <1>31, <1>32
  DEF Next, MainSteps, HandlerSteps

(* Every step keeps what is known of the node.                             *)
LEMMA NodeStep ==
  ASSUME WorkerInv, [Next]_vars
  PROVE  NodeInv'
<1> USE DEF WorkerInv, HandlerInv, NestedInv, NodeInv,
        main, p2p, supervisor, counters, At, Goto, Elsewhere, BeforeNode, WithNode, Alive
<1>1. CASE Begin
  BY <1>1 DEF Begin
<1>2. CASE LoadOperatingAddress
  BY <1>2 DEF LoadOperatingAddress
<1>3. CASE LoadStakingAddress
  BY <1>3 DEF LoadStakingAddress, AfterStaking
<1>4. CASE SetupFound
  BY <1>4 DEF SetupFound, AfterStaking
<1>5. CASE RequestCoins
  BY <1>5 DEF RequestCoins
<1>6. CASE LoadBootstrapParameters
  BY <1>6 DEF LoadBootstrapParameters
<1>7. CASE EnoughEth
  BY <1>7 DEF EnoughEth
<1>8. CASE StartNode
  BY <1>8 DEF StartNode
<1>9. CASE WaitForRegister
  BY <1>9 DEF WaitForRegister, Registered
<1>10. CASE Approve
  BY <1>10 DEF Approve
<1>11. CASE Stake
  BY <1>11 DEF Stake
<1>12. CASE LogIn
  BY <1>12 DEF LogIn
<1>13. CASE Login
  BY <1>13 DEF Login
<1>14. CASE LoginBroken
  BY <1>14 DEF LoginBroken
<1>15. CASE Serve
  BY <1>15 DEF Serve
<1>16. CASE Exit
  BY <1>16 DEF Exit, MayKill
<1>17. CASE AtExit
  BY <1>17 DEF AtExit, Kill, MayKill
<1>18. CASE WaitForSetup
  BY <1>18 DEF WaitForSetup
<1>19. CASE WaitForEth
  BY <1>19 DEF WaitForEth
<1>20. CASE Fail
  BY <1>20 DEF Fail
<1>21. CASE Logout
  BY <1>21 DEF Logout
<1>22. CASE LogoutBroken
  BY <1>22 DEF LogoutBroken
<1>23. CASE SendSigint
  BY <1>23 DEF SendSigint
<1>24. CASE Popen
  BY <1>24 DEF Popen
<1>25. CASE NodeRegisters
  BY <1>25 DEF NodeRegisters
<1>26. CASE NodeLogsIn
  BY <1>26 DEF NodeLogsIn
<1>27. CASE NodeExits
  BY <1>27 DEF NodeExits
<1>28. CASE Spawn
  BY <1>28 DEF Spawn
<1>29. CASE RequestStop
  BY <1>29 DEF RequestStop
<1>30. CASE Deliver
  BY <1>30 DEF Deliver, Kill, MayKill
<1>31. CASE Kill9
  BY <1>31 DEF Kill9
<1>32. CASE UNCHANGED vars
  BY <1>32 DEF vars
<1>33. CASE NodeHangs
  BY <1>33 DEF NodeHangs
<1>34. CASE SetKillNow
  BY <1>34 DEF SetKillNow
<1>35. QED
  BY <1>33, <1>34, <1>1, <1>2, <1>3, <1>4, <1>5, <1>6, <1>7, <1>8, <1>9, <1>10, <1>11, <1>12,
     <1>13, <1>14, <1>15, <1>16, <1>17, <1>18, <1>19, <1>20, <1>21, <1>22, <1>23, <1>24,
     <1>25, <1>26, <1>27, <1>28, <1>29, <1>30, <1>31, <1>32
  DEF Next, MainSteps, HandlerSteps

(* Every step keeps what is known of an exit.                              *)
LEMMA ExitStep ==
  ASSUME WorkerInv, [Next]_vars
  PROVE  ExitInv'
<1> USE DEF WorkerInv, HandlerInv, NestedInv, NodeInv, ExitInv, Both,
        main, p2p, supervisor, counters, At, Goto, Elsewhere, BeforeNode, WithNode, Alive
<1>1. CASE Begin
  BY <1>1 DEF Begin
<1>2. CASE LoadOperatingAddress
  BY <1>2 DEF LoadOperatingAddress
<1>3. CASE LoadStakingAddress
  BY <1>3 DEF LoadStakingAddress, AfterStaking
<1>4. CASE SetupFound
  BY <1>4 DEF SetupFound, AfterStaking
<1>5. CASE RequestCoins
  BY <1>5 DEF RequestCoins
<1>6. CASE LoadBootstrapParameters
  BY <1>6 DEF LoadBootstrapParameters
<1>7. CASE EnoughEth
  BY <1>7 DEF EnoughEth
<1>8. CASE StartNode
  BY <1>8 DEF StartNode
<1>9. CASE WaitForRegister
  BY <1>9 DEF WaitForRegister, Registered
<1>10. CASE Approve
  BY <1>10 DEF Approve
<1>11. CASE Stake
  BY <1>11 DEF Stake
<1>12. CASE LogIn
  BY <1>12 DEF LogIn
<1>13. CASE Login
  BY <1>13 DEF Login
<1>14. CASE LoginBroken
  BY <1>14 DEF LoginBroken
<1>15. CASE Serve
  BY <1>15 DEF Serve
<1>16. CASE Exit
  BY <1>16 DEF Exit, MayKill
<1>17. CASE AtExit
  BY <1>17 DEF AtExit, Kill, MayKill
<1>18. CASE WaitForSetup
  BY <1>18 DEF WaitForSetup
<1>19. CASE WaitForEth
  BY <1>19 DEF WaitForEth
<1>20. CASE Fail
  BY <1>20 DEF Fail
<1>21. CASE Logout
  BY <1>21 DEF Logout
<1>22. CASE LogoutBroken
  BY <1>22 DEF LogoutBroken
<1>23. CASE SendSigint
  BY <1>23 DEF SendSigint
<1>24. CASE Popen
  BY <1>24 DEF Popen
<1>25. CASE NodeRegisters
  BY <1>25 DEF NodeRegisters
<1>26. CASE NodeLogsIn
  BY <1>26 DEF NodeLogsIn
<1>27. CASE NodeExits
  BY <1>27 DEF NodeExits
<1>28. CASE Spawn
  BY <1>28 DEF Spawn
<1>29. CASE RequestStop
  BY <1>29 DEF RequestStop
<1>30. CASE Deliver
  BY <1>30 DEF Deliver, Kill, MayKill
<1>31. CASE Kill9
  BY <1>31 DEF Kill9
<1>32. CASE UNCHANGED vars
  BY <1>32 DEF vars
<1>33. CASE NodeHangs
  BY <1>33 DEF NodeHangs
<1>34. CASE SetKillNow
  BY <1>34 DEF SetKillNow
<1>35. QED
  BY <1>33, <1>34, <1>1, <1>2, <1>3, <1>4, <1>5, <1>6, <1>7, <1>8, <1>9, <1>10, <1>11, <1>12,
     <1>13, <1>14, <1>15, <1>16, <1>17, <1>18, <1>19, <1>20, <1>21, <1>22, <1>23, <1>24,
     <1>25, <1>26, <1>27, <1>28, <1>29, <1>30, <1>31, <1>32
  DEF Next, MainSteps, HandlerSteps

(* The inductive invariant always holds.                                   *)
THEOREM WorkerInvariant == Spec => []WorkerInv
<1>1. Init => WorkerInv
  BY DEF Init, WorkerInv, HandlerInv, NestedInv, NodeInv, ExitInv, BeforeNode
<1>2. WorkerInv /\ [Next]_vars => WorkerInv'
  BY HandlerStep, NestedStep, NodeStep, ExitStep DEF WorkerInv
<1>3. QED
  BY <1>1, <1>2, PTL DEF Spec

-----------------------------------------------------------------------------
(* A script that supervisord will not start again has logged its node out, *)
(* interrupted it, and left the status at Down.                            *)
THEOREM CleanExit == Spec => []CleanExitIsComplete
<1>1. WorkerInv => CleanExitIsComplete
  BY DEF WorkerInv, ExitInv, Both, CleanExitIsComplete
<1>2. QED
  BY <1>1, WorkerInvariant, PTL

(* No way for the script to end leaves a node that nobody interrupted,     *)
(* but the SIGKILL of a supervisord that lost patience.                    *)
THEOREM NodeInterrupted == Spec => []NoAbandonedNode
<1>1. WorkerInv => NoAbandonedNode
  BY DEF WorkerInv, ExitInv, Both, NoAbandonedNode
<1>2. QED
  BY <1>1, WorkerInvariant, PTL

(* A node is logged out again only when an exception has ended main and    *)
(* the signal of a later stop request has met the atexit hook between its  *)
(* test of kill_now and its setting, and after the first time is over.     *)
THEOREM LoggedOutAgain == Spec => SecondLogout
<1>1. ASSUME WorkerInv, [Next]_vars
      PROVE  [handler' = "logout" /\ handler # "logout" /\ told # {} =>
                told = {"logout", "sigint"} /\ pc = "exiting" /\ ~clean /\ sup # "up" /\ ~signal]_vars
  <2>1. CASE SetKillNow /\ told # {}
    <3>1. killNow /\ handler = "log"
      BY <1>1, <2>1 DEF SetKillNow, WorkerInv, HandlerInv
    <3>2. told = Both
      BY <1>1, <2>1, <3>1 DEF WorkerInv, HandlerInv, ExitInv
    <3>3. QED
      BY <1>1, <3>1, <3>2 DEF WorkerInv, NestedInv, Both
  <2>2. CASE ~SetKillNow
    <3>1. UNCHANGED vars \/ handler' = handler \/ handler' # "logout"
      BY <1>1, <2>2 DEF Next, MainSteps, HandlerSteps, Begin,
         LoadOperatingAddress, LoadStakingAddress, SetupFound,
         RequestCoins, LoadBootstrapParameters, EnoughEth, StartNode,
         WaitForRegister, Approve, Stake, LogIn, Login, LoginBroken,
         Serve, Exit, AtExit, WaitForSetup, WaitForEth, Fail, Logout,
         LogoutBroken, SendSigint, Popen, NodeRegisters, NodeLogsIn,
         NodeExits, NodeHangs, Spawn, RequestStop, Deliver, Kill9, MayKill, Kill,
         main, p2p, supervisor, counters, At, Goto, Elsewhere
    <3>2. QED
      BY <3>1 DEF vars, p2p
  <2>3. QED
    BY <2>1, <2>2
<1>2. QED
  BY <1>1, WorkerInvariant, PTL DEF Spec, SecondLogout

-----------------------------------------------------------------------------
(* The status while main is at each of its statements.                     *)
StatusBefore(step) ==
  CASE step = "operating" -> {"Down"}
    [] step = "staking" -> {"Loading Ethereum Address..."}
    [] step \in {"setup", "faucet"} -> {"Loading Staking Address...", "Waiting for setup"}
    [] step = "params" -> {"Loading Staking Address...", "Waiting for setup", "Compose local setup..."}
    [] step \in {"eth", "node"} -> {"Reticulating Splines...", "Waiting for ETH..."}
    [] step \in {"registering", "approve"} -> {"Registering..."}
    [] step = "stake" -> {"Setting staking address..."}
    [] step = "logIn" -> {"Setting staking address...", "Depositing..."}
    [] step = "login" -> {"Logging in..."}
    [] OTHER -> StatusSet

StatusInv == status \in StatusSet /\ status \in StatusBefore(pc)

(* Every step keeps StatusInv.                                             *)
LEMMA StatusInvStep ==
  ASSUME TypeOK, StatusInv, status' \in StatusSet, [Next]_vars
  PROVE  StatusInv'
<1> USE DEF StatusInv, StatusBefore,
        main, p2p, supervisor, counters, At, Goto, Elsewhere, BeforeNode, WithNode, Alive
<1>1. CASE Begin
  BY <1>1 DEF Begin
<1>2. CASE LoadOperatingAddress
  BY <1>2 DEF LoadOperatingAddress
<1>3. CASE LoadStakingAddress
  BY <1>3 DEF LoadStakingAddress, AfterStaking
<1>4. CASE SetupFound
  BY <1>4 DEF SetupFound, AfterStaking
<1>5. CASE RequestCoins
  BY <1>5 DEF RequestCoins
<1>6. CASE LoadBootstrapParameters
  BY <1>6 DEF LoadBootstrapParameters
<1>7. CASE EnoughEth
  BY <1>7 DEF EnoughEth
<1>8. CASE StartNode
  BY <1>8 DEF StartNode
<1>9. CASE WaitForRegister
  BY <1>9 DEF WaitForRegister, Registered
<1>10. CASE Approve
  BY <1>10 DEF Approve
<1>11. CASE Stake
  BY <1>11 DEF Stake
<1>12. CASE LogIn
  BY <1>12 DEF LogIn
<1>13. CASE Login
  BY <1>13 DEF Login
<1>14. CASE LoginBroken
  BY <1>14 DEF LoginBroken
<1>15. CASE Serve
  BY <1>15 DEF Serve
<1>16. CASE Exit
  BY <1>16 DEF Exit, MayKill
<1>17. CASE AtExit
  BY <1>17 DEF AtExit, Kill, MayKill
<1>18. CASE WaitForSetup
  BY <1>18 DEF WaitForSetup
<1>19. CASE WaitForEth
  BY <1>19 DEF WaitForEth
<1>20. CASE Fail
  BY <1>20 DEF Fail
<1>21. CASE Logout
  BY <1>21 DEF Logout
<1>22. CASE LogoutBroken
  BY <1>22 DEF LogoutBroken
<1>23. CASE SendSigint
  BY <1>23 DEF SendSigint
<1>24. CASE Popen
  BY <1>24 DEF Popen
<1>25. CASE NodeRegisters
  BY <1>25 DEF NodeRegisters
<1>26. CASE NodeLogsIn
  BY <1>26 DEF NodeLogsIn
<1>27. CASE NodeExits
  BY <1>27 DEF NodeExits
<1>28. CASE NodeHangs
  BY <1>28 DEF NodeHangs
<1>29. CASE Spawn
  BY <1>29 DEF Spawn
<1>30. CASE RequestStop
  BY <1>30 DEF RequestStop
<1>31. CASE Deliver
  BY <1>31 DEF Deliver, Kill, MayKill
<1>32. CASE Kill9
  BY <1>32 DEF Kill9
<1>33. CASE UNCHANGED vars
  BY <1>33 DEF vars
<1>34. CASE SetKillNow
  BY <1>34 DEF SetKillNow
<1>35. QED
  BY <1>34, <1>1, <1>2, <1>3, <1>4, <1>5, <1>6, <1>7, <1>8, <1>9, <1>10, <1>11, <1>12, <1>13, <1>14, <1>15, <1>16, <1>17, <1>18, <1>19, <1>20, <1>21, <1>22, <1>23, <1>24, <1>25, <1>26, <1>27, <1>28, <1>29, <1>30, <1>31, <1>32, <1>33
  DEF Next, MainSteps, HandlerSteps

(* The statuses in their order.                                            *)
LEMMA StatusAt ==
  /\ DOMAIN Statuses = 1 .. 14
  /\ Statuses[1] = "Down"
  /\ Statuses[2] = "Loading Ethereum Address..."
  /\ Statuses[3] = "Loading Staking Address..."
  /\ Statuses[4] = "Waiting for setup"
  /\ Statuses[5] = "Compose local setup..."
  /\ Statuses[6] = "Reticulating Splines..."
  /\ Statuses[7] = "Waiting for ETH..."
  /\ Statuses[8] = "Registering..."
  /\ Statuses[9] = "Setting staking address..."
  /\ Statuses[10] = "Depositing..."
  /\ Statuses[11] = "Logging in..."
  /\ Statuses[12] = "Waiting for login..."
  /\ Statuses[13] = "Failed to login"
  /\ Statuses[14] = "Running"
BY DEF Statuses

(* The rank of a status is its place, because no status is there twice.    *)
LEMMA RankOf ==
  ASSUME NEW k \in 1 .. 14
  PROVE  Rank(Statuses[k]) = k
<1>1. \A i, j \in 1 .. 14 : Statuses[i] = Statuses[j] => i = j
  <2> SUFFICES ASSUME NEW i \in 1 .. 14, NEW j \in 1 .. 14, Statuses[i] = Statuses[j]
               PROVE  i = j
    OBVIOUS
  <2>1. \A n \in 1 .. 14 : \/ n = 1 \/ n = 2 \/ n = 3 \/ n = 4 \/ n = 5 \/ n = 6 \/ n = 7 \/ n = 8
                           \/ n = 9 \/ n = 10 \/ n = 11 \/ n = 12 \/ n = 13 \/ n = 14
    OBVIOUS
  <2>2. CASE i = 1
    BY <2>2, <2>1, StatusAt
  <2>3. CASE i = 2
    BY <2>3, <2>1, StatusAt
  <2>4. CASE i = 3
    BY <2>4, <2>1, StatusAt
  <2>5. CASE i = 4
    BY <2>5, <2>1, StatusAt
  <2>6. CASE i = 5
    BY <2>6, <2>1, StatusAt
  <2>7. CASE i = 6
    BY <2>7, <2>1, StatusAt
  <2>8. CASE i = 7
    BY <2>8, <2>1, StatusAt
  <2>9. CASE i = 8
    BY <2>9, <2>1, StatusAt
  <2>10. CASE i = 9
    BY <2>10, <2>1, StatusAt
  <2>11. CASE i = 10
    BY <2>11, <2>1, StatusAt
  <2>12. CASE i = 11
    BY <2>12, <2>1, StatusAt
  <2>13. CASE i = 12
    BY <2>13, <2>1, StatusAt
  <2>14. CASE i = 13
    BY <2>14, <2>1, StatusAt
  <2>15. CASE i = 14
    BY <2>15, <2>1, StatusAt
  <2>16. QED
    BY <2>1, <2>2, <2>3, <2>4, <2>5, <2>6, <2>7, <2>8, <2>9, <2>10, <2>11, <2>12, <2>13, <2>14, <2>15
<1>2. \E i \in DOMAIN Statuses : Statuses[i] = Statuses[k]
  BY StatusAt
<1>3. Rank(Statuses[k]) \in DOMAIN Statuses /\ Statuses[Rank(Statuses[k])] = Statuses[k]
  BY <1>2 DEF Rank
<1>4. QED
  BY <1>1, <1>3, StatusAt

(* The rank of a status is its place in that order.                        *)
LEMMA Ahead ==
  ASSUME NEW i \in 1 .. 14, NEW j \in 1 .. 14, i < j
  PROVE  Rank(Statuses[i]) < Rank(Statuses[j])
<1>1. Rank(Statuses[i]) = i /\ Rank(Statuses[j]) = j
  BY RankOf
<1>2. QED
  BY <1>1

(* What the user sees of a start-up goes forward, from one write of the    *)
(* status file to the next, and back only to Down.                         *)
THEOREM StatusForward == Spec => StatusMovesForward
<1>1. ASSUME TypeOK, StatusInv, [Next]_vars
      PROVE  [status' # status => Rank(status) < Rank(status') \/ status' = "Down"]_vars
  <2> USE DEF StatusInv, StatusBefore,
        main, p2p, supervisor, counters, At, Goto, Elsewhere, BeforeNode, WithNode, Alive
  <2>1. CASE LoadOperatingAddress
    <3>1. \/ status' = status
          \/ status = Statuses[1] /\ status' = Statuses[2]
      BY <1>1, <2>1, StatusAt DEF LoadOperatingAddress
    <3>2. QED
      BY <3>1, Ahead
  <2>2. CASE LoadStakingAddress
    <3>1. \/ status' = status
          \/ status = Statuses[2] /\ status' = Statuses[3]
      BY <1>1, <2>2, StatusAt DEF LoadStakingAddress, AfterStaking
    <3>2. QED
      BY <3>1, Ahead
  <2>3. CASE RequestCoins
    <3>1. \/ status' = status
          \/ status = Statuses[3] /\ status' = Statuses[5]
          \/ status = Statuses[4] /\ status' = Statuses[5]
      BY <1>1, <2>3, StatusAt DEF RequestCoins
    <3>2. QED
      BY <3>1, Ahead
  <2>4. CASE LoadBootstrapParameters
    <3>1. \/ status' = status
          \/ status = Statuses[3] /\ status' = Statuses[6]
          \/ status = Statuses[4] /\ status' = Statuses[6]
          \/ status = Statuses[5] /\ status' = Statuses[6]
      BY <1>1, <2>4, StatusAt DEF LoadBootstrapParameters
    <3>2. QED
      BY <3>1, Ahead
  <2>5. CASE StartNode
    <3>1. \/ status' = status
          \/ status = Statuses[6] /\ status' = Statuses[8]
          \/ status = Statuses[7] /\ status' = Statuses[8]
      BY <1>1, <2>5, StatusAt DEF StartNode
    <3>2. QED
      BY <3>1, Ahead
  <2>6. CASE WaitForRegister
    <3>1. \/ status' = status
          \/ status = Statuses[8] /\ status' = Statuses[12]
          \/ status = Statuses[8] /\ status' = Statuses[14]
      BY <1>1, <2>6, StatusAt DEF WaitForRegister, Registered
    <3>2. QED
      BY <3>1, Ahead
  <2>7. CASE Approve
    <3>1. \/ status' = status
          \/ status = Statuses[8] /\ status' = Statuses[9]
      BY <1>1, <2>7, StatusAt DEF Approve
    <3>2. QED
      BY <3>1, Ahead
  <2>8. CASE Stake
    <3>1. \/ status' = status
          \/ status = Statuses[9] /\ status' = Statuses[10]
      BY <1>1, <2>8, StatusAt DEF Stake
    <3>2. QED
      BY <3>1, Ahead
  <2>9. CASE LogIn
    <3>1. \/ status' = status
          \/ status = Statuses[9] /\ status' = Statuses[11]
          \/ status = Statuses[10] /\ status' = Statuses[11]
      BY <1>1, <2>9, StatusAt DEF LogIn
    <3>2. QED
      BY <3>1, Ahead
  <2>10. CASE Login
    <3>1. \/ status' = status
          \/ status = Statuses[11] /\ status' = Statuses[12]
          \/ status = Statuses[11] /\ status' = Statuses[13]
          \/ status = Statuses[11] /\ status' = Statuses[14]
      BY <1>1, <2>10, StatusAt DEF Login
    <3>2. QED
      BY <3>1, Ahead
  <2>11. CASE WaitForSetup
    <3>1. \/ status' = status
          \/ status = Statuses[3] /\ status' = Statuses[4]
      BY <1>1, <2>11, StatusAt DEF WaitForSetup
    <3>2. QED
      BY <3>1, Ahead
  <2>12. CASE WaitForEth
    <3>1. \/ status' = status
          \/ status = Statuses[6] /\ status' = Statuses[7]
      BY <1>1, <2>12, StatusAt DEF WaitForEth
    <3>2. QED
      BY <3>1, Ahead
  <2>13. CASE Begin \/ SetupFound \/ EnoughEth \/ LoginBroken \/ Serve \/ Exit \/ AtExit \/ Fail \/ SetKillNow \/ Logout \/ LogoutBroken \/ SendSigint \/ Popen \/ NodeRegisters \/ NodeLogsIn \/ NodeExits \/ NodeHangs \/ Spawn \/ RequestStop \/ Deliver \/ Kill9
    <3>1. status' = status \/ status' = "Down"
      BY <2>13 DEF Begin, SetupFound, EnoughEth, LoginBroken, Serve, Exit, AtExit, Fail, SetKillNow, Logout, LogoutBroken, SendSigint, Popen, NodeRegisters, NodeLogsIn, NodeExits, NodeHangs, Spawn, RequestStop, Deliver, Kill9, Kill, MayKill
    <3>2. QED
      BY <3>1
  <2>14. CASE UNCHANGED vars
    BY <2>14 DEF vars
  <2>15. QED
    BY <1>1, <2>1, <2>2, <2>3, <2>4, <2>5, <2>6, <2>7, <2>8, <2>9, <2>10, <2>11, <2>12, <2>13, <2>14
    DEF Next, MainSteps, HandlerSteps
<1>2. Init => StatusInv
  BY StatusesAre DEF Init, StatusInv, StatusBefore
<1>3. TypeOK /\ StatusInv /\ [Next]_vars => StatusInv'
  BY StatusStep, StatusInvStep DEF StatusInv
<1>4. QED
  BY <1>1, <1>2, <1>3, TypeCorrect, PTL DEF Spec, StatusMovesForward

-----------------------------------------------------------------------------
(* Worker implements NodeLife.                                             *)

(* NodeLife's variables, read off a worker.                                *)
Run == IF pc # "exited" THEN "up" ELSE IF killed THEN "killed"
       ELSE IF clean THEN "left" ELSE "failed"
Told == CASE told = {} -> 0 [] told = {"logout"} -> 1 [] OTHER -> 2

(* The three things that can have been told.                               *)
LEMMA ToldIs ==
  /\ told = {} => Told = 0
  /\ told = {"logout"} => Told = 1
  /\ told = Both => Told = 2
<1>1. {} # {"logout"} /\ Both # {} /\ Both # {"logout"}
  BY DEF Both
<1>2. QED
  BY <1>1 DEF Told

(* What each step is for NodeLife.                                         *)
LEMMA LifeStep ==
  ASSUME TypeOK, WorkerInv, WorkerInv', [Next]_vars
  PROVE  [Life!Next]_(Life!life)
<1> USE DEF main, p2p, supervisor, counters, At, Goto, Elsewhere, BeforeNode, WithNode, Alive
<1>a. ASSUME UNCHANGED <<Run, node # "none", told, status # "Down">>
      PROVE  [Life!Next]_(Life!life)
  BY <1>a DEF Run, Life!life
<1>b. ASSUME UNCHANGED <<Run, node # "none", told>>, Run = "up"
      PROVE  [Life!Next]_(Life!life)
  <2>1. UNCHANGED Told
    BY <1>b DEF Told
  <2>2. Life!Report
    BY <1>b, <2>1 DEF Run, Told, Life!Report
  <2>3. QED
    BY <2>2 DEF Life!Next
<1>c. ASSUME UNCHANGED <<node, told, status>>, Run = "up", Run' = "failed",
             node # "none" => told = Both
      PROVE  [Life!Next]_(Life!life)
  <2>1. UNCHANGED Told /\ (node # "none" => Told = 2)
    BY <1>c, ToldIs DEF Told
  <2>2. Life!FailRun
    BY <1>c, <2>1 DEF Run, Told, Life!FailRun
  <2>3. QED
    BY <2>2 DEF Life!Next
<1>1. CASE MainSteps /\ ~Exit
  <2>1. /\ pc # "exited" /\ pc' # "exited"
        /\ UNCHANGED told /\ (node # "none") = (node # "none")'
    BY <1>1 DEF MainSteps, Begin, LoadOperatingAddress, LoadStakingAddress, SetupFound,
         AfterStaking, RequestCoins, LoadBootstrapParameters, EnoughEth, StartNode,
         WaitForRegister, Approve, Stake, LogIn, Login, LoginBroken, Serve, AtExit
  <2>2. QED
    BY <1>b, <2>1 DEF Run
<1>2. CASE Exit
  <2>1. /\ UNCHANGED <<clean, node, told, status, killed>>
        /\ pc = "exiting" /\ pc' = "exited" /\ ~killed
    BY <1>2 DEF Exit, WorkerInv, ExitInv
  <2>2. node # "none" => told = Both
    BY <1>2, <2>1 DEF Exit, MayKill, TypeOK, WorkerInv, HandlerInv, NodeInv
  <2>3. CASE clean
    <3>1. told = Both /\ status = "Down"
      BY <2>3 DEF WorkerInv, ExitInv
    <3>2. Run = "up" /\ Run' = "left"
      BY <2>1, <2>3 DEF Run
    <3>3. Told = 2 /\ UNCHANGED Told
      BY <2>1, <3>1, ToldIs DEF Told
    <3>4. Life!Leave
      BY <2>1, <3>1, <3>2, <3>3 DEF Run, Told, Life!Leave
    <3>5. QED
      BY <3>4 DEF Life!Next
  <2>4. CASE ~clean
    BY <1>c, <2>1, <2>2, <2>4 DEF Run
  <2>5. QED
    BY <2>3, <2>4
<1>3. CASE WaitForSetup \/ WaitForEth \/ Fail
  BY <1>3, <1>b DEF WaitForSetup, WaitForEth, Fail, Run
<1>3a. CASE SetKillNow
  BY <1>3a, <1>a DEF SetKillNow, Run
<1>4. CASE Logout
  <2>1. /\ pc # "exited" /\ UNCHANGED <<pc, clean, killed, status>>
        /\ node # "none" /\ node' # "none"
        /\ told \in {{}, Both} /\ told' = told \cup {"logout"}
    BY <1>4 DEF Logout, WorkerInv, HandlerInv, ExitInv
  <2>2. CASE told = {}
    <3>1. Run = "up" /\ Run' = "up" /\ Told = 0 /\ Told' = 1
      BY <2>1, <2>2, ToldIs DEF Run, Told
    <3>2. Life!LogOut
      BY <2>1, <3>1 DEF Run, Told, Life!LogOut
    <3>3. QED
      BY <3>2 DEF Life!Next
  <2>3. CASE told = Both
    <3>1. told' = told
      BY <2>1, <2>3 DEF Both
    <3>2. QED
      BY <1>a, <2>1, <3>1 DEF Run
  <2>4. QED
    BY <2>1, <2>2, <2>3
<1>5. CASE LogoutBroken
  <2>1. UNCHANGED <<node, told, status>> /\ pc # "exited" /\ pc' # "exited"
    BY <1>5 DEF LogoutBroken, WorkerInv, ExitInv
  <2>2. QED
    BY <1>b, <2>1 DEF Run
<1>6. CASE SendSigint
  <2>1. /\ pc # "exited" /\ UNCHANGED <<pc, clean, killed, node, status>>
        /\ told \in {{"logout"}, Both} /\ told' = Both
    BY <1>6 DEF SendSigint, WorkerInv, HandlerInv, ExitInv, Both
  <2>2. CASE told = {"logout"}
    <3>1. Run = "up" /\ Run' = "up" /\ Told = 1 /\ Told' = 2
      BY <2>1, <2>2, ToldIs DEF Run, Told, Both
    <3>2. Life!Interrupt
      BY <2>1, <3>1 DEF Run, Told, Life!Interrupt
    <3>3. QED
      BY <3>2 DEF Life!Next
  <2>3. CASE told = Both
    BY <1>a, <2>1, <2>3 DEF Run
  <2>4. QED
    BY <2>1, <2>2, <2>3
<1>7. CASE Popen
  <2>1. /\ pc # "exited" /\ UNCHANGED <<pc, told, status>>
        /\ node = "none" /\ node' # "none" /\ told = {}
    BY <1>7 DEF Popen, WorkerInv, HandlerInv, NodeInv
  <2>2. Run = "up" /\ Run' = "up" /\ Told = 0 /\ UNCHANGED Told
    BY <2>1, ToldIs DEF Run, Told
  <2>3. Life!Launch
    BY <2>1, <2>2 DEF Run, Told, Life!Launch
  <2>4. QED
    BY <2>3 DEF Life!Next
<1>8. CASE NodeRegisters \/ NodeLogsIn \/ NodeHangs
  BY <1>8, <1>a DEF NodeRegisters, NodeLogsIn, NodeHangs, Run
<1>9. CASE NodeExits
  <2>1. node' = "none" /\ UNCHANGED <<pc, clean, killed, told, status>>
    BY <1>9 DEF NodeExits
  <2>2. UNCHANGED <<Run, Told>>
    BY <2>1 DEF Run, Told
  <2>3. Life!NodeGoes
    BY <2>1, <2>2 DEF Run, Told, Life!NodeGoes
  <2>4. QED
    BY <2>3 DEF Life!Next
<1>10. CASE Spawn
  <2>1. /\ pc = "exited" /\ pc' = "begin" /\ UNCHANGED status
        /\ node' = "none" /\ told' = {}
    BY <1>10 DEF Spawn
  <2>2. Run # "up" /\ Run' = "up" /\ Told' = 0
    BY <2>1, ToldIs DEF Run, Told
  <2>3. Life!Begin
    BY <2>1, <2>2 DEF Run, Told, Life!Begin
  <2>4. QED
    BY <2>3 DEF Life!Next
<1>11. CASE RequestStop
  BY <1>11, <1>a DEF RequestStop, Run
<1>12. CASE Deliver
  <2>1. UNCHANGED <<node, told, status, killed>> /\ pc # "exited" /\ ~killed
    BY <1>12 DEF Deliver, WorkerInv, ExitInv
  <2>2. CASE pc' # "exited"
    BY <1>b, <2>1, <2>2 DEF Run
  <2>3. CASE pc' = "exited"
    <3>1. clean' = FALSE /\ thread = "none"
      BY <1>12, <2>1, <2>3 DEF Deliver, WorkerInv, NodeInv
    <3>2. node = "none"
      BY <3>1 DEF WorkerInv, NodeInv
    <3>3. QED
      BY <1>c, <2>1, <2>3, <3>1, <3>2 DEF Run
  <2>4. QED
    BY <2>2, <2>3
<1>13. CASE Kill9
  <2>1. /\ pc # "exited" /\ pc' = "exited" /\ killed'
        /\ UNCHANGED <<node, told, status>>
    BY <1>13 DEF Kill9
  <2>2. Run = "up" /\ Run' = "killed" /\ UNCHANGED Told
    BY <2>1 DEF Run, Told
  <2>3. Life!KillRun
    BY <2>1, <2>2 DEF Run, Told, Life!KillRun
  <2>4. QED
    BY <2>3 DEF Life!Next
<1>14. CASE UNCHANGED vars
  BY <1>14, <1>a DEF vars, Run
<1>15. QED
  BY <1>1, <1>2, <1>3, <1>4, <1>5, <1>6, <1>7, <1>8, <1>9, <1>10, <1>11, <1>12, <1>13,
     <1>14, <1>3a
  DEF Next, MainSteps, HandlerSteps

(* A worker with its handlers, signals, exceptions and restarts implements *)
(* NodeLife: whatever ends a run, its node was told to log out and then to *)
(* stop, or is gone, or the run was killed; told again, nothing changes.   *)
THEOREM NodeLifeImplemented == Spec => ImplementsNodeLife
<1>1. Init => Life!Init
  BY DEF Init, Life!Init
<1>2. TypeOK /\ WorkerInv /\ WorkerInv' /\ [Next]_vars => [Life!Next]_(Life!life)
  BY LifeStep
<1>3. QED
  BY <1>1, <1>2, TypeCorrect, WorkerInvariant, PTL DEF Spec, ImplementsNodeLife, Life!Spec

-----------------------------------------------------------------------------
(* With a CLI that polls its status the worker behaves as it does alone:   *)
(* what is proved of Spec holds of the composition.                        *)
THEOREM LineImplementsWorker == LSpec => Spec
<1>1. LInit => Init
  BY DEF LInit
<1>2. [LNext]_lvars => [Next]_vars
  BY DEF LNext, lvars
<1>3. QED
  BY <1>1, <1>2, PTL DEF LSpec, Spec
=============================================================================
