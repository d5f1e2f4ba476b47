--------------------------------- MODULE Cli ---------------------------------
(***************************************************************************)
(* The terminal CLI of a worker (worker/scripts/cli): one asyncio event loop *)
(* on which every line typed becomes a coroutine, the dialogs that setup and *)
(* help wait for, pollers that copy files to the screen, and a thread that *)
(* asks the Ethereum node for a balance.  Coroutines, pollers and key presses *)
(* interleave at every await, the thread anywhere; the order in which the  *)
(* loop runs what is ready is left open.                                   *)
(*                                                                         *)
(* External: the p2p node behind the management API, supervisord, the      *)
(* worker's address file, the Ethereum node, the user.                     *)
(***************************************************************************)
EXTENDS Naturals

CONSTANTS Commands,  \* what is typed (a subset of AllCommands)
          Absent,    \* there is no staking file
          Empty,     \* the staking file has been opened for writing, and that is all
          MaxLines,  \* bound on the lines typed
          MaxKeys,   \* bound on the operating keys the worker creates
          MaxMoves   \* bound on what the node does by itself

Actions == {"register", "login", "logout"}  \* available_actions
AllCommands == Actions \cup {"setup", "help", "F1", "restart"}

ASSUME CliAssumption ==
  /\ Commands \subseteq AllCommands
  /\ Absent # Empty /\ {Absent, Empty} \cap (Nat \cup {"none"}) = {}
  /\ MaxLines \in Nat /\ MaxKeys \in Nat /\ MaxMoves \in Nat

VARIABLES running,
          line,      \* the lines typed: command, next step, answer; alone is a history:
                     \* nothing was on its way, nor did the node move, since it was typed
          late,      \* lines nobody waits for any more whose request may still be served
          shown,     \* lines whose dialog is in root_container.floats
          focus,     \* the line whose dialog has the keyboard, or Input
          before,    \* focused_before of each dialog
          future,    \* the future of each dialog
          escape,    \* the line whose handler the escape key is bound to
          eth,       \* the buffer with the operating address
          checked,   \* do_get_balance has found an address and will ask for its balance
          balance,   \* the global: whether the balance last found was enough to register
          file,      \* the staking file
          keys,      \* operating keys created; the last is in the address file
          funded,    \* operating addresses with enough ETH to register
          node,      \* the p2p node
          believed,  \* history: what the last answer says of the node
          moves

dialogs == <<shown, focus, before, future, escape>>
money == <<checked, balance>>
worker == <<keys, funded>>
p2p == <<node, believed, moves>>
vars == <<running, line, late, dialogs, eth, money, file, worker, p2p>>

Lines == 1 .. MaxLines
Input == 0           \* the input field; no line
NA == 0              \* "N/A"; no operating address
Addresses == 1 .. MaxKeys

(* A staking address is named after the line that asked for it.            *)
Contents == Lines \cup {Absent, Empty}

Steps == {"unused", "scheduled", "message", "dialog", "open", "write", "sent",
          "accepted", "denied", "done", "lost", "cut"}

TypeOK ==
  /\ running \in BOOLEAN
  /\ line \in [Lines -> [cmd : AllCommands \cup {"none"}, pc : Steps, alone : BOOLEAN,
                         answer : {"none", "ok", "failed", "refused", "error"}]]
  /\ late \subseteq Lines /\ shown \subseteq Lines
  /\ focus \in Lines \cup {Input} /\ before \in [Lines -> Lines \cup {Input}]
  /\ future \in [Lines -> {"open", "ok", "cancel"}]
  /\ escape \in Lines \cup {Input}
  /\ eth \in Addresses \cup {NA}
  /\ checked \in BOOLEAN
  /\ balance \in BOOLEAN
  /\ file \in Contents
  /\ keys \in 0 .. MaxKeys /\ funded \subseteq Addresses
  /\ node \in {"down", "starting", "registered", "loggedIn"}
  /\ believed \in {"none", "registered", "loggedIn"}
  /\ moves \in 0 .. MaxMoves

Init ==
  /\ running = TRUE
  /\ line = [i \in Lines |-> [cmd |-> "none", pc |-> "unused", alone |-> FALSE, answer |-> "none"]]
  /\ late = {}
  /\ shown = {} /\ focus = Input /\ escape = Input
  /\ before = [i \in Lines |-> Input] /\ future = [i \in Lines |-> "open"]
  /\ eth = NA
  /\ checked = FALSE /\ balance = FALSE
  /\ file = Absent
  /\ keys = 0 /\ funded = {}
  /\ node \in {"down", "starting", "registered", "loggedIn"} /\ believed = "none" /\ moves = 0

-----------------------------------------------------------------------------
(* Lines: accept() and its coroutine.                                      *)

At(i, step) == running /\ line[i].pc = step
Is(i, cmds) == line[i].cmd \in cmds
Goto(i, step) == line' = [line EXCEPT ![i].pc = step]
Answer(i, a) == line' = [line EXCEPT ![i].pc = "done", ![i].answer = a]

(* What is on its way: requests and setups.                                *)
Busy == {i \in Lines : line[i].pc \notin {"unused", "done", "lost", "cut"}} \cup late

(* The next line; it is alone if nothing else is on its way when it starts. *)
(* Until it is answered nothing is known of the node.                      *)
Enter(i, c, step) ==
  /\ running
  /\ line[i].pc = "unused" /\ \A j \in Lines : j < i => line[j].pc # "unused"
  /\ line' = [line EXCEPT ![i] = [@ EXCEPT !.cmd = c, !.pc = step, !.alone = (Busy = {})]]
  /\ believed' = IF c \in Actions \cup {"restart"} THEN "none" ELSE believed
  /\ UNCHANGED <<running, late, dialogs, eth, money, file, worker, node, moves>>

Type(i) == focus = Input /\ \E c \in Commands \ {"F1"} : Enter(i, c, "scheduled")

(* The F1 key is bound in the application: it works inside a dialog too.   *)
PressF1(i) == "F1" \in Commands /\ Enter(i, "F1", "message")

(* help answers, and leaves a second coroutine for the message.            *)
Help(i) ==
  /\ At(i, "scheduled") /\ Is(i, {"help"})
  /\ line' = [line EXCEPT ![i].pc = "message", ![i].answer = "ok"]
  /\ UNCHANGED <<running, late, dialogs, eth, money, file, worker, p2p>>

(* Mutant: the window that had the focus is read after the focus has moved. *)
DisplayThenRemember(i) ==
  /\ shown' = shown \cup {i}
  /\ focus' = i
  /\ before' = [before EXCEPT ![i] = focus']

(* show_dialog_as_float, up to its await.                                  *)
Display(i) ==
  /\ shown' = shown \cup {i}
  /\ before' = [before EXCEPT ![i] = focus]
  /\ focus' = i

(* MessageDialog binds the escape key, also when another dialog is in the  *)
(* way; then it is never shown.                                            *)
Message(i) ==
  /\ At(i, "message")
  /\ escape' = i
  /\ IF shown = {} THEN Display(i) /\ Goto(i, "dialog")
                   ELSE UNCHANGED <<shown, focus, before>> /\ Goto(i, "done")
  /\ UNCHANGED <<running, late, future, eth, money, file, worker, p2p>>

(* Mutant: the future is awaited whether the dialog is shown or not. *)
SetupAlwaysAwaits(i) ==
  /\ At(i, "scheduled") /\ Is(i, {"setup"})
  /\ IF shown = {} THEN Display(i) ELSE UNCHANGED <<shown, focus, before>>
  /\ Goto(i, "dialog")
  /\ UNCHANGED <<running, late, future, escape, eth, money, file, worker, p2p>>

(* With a dialog in the way setup goes on at once, with None.              *)
Setup(i) ==
  /\ At(i, "scheduled") /\ Is(i, {"setup"})
  /\ IF shown = {} THEN Display(i) /\ Goto(i, "dialog") /\ UNCHANGED future
                   ELSE /\ Goto(i, "open") /\ future' = [future EXCEPT ![i] = "cancel"]
                        /\ UNCHANGED <<shown, focus, before>>
  /\ UNCHANGED <<running, late, escape, eth, money, file, worker, p2p>>

(* The buttons of the dialog that has the keyboard, and the escape key,    *)
(* whose last handler fires once, whichever dialog has the keyboard.       *)
PressButton(i) ==
  /\ running /\ focus = i /\ future[i] = "open"
  /\ \E b \in IF Is(i, {"setup"}) THEN {"ok", "cancel"} ELSE {"ok"} :
       future' = [future EXCEPT ![i] = b]
  /\ UNCHANGED <<running, line, late, shown, focus, before, escape,
                 eth, money, file, worker, p2p>>

PressEscape ==
  /\ running /\ escape # Input /\ future[escape] = "open"
  /\ future' = [future EXCEPT ![escape] = "cancel"]
  /\ UNCHANGED <<running, line, late, shown, focus, before, escape,
                 eth, money, file, worker, p2p>>

(* The rest of show_dialog_as_float.                                       *)
Close(i) ==
  /\ At(i, "dialog") /\ future[i] # "open"
  /\ focus' = before[i]
  /\ shown' = shown \ {i}
  /\ Goto(i, IF Is(i, {"setup"}) THEN "open" ELSE "done")
  /\ UNCHANGED <<running, late, before, future, escape,
                 eth, money, file, worker, p2p>>

(* set_staking_address: the file is truncated, then the address written;   *)
(* None is an exception.                                                   *)
OpenFile(i) ==
  /\ At(i, "open")
  /\ file' = Empty
  /\ Goto(i, "write")
  /\ UNCHANGED <<running, late, dialogs, eth, money, worker, p2p>>

(* Mutant: the write is not awaited before the answer. *)
WriteUnawaited(i) ==
  /\ At(i, "write")
  /\ Answer(i, IF future[i] = "ok" THEN "ok" ELSE "error")
  /\ UNCHANGED <<running, late, dialogs, eth, money, file, worker, p2p>>

(* Mutant: without an address something is written all the same. *)
WriteNone(i) ==
  /\ At(i, "write")
  /\ file' = IF future[i] = "ok" THEN i ELSE NA
  /\ Answer(i, "ok")
  /\ UNCHANGED <<running, late, dialogs, eth, money, worker, p2p>>

WriteFile(i) ==
  /\ At(i, "write")
  /\ IF future[i] = "ok" THEN file' = i /\ Answer(i, "ok")
                         ELSE UNCHANGED file /\ Answer(i, "error")
  /\ UNCHANGED <<running, late, dialogs, eth, money, worker, p2p>>

(* Mutant: any balance will do. *)
CanRegisterAnyway == TRUE

can_register == balance

Act(i) ==
  /\ At(i, "scheduled") /\ Is(i, Actions)
  /\ IF Is(i, {"register"}) /\ ~can_register THEN Answer(i, "refused") ELSE Goto(i, "sent")
  /\ UNCHANGED <<running, late, dialogs, eth, money, file, worker, p2p>>

(* What the node can do, and where that leaves it.                         *)
CanDo(i) == IF Is(i, {"register"}) THEN node # "down" ELSE node \in {"registered", "loggedIn"}
After(i) == CASE Is(i, {"register"}) -> IF node = "starting" THEN "registered" ELSE node
              [] Is(i, {"login"}) -> "loggedIn"
              [] OTHER -> "registered"

(* The node serves a request, or refuses it; nobody may be waiting for it. *)
Serve(i) ==
  /\ node # "down"
  /\ \/ At(i, "sent") /\ UNCHANGED late
     \/ i \in late /\ late' = late \ {i}
  /\ \/ CanDo(i) /\ node' = After(i) /\ (IF i \in late THEN UNCHANGED line ELSE Goto(i, "accepted"))
     \/ UNCHANGED node /\ (IF i \in late THEN UNCHANGED line ELSE Goto(i, "denied"))
  /\ UNCHANGED <<running, dialogs, eth, money, file, worker, believed, moves>>

(* What a success says of the node, if nothing else touched the node from  *)
(* the beginning of the line to its end.                                   *)
Undisturbed(i) == line[i].alone /\ \A j \in Lines : j > i => ~Is(j, Actions \cup {"restart"})
Said(i) == CASE Is(i, {"register"}) -> "none"
             [] Is(i, {"login"}) -> "loggedIn"
             [] OTHER -> "registered"

(* Mutant: the answer does not wait for the response. *)
ResponseAtOnce(i) ==
  /\ running /\ line[i].pc \in {"sent", "accepted", "denied"}
  /\ Answer(i, IF line[i].pc = "denied" THEN "failed" ELSE "ok")
  /\ late' = IF line[i].pc = "sent" THEN late \cup {i} ELSE late
  /\ believed' = IF line[i].pc # "denied" /\ Undisturbed(i) THEN Said(i) ELSE believed
  /\ UNCHANGED <<running, dialogs, eth, money, file, worker, node, moves>>

(* The answer is what the response says.                                   *)
Response(i) ==
  /\ running /\ line[i].pc \in {"accepted", "denied"}
  /\ Answer(i, IF line[i].pc = "accepted" THEN "ok" ELSE "failed")
  /\ believed' = IF line[i].pc = "accepted" /\ Undisturbed(i) THEN Said(i) ELSE believed
  /\ UNCHANGED <<running, late, dialogs, eth, money, file, worker, node, moves>>

(* No connection, or no response in time: the request may be served yet.   *)
NoResponse(i) ==
  /\ At(i, "sent")
  /\ Answer(i, "error")
  /\ late' \in {late, late \cup {i}}
  /\ UNCHANGED <<running, dialogs, eth, money, file, worker, p2p>>

(* supervisorctl is started, not waited for; starting it may fail.         *)
Restart(i) ==
  /\ At(i, "scheduled") /\ Is(i, {"restart"})
  /\ \E a \in {"ok", "error"} : Answer(i, a)
  /\ UNCHANGED <<running, late, dialogs, eth, money, file, worker, p2p>>

(* exit, Ctrl-C: the event loop ends, and with it whatever was waiting.  A *)
(* setup with the file open is cut off there, its write possibly in the    *)
(* hands of its thread already.  The memory is gone.                       *)
Exit ==
  /\ running /\ running' = FALSE
  /\ late' = late \cup {i \in Lines : line[i].pc = "sent"}
  /\ line' = [i \in Lines |-> IF line[i].pc \in {"unused", "done"} THEN line[i]
                              ELSE [line[i] EXCEPT !.pc = IF @ = "write" THEN "cut" ELSE "lost"]]
  /\ file' \in {file} \cup {i \in Lines : line[i].pc = "write" /\ future[i] = "ok"}
  /\ shown' = {} /\ focus' = Input /\ escape' = Input
  /\ before' = [i \in Lines |-> Input] /\ future' = [i \in Lines |-> "open"]
  /\ eth' = NA
  /\ checked' = FALSE /\ balance' = FALSE
  /\ UNCHANGED <<worker, p2p>>

-----------------------------------------------------------------------------
(* Pollers, and the thread, which reads the address twice.                 *)

PollAddress == /\ running /\ eth' \in {keys, NA}
               /\ UNCHANGED <<running, line, late, dialogs, money, file, worker, p2p>>

CheckAddress == /\ running /\ ~checked /\ eth # NA
                /\ checked' = TRUE
                /\ UNCHANGED <<running, line, late, dialogs, eth, balance, file, worker, p2p>>

(* The second time it can be N/A: an exception, shown and forgotten.       *)
AskBalance ==
  /\ running /\ checked
  /\ checked' = FALSE
  /\ balance' = IF eth = NA THEN balance ELSE eth \in funded
  /\ UNCHANGED <<running, line, late, dialogs, eth, file, worker, p2p>>

-----------------------------------------------------------------------------
(* The world around the CLI.                                               *)

CreateKey == /\ keys < MaxKeys /\ keys' = keys + 1
             /\ UNCHANGED <<running, line, late, dialogs, eth, money, file, funded, p2p>>

(* The user pays the address on the screen.                                *)
Fund == /\ running /\ eth # NA /\ funded' = funded \cup {eth}
        /\ UNCHANGED <<running, line, late, dialogs, eth, money, file, keys, p2p>>

(* The node starts, registers, is logged in by the start-up script, dies   *)
(* or is restarted; what the user was told is then history.                *)
NodeMoves ==
  /\ moves < MaxMoves /\ moves' = moves + 1
  /\ node' \in {"down", CASE node = "down" -> "starting" [] node = "starting" -> "registered"
                          [] OTHER -> "loggedIn"}
  /\ believed' = "none"
  /\ line' = [i \in Lines |-> IF Is(i, Actions) THEN [line[i] EXCEPT !.alone = FALSE] ELSE line[i]]
  /\ UNCHANGED <<running, late, dialogs, eth, money, file, worker>>

-----------------------------------------------------------------------------
Coroutine(i) == \/ Help(i) \/ Message(i) \/ Setup(i) \/ Close(i) \/ OpenFile(i) \/ WriteFile(i)
                \/ Act(i) \/ Response(i) \/ NoResponse(i) \/ Restart(i)

Next == \/ \E i \in Lines : Type(i) \/ PressF1(i) \/ PressButton(i) \/ Coroutine(i) \/ Serve(i)
        \/ PressEscape \/ Exit
        \/ PollAddress \/ CheckAddress \/ AskBalance
        \/ CreateKey \/ Fund \/ NodeMoves

(* The event loop runs what is ready; a request is answered or given up    *)
(* (aiohttp's default); the user presses the button of an open dialog.     *)
(* Nobody has to type, to press escape, or to start the CLI.               *)
Fairness == \A i \in Lines : WF_vars(Coroutine(i)) /\ WF_vars(PressButton(i))

Spec == Init /\ [][Next]_vars
FairSpec == Spec /\ Fairness

-----------------------------------------------------------------------------
(* Properties. *)

(* Whatever dialogs are asked for, and in whatever order they close, one   *)
(* is open at a time, and the keyboard comes back to the input field.      *)
InputUsable == []<>(focus = Input \/ ~running)

(* Every line is answered, unless the CLI is left first: no dialog that    *)
(* cannot be closed, no request that is waited for in vain, no coroutine   *)
(* that ends silently.                                                     *)
LinesAnswered == \A i \in Lines : [](line[i].pc = "scheduled" =>
                                       <>(line[i].answer # "none" \/ ~running))

(* What the user is told of a setup is true: its address is in the file    *)
(* until another setup opens it, one that was on its way with it or came   *)
(* after it.  However setups overlap, are cancelled or cut off, the file is *)
(* left empty only by one that is still writing, failed or was cut off, and *)
(* it never holds an address that was reported as an error.                *)
Setups == {i \in Lines : Is(i, {"setup"})}
Opened(i) == line[i].pc \in {"write", "cut"} \/ line[i].answer \in {"ok", "error"}
Overtook(j, i) == j # i /\ Opened(j) /\ (line[i].alone => j > i)

SetupKept ==
  /\ \A i \in Setups : line[i].answer = "ok" => file = i \/ \E j \in Setups : Overtook(j, i)
  /\ file = Empty => \E j \in Setups : line[j].pc \in {"write", "cut"} \/ line[j].answer = "error"
  /\ file \in Lines => file \in Setups /\ (line[file].answer = "ok" \/ line[file].pc = "cut")

(* What the user is told of a login or logout typed on its own is true of  *)
(* the node until something else happens to the node.                      *)
AnswerTrue == believed # "none" => node = believed

(* A register goes out only when the worker has been funded, at the        *)
(* address it has or at one it had before: the balance is one the thread   *)
(* got for an address of the worker, however late.                         *)
RegisterFunded ==
  \A i \in Lines : At(i, "sent") /\ Is(i, {"register"}) => funded \cap 1 .. keys # {}

(* The dialog on the screen is the one its line waits for, and it has the  *)
(* keyboard; with none on the screen the input line has it.                *)
KeyboardOnScreen ==
  /\ shown = {i \in Lines : line[i].pc = "dialog"}
  /\ IF shown = {} THEN focus = Input ELSE shown = {focus}
=============================================================================
