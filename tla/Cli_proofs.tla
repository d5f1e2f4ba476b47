----------------------------- MODULE Cli_proofs -----------------------------
(***************************************************************************)
(* Proofs about Cli, for every number of lines, keys and moves of the node.*)
(***************************************************************************)
EXTENDS Cli, TLAPS

USE DEF dialogs, money, worker, p2p

LineType == [cmd : AllCommands \cup {"none"}, pc : Steps, alone : BOOLEAN,
             answer : {"none", "ok", "failed", "refused", "error"}]

(* What a line may hold.                                                   *)
LEMMA LineFields ==
  ASSUME NEW l \in LineType, NEW step \in Steps,
         NEW a \in {"none", "ok", "failed", "refused", "error"}
  PROVE  /\ [l EXCEPT !.pc = step] \in LineType
         /\ [l EXCEPT !.pc = step, !.answer = a] \in LineType
         /\ [l EXCEPT !.alone = FALSE] \in LineType
BY DEF LineType

(* A line moves on to a step, or ends with an answer.                      *)
LEMMA GotoType ==
  ASSUME TypeOK, NEW i \in Lines, NEW step \in Steps, Goto(i, step)
  PROVE  line' \in [Lines -> LineType]
BY DEF TypeOK, Goto, LineType

(* An answer ends a line and leaves its type.                              *)
LEMMA AnswerType ==
  ASSUME TypeOK, NEW i \in Lines, NEW a \in {"ok", "failed", "refused", "error"}, Answer(i, a)
  PROVE  line' \in [Lines -> LineType]
<1>1. line \in [Lines -> LineType]
  BY DEF TypeOK, LineType
<1>2. line' = [line EXCEPT ![i] = [line[i] EXCEPT !.pc = "done", !.answer = a]]
  BY <1>1 DEF Answer
<1>3. [line[i] EXCEPT !.pc = "done", !.answer = a] \in LineType
  BY <1>1, LineFields DEF Steps
<1>4. QED
  BY <1>1, <1>2, <1>3

(* Opening and closing dialogs keep the type of the screen.                *)
LEMMA DisplayType ==
  ASSUME TypeOK, NEW i \in Lines, Display(i)
  PROVE  /\ shown' \subseteq Lines
         /\ focus' \in Lines \cup {Input}
         /\ before' \in [Lines -> Lines \cup {Input}]
BY DEF TypeOK, Display

(* A line that is entered gets a command and its first step.               *)
LEMMA EnterType ==
  ASSUME TypeOK, NEW i \in Lines, NEW c \in AllCommands, NEW step \in Steps, Enter(i, c, step)
  PROVE  TypeOK'
<1>1. line' \in [Lines -> LineType]
  <2> DEFINE new == [line[i] EXCEPT !.cmd = c, !.pc = step, !.alone = (Busy = {})]
  <2>1. line \in [Lines -> LineType] /\ (Busy = {}) \in BOOLEAN
    BY DEF TypeOK, LineType
  <2>2. line' = [line EXCEPT ![i] = new]
    BY DEF Enter
  <2>3. new \in LineType
    BY <2>1 DEF LineType
  <2>4. QED
    BY <2>1, <2>2, <2>3
<1>2. believed' \in {"none", "registered", "loggedIn"}
  BY DEF TypeOK, Enter
<1>3. QED
  BY <1>1, <1>2 DEF TypeOK, Enter, LineType

(* Each step of a coroutine keeps the type.                                *)
LEMMA CoroutineType ==
  ASSUME TypeOK, NEW i \in Lines, Coroutine(i)
  PROVE  TypeOK'
<1>1. CASE Help(i)
  <2>1. line' \in [Lines -> LineType]
    <3>1. line \in [Lines -> LineType]
      BY DEF TypeOK, LineType
    <3>2. line' = [line EXCEPT ![i] = [line[i] EXCEPT !.pc = "message", !.answer = "ok"]]
      BY <1>1, <3>1 DEF Help
    <3>3. "message" \in Steps
      BY DEF Steps
    <3>4. [line[i] EXCEPT !.pc = "message", !.answer = "ok"] \in LineType
      BY <3>1, <3>3, LineFields
    <3>5. QED
      BY <3>1, <3>2, <3>4
  <2>2. QED
    BY <1>1, <2>1 DEF TypeOK, Help, LineType
<1> USE DEF LineType
<1>2. CASE Message(i)
  <2>1. line' \in [Lines -> LineType]
    BY <1>2, GotoType DEF Message, Steps
  <2>2. /\ shown' \subseteq Lines /\ focus' \in Lines \cup {Input}
        /\ before' \in [Lines -> Lines \cup {Input}]
    BY <1>2, DisplayType DEF Message, TypeOK
  <2>3. QED
    BY <1>2, <2>1, <2>2 DEF TypeOK, Message
<1>3. CASE Setup(i)
  <2>1. line' \in [Lines -> LineType]
    BY <1>3, GotoType DEF Setup, Steps
  <2>2. /\ shown' \subseteq Lines /\ focus' \in Lines \cup {Input}
        /\ before' \in [Lines -> Lines \cup {Input}]
    BY <1>3, DisplayType DEF Setup, TypeOK
  <2>3. future' \in [Lines -> {"open", "ok", "cancel"}]
    BY <1>3 DEF Setup, TypeOK
  <2>4. QED
    BY <1>3, <2>1, <2>2, <2>3 DEF TypeOK, Setup
<1>4. CASE Close(i)
  <2>1. line' \in [Lines -> LineType]
    BY <1>4, GotoType DEF Close, Steps
  <2>2. QED
    BY <1>4, <2>1 DEF TypeOK, Close
<1>5. CASE OpenFile(i)
  <2>1. line' \in [Lines -> LineType]
    BY <1>5, GotoType DEF OpenFile, Steps
  <2>2. QED
    BY <1>5, <2>1 DEF TypeOK, OpenFile, Contents
<1>6. CASE WriteFile(i)
  <2>1. line' \in [Lines -> LineType]
    BY <1>6, AnswerType DEF WriteFile
  <2>2. file' \in Contents
    BY <1>6 DEF WriteFile, TypeOK, Contents
  <2>3. QED
    BY <1>6, <2>1, <2>2 DEF TypeOK, WriteFile
<1>7. CASE Act(i)
  <2>1. line' \in [Lines -> LineType]
    BY <1>7, GotoType, AnswerType DEF Act, Steps
  <2>2. QED
    BY <1>7, <2>1 DEF TypeOK, Act
<1>8. CASE Response(i)
  <2>1. line' \in [Lines -> LineType]
    BY <1>8, AnswerType DEF Response
  <2>2. believed' \in {"none", "registered", "loggedIn"}
    BY <1>8 DEF Response, TypeOK, Said
  <2>3. QED
    BY <1>8, <2>1, <2>2 DEF TypeOK, Response
<1>9. CASE NoResponse(i)
  <2>1. line' \in [Lines -> LineType]
    BY <1>9, AnswerType DEF NoResponse
  <2>2. late' \subseteq Lines
    BY <1>9 DEF NoResponse, TypeOK
  <2>3. QED
    BY <1>9, <2>1, <2>2 DEF TypeOK, NoResponse
<1>10. CASE Restart(i)
  <2>1. line' \in [Lines -> LineType]
    BY <1>10, AnswerType DEF Restart
  <2>2. QED
    BY <1>10, <2>1 DEF TypeOK, Restart
<1>11. QED
  BY <1>1, <1>2, <1>3, <1>4, <1>5, <1>6, <1>7, <1>8, <1>9, <1>10 DEF Coroutine

(* A request that is served keeps the type.                                *)
LEMMA ServeType ==
  ASSUME TypeOK, NEW i \in Lines, Serve(i)
  PROVE  TypeOK'
<1>1. line' \in [Lines -> LineType]
  <2>1. CASE line' = line
    BY <2>1 DEF TypeOK, LineType
  <2>2. CASE \E step \in {"accepted", "denied"} : Goto(i, step)
    BY <2>2, GotoType DEF Steps
  <2>3. QED
    BY <2>1, <2>2 DEF Serve
<1>2. node' \in {"down", "starting", "registered", "loggedIn"}
  BY DEF Serve, After, TypeOK
<1>3. late' \subseteq Lines
  BY DEF Serve, TypeOK
<1>4. QED
  BY <1>1, <1>2, <1>3 DEF TypeOK, Serve, LineType

(* Leaving the CLI keeps the type.                                         *)
LEMMA ExitType ==
  ASSUME TypeOK, Exit
  PROVE  TypeOK'
<1>1. line' \in [Lines -> LineType]
  <2> SUFFICES ASSUME NEW i \in Lines
               PROVE  /\ [line[i] EXCEPT !.pc = "lost"] \in LineType
                      /\ [line[i] EXCEPT !.pc = "cut"] \in LineType /\ line[i] \in LineType
    BY DEF Exit
  <2>1. QED
    BY DEF TypeOK, LineType, Steps
<1>2. file' \in Contents
  BY DEF Exit, TypeOK, Contents
<1>3. late' \subseteq Lines
  BY DEF Exit, TypeOK
<1>4. /\ before' \in [Lines -> Lines \cup {Input}]
      /\ future' \in [Lines -> {"open", "ok", "cancel"}]
      /\ balance' \in BOOLEAN
  BY DEF Exit
<1>5. QED
  BY <1>1, <1>2, <1>3, <1>4 DEF TypeOK, Exit, LineType

(* The pollers, the node and the keystore keep the type.                   *)
LEMMA OutsideType ==
  ASSUME TypeOK, \/ PressEscape \/ PollAddress \/ CheckAddress \/ AskBalance
                 \/ CreateKey \/ Fund \/ NodeMoves
  PROVE  TypeOK'
<1>1. CASE PressEscape
  BY <1>1 DEF TypeOK, PressEscape
<1>2. CASE PollAddress
  <2>1. eth' \in Addresses \cup {NA}
    BY <1>2, CliAssumption DEF TypeOK, PollAddress, Addresses, NA
  <2>2. QED
    BY <1>2, <2>1 DEF TypeOK, PollAddress
<1>3. CASE CheckAddress
  BY <1>3 DEF TypeOK, CheckAddress
<1>4. CASE AskBalance
  <2>1. balance' \in BOOLEAN
    <3>1. CASE eth = NA
      BY <1>4, <3>1 DEF TypeOK, AskBalance
    <3>2. CASE eth # NA
      <4>1. balance' = (eth \in funded)
        BY <1>4, <3>2 DEF AskBalance
      <4>2. QED
        BY <4>1
    <3>3. QED
      BY <3>1, <3>2
  <2>2. QED
    BY <1>4, <2>1 DEF TypeOK, AskBalance
<1>5. CASE CreateKey
  <2>1. keys' \in 0 .. MaxKeys
    BY <1>5, CliAssumption DEF TypeOK, CreateKey
  <2>2. QED
    BY <1>5, <2>1 DEF TypeOK, CreateKey
<1>6. CASE Fund
  <2>1. funded' \subseteq Addresses
    BY <1>6 DEF TypeOK, Fund
  <2>2. QED
    BY <1>6, <2>1 DEF TypeOK, Fund
<1>7. CASE NodeMoves
  <2>1. line' \in [Lines -> LineType]
    <3> SUFFICES ASSUME NEW i \in Lines
                 PROVE  [line[i] EXCEPT !.alone = FALSE] \in LineType /\ line[i] \in LineType
      BY <1>7 DEF NodeMoves
    <3>1. QED
      BY DEF TypeOK, LineType
  <2>2. node' \in {"down", "starting", "registered", "loggedIn"}
    BY <1>7 DEF NodeMoves
  <2>3. moves' \in 0 .. MaxMoves
    BY <1>7, CliAssumption DEF TypeOK, NodeMoves
  <2>4. QED
    BY <1>7, <2>1, <2>2, <2>3 DEF TypeOK, NodeMoves, LineType
<1>8. QED
  BY <1>1, <1>2, <1>3, <1>4, <1>5, <1>6, <1>7

(* The state of the CLI and of what is around it always has its type.      *)
THEOREM TypeCorrect == Spec => []TypeOK
<1>1. Init => TypeOK
  <2> SUFFICES ASSUME Init PROVE TypeOK
    OBVIOUS
  <2>1. line \in [Lines -> LineType]
    BY DEF Init, LineType, Steps
  <2>2. keys \in 0 .. MaxKeys /\ moves \in 0 .. MaxMoves
    BY CliAssumption DEF Init
  <2>3. balance \in BOOLEAN
    BY DEF Init
  <2>4. QED
    BY <2>1, <2>2, <2>3 DEF Init, TypeOK, LineType, Contents
<1>2. TypeOK /\ [Next]_vars => TypeOK'
  <2> SUFFICES ASSUME TypeOK, [Next]_vars PROVE TypeOK'
    OBVIOUS
  <2>1. ASSUME NEW i \in Lines, Type(i) \/ PressF1(i) PROVE TypeOK'
    <3>1. \E c \in AllCommands, step \in {"scheduled", "message"} : Enter(i, c, step)
      BY <2>1, CliAssumption DEF Type, PressF1
    <3>2. QED
      BY <3>1, EnterType DEF Steps
  <2>2. ASSUME NEW i \in Lines, PressButton(i) PROVE TypeOK'
    <3>1. future' \in [Lines -> {"open", "ok", "cancel"}]
      BY <2>2 DEF TypeOK, PressButton
    <3>2. QED
      BY <2>2, <3>1 DEF TypeOK, PressButton
  <2>3. CASE UNCHANGED vars
    BY <2>3 DEF TypeOK, vars
  <2>4. QED
    BY <2>1, <2>2, <2>3, CoroutineType, ServeType, ExitType, OutsideType DEF Next
<1>3. QED
  BY <1>1, <1>2, PTL DEF Spec

-----------------------------------------------------------------------------
(* What can be said of a line at each of its steps.                        *)
Over(i) == line[i].pc \in {"done", "lost", "cut"}

LineInvOf(i) ==
  /\ line[i].pc = "unused" => line[i].cmd = "none" /\ line[i].answer = "none"
  /\ line[i].pc \in {"sent", "accepted", "denied"} => Is(i, Actions)
  /\ line[i].pc \in {"open", "write"} => Is(i, {"setup"})
  /\ Is(i, {"setup"}) /\ line[i].answer = "ok" => line[i].pc = "done"
  /\ i \in late => Is(i, Actions) /\ Over(i)
  /\ line[i].alone => \A j \in Lines : j < i => Over(j) /\ j \notin late

LineInv == \A i \in Lines : LineInvOf(i)

(* An update of one line leaves the others.                                *)
LEMMA LineIsFunction ==
  ASSUME TypeOK
  PROVE  line \in [Lines -> LineType] /\ late \subseteq Lines
BY DEF TypeOK, LineType

(* A line that was alone when it began has nothing older on its way.       *)
LEMMA LineMoves ==
  ASSUME TypeOK, LineInv, NEW i \in Lines, ~Over(i),
         NEW new \in LineType, line' = [line EXCEPT ![i] = new],
         new.cmd = line[i].cmd, new.alone = line[i].alone, new.pc # "unused",
         new.pc \in {"sent", "accepted", "denied"} => Is(i, Actions),
         new.pc \in {"open", "write"} => Is(i, {"setup"}),
         Is(i, {"setup"}) /\ new.answer = "ok" => new.pc = "done",
         late' \subseteq late \cup {i}, i \in late' => new.pc = "done" /\ Is(i, Actions)
  PROVE  LineInv'
<1> SUFFICES ASSUME NEW k \in Lines PROVE LineInvOf(k)'
  BY DEF LineInv
<1>1. line'[i] = new /\ \A j \in Lines : j # i => line'[j] = line[j]
  BY LineIsFunction
<1>2. LineInvOf(k)
  BY DEF LineInv
<1>3. line'[k].alone => \A j \in Lines : j < k => line'[j].pc \in {"done", "lost", "cut"} /\ j \notin late'
  <2> SUFFICES ASSUME line'[k].alone, NEW j \in Lines, j < k
               PROVE  line'[j].pc \in {"done", "lost", "cut"} /\ j \notin late'
    OBVIOUS
  <2>1. line[k].alone
    BY <1>1
  <2>2. Over(j) /\ j \notin late
    BY <1>2, <2>1 DEF LineInvOf
  <2>3. j # i
    BY <2>2
  <2>4. QED
    BY <1>1, <2>2, <2>3 DEF Over
<1>4. CASE k = i
  BY <1>1, <1>3, <1>4 DEF LineInvOf, Is, Over
<1>5. CASE k # i
  <2>1. line'[k] = line[k] /\ (k \in late' => k \in late)
    BY <1>1, <1>5
  <2>2. QED
    BY <1>2, <1>3, <2>1 DEF LineInvOf, Is, Over
<1>6. QED
  BY <1>4, <1>5

(* Goto is a move of its own line.                                         *)
LEMMA GotoMoves ==
  ASSUME TypeOK, LineInv, NEW i \in Lines, ~Over(i), line[i].pc # "unused",
         NEW step \in Steps, Goto(i, step), step # "unused",
         step \in {"sent", "accepted", "denied"} => Is(i, Actions),
         step \in {"open", "write"} => Is(i, {"setup"}),
         late' = late
  PROVE  LineInv'
<1> DEFINE new == [line[i] EXCEPT !.pc = step]
<1>1. line[i] \in LineType /\ line' = [line EXCEPT ![i] = new]
  BY LineIsFunction DEF Goto
<1>2. /\ new \in LineType
      /\ new.cmd = line[i].cmd /\ new.alone = line[i].alone
      /\ new.pc = step /\ new.answer = line[i].answer
  BY <1>1 DEF LineType
<1>3. LineInvOf(i)
  BY DEF LineInv
<1>4. i \notin late /\ ~(Is(i, {"setup"}) /\ line[i].answer = "ok")
  BY <1>3 DEF LineInvOf, Over
<1> HIDE DEF new
<1>5. QED
  BY <1>1, <1>2, <1>4, LineMoves

(* Answer is a move of its own line.                                       *)
LEMMA AnswerMoves ==
  ASSUME TypeOK, LineInv, NEW i \in Lines, ~Over(i),
         NEW a \in {"ok", "failed", "refused", "error"}, Answer(i, a),
         late' \subseteq late \cup {i}, i \in late' => Is(i, Actions)
  PROVE  LineInv'
<1> DEFINE new == [line[i] EXCEPT !.pc = "done", !.answer = a]
<1>1. line[i] \in LineType /\ line' = [line EXCEPT ![i] = new]
  BY LineIsFunction DEF Answer
<1>2. "done" \in Steps
  BY DEF Steps
<1>3. /\ new \in LineType
      /\ new.cmd = line[i].cmd /\ new.alone = line[i].alone /\ new.pc = "done"
  BY <1>1, <1>2 DEF LineType
<1> HIDE DEF new
<1>4. QED
  BY <1>1, <1>3, LineMoves

(* A coroutine moves its own line only.                                    *)
LEMMA CoroutineLines ==
  ASSUME TypeOK, LineInv, NEW i \in Lines, Coroutine(i)
  PROVE  LineInv'
<1>1. CASE Help(i)
  <2> DEFINE new == [line[i] EXCEPT !.pc = "message", !.answer = "ok"]
  <2>1. line[i] \in LineType /\ line' = [line EXCEPT ![i] = new]
    BY <1>1, LineIsFunction DEF Help
  <2>2. "message" \in Steps
    BY DEF Steps
  <2>3. /\ new \in LineType
        /\ new.cmd = line[i].cmd /\ new.alone = line[i].alone /\ new.pc = "message"
    BY <2>1, <2>2 DEF LineType
  <2>4. ~Over(i) /\ ~Is(i, {"setup"}) /\ late' = late
    BY <1>1 DEF Help, At, Over, Is
  <2>5. i \notin late
    BY <2>4 DEF LineInv, LineInvOf
  <2> HIDE DEF new
  <2>6. QED
    BY <2>1, <2>3, <2>4, <2>5, LineMoves
<1>2. CASE Message(i) \/ Setup(i) \/ Close(i) \/ OpenFile(i)
  <2>1. PICK step \in {"dialog", "done", "open", "write"} :
          /\ Goto(i, step) /\ late' = late
          /\ step \in {"open", "write"} => Is(i, {"setup"}) \/ line[i].pc = "open"
    BY <1>2 DEF Message, Setup, Close, OpenFile, At
  <2>2. ~Over(i) /\ line[i].pc # "unused"
    BY <1>2 DEF Message, Setup, Close, OpenFile, At, Over
  <2>3. step \in {"open", "write"} => Is(i, {"setup"})
    BY <2>1 DEF LineInv, LineInvOf
  <2>4. step \in Steps
    BY DEF Steps
  <2>5. QED
    BY <2>1, <2>2, <2>3, <2>4, GotoMoves
<1>3. CASE WriteFile(i) \/ Response(i) \/ Restart(i)
  <2>1. PICK a \in {"ok", "failed", "error"} : Answer(i, a)
    BY <1>3 DEF WriteFile, Response, Restart
  <2>2. ~Over(i) /\ late' = late
    BY <1>3 DEF WriteFile, Response, Restart, At, Over
  <2>3. i \notin late
    BY <2>2 DEF LineInv, LineInvOf
  <2>4. QED
    BY <2>1, <2>2, <2>3, AnswerMoves
<1>4. CASE Act(i)
  <2>1. ~Over(i) /\ line[i].pc # "unused" /\ late' = late /\ Is(i, Actions)
    BY <1>4 DEF Act, At, Over
  <2>2. Goto(i, "sent") \/ Answer(i, "refused")
    BY <1>4 DEF Act
  <2>3. "sent" \in Steps
    BY DEF Steps
  <2>4. QED
    BY <2>1, <2>2, <2>3, GotoMoves, AnswerMoves
<1>5. CASE NoResponse(i)
  <2>1. ~Over(i) /\ line[i].pc = "sent" /\ Answer(i, "error") /\ late' \subseteq late \cup {i}
    BY <1>5 DEF NoResponse, At, Over
  <2>2. Is(i, Actions)
    BY <2>1 DEF LineInv, LineInvOf
  <2>3. QED
    BY <2>1, <2>2, AnswerMoves
<1>6. QED
  BY <1>1, <1>2, <1>3, <1>4, <1>5 DEF Coroutine

(* A served request moves its own line only.                               *)
LEMMA ServeLines ==
  ASSUME TypeOK, LineInv, NEW i \in Lines, Serve(i)
  PROVE  LineInv'
<1>1. CASE i \in late
  <2>1. ~At(i, "sent")
    BY <1>1 DEF LineInv, LineInvOf, Over, At
  <2>2. line' = line /\ late' \subseteq late
    BY <1>1, <2>1 DEF Serve
  <2>3. QED
    BY <2>2 DEF LineInv, LineInvOf, Is, Over
<1>2. CASE i \notin late
  <2>1. line[i].pc = "sent" /\ late' = late
    BY <1>2 DEF Serve, At
  <2>2. Goto(i, "accepted") \/ Goto(i, "denied")
    BY <1>2 DEF Serve
  <2>3. Is(i, Actions) /\ ~Over(i)
    BY <2>1 DEF LineInv, LineInvOf, Over
  <2>4. "accepted" \in Steps /\ "denied" \in Steps
    BY DEF Steps
  <2>5. QED
    BY <2>1, <2>2, <2>3, <2>4, GotoMoves
<1>3. QED
  BY <1>1, <1>2

(* The new line is alone only if every older one is over.                  *)
LEMMA EnterLines ==
  ASSUME TypeOK, LineInv, NEW i \in Lines, NEW c \in AllCommands,
         NEW step \in {"scheduled", "message"}, Enter(i, c, step)
  PROVE  /\ LineInv'
         /\ line'[i].cmd = c /\ line'[i].pc = step /\ line'[i].answer = "none"
         /\ \A j \in Lines : j # i => line'[j] = line[j]
         /\ line[i].pc = "unused" /\ line[i].cmd = "none"
<1>1. /\ line[i] \in LineType
      /\ line' = [line EXCEPT ![i] = [line[i] EXCEPT !.cmd = c, !.pc = step, !.alone = (Busy = {})]]
      /\ late' = late
      /\ line[i].pc = "unused" /\ \A j \in Lines : j < i => line[j].pc # "unused"
  BY LineIsFunction DEF Enter
<1>2. line[i].cmd = "none" /\ line[i].answer = "none" /\ i \notin late
  BY <1>1 DEF LineInv, LineInvOf, Over
<1>3. /\ line'[i].cmd = c /\ line'[i].pc = step /\ line'[i].alone = (Busy = {})
      /\ line'[i].answer = "none"
      /\ \A j \in Lines : j # i => line'[j] = line[j]
  BY <1>1, <1>2, LineIsFunction DEF LineType
<1>4. ASSUME NEW k \in Lines PROVE LineInvOf(k)'
  <2>1. CASE k = i
    <3>1. line'[i].alone => \A j \in Lines : j < i => Over(j)' /\ j \notin late'
      <4> SUFFICES ASSUME Busy = {}, NEW j \in Lines, j < i
                   PROVE  line'[j].pc \in {"done", "lost", "cut"} /\ j \notin late'
        BY <1>3 DEF Over
      <4>1. j # i /\ i \in Nat /\ j \in Nat
        BY CliAssumption DEF Lines
      <4>2. line[j].pc \in {"unused", "done", "lost", "cut"} /\ j \notin late
        BY DEF Busy
      <4>3. QED
        BY <1>1, <1>3, <4>1, <4>2
    <3>2. QED
      BY <1>1, <1>2, <1>3, <2>1, <3>1 DEF LineInvOf, Is
  <2>2. CASE k # i
    <3>1. line'[k] = line[k] /\ LineInvOf(k)
      BY <1>3, <2>2 DEF LineInv
    <3>2. line[k].alone => \A j \in Lines : j < k => Over(j)' /\ j \notin late'
      <4> SUFFICES ASSUME line[k].alone, NEW j \in Lines, j < k
                   PROVE  line'[j].pc \in {"done", "lost", "cut"} /\ j \notin late'
        BY DEF Over
      <4>1. Over(j) /\ j \notin late
        BY <3>1 DEF LineInvOf
      <4>2. j # i
        BY <1>1, <4>1 DEF Over
      <4>3. QED
        BY <1>1, <1>3, <4>1, <4>2 DEF Over
    <3>3. QED
      BY <1>1, <3>1, <3>2 DEF LineInvOf, Is, Over
  <2>3. QED
    BY <2>1, <2>2
<1>5. QED
  BY <1>1, <1>2, <1>3, <1>4 DEF LineInv

(* Exit ends every line and keeps LineInv.                                 *)
LEMMA ExitLines ==
  ASSUME TypeOK, LineInv, Exit
  PROVE  /\ LineInv'
         /\ \A i \in Lines : /\ line'[i].cmd = line[i].cmd /\ line'[i].alone = line[i].alone
                             /\ line'[i].answer = line[i].answer
                             /\ line[i].pc = "write" => line'[i].pc = "cut"
                             /\ line'[i].pc \in {"unused", "done", "lost", "cut"}
                             /\ Over(i) => Over(i)'
<1>1. /\ line' = [i \in Lines |-> IF line[i].pc \in {"unused", "done"} THEN line[i]
                                  ELSE [line[i] EXCEPT !.pc = IF line[i].pc = "write" THEN "cut" ELSE "lost"]]
      /\ late' = late \cup {i \in Lines : line[i].pc = "sent"}
  BY DEF Exit
<1>2. ASSUME NEW i \in Lines
      PROVE  /\ line'[i].cmd = line[i].cmd /\ line'[i].alone = line[i].alone
             /\ line'[i].answer = line[i].answer
             /\ line'[i].pc = CASE line[i].pc \in {"unused", "done"} -> line[i].pc
                                [] line[i].pc = "write" -> "cut"
                                [] OTHER -> "lost"
  BY <1>1, LineIsFunction DEF LineType
<1>3. ASSUME NEW k \in Lines PROVE LineInvOf(k)'
  <2>1. LineInvOf(k)
    BY DEF LineInv
  <2>2. line[k].alone => \A j \in Lines : j < k => Over(j)' /\ j \notin late'
    <3> SUFFICES ASSUME line[k].alone, NEW j \in Lines, j < k
                 PROVE  line'[j].pc \in {"done", "lost", "cut"} /\ j \notin late'
      BY DEF Over
    <3>1. Over(j) /\ j \notin late
      BY <2>1 DEF LineInvOf
    <3>2. QED
      BY <1>1, <1>2, <3>1 DEF Over
  <2>3. k \in late' => line'[k].cmd \in Actions /\ line'[k].pc \in {"done", "lost", "cut"}
    BY <1>1, <1>2, <2>1 DEF LineInvOf, Over, Is
  <2>4. QED
    BY <1>2, <2>1, <2>2, <2>3 DEF LineInvOf, Is, Over
<1>4. QED
  BY <1>2, <1>3 DEF LineInv, Over

(* A move of the node leaves LineInv.                                      *)
LEMMA NodeMovesLines ==
  ASSUME TypeOK, LineInv, NodeMoves
  PROVE  /\ LineInv'
         /\ \A i \in Lines : /\ line'[i].cmd = line[i].cmd /\ line'[i].pc = line[i].pc
                             /\ line'[i].answer = line[i].answer
                             /\ line'[i].alone => line[i].alone /\ ~Is(i, Actions)
<1>1. /\ line' = [i \in Lines |-> IF Is(i, Actions) THEN [line[i] EXCEPT !.alone = FALSE]
                                  ELSE line[i]]
      /\ late' = late
  BY DEF NodeMoves
<1>2. ASSUME NEW i \in Lines
      PROVE  /\ line'[i].cmd = line[i].cmd /\ line'[i].pc = line[i].pc
             /\ line'[i].answer = line[i].answer
             /\ line'[i].alone => line[i].alone /\ ~Is(i, Actions)
  <2>1. line[i] \in LineType /\ line'[i] = IF Is(i, Actions) THEN [line[i] EXCEPT !.alone = FALSE]
                                           ELSE line[i]
    BY <1>1, LineIsFunction
  <2>2. CASE Is(i, Actions)
    BY <2>1, <2>2 DEF LineType
  <2>3. CASE ~Is(i, Actions)
    BY <2>1, <2>3
  <2>4. QED
    BY <2>2, <2>3
<1>3. ASSUME NEW k \in Lines PROVE LineInvOf(k)'
  <2>1. LineInvOf(k)
    BY DEF LineInv
  <2>2. QED
    BY <1>1, <1>2, <2>1 DEF LineInvOf, Is, Over
<1>4. QED
  BY <1>2, <1>3 DEF LineInv

(* Steps that have nothing to do with lines, node or staking file.         *)
Aside == \/ \E i \in Lines : PressButton(i)
         \/ PressEscape \/ PollAddress \/ CheckAddress \/ AskBalance \/ CreateKey \/ Fund
         \/ UNCHANGED vars

(* What steps aside of the lines leave alone.                              *)
LEMMA AsideFacts ==
  ASSUME Aside
  PROVE  UNCHANGED <<line, late, node, believed, file>>
BY DEF Aside, PressButton, PressEscape, PollAddress, CheckAddress, AskBalance, CreateKey, Fund, vars

(* What a step of the system is.                                           *)
LEMMA StepCases ==
  ASSUME [Next]_vars
  PROVE  \/ \E i \in Lines, c \in AllCommands, step \in {"scheduled", "message"} : Enter(i, c, step)
         \/ \E i \in Lines : Coroutine(i)
         \/ \E i \in Lines : Serve(i)
         \/ Exit
         \/ NodeMoves
         \/ Aside
<1>1. ASSUME NEW i \in Lines, Type(i) \/ PressF1(i)
      PROVE  \E c \in AllCommands, step \in {"scheduled", "message"} : Enter(i, c, step)
  BY <1>1, CliAssumption DEF Type, PressF1
<1>2. CASE UNCHANGED vars
  BY <1>2 DEF Aside
<1>3. CASE Next
  BY <1>1, <1>3 DEF Next, Aside
<1>4. QED
  BY <1>2, <1>3

(* Every step keeps LineInv.                                               *)
LEMMA LineStep ==
  ASSUME TypeOK, LineInv, [Next]_vars
  PROVE  LineInv'
<1>1. CASE Aside
  <2>1. line' = line /\ late' = late
    BY <1>1, AsideFacts
  <2>2. QED
    BY <2>1 DEF LineInv, LineInvOf, Is, Over
<1>2. QED
  BY <1>1, StepCases, EnterLines, CoroutineLines, ServeLines, ExitLines, NodeMovesLines

(* LineInv always holds.                                                   *)
LEMMA LineInvariant == Spec => []LineInv
<1>1. Init => LineInv
  BY DEF Init, LineInv, LineInvOf, Is, Over
<1>2. TypeOK /\ LineInv /\ [Next]_vars => LineInv'
  BY LineStep
<1>3. QED
  BY <1>1, <1>2, TypeCorrect, PTL DEF Spec

(* A coroutine moves its own line, which is not over, and leaves what was  *)
(* typed as it is; only OpenFile and WriteFile touch the staking file, and *)
(* only Response says something of the node.                               *)
LEMMA CoroutineFacts ==
  ASSUME TypeOK, LineInv, NEW i \in Lines, Coroutine(i)
  PROVE  /\ ~Over(i) /\ line[i].pc # "unused"
         /\ line'[i].cmd = line[i].cmd /\ line'[i].alone = line[i].alone
         /\ line'[i].pc \notin {"unused", "accepted", "denied", "cut"}
         /\ \A j \in Lines : j # i => line'[j] = line[j]
         /\ late' \subseteq late \cup {i} /\ (i \in late' => Is(i, Actions))
         /\ node' = node
         /\ ~Response(i) => believed' = believed
         /\ file' # file => Is(i, {"setup"})
<1>1. ~Over(i) /\ line[i].pc # "unused"
  BY DEF Coroutine, Help, Message, Setup, Close, OpenFile, WriteFile, Act, Response, NoResponse,
         Restart, At, Over
<1>2. i \notin late
  BY <1>1 DEF LineInv, LineInvOf
<1>3. ASSUME NEW step \in {"message", "dialog", "open", "write", "sent", "done"}, Goto(i, step)
      PROVE  /\ line'[i].cmd = line[i].cmd /\ line'[i].alone = line[i].alone
             /\ line'[i].pc = step
             /\ \A j \in Lines : j # i => line'[j] = line[j]
  BY <1>3, LineIsFunction DEF Goto, LineType
<1>4. ASSUME NEW a \in {"ok", "failed", "refused", "error"}, Answer(i, a)
      PROVE  /\ line'[i].cmd = line[i].cmd /\ line'[i].alone = line[i].alone
             /\ line'[i].pc = "done"
             /\ \A j \in Lines : j # i => line'[j] = line[j]
  BY <1>4, LineIsFunction DEF Answer, LineType
<1>5. /\ line'[i].cmd = line[i].cmd /\ line'[i].alone = line[i].alone
      /\ line'[i].pc \notin {"unused", "accepted", "denied", "cut"}
      /\ \A j \in Lines : j # i => line'[j] = line[j]
  <2>1. CASE Help(i)
    BY <2>1, LineIsFunction DEF Help, LineType
  <2>2. CASE ~Help(i)
    <3>1. \/ \E step \in {"message", "dialog", "open", "write", "sent", "done"} : Goto(i, step)
          \/ \E a \in {"ok", "failed", "refused", "error"} : Answer(i, a)
      BY <2>2 DEF Coroutine, Message, Setup, Close, OpenFile, WriteFile, Act, Response,
                  NoResponse, Restart
    <3>2. QED
      BY <3>1, <1>3, <1>4
  <2>3. QED
    BY <2>1, <2>2
<1>6. late' \subseteq late \cup {i} /\ (i \in late' => Is(i, Actions))
  <2>1. CASE NoResponse(i)
    <3>1. line[i].pc = "sent"
      BY <2>1 DEF NoResponse, At
    <3>2. Is(i, Actions)
      BY <3>1 DEF LineInv, LineInvOf
    <3>3. QED
      BY <2>1, <3>2 DEF NoResponse
  <2>2. CASE ~NoResponse(i)
    <3>1. late' = late
      BY <2>2 DEF Coroutine, Help, Message, Setup, Close, OpenFile, WriteFile, Act, Response, Restart
    <3>2. QED
      BY <1>2, <3>1
  <2>3. QED
    BY <2>1, <2>2
<1>7. node' = node
  BY DEF Coroutine, Help, Message, Setup, Close, OpenFile, WriteFile, Act, Response, NoResponse,
         Restart
<1>8. ~Response(i) => believed' = believed
  BY DEF Coroutine, Help, Message, Setup, Close, OpenFile, WriteFile, Act, NoResponse, Restart
<1>9. file' # file => Is(i, {"setup"})
  <2>1. CASE OpenFile(i) \/ WriteFile(i)
    <3>1. line[i].pc \in {"open", "write"}
      BY <2>1 DEF OpenFile, WriteFile, At
    <3>2. QED
      BY <3>1 DEF LineInv, LineInvOf
  <2>2. CASE ~OpenFile(i) /\ ~WriteFile(i)
    BY <2>2 DEF Coroutine, Help, Message, Setup, Close, Act, Response, NoResponse, Restart
  <2>3. QED
    BY <2>1, <2>2
<1>10. QED
  BY <1>1, <1>5, <1>6, <1>7, <1>8, <1>9

(* Serve moves its own line from sent, or takes it from late.              *)
LEMMA ServeFacts ==
  ASSUME TypeOK, LineInv, NEW i \in Lines, Serve(i)
  PROVE  /\ Is(i, Actions) /\ (i \in late \/ line[i].pc = "sent")
         /\ i \in late => line' = line
         /\ i \notin late => /\ line[i].pc = "sent"
                             /\ line'[i].pc \in {"accepted", "denied"}
                             /\ line'[i].pc = "accepted" => node' = After(i)
                             /\ line'[i].answer = line[i].answer
         /\ line'[i].cmd = line[i].cmd /\ line'[i].alone = line[i].alone
         /\ \A j \in Lines : j # i => line'[j] = line[j]
         /\ late' \subseteq late
         /\ believed' = believed /\ file' = file
<1>1. i \in late \/ line[i].pc = "sent"
  BY DEF Serve, At
<1>2. Is(i, Actions)
  BY <1>1 DEF LineInv, LineInvOf
<1>3. CASE i \in late
  <2>1. line' = line /\ late' \subseteq late
    BY <1>3 DEF LineInv, LineInvOf, Over, Serve, At
  <2>2. QED
    BY <1>1, <1>2, <1>3, <2>1 DEF Serve
<1>4. CASE i \notin late
  <2>1. \/ Goto(i, "accepted") /\ node' = After(i)
        \/ Goto(i, "denied")
    BY <1>4 DEF Serve
  <2>2. /\ line'[i].pc \in {"accepted", "denied"}
        /\ line'[i].pc = "accepted" => node' = After(i)
        /\ line'[i].answer = line[i].answer
        /\ line'[i].cmd = line[i].cmd /\ line'[i].alone = line[i].alone
        /\ \A j \in Lines : j # i => line'[j] = line[j]
    BY <2>1, LineIsFunction DEF Goto, LineType
  <2>3. QED
    BY <1>1, <1>2, <1>4, <2>2 DEF Serve
<1>5. QED
  BY <1>3, <1>4

-----------------------------------------------------------------------------
(* AnswerTrue.  A request that was served while nothing else was under way *)
(* has left the node where its answer says it is ...                       *)
AcceptedInv ==
  \A i \in Lines : line[i].pc = "accepted" /\ Undisturbed(i) => Said(i) \in {"none", node}

(* ... and when the answer is there, nothing is under way that could move  *)
(* the node unheard.                                                       *)
KnownInv ==
  believed # "none" =>
    /\ node = believed
    /\ \A j \in Lines : j \notin late /\ (Is(j, Actions) => Over(j))

(* What was undisturbed after a step was so before it.                     *)
LEMMA UndisturbedBefore ==
  ASSUME NEW i \in Lines, line'[i].alone => line[i].alone,
         \A j \in Lines : line'[j].cmd = line[j].cmd \/ line[j].cmd = "none",
         Undisturbed(i)'
  PROVE  Undisturbed(i)
<1>1. "none" \notin Actions \cup {"restart"}
  BY DEF Actions
<1>2. QED
  BY <1>1 DEF Undisturbed, Is

(* Every step keeps AcceptedInv.                                           *)
LEMMA AcceptedStep ==
  ASSUME TypeOK, LineInv, AcceptedInv, [Next]_vars
  PROVE  AcceptedInv'
<1> SUFFICES ASSUME NEW k \in Lines, line'[k].pc = "accepted", Undisturbed(k)'
             PROVE  Said(k)' \in {"none", node'}
  BY DEF AcceptedInv
<1>1. ASSUME line'[k] = line[k], node' = node,
             \A j \in Lines : line'[j].cmd = line[j].cmd \/ line[j].cmd = "none"
      PROVE  Said(k)' \in {"none", node'}
  <2>1. Undisturbed(k)
    BY <1>1, UndisturbedBefore
  <2>2. Said(k) \in {"none", node}
    BY <1>1, <2>1 DEF AcceptedInv
  <2>3. Said(k)' = Said(k)
    BY <1>1 DEF Said, Is
  <2>4. QED
    BY <1>1, <2>2, <2>3
<1>2. ASSUME NEW i \in Lines, NEW c \in AllCommands, NEW step \in {"scheduled", "message"},
             Enter(i, c, step)
      PROVE  Said(k)' \in {"none", node'}
  <2>1. /\ line'[i].pc = step /\ line[i].cmd = "none" /\ node' = node
        /\ \A j \in Lines : j # i => line'[j] = line[j]
    BY <1>2, EnterLines DEF Enter
  <2>2. k # i
    BY <2>1
  <2>3. line'[k] = line[k]
    BY <2>1, <2>2
  <2>4. QED
    BY <1>1, <2>1, <2>3
<1>3. ASSUME NEW i \in Lines, Coroutine(i) PROVE Said(k)' \in {"none", node'}
  <2>1. /\ line'[i].pc # "accepted" /\ line'[i].cmd = line[i].cmd /\ node' = node
        /\ \A j \in Lines : j # i => line'[j] = line[j]
    BY <1>3, CoroutineFacts
  <2>2. line'[k] = line[k]
    BY <2>1
  <2>3. \A j \in Lines : line'[j].cmd = line[j].cmd
    BY <2>1
  <2>4. QED
    BY <1>1, <2>1, <2>2, <2>3
<1>4. ASSUME NEW i \in Lines, Serve(i) PROVE Said(k)' \in {"none", node'}
  <2>1. /\ Is(i, Actions) /\ (i \in late \/ line[i].pc = "sent")
        /\ i \in late => line' = line
        /\ i \notin late /\ line'[i].pc = "accepted" => node' = After(i)
        /\ line'[i].cmd = line[i].cmd /\ line'[i].alone = line[i].alone
        /\ \A j \in Lines : j # i => line'[j] = line[j]
    BY <1>4, ServeFacts
  <2>2. i \in late => Over(i)
    BY DEF LineInv, LineInvOf
  <2>3. CASE k = i
    <3>1. i \notin late
      BY <2>1, <2>2, <2>3 DEF Over
    <3>2. node' = After(i)
      BY <2>1, <2>3, <3>1
    <3>3. Said(k)' = Said(i)
      BY <2>1, <2>3 DEF Said, Is
    <3>4. Said(i) \in {"none", After(i)}
      BY <2>1 DEF Said, After, Is, Actions
    <3>5. QED
      BY <3>2, <3>3, <3>4
  <2>4. CASE k # i
    <3>1. \A j \in Lines : line'[j].cmd = line[j].cmd
      BY <2>1
    <3>2. line'[k] = line[k]
      BY <2>1, <2>4
    <3>3. Undisturbed(k)
      BY <3>1, <3>2, UndisturbedBefore
    <3>4. ~(i < k)
      <4>1. ASSUME i < k PROVE Over(i) /\ i \notin late
        BY <3>3, <4>1 DEF Undisturbed, LineInv, LineInvOf
      <4>2. QED
        BY <2>1, <4>1 DEF Over
    <3>5. ~(i > k)
      BY <2>1, <3>3 DEF Undisturbed, Is
    <3>6. i \in Nat /\ k \in Nat
      BY CliAssumption DEF Lines
    <3>7. QED
      BY <2>4, <3>4, <3>5, <3>6
  <2>5. QED
    BY <2>3, <2>4
<1>5. ~Exit
  BY ExitLines
<1>6. CASE NodeMoves
  <2>1. /\ line'[k].cmd = line[k].cmd /\ line'[k].pc = line[k].pc
        /\ line'[k].alone => ~Is(k, Actions)
    BY <1>6, NodeMovesLines
  <2>2. Is(k, Actions)
    BY <2>1 DEF LineInv, LineInvOf
  <2>3. QED
    BY <2>1, <2>2 DEF Undisturbed
<1>7. CASE Aside
  BY <1>1, <1>7, AsideFacts
<1>8. QED
  BY <1>2, <1>3, <1>4, <1>5, <1>6, <1>7, StepCases

(* Every step keeps KnownInv.                                              *)
LEMMA KnownStep ==
  ASSUME TypeOK, LineInv, AcceptedInv, KnownInv, [Next]_vars
  PROVE  KnownInv'
<1> SUFFICES ASSUME believed' # "none"
             PROVE  /\ node' = believed'
                    /\ \A j \in Lines : j \notin late' /\ (Is(j, Actions)' => Over(j)')
  BY DEF KnownInv
<1>1. ASSUME NEW i \in Lines, NEW c \in AllCommands, NEW step \in {"scheduled", "message"},
             Enter(i, c, step)
      PROVE  /\ node' = believed'
             /\ \A j \in Lines : j \notin late' /\ (Is(j, Actions)' => Over(j)')
  <2>1. /\ line'[i].cmd = c
        /\ \A j \in Lines : j # i => line'[j] = line[j]
    BY <1>1, EnterLines
  <2>2. c \notin Actions /\ believed' = believed /\ node' = node /\ late' = late
    BY <1>1 DEF Enter
  <2>3. QED
    BY <2>1, <2>2 DEF KnownInv, Is, Over
<1>2. ASSUME NEW i \in Lines, Coroutine(i), ~Response(i)
      PROVE  /\ node' = believed'
             /\ \A j \in Lines : j \notin late' /\ (Is(j, Actions)' => Over(j)')
  <2>1. /\ ~Over(i) /\ line'[i].cmd = line[i].cmd
        /\ \A j \in Lines : j # i => line'[j] = line[j]
        /\ late' \subseteq late \cup {i} /\ (i \in late' => Is(i, Actions))
        /\ node' = node /\ believed' = believed
    BY <1>2, CoroutineFacts
  <2>2. ~Is(i, Actions)
    BY <2>1 DEF KnownInv
  <2>3. QED
    BY <2>1, <2>2 DEF KnownInv, Is, Over
<1>3. ASSUME NEW i \in Lines, Response(i)
      PROVE  /\ node' = believed'
             /\ \A j \in Lines : j \notin late' /\ (Is(j, Actions)' => Over(j)')
  <2>1. /\ ~Over(i) /\ line'[i].cmd = line[i].cmd
        /\ \A j \in Lines : j # i => line'[j] = line[j]
        /\ node' = node
    BY <1>3, CoroutineFacts DEF Coroutine
  <2>2. late' = late /\ line[i].pc \in {"accepted", "denied"}
    BY <1>3 DEF Response
  <2>3. Is(i, Actions)
    BY <2>2 DEF LineInv, LineInvOf
  <2>4. believed = "none"
    BY <2>1, <2>3 DEF KnownInv, TypeOK
  <2>5. line[i].pc = "accepted" /\ Undisturbed(i) /\ believed' = Said(i)
    BY <1>3, <2>4 DEF Response
  <2>6. node' = believed'
    BY <2>1, <2>5 DEF AcceptedInv
  <2>7. line'[i].pc = "done"
    BY <1>3, LineIsFunction DEF Response, Answer, LineType
  <2>8. ASSUME NEW j \in Lines
        PROVE  j \notin late' /\ (Is(j, Actions)' => Over(j)')
    <3>1. i \in Nat /\ j \in Nat
      BY CliAssumption DEF Lines
    <3>2. CASE j < i
      <4>1. Over(j) /\ j \notin late
        BY <2>5, <3>2 DEF Undisturbed, LineInv, LineInvOf
      <4>2. line'[j] = line[j]
        BY <2>1, <3>1, <3>2
      <4>3. QED
        BY <2>2, <4>1, <4>2 DEF Over
    <3>3. CASE j = i
      <4>1. i \notin late
        BY <2>1 DEF LineInv, LineInvOf
      <4>2. QED
        BY <2>2, <2>7, <3>3, <4>1 DEF Over
    <3>4. CASE j > i
      <4>1. ~Is(j, Actions)
        BY <2>5, <3>4 DEF Undisturbed, Is
      <4>2. line'[j] = line[j]
        BY <2>1, <3>1, <3>4
      <4>3. j \notin late
        BY <4>1 DEF LineInv, LineInvOf
      <4>4. QED
        BY <2>2, <4>1, <4>2, <4>3 DEF Is
    <3>5. QED
      BY <3>1, <3>2, <3>3, <3>4
  <2>9. QED
    BY <2>6, <2>8
<1>4. ASSUME NEW i \in Lines, Serve(i) PROVE FALSE
  <2>1. /\ Is(i, Actions) /\ (i \in late \/ line[i].pc = "sent")
        /\ believed' = believed
    BY <1>4, ServeFacts
  <2>2. QED
    BY <2>1 DEF KnownInv, Over
<1>5. CASE Exit
  <2>1. ASSUME NEW j \in Lines
        PROVE  line'[j].cmd = line[j].cmd /\ (Over(j) => Over(j)')
    BY <1>5, ExitLines
  <2>2. /\ believed' = believed /\ node' = node
        /\ late' = late \cup {i \in Lines : line[i].pc = "sent"}
    BY <1>5 DEF Exit
  <2>3. ASSUME NEW i \in Lines, line[i].pc = "sent" PROVE FALSE
    <3>1. Is(i, Actions)
      BY <2>3 DEF LineInv, LineInvOf
    <3>2. QED
      BY <2>2, <2>3, <3>1 DEF KnownInv, Over
  <2>4. QED
    BY <2>1, <2>2, <2>3 DEF KnownInv, Is
<1>6. ~NodeMoves
  BY DEF NodeMoves
<1>7. CASE Aside
  BY <1>7, AsideFacts DEF KnownInv, Is, Over
<1>8. QED
  BY <1>1, <1>2, <1>3, <1>4, <1>5, <1>6, <1>7, StepCases

(* What the user is told of a login or a logout typed when nothing else was *)
(* on its way, requests that were given up included, is true of the node   *)
(* until something else happens to it.                                     *)
THEOREM AnswersAreTrue == Spec => []AnswerTrue
<1>1. Init => AcceptedInv /\ KnownInv
  BY DEF Init, AcceptedInv, KnownInv
<1>2. TypeOK /\ LineInv /\ AcceptedInv /\ KnownInv /\ [Next]_vars => AcceptedInv' /\ KnownInv'
  BY AcceptedStep, KnownStep
<1>3. KnownInv => AnswerTrue
  BY DEF KnownInv, AnswerTrue
<1>4. QED
  BY <1>1, <1>2, <1>3, TypeCorrect, LineInvariant, PTL DEF Spec

-----------------------------------------------------------------------------
(* SetupKept.  Lines are cut off by the exit only, so that no setup on its *)
(* way while the CLI runs can take back what it did to the file.           *)
NoneCut == running => \A i \in Lines : line[i].pc # "cut"

(* A line that goes on keeps what was typed and answered.                  *)
LEMMA GotoFacts ==
  ASSUME TypeOK, NEW i \in Lines, NEW step \in Steps, Goto(i, step)
  PROVE  /\ line'[i].cmd = line[i].cmd /\ line'[i].alone = line[i].alone
         /\ line'[i].pc = step /\ line'[i].answer = line[i].answer
         /\ \A j \in Lines : j # i => line'[j] = line[j]
BY LineIsFunction DEF Goto, LineType

(* A line that is answered keeps what was typed.                           *)
LEMMA AnswerFacts ==
  ASSUME TypeOK, NEW i \in Lines, NEW a \in {"ok", "failed", "refused", "error"}, Answer(i, a)
  PROVE  /\ line'[i].cmd = line[i].cmd /\ line'[i].alone = line[i].alone
         /\ line'[i].pc = "done" /\ line'[i].answer = a
         /\ \A j \in Lines : j # i => line'[j] = line[j]
BY LineIsFunction DEF Answer, LineType

(* A step that leaves the file, and every setup where it was, keeps what   *)
(* is said of the file.                                                    *)
LEMMA KeptStill ==
  ASSUME SetupKept, file' = file,
         \A j \in Setups : /\ j \in Setups'
                           /\ line'[j].alone = line[j].alone /\ line'[j].answer = line[j].answer
                           /\ line[j].pc = "write" => line'[j].pc \in {"write", "cut"}
                           /\ line[j].pc = "cut" => line'[j].pc = "cut",
         \A j \in Setups' : line'[j].answer = "ok" => j \in Setups
  PROVE  SetupKept'
<1>1. ASSUME NEW i \in Setups', line'[i].answer = "ok"
      PROVE  file' = i \/ \E j \in Setups' : Overtook(j, i)'
  <2>1. i \in Setups /\ line[i].answer = "ok" /\ line'[i].alone = line[i].alone
    BY <1>1
  <2>2. CASE file = i
    BY <2>2
  <2>3. ASSUME NEW j \in Setups, Overtook(j, i) PROVE Overtook(j, i)' /\ j \in Setups'
    BY <2>1, <2>3 DEF Overtook, Opened
  <2>4. QED
    BY <2>1, <2>2, <2>3 DEF SetupKept
<1>2. file' = Empty => \E j \in Setups' : line'[j].pc \in {"write", "cut"} \/ line'[j].answer = "error"
  BY DEF SetupKept
<1>3. file' \in Lines => file' \in Setups' /\ (line'[file'].answer = "ok" \/ line'[file'].pc = "cut")
  BY DEF SetupKept
<1>4. QED
  BY <1>1, <1>2, <1>3 DEF SetupKept

(* A setup on its way is none that was confirmed, nor older than one that  *)
(* began alone.                                                            *)
LEMMA OnItsWay ==
  ASSUME LineInv, NEW k \in Lines, ~Over(k), NEW i \in Setups, line[i].answer = "ok"
  PROVE  k # i /\ (line[i].alone => k > i)
<1>1. i \in Lines /\ Over(i)
  BY DEF Setups, LineInv, LineInvOf, Over
<1>2. line[i].alone /\ k < i => Over(k)
  BY <1>1 DEF LineInv, LineInvOf
<1>3. i \in Nat /\ k \in Nat
  BY <1>1, CliAssumption DEF Lines
<1>4. QED
  BY <1>1, <1>2, <1>3

(* A setup that opens the file, or finds out that it has nothing to write, *)
(* or writes, accounts for what the file holds then.                       *)
LEMMA KeptByWriter ==
  ASSUME TypeOK, LineInv, SetupKept, NEW k \in Lines, OpenFile(k) \/ WriteFile(k)
  PROVE  SetupKept'
<1>1. k \in Setups /\ ~Over(k) /\ line[k].pc \in {"open", "write"}
  BY DEF OpenFile, WriteFile, At, LineInv, LineInvOf, Setups, Over
<1>2. Empty \notin Lines /\ k # Empty
  BY CliAssumption DEF Lines
<1>3. /\ line'[k].cmd = line[k].cmd /\ line'[k].alone = line[k].alone
      /\ \A j \in Lines : j # k => line'[j] = line[j]
      /\ Opened(k)'
      /\ line'[k].answer = "ok" => file' = k
      /\ file' # k => line'[k].pc = "write" \/ line'[k].answer = "error"
      /\ file' \in {file, Empty, k} /\ (file' = Empty \/ file' = file \/ line'[k].answer = "ok")
  <2>1. CASE OpenFile(k)
    <3>1. Goto(k, "write") /\ file' = Empty /\ "write" \in Steps
      BY <2>1 DEF OpenFile, Steps
    <3>2. /\ line'[k].cmd = line[k].cmd /\ line'[k].alone = line[k].alone
          /\ line'[k].pc = "write" /\ line'[k].answer = line[k].answer
          /\ \A j \in Lines : j # k => line'[j] = line[j]
      BY <3>1, GotoFacts
    <3>3. line[k].answer # "ok"
      BY <1>1 DEF LineInv, LineInvOf, Over, Setups
    <3>4. QED
      BY <3>1, <3>2, <3>3 DEF Opened
  <2>2. CASE WriteFile(k)
    <3>1. PICK a \in {"ok", "error"} :
            /\ Answer(k, a)
            /\ IF a = "ok" THEN file' = k ELSE file' = file
      BY <2>2 DEF WriteFile
    <3>2. /\ line'[k].cmd = line[k].cmd /\ line'[k].alone = line[k].alone
          /\ line'[k].pc = "done" /\ line'[k].answer = a
          /\ \A j \in Lines : j # k => line'[j] = line[j]
      BY <3>1, AnswerFacts
    <3>3. QED
      BY <3>1, <3>2 DEF Opened
  <2>3. QED
    BY <2>1, <2>2
<1>4. Setups' = Setups
  BY <1>3 DEF Setups, Is
<1>5. ASSUME NEW i \in Setups, line'[i].answer = "ok"
      PROVE  file' = i \/ \E j \in Setups : Overtook(j, i)'
  <2>1. CASE i = k
    BY <1>3, <1>5, <2>1
  <2>2. CASE i # k
    <3>1. line'[i] = line[i]
      BY <1>3, <2>2 DEF Setups
    <3>2. line[i].alone => k > i
      BY <1>1, <1>5, <3>1, OnItsWay
    <3>3. Overtook(k, i)'
      BY <1>3, <2>2, <3>1, <3>2 DEF Overtook
    <3>4. QED
      BY <1>1, <3>3
  <2>3. QED
    BY <2>1, <2>2
<1>6. file' = Empty => \E j \in Setups : line'[j].pc \in {"write", "cut"} \/ line'[j].answer = "error"
  BY <1>1, <1>2, <1>3
<1>7. file' \in Lines => file' \in Setups /\ (line'[file'].answer = "ok" \/ line'[file'].pc = "cut")
  <2>1. CASE file' = k /\ line'[k].answer = "ok"
    BY <1>1, <2>1
  <2>2. CASE file' = file
    <3>1. file \in Lines => file \in Setups /\ (line[file].answer = "ok" \/ line[file].pc = "cut")
      BY DEF SetupKept
    <3>2. file # k \/ file \notin Lines
      BY <1>1, <3>1 DEF LineInv, LineInvOf, Over, Setups
    <3>3. QED
      BY <1>3, <2>2, <3>1, <3>2
  <2>3. CASE file' = Empty
    BY <1>2, <2>3
  <2>4. QED
    BY <1>3, <2>1, <2>2, <2>3
<1>8. QED
  BY <1>4, <1>5, <1>6, <1>7 DEF SetupKept

(* The exit leaves the file as it is, or with the address of a setup that  *)
(* it cuts off.                                                            *)
LEMMA KeptAtExit ==
  ASSUME TypeOK, LineInv, NoneCut, SetupKept, Exit
  PROVE  SetupKept'
<1>1. \A j \in Lines : /\ line'[j].cmd = line[j].cmd /\ line'[j].alone = line[j].alone
                       /\ line'[j].answer = line[j].answer
                       /\ line[j].pc = "write" => line'[j].pc = "cut"
                       /\ line[j].pc # "cut"
  BY ExitLines DEF NoneCut, Exit
<1>2. Setups' = Setups /\ Setups \subseteq Lines
  BY <1>1 DEF Setups, Is
<1>3. CASE file' = file
  BY <1>1, <1>2, <1>3, KeptStill
<1>4. CASE file' # file
  <2>1. PICK k \in Lines : line[k].pc = "write" /\ file' = k
    BY <1>4 DEF Exit
  <2>2. k \in Setups /\ ~Over(k) /\ line'[k].pc = "cut"
    BY <1>1, <2>1 DEF LineInv, LineInvOf, Setups, Over
  <2>3. k # Empty
    BY CliAssumption DEF Lines
  <2>4. ASSUME NEW i \in Setups, line'[i].answer = "ok" PROVE Overtook(k, i)'
    <3>1. line[i].answer = "ok" /\ line'[i].alone = line[i].alone
      BY <1>1, <1>2, <2>4
    <3>2. k # i /\ (line[i].alone => k > i)
      BY <2>2, <3>1, OnItsWay
    <3>3. QED
      BY <2>2, <3>1, <3>2 DEF Overtook, Opened
  <2>5. QED
    BY <1>2, <2>1, <2>2, <2>3, <2>4 DEF SetupKept
<1>5. QED
  BY <1>3, <1>4

(* A step of a coroutine that leaves the file alone is a step on the way   *)
(* of a setup to the file, or of another line.                             *)
LEMMA KeptByOthers ==
  ASSUME TypeOK, LineInv, SetupKept, NEW k \in Lines, Coroutine(k),
         ~OpenFile(k), ~WriteFile(k)
  PROVE  SetupKept'
<1>1. /\ line'[k].cmd = line[k].cmd /\ line'[k].alone = line[k].alone
      /\ \A j \in Lines : j # k => line'[j] = line[j]
  BY CoroutineFacts
<1>2. Setups' = Setups
  BY <1>1 DEF Setups, Is
<1>3. file' = file
  BY DEF Coroutine, Help, Message, Setup, Close, Act, Response, NoResponse, Restart
<1>4. ASSUME k \in Setups
      PROVE  line'[k].answer = line[k].answer /\ line[k].pc \notin {"write", "cut"}
  <2>1. Is(k, {"setup"}) /\ ~Is(k, Actions) /\ ~Is(k, {"help"}) /\ ~Is(k, {"restart"})
    BY <1>4 DEF Setups, Is, Actions
  <2>2. ~Response(k) /\ ~NoResponse(k)
    BY <2>1 DEF Response, NoResponse, At, LineInv, LineInvOf
  <2>3. Message(k) \/ Setup(k) \/ Close(k)
    BY <2>1, <2>2 DEF Coroutine, Help, Act, Restart
  <2>4. PICK step \in {"dialog", "done", "open"} : Goto(k, step)
    BY <2>3 DEF Message, Setup, Close
  <2>5. line'[k].answer = line[k].answer
    BY <2>4, GotoFacts DEF Steps
  <2>6. QED
    BY <2>3, <2>5 DEF Message, Setup, Close, At
<1>5. \A j \in Setups : /\ line'[j].alone = line[j].alone /\ line'[j].answer = line[j].answer
                        /\ line[j].pc = "write" => line'[j].pc \in {"write", "cut"}
                        /\ line[j].pc = "cut" => line'[j].pc = "cut"
  <2> SUFFICES ASSUME NEW j \in Setups
               PROVE  /\ line'[j].alone = line[j].alone /\ line'[j].answer = line[j].answer
                      /\ line[j].pc = "write" => line'[j].pc \in {"write", "cut"}
                      /\ line[j].pc = "cut" => line'[j].pc = "cut"
    OBVIOUS
  <2>1. j \in Lines
    BY DEF Setups
  <2>2. QED
    BY <1>1, <1>4, <2>1
<1>6. QED
  BY <1>2, <1>3, <1>5, KeptStill

(* Every step keeps SetupKept.                                             *)
LEMMA KeptStep ==
  ASSUME TypeOK, LineInv, NoneCut, SetupKept, [Next]_vars
  PROVE  SetupKept'
<1>1. ASSUME NEW k \in Lines, NEW c \in AllCommands, NEW step \in {"scheduled", "message"},
             Enter(k, c, step)
      PROVE  SetupKept'
  <2>1. /\ line'[k].answer = "none" /\ line[k].cmd = "none"
        /\ \A j \in Lines : j # k => line'[j] = line[j]
    BY <1>1, EnterLines
  <2>2. file' = file
    BY <1>1 DEF Enter
  <2>3. \A j \in Setups : j \in Lines /\ j # k
    BY <2>1 DEF Setups, Is
  <2>4. \A j \in Setups : j \in Setups' /\ line'[j] = line[j]
    BY <2>1, <2>3 DEF Setups, Is
  <2>5. \A j \in Setups' : line'[j].answer = "ok" => j \in Setups
    BY <2>1 DEF Setups, Is
  <2>6. QED
    BY <2>2, <2>4, <2>5, KeptStill
<1>2. ASSUME NEW k \in Lines, Coroutine(k) PROVE SetupKept'
  BY <1>2, KeptByWriter, KeptByOthers
<1>3. ASSUME NEW k \in Lines, Serve(k) PROVE SetupKept'
  <2>1. /\ Is(k, Actions) /\ line'[k].cmd = line[k].cmd /\ file' = file
        /\ \A j \in Lines : j # k => line'[j] = line[j]
    BY <1>3, ServeFacts
  <2>2. Setups' = Setups
    BY <2>1 DEF Setups, Is
  <2>3. \A j \in Setups : line'[j] = line[j]
    BY <2>1 DEF Setups, Is, Actions
  <2>4. QED
    BY <2>1, <2>2, <2>3, KeptStill
<1>4. CASE NodeMoves
  <2>1. /\ line' = [i \in Lines |-> IF Is(i, Actions) THEN [line[i] EXCEPT !.alone = FALSE]
                                    ELSE line[i]]
        /\ file' = file
    BY <1>4 DEF NodeMoves
  <2>2. \A j \in Lines : line'[j].cmd = line[j].cmd
    BY <1>4, NodeMovesLines
  <2>3. Setups' = Setups
    BY <2>2 DEF Setups, Is
  <2>4. \A j \in Setups : line'[j] = line[j]
    BY <2>1 DEF Setups, Is, Actions
  <2>5. QED
    BY <2>1, <2>3, <2>4, KeptStill
<1>5. CASE Aside
  <2>1. line' = line /\ file' = file
    BY <1>5, AsideFacts
  <2>2. QED
    BY <2>1, KeptStill DEF Setups, Is
<1>6. QED
  BY <1>1, <1>2, <1>3, <1>4, <1>5, KeptAtExit, StepCases

(* Only the exit cuts lines off.                                           *)
LEMMA NoneCutStep ==
  ASSUME TypeOK, LineInv, NoneCut, [Next]_vars
  PROVE  NoneCut'
<1>1. ASSUME running' = running, NEW k \in Lines, line'[k].pc # "cut",
             \A j \in Lines : j # k => line'[j] = line[j]
      PROVE  NoneCut'
  BY <1>1 DEF NoneCut
<1>2. ASSUME NEW k \in Lines, NEW c \in AllCommands, NEW step \in {"scheduled", "message"},
             Enter(k, c, step)
      PROVE  NoneCut'
  <2>1. line'[k].pc = step /\ \A j \in Lines : j # k => line'[j] = line[j]
    BY <1>2, EnterLines
  <2>2. QED
    BY <1>1, <1>2, <2>1 DEF Enter
<1>3. ASSUME NEW k \in Lines, Coroutine(k) PROVE NoneCut'
  <2>1. line'[k].pc # "cut" /\ \A j \in Lines : j # k => line'[j] = line[j]
    BY <1>3, CoroutineFacts
  <2>2. running' = running
    BY <1>3 DEF Coroutine, Help, Message, Setup, Close, OpenFile, WriteFile, Act, Response,
                NoResponse, Restart
  <2>3. QED
    BY <1>1, <2>1, <2>2
<1>4. ASSUME NEW k \in Lines, Serve(k) PROVE NoneCut'
  <2>1. /\ line' = line \/ line'[k].pc \in {"accepted", "denied"}
        /\ \A j \in Lines : j # k => line'[j] = line[j]
    BY <1>4, ServeFacts
  <2>2. running' = running
    BY <1>4 DEF Serve
  <2>3. QED
    BY <2>1, <2>2 DEF NoneCut
<1>5. CASE Exit
  BY <1>5 DEF Exit, NoneCut
<1>6. CASE NodeMoves
  <2>1. running' = running /\ \A j \in Lines : line'[j].pc = line[j].pc
    BY <1>6, NodeMovesLines DEF NodeMoves
  <2>2. QED
    BY <2>1 DEF NoneCut
<1>7. CASE Aside
  <2>1. running' = running /\ line' = line
    BY <1>7 DEF Aside, PressButton, PressEscape, PollAddress, CheckAddress, AskBalance,
                CreateKey, Fund, vars
  <2>2. QED
    BY <2>1 DEF NoneCut
<1>8. QED
  BY <1>2, <1>3, <1>4, <1>5, <1>6, <1>7, StepCases

(* However setups overlap with each other, with dialogs and with the exit, *)
(* one that was confirmed is in the file unless another that had not ended *)
(* before it began has opened the file, and an empty or an unconfirmed     *)
(* file has its setup that is still writing, failed, or was cut off.       *)
THEOREM ConfirmedIsKept == Spec => []SetupKept
<1>1. Init => NoneCut /\ SetupKept
  <2> SUFFICES ASSUME Init PROVE NoneCut /\ SetupKept
    OBVIOUS
  <2>1. file # Empty /\ file \notin Lines
    BY CliAssumption DEF Init, Lines
  <2>2. Setups = {} /\ NoneCut
    BY DEF Init, Setups, Is, NoneCut
  <2>3. QED
    BY <2>1, <2>2 DEF SetupKept
<1>2. TypeOK /\ LineInv /\ NoneCut /\ SetupKept /\ [Next]_vars => NoneCut' /\ SetupKept'
  BY KeptStep, NoneCutStep
<1>3. QED
  BY <1>1, <1>2, TypeCorrect, LineInvariant, PTL DEF Spec

-----------------------------------------------------------------------------
(* RegisterFunded.  The balance the thread has found is one of the worker's*)
(* addresses, which are never more than its keys.                          *)
BalanceInv ==
  /\ eth \in 0 .. keys
  /\ funded \subseteq 1 .. keys
  /\ balance => funded # {}
  /\ \A i \in Lines : line[i].pc = "sent" /\ Is(i, {"register"}) => funded # {}

(* Every step keeps BalanceInv.                                            *)
LEMMA BalanceStep ==
  ASSUME TypeOK, LineInv, BalanceInv, [Next]_vars
  PROVE  BalanceInv'
<1>1. keys \in Nat
  BY CliAssumption DEF TypeOK
<1>2. ASSUME UNCHANGED <<eth, keys, funded>>, balance' => balance,
             \A j \in Lines : line'[j].pc = "sent" =>
               \/ line[j].pc = "sent" /\ line'[j].cmd = line[j].cmd
               \/ line'[j].cmd # "register" \/ balance
      PROVE  BalanceInv'
  BY <1>2 DEF BalanceInv, Is
<1>3. ASSUME NEW i \in Lines, NEW c \in AllCommands, NEW step \in {"scheduled", "message"},
             Enter(i, c, step)
      PROVE  BalanceInv'
  <2>1. /\ line'[i].pc = step
        /\ \A j \in Lines : j # i => line'[j] = line[j]
    BY <1>3, EnterLines
  <2>2. UNCHANGED <<eth, keys, funded, balance>>
    BY <1>3 DEF Enter
  <2>3. QED
    BY <1>2, <2>1, <2>2
<1>4. ASSUME NEW i \in Lines, Coroutine(i) PROVE BalanceInv'
  <2>1. UNCHANGED <<eth, keys, funded, balance>>
    BY <1>4 DEF Coroutine, Help, Message, Setup, Close, OpenFile, WriteFile, Act, Response,
                NoResponse, Restart
  <2>2. /\ line'[i].cmd = line[i].cmd
        /\ \A j \in Lines : j # i => line'[j] = line[j]
    BY <1>4, CoroutineFacts
  <2>3. ASSUME line'[i].pc = "sent" PROVE line[i].cmd # "register" \/ balance
    <3>1. ASSUME NEW step \in {"message", "dialog", "open", "write", "done"}, Goto(i, step)
          PROVE  FALSE
      <4>1. line'[i].pc = step
        BY <3>1, LineIsFunction DEF Goto, LineType
      <4>2. QED
        BY <2>3, <4>1
    <3>2. ASSUME NEW a, Answer(i, a) PROVE FALSE
      <4>1. line'[i].pc = "done"
        BY <3>2, LineIsFunction DEF Answer, LineType
      <4>2. QED
        BY <2>3, <4>1
    <3>3. ~Help(i)
      <4>1. ASSUME Help(i) PROVE line'[i].pc = "message"
        BY <4>1, LineIsFunction DEF Help, LineType
      <4>2. QED
        BY <2>3, <4>1
    <3>4. Act(i)
      BY <1>4, <3>1, <3>2, <3>3 DEF Coroutine, Message, Setup, Close, OpenFile, WriteFile,
                                    Response, NoResponse, Restart
    <3>5. QED
      BY <3>2, <3>4 DEF Act, Is, can_register
  <2>4. QED
    BY <1>2, <2>1, <2>2, <2>3
<1>5. ASSUME NEW i \in Lines, Serve(i) PROVE BalanceInv'
  <2>1. /\ i \in late => line' = line
        /\ i \notin late => line'[i].pc \in {"accepted", "denied"}
        /\ line'[i].cmd = line[i].cmd
        /\ \A j \in Lines : j # i => line'[j] = line[j]
    BY <1>5, ServeFacts
  <2>2. UNCHANGED <<eth, keys, funded, balance>>
    BY <1>5 DEF Serve
  <2>3. QED
    BY <1>2, <2>1, <2>2
<1>6. CASE Exit
  <2>1. /\ eth' = 0 /\ balance' = FALSE /\ keys' = keys /\ funded' = funded
    BY <1>6 DEF Exit, NA
  <2>2. \A j \in Lines : line'[j].pc # "sent"
    BY <1>6, ExitLines
  <2>3. QED
    BY <1>1, <2>1, <2>2 DEF BalanceInv
<1>7. CASE NodeMoves
  <2>1. \A j \in Lines : line'[j].cmd = line[j].cmd /\ line'[j].pc = line[j].pc
    BY <1>7, NodeMovesLines
  <2>2. UNCHANGED <<eth, keys, funded, balance>>
    BY <1>7 DEF NodeMoves
  <2>3. QED
    BY <1>2, <2>1, <2>2
<1>8. CASE Aside
  <2>1. line' = line
    BY <1>8, AsideFacts
  <2>2. CASE PollAddress
    BY <1>1, <2>1, <2>2 DEF PollAddress, BalanceInv, Is, NA
  <2>3. CASE AskBalance
    <3>1. balance' => funded # {}
      BY <2>3 DEF AskBalance, BalanceInv
    <3>2. QED
      BY <2>1, <2>3, <3>1 DEF AskBalance, BalanceInv, Is
  <2>4. CASE CreateKey
    BY <1>1, <2>1, <2>4 DEF CreateKey, BalanceInv, Is
  <2>5. CASE Fund
    BY <1>1, <2>1, <2>5 DEF Fund, BalanceInv, Is, NA
  <2>6. CASE \/ \E i \in Lines : PressButton(i)
             \/ PressEscape \/ CheckAddress \/ UNCHANGED vars
    <3>1. UNCHANGED <<eth, keys, funded, balance>>
      BY <2>6 DEF PressButton, PressEscape, CheckAddress, vars
    <3>2. QED
      BY <1>2, <2>1, <3>1
  <2>7. QED
    BY <1>8, <2>2, <2>3, <2>4, <2>5, <2>6 DEF Aside
<1>9. QED
  BY <1>3, <1>4, <1>5, <1>6, <1>7, <1>8, StepCases

(* A register goes out for a worker with a funded address only, whenever   *)
(* the address is polled and the balance asked for.                        *)
THEOREM RegisteredFunded == Spec => []RegisterFunded
<1>1. Init => BalanceInv
  BY CliAssumption DEF Init, BalanceInv, NA
<1>2. TypeOK /\ LineInv /\ BalanceInv /\ [Next]_vars => BalanceInv'
  BY BalanceStep
<1>3. BalanceInv => RegisterFunded
  BY DEF BalanceInv, RegisterFunded, At
<1>4. QED
  BY <1>1, <1>2, <1>3, TypeCorrect, LineInvariant, PTL DEF Spec
-----------------------------------------------------------------------------
(* KeyboardOnScreen.  Every open dialog was opened from the input field,   *)
(* and goes back to it.                                                    *)
KeyboardInv == KeyboardOnScreen /\ \A i \in shown : before[i] = Input

(* Every step keeps KeyboardInv.                                           *)
LEMMA KeyboardStep ==
  ASSUME TypeOK, LineInv, KeyboardInv, [Next]_vars
  PROVE  KeyboardInv'
<1>1. ASSUME UNCHANGED <<shown, focus, before>>,
             \A j \in Lines : line'[j].pc = "dialog" <=> line[j].pc = "dialog"
      PROVE  KeyboardInv'
  BY <1>1 DEF KeyboardInv, KeyboardOnScreen
<1>2. ASSUME NEW i \in Lines, NEW c \in AllCommands, NEW step \in {"scheduled", "message"},
             Enter(i, c, step)
      PROVE  KeyboardInv'
  <2>1. /\ line[i].pc = "unused" /\ line'[i].pc = step
        /\ \A j \in Lines : j # i => line'[j] = line[j]
    BY <1>2, EnterLines DEF Enter
  <2>2. UNCHANGED <<shown, focus, before>>
    BY <1>2 DEF Enter
  <2>3. QED
    BY <1>1, <2>1, <2>2
<1>3. ASSUME NEW i \in Lines, NEW step \in Steps, Goto(i, step) PROVE line'[i].pc = step
  BY <1>3, LineIsFunction DEF Goto, LineType
<1>4. ASSUME NEW i \in Lines, Coroutine(i) PROVE KeyboardInv'
  <2>1. \A j \in Lines : j # i => line'[j] = line[j]
    BY <1>4, CoroutineFacts
  <2>2. ASSUME shown = {}, Display(i), Goto(i, "dialog") PROVE KeyboardInv'
    <3>1. line'[i].pc = "dialog"
      BY <2>2, <1>3 DEF Steps
    <3>2. shown' = {i} /\ focus' = i
      BY <2>2 DEF Display
    <3>3. before'[i] = Input
      BY <2>2 DEF Display, TypeOK, KeyboardInv, KeyboardOnScreen
    <3>4. \A j \in Lines : line[j].pc # "dialog"
      BY <2>2 DEF KeyboardInv, KeyboardOnScreen
    <3>5. shown' = {j \in Lines : line'[j].pc = "dialog"}
      BY <2>1, <3>1, <3>2, <3>4
    <3>6. QED
      BY <3>2, <3>3, <3>5 DEF KeyboardInv, KeyboardOnScreen
  <2>3. ASSUME UNCHANGED <<shown, focus, before>>, line[i].pc # "dialog", line'[i].pc # "dialog"
        PROVE  KeyboardInv'
    BY <1>1, <2>1, <2>3
  <2>4. CASE Message(i)
    <3>1. CASE shown = {}
      BY <2>2, <2>4, <3>1 DEF Message
    <3>2. CASE shown # {}
      <4>1. line'[i].pc = "done"
        BY <2>4, <3>2, <1>3 DEF Message, Steps
      <4>2. QED
        BY <2>3, <2>4, <3>2, <4>1 DEF Message, At
    <3>3. QED
      BY <3>1, <3>2
  <2>5. CASE Setup(i)
    <3>1. CASE shown = {}
      BY <2>2, <2>5, <3>1 DEF Setup
    <3>2. CASE shown # {}
      <4>1. line'[i].pc = "open"
        BY <2>5, <3>2, <1>3 DEF Setup, Steps
      <4>2. QED
        BY <2>3, <2>5, <3>2, <4>1 DEF Setup, At
    <3>3. QED
      BY <3>1, <3>2
  <2>6. CASE Close(i)
    <3>1. line[i].pc = "dialog" /\ line'[i].pc # "dialog"
      BY <2>6, <1>3 DEF Close, At, Steps
    <3>2. i \in shown
      BY <3>1 DEF KeyboardInv, KeyboardOnScreen
    <3>3. shown = {i}
      BY <3>2 DEF KeyboardInv, KeyboardOnScreen
    <3>4. shown' = {} /\ focus' = Input
      BY <2>6, <3>2, <3>3 DEF Close, KeyboardInv
    <3>5. \A j \in Lines : line'[j].pc # "dialog"
      <4>1. \A j \in Lines : j # i => line[j].pc # "dialog"
        BY <3>3 DEF KeyboardInv, KeyboardOnScreen
      <4>2. QED
        BY <2>1, <3>1, <4>1
    <3>6. QED
      BY <3>4, <3>5 DEF KeyboardInv, KeyboardOnScreen
  <2>7. CASE OpenFile(i) \/ (Act(i) /\ Goto(i, "sent"))
    <3>1. UNCHANGED <<shown, focus, before>> /\ line[i].pc # "dialog"
      BY <2>7 DEF OpenFile, Act, At
    <3>2. line'[i].pc # "dialog"
      BY <2>7, <1>3 DEF OpenFile, Steps
    <3>3. QED
      BY <2>3, <3>1, <3>2
  <2>8. CASE Help(i)
    <3>1. UNCHANGED <<shown, focus, before>> /\ line[i].pc # "dialog"
      BY <2>8 DEF Help, At
    <3>2. line'[i].pc = "message"
      BY <2>8, LineIsFunction DEF Help, LineType
    <3>3. QED
      BY <2>3, <3>1, <3>2
  <2>9. CASE WriteFile(i) \/ (Act(i) /\ ~Goto(i, "sent")) \/ Response(i) \/ NoResponse(i) \/ Restart(i)
    <3>1. UNCHANGED <<shown, focus, before>> /\ line[i].pc # "dialog"
      BY <2>9 DEF WriteFile, Act, Response, NoResponse, Restart, At
    <3>2. \E a \in {"ok", "failed", "refused", "error"} : Answer(i, a)
      BY <2>9 DEF WriteFile, Act, Response, NoResponse, Restart
    <3>3. line'[i].pc = "done"
      BY <3>2, LineIsFunction DEF Answer, LineType
    <3>4. QED
      BY <2>3, <3>1, <3>3
  <2>10. QED
    BY <1>4, <2>4, <2>5, <2>6, <2>7, <2>8, <2>9 DEF Coroutine
<1>5. ASSUME NEW i \in Lines, Serve(i) PROVE KeyboardInv'
  <2>1. /\ i \in late => line' = line
        /\ i \notin late => line[i].pc = "sent" /\ line'[i].pc \in {"accepted", "denied"}
        /\ \A j \in Lines : j # i => line'[j] = line[j]
    BY <1>5, ServeFacts
  <2>2. UNCHANGED <<shown, focus, before>>
    BY <1>5 DEF Serve
  <2>3. QED
    BY <1>1, <2>1, <2>2
<1>6. CASE Exit
  <2>1. shown' = {} /\ focus' = Input
    BY <1>6 DEF Exit
  <2>2. \A j \in Lines : line'[j].pc # "dialog"
    BY <1>6, LineIsFunction DEF Exit, LineType
  <2>3. QED
    BY <2>1, <2>2 DEF KeyboardInv, KeyboardOnScreen
<1>7. CASE NodeMoves
  <2>1. \A j \in Lines : line'[j].pc = line[j].pc
    BY <1>7, NodeMovesLines
  <2>2. UNCHANGED <<shown, focus, before>>
    BY <1>7 DEF NodeMoves
  <2>3. QED
    BY <1>1, <2>1, <2>2
<1>8. CASE Aside
  <2>1. UNCHANGED <<line, shown, focus, before>>
    BY <1>8 DEF Aside, PressButton, PressEscape, PollAddress, CheckAddress, AskBalance,
                CreateKey, Fund, vars
  <2>2. QED
    BY <1>1, <2>1
<1>9. QED
  BY <1>2, <1>4, <1>5, <1>6, <1>7, <1>8, StepCases

(* Whatever is typed, in whatever order dialogs are asked for, answered    *)
(* and escaped, the keyboard is never with a dialog that is not on the     *)
(* screen, nor away from the one that is.                                  *)
THEOREM KeyboardIsOnScreen == Spec => []KeyboardOnScreen
<1>1. Init => KeyboardInv
  BY DEF Init, KeyboardInv, KeyboardOnScreen
<1>2. TypeOK /\ LineInv /\ KeyboardInv /\ [Next]_vars => KeyboardInv'
  BY KeyboardStep
<1>3. KeyboardInv => KeyboardOnScreen
  BY DEF KeyboardInv
<1>4. QED
  BY <1>1, <1>2, <1>3, TypeCorrect, LineInvariant, PTL DEF Spec
=============================================================================
