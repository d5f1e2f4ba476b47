----------------------------- MODULE StatusLine -----------------------------
(***************************************************************************)
(* Worker with the status line of the CLI: do_get_status of cli.py polls   *)
(* the file that set_status truncates and writes, from another process     *)
(* that is opened at any time.  While the status stays the same its dots   *)
(* are animated: the text on the screen is not the text in the file, but   *)
(* the one kept from the last change.                                      *)
(***************************************************************************)
EXTENDS Worker

VARIABLES open,  \* the CLI runs
          prev,  \* prev_status
          shown  \* node_status_buf, without its dots; rotated is the same

line == <<open, prev, shown>>
lvars == <<vars, line>>

LInit == /\ Init
         /\ open = FALSE /\ prev = "Down" /\ shown = ""

(* Opened once: opening it again is opening it later.                      *)
OpenCli == /\ ~open /\ open' = TRUE
           /\ UNCHANGED <<prev, shown>>

(* Mutant: the status is compared with the first one. *)
SeeAgainstFirst(text) ==
  /\ open
  /\ shown' = IF prev = text THEN shown ELSE text
  /\ UNCHANGED <<open, prev>>

(* rotate_loading_dots changes the number of dots, and nothing else.       *)
See(text) ==
  /\ open
  /\ shown' = IF prev = text THEN shown ELSE text
  /\ prev' = text
  /\ UNCHANGED open

Poll == See(status)

(* Between the two halves of set_status the file is empty.                 *)
PollTruncated == status' # status /\ See("")

LNext == \/ Next /\ (UNCHANGED line \/ PollTruncated)
         \/ (OpenCli \/ Poll) /\ UNCHANGED vars

LSpec == LInit /\ [][LNext]_lvars
LFairSpec == LSpec /\ Fairness /\ WF_line(Poll)

-----------------------------------------------------------------------------
(* A status that stays is the one on the screen, however the polls fell    *)
(* between the writes before it; but a CLI opened on a worker that is down *)
(* takes that for what it showed before, and shows nothing.                *)
StatusShown ==
  \A s \in {Statuses[i] : i \in DOMAIN Statuses} :
    <>[](open /\ status = s) => <>[](shown = s \/ (s = "Down" /\ shown = ""))
=============================================================================
