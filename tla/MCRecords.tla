------------------------------ MODULE MCRecords ------------------------------
(***************************************************************************)
(* Three components that share no variable, checked in one run: "focus"    *)
(* names the one that a behaviour is about; the others stay where they     *)
(* begin.                                                                  *)
(***************************************************************************)
EXTENDS PromptDedup, Recovery, HistoryIndex

VARIABLE focus
recordsVars == <<focus, vars, recoveryVars, historyVars>>

\* Calls, requests, processes and keys are interchangeable: of the choices that
\* differ by their names one is made.  Where it does not matter, what the calls
\* ask for is chosen once.
Representative ==
  /\ ask[1].req = 1 /\ ask[2].req = 1
  /\ ask[3].by = 1 /\ ask[1].by <= ask[2].by
  /\ \A c \in Calls : ask[c].keys = {2} => \E d \in 1..(c - 1) : ask[d].keys = {1}

RecordsInit ==
  /\ focus \in {"submit", "recovery", "history"}
  /\ Init /\ Representative
  /\ focus # "submit" => \A c, d \in Calls : ask[c] = ask[d] /\ ask[c].keys = {} /\ ask[c].policy = "guard"
  /\ RecoveryInit /\ HistoryInit

RecordsNext ==
  \/ focus = "submit" /\ Next /\ UNCHANGED <<focus, recoveryVars, historyVars>>
  \/ focus = "recovery" /\ RecoveryNext /\ UNCHANGED <<focus, vars, historyVars>>
  \/ focus = "history" /\ HistoryNext /\ UNCHANGED <<focus, vars, recoveryVars>>

RecordsSpec == RecordsInit /\ [][RecordsNext]_recordsVars

\* cooldown_after_attempt, in ticks of half a window.
GrowingCooldowns == <<1, 1>>

\* The types of the three.
RecordsTypeOK == TypeOK /\ RecoveryTypeOK /\ HistoryTypeOK
=============================================================================
