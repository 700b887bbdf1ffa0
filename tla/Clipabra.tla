------------------------------ MODULE Clipabra ------------------------------
(***************************************************************************)
(* The clipabra application (AppDelegate.swift): the capture history, the  *)
(* event tap of the 2+9 chord and the panel with the 4+7 chord.  All three *)
(* run on the main thread.  The tap only calls toggle, which the panel     *)
(* takes at any moment, and of the history the panel sees which entries    *)
(* there are, which it lets go at any moment: so a behaviour is a session  *)
(* of one of the three.                                                    *)
(***************************************************************************)
EXTENDS ClipHistory, ChordMonitor, RevealPanel

VARIABLE part   \* whose session it is

\* What the other two would start from is of no interest.
ClipabraInit ==
  /\ HistoryInit /\ ChordInit /\ PanelInit
  /\ \/ part = "history"
     \/ part \in {"chord", "panel"} /\ pasteboard.value = CHOOSE v \in Values : TRUE

ClipabraNext ==
  /\ \/ part = "history" /\ HistoryNext /\ UNCHANGED <<chordVars, panelVars>>
     \/ part = "chord" /\ ChordNext /\ UNCHANGED <<historyVars, panelVars>>
     \/ part = "panel" /\ PanelNext /\ UNCHANGED <<historyVars, chordVars>>
  /\ UNCHANGED part

\* The fairness is that of each part: the run loop serves events, timers and polls.
ClipabraSpec ==
  /\ ClipabraInit
  /\ [][ClipabraNext]_<<historyVars, chordVars, panelVars, part>>
  /\ FairHistory /\ FairChord /\ FairPanel
=============================================================================
