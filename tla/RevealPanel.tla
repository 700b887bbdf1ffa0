---------------------------- MODULE RevealPanel ----------------------------
(***************************************************************************)
(* clipabra's history panel (HistoryPanelController.swift and the detail   *)
(* pane of HistoryView.swift): the 4+7 chord that reveals the selected     *)
(* entry while it is held.                                                 *)
(*                                                                         *)
(* The window server is external: it posts a key event to the application  *)
(* in front when the key moves, the application handles the events later   *)
(* and in order, and the user may put another application in front or      *)
(* close the panel with its title bar button, which orders the panel out   *)
(* without calling hide().                                                 *)
(***************************************************************************)
EXTENDS Integers, Sequences, FiniteSets

CONSTANTS
  Entries,        \* what the ring may hold
  MaxQueue,       \* bound: key events waiting
  SwitchesHolding \* may the user leave clipabra with a chord key down?

ASSUME PanelAssumption == SwitchesHolding \in BOOLEAN

revealChord == {"4", "7"}

VARIABLES
  keysDown,     \* chord keys physically down
  keyEvents,    \* key events posted to clipabra, not handled yet
  active,       \* clipabra is in front
  visible,      \* the panel is on screen
  localMonitor, \* is it installed?
  revealDown,   \* chord keys the monitor believes down
  revealHeld,   \* the published flag the view shows the value by
  selectedID,   \* at most one entry
  ring,         \* HistoryStore.entries
  audited       \* entries with a "reveal" row since revealHeld last came on

keys == <<keysDown, keyEvents>>
panel == <<visible, localMonitor>>
reveal == <<revealDown, revealHeld, audited>>
panelVars == <<keysDown, keyEvents, active, visible, localMonitor, revealDown, revealHeld,
          selectedID, ring, audited>>

PanelInit ==
  /\ keysDown = {} /\ keyEvents = <<>> /\ active = FALSE
  /\ visible = FALSE /\ localMonitor = FALSE
  /\ revealDown = {} /\ revealHeld = FALSE /\ audited = {}
  /\ selectedID = {} /\ ring = Entries

\* The entry whose value the detail pane shows.
Shown == IF visible /\ revealHeld THEN selectedID \cap ring ELSE {}

-----------------------------------------------------------------------------
(* The user and the window server *)

Post(down, k) ==
  /\ Len(keyEvents) < MaxQueue
  /\ keyEvents' = IF active THEN Append(keyEvents, [down |-> down, key |-> k]) ELSE keyEvents
  /\ UNCHANGED <<active, panel, reveal, selectedID, ring>>

PressKey(k) == k \notin keysDown /\ keysDown' = keysDown \cup {k} /\ Post(TRUE, k)
RepeatKey(k) == k \in keysDown /\ UNCHANGED keysDown /\ Post(TRUE, k)
ReleaseKey(k) == k \in keysDown /\ keysDown' = keysDown \ {k} /\ Post(FALSE, k)

SwitchApplication ==
  /\ active \/ visible
  /\ active => SwitchesHolding \/ (keysDown = {} /\ keyEvents = <<>>)
  /\ active' = ~active
  /\ UNCHANGED <<keys, panel, reveal, selectedID, ring>>

CloseButton ==
  /\ visible
  /\ visible' = FALSE
  /\ UNCHANGED <<keys, active, localMonitor, reveal, selectedID, ring>>

\* A click on a row; the list holds what is in the ring.
Select(e) ==
  /\ visible /\ e \in ring
  /\ selectedID' = {e}
  /\ UNCHANGED <<keys, active, panel, reveal, ring>>

-----------------------------------------------------------------------------
(* clipabra's main thread *)

\* The store wipes an entry, open panel or not.  (What it captures comes
\* under a new id: ring holds those from the start.)
WipeEntry(e) ==
  /\ e \in ring
  /\ ring' = ring \ {e}
  /\ UNCHANGED <<keys, active, panel, reveal, selectedID>>

\* Mutant: the reveal state is left as it is.
Hide_KeepsReveal ==
  /\ visible
  /\ visible' = FALSE /\ localMonitor' = FALSE
  /\ UNCHANGED <<keys, active, selectedID, ring, reveal>>

\* toggle, with the panel visible.
Hide ==
  /\ visible
  /\ visible' = FALSE /\ localMonitor' = FALSE
  /\ revealDown' = {} /\ revealHeld' = FALSE /\ audited' = {}
  /\ UNCHANGED <<keys, active, selectedID, ring>>

\* toggle, with the panel not visible: it comes to the front.
Show ==
  /\ ~visible
  /\ visible' = TRUE /\ active' = TRUE /\ localMonitor' = TRUE
  /\ UNCHANGED <<keys, reveal, selectedID, ring>>

\* Mutant: a release of one key is not enough.
Down_KeepsFirst(ev) ==
  IF ev.down THEN revealDown \cup {ev.key}
  ELSE IF revealDown = revealChord THEN revealDown ELSE revealDown \ {ev.key}

\* What the monitor believes down after an event.
Down(ev) == IF ev.down THEN revealDown \cup {ev.key} ELSE revealDown \ {ev.key}

\* The monitor's block: a reveal that begins with an entry selected leaves a row.
Monitored ==
  /\ keyEvents # <<>> /\ localMonitor
  /\ revealDown' = Down(Head(keyEvents))
  /\ revealHeld' = (revealChord \subseteq revealDown')
  /\ audited' = IF revealHeld' = revealHeld THEN audited
                ELSE IF revealHeld' THEN selectedID \cap ring ELSE {}
  /\ keyEvents' = Tail(keyEvents)
  /\ UNCHANGED <<keysDown, active, panel, selectedID, ring>>

Unmonitored ==
  /\ keyEvents # <<>> /\ ~localMonitor
  /\ keyEvents' = Tail(keyEvents)
  /\ UNCHANGED <<keysDown, active, panel, reveal, selectedID, ring>>

PanelNext ==
  \/ \E k \in revealChord : PressKey(k) \/ RepeatKey(k) \/ ReleaseKey(k)
  \/ SwitchApplication \/ CloseButton
  \/ \E e \in Entries : Select(e) \/ WipeEntry(e)
  \/ Hide \/ Show
  \/ Monitored \/ Unmonitored

PanelSpec == PanelInit /\ [][PanelNext]_panelVars

\* The main run loop handles the events posted to it.
FairPanel == WF_panelVars(Monitored \/ Unmonitored)

-----------------------------------------------------------------------------
(* Properties *)

\* The dead-man switch: with no key event on its way, a value is on screen
\* only while both keys are held down ("Releasing either key re-masks
\* instantly").
DeadManSwitch == Shown # {} /\ keyEvents = <<>> => keysDown = revealChord

\* "Every capture / reveal / copy-back / wipe leaves a ... audit row": a value
\* that is on screen has its row.
RevealLeavesRow == Shown \subseteq audited

\* Once a key is let go the value is masked.
ReleaseMasks == (Shown # {} /\ keysDown # revealChord) ~> Shown = {}
=============================================================================
