---------------------------- MODULE ChordMonitor ----------------------------
(***************************************************************************)
(* The global 2+9 chord of clipabra (Sources/ChordMonitor.swift): a        *)
(* keyboard event tap that holds back the keys of the chord, and either    *)
(* fires or replays them.  The events wait in the system's queue in front  *)
(* of the tap; what the tap passes is delivered to the application in      *)
(* front.  The two timers run on the main run loop, so they interleave     *)
(* with the queued events in any order; 150 ms is not measured.            *)
(*                                                                         *)
(* The system is external: a posted event enters the queue in front of the *)
(* tap (the code tags it to recognise it there), behind what already       *)
(* waits, while a passed event is delivered at once.  A tap that is        *)
(* switched off for being slow lets events by until it is enabled again.   *)
(***************************************************************************)
EXTENDS Integers, FiniteSets, SequencesExt

CONSTANTS
  Others,       \* keys that are no members of the chord
  MaxEvents,    \* bound: keyboard events typed
  MaxDisables   \* bound: times the system switches the tap off

ASSUME ChordAssumption == MaxEvents \in Nat

Members == {"2", "9"}  \* toggleChord
Keys == Members \cup Others

\* A keyboard event; n numbers the events in the order they were typed.
Event ==
  [n : 1..MaxEvents, kind : {"down", "repeat", "up"}, key : Keys,
   modified : BOOLEAN]

VARIABLES
  held,          \* keys physically down
  typed,         \* how many events were typed
  queue,         \* events waiting in front of the tap, each tagged or not
  out,           \* events delivered to the application
  eaten,         \* events that were swallowed for good
  state,         \* idle, holdingFirst, holdingBoth or fired
  pending,       \* downs held back
  firedDown,     \* firedMembersDown
  replayTimer,   \* armed?
  fireTimer,     \* armed?
  fires,         \* how often the chord fired
  tapOn,         \* the tap is enabled
  disables       \* how often it was switched off

world == <<held, typed>>
chord == <<state, pending, firedDown, replayTimer, fireTimer, fires>>
chordVars == <<held, typed, queue, out, eaten, state, pending, firedDown,
          replayTimer, fireTimer, fires, tapOn, disables>>

ChordInit ==
  /\ held = {} /\ typed = 0
  /\ queue = <<>> /\ out = <<>> /\ eaten = {}
  /\ state = "idle" /\ pending = <<>> /\ firedDown = {}
  /\ replayTimer = FALSE /\ fireTimer = FALSE /\ fires = 0
  /\ tapOn = TRUE /\ disables = 0

Plain(e) == [event |-> e, tagged |-> FALSE]
Tagged(e) == [event |-> e, tagged |-> TRUE]

-----------------------------------------------------------------------------
(* The keyboard and the system *)

Type(e) ==
  /\ typed < MaxEvents /\ e.n = typed + 1
  /\ typed' = typed + 1
  /\ queue' = Append(queue, Plain(e))
  /\ UNCHANGED <<out, eaten, chord, tapOn, disables>>

Press(k, m) ==
  /\ k \notin held
  /\ held' = held \cup {k}
  /\ Type([n |-> typed + 1, kind |-> "down", key |-> k, modified |-> m])

Repeat(k) ==
  /\ k \in held
  /\ Type([n |-> typed + 1, kind |-> "repeat", key |-> k, modified |-> FALSE])
  /\ UNCHANGED held

Release(k) ==
  /\ k \in held
  /\ held' = held \ {k}
  /\ Type([n |-> typed + 1, kind |-> "up", key |-> k, modified |-> FALSE])

DisableTap ==
  /\ tapOn /\ disables < MaxDisables
  /\ tapOn' = FALSE
  /\ disables' = disables + 1
  /\ UNCHANGED <<world, queue, out, eaten, chord>>

\* A tap that is off is not asked.
Bypass ==
  /\ ~tapOn /\ queue # <<>>
  /\ out' = Append(out, Head(queue).event)
  /\ queue' = Tail(queue)
  /\ UNCHANGED <<world, eaten, chord, tapOn, disables>>

\* tapDisabledByTimeout reaches the callback, which enables the tap.
EnableTap ==
  /\ ~tapOn
  /\ tapOn' = TRUE
  /\ UNCHANGED <<world, queue, out, eaten, chord, disables>>

-----------------------------------------------------------------------------
(* The tap callback: what becomes of the event at the head of the queue *)

Asked(e, t) ==
  /\ tapOn /\ queue # <<>>
  /\ Head(queue) = [event |-> e, tagged |-> t]

\* Return the event, having posted the events ps.
PassAfter(e, ps) ==
  /\ out' = Append(out, e)
  /\ queue' = Tail(queue) \o [i \in DOMAIN ps |-> Tagged(ps[i])]
  /\ UNCHANGED <<world, eaten, tapOn, disables>>

Pass(e) == PassAfter(e, <<>>)

\* Return nil, having posted the events ps; hold keeps the event pending.
KeepAfter(e, ps, hold) ==
  /\ queue' = Tail(queue) \o [i \in DOMAIN ps |-> Tagged(ps[i])]
  /\ eaten' = IF hold \/ e \in Range(ps) THEN eaten ELSE eaten \cup {e}
  /\ UNCHANGED <<world, out, tapOn, disables>>

\* Mutant: the state is reset, the held events are not forgotten.
Flushed_KeepsPending ==
  /\ state' = "idle"
  /\ replayTimer' = FALSE
  /\ UNCHANGED <<pending, firedDown, fires>>

\* flushPending, but for the posting.
Flushed ==
  /\ pending' = <<>> /\ state' = "idle"
  /\ replayTimer' = FALSE
  /\ UNCHANGED <<firedDown, fires>>

Fresh(e) == e.kind = "down" /\ e.key \in Members /\ ~e.modified

\* Replayed events are not looked at again.
PassTagged(e) ==
  /\ Asked(e, TRUE)
  /\ Pass(e)
  /\ UNCHANGED chord

\* Mutant: no timer is scheduled for a lone member.
HoldFirst_NoTimer(e) ==
  /\ Asked(e, FALSE) /\ state = "idle" /\ Fresh(e)
  /\ pending' = <<e>> /\ state' = "holdingFirst"
  /\ KeepAfter(e, <<>>, TRUE)
  /\ UNCHANGED <<firedDown, fireTimer, fires, replayTimer>>

HoldFirst(e) ==
  /\ Asked(e, FALSE) /\ state = "idle" /\ Fresh(e)
  /\ pending' = <<e>> /\ state' = "holdingFirst" /\ replayTimer' = TRUE
  /\ KeepAfter(e, <<>>, TRUE)
  /\ UNCHANGED <<firedDown, fireTimer, fires>>

HoldSecond(e) ==
  /\ Asked(e, FALSE) /\ state = "holdingFirst"
  /\ Fresh(e) /\ e.key # pending[1].key
  /\ pending' = Append(pending, e) /\ state' = "holdingBoth"
  /\ replayTimer' = FALSE /\ fireTimer' = TRUE
  /\ KeepAfter(e, <<>>, TRUE)
  /\ UNCHANGED <<firedDown, fires>>

\* Repeats of a held member are dropped.
DropRepeat(e) ==
  /\ Asked(e, FALSE) /\ e.kind = "repeat" /\ e.key \in Members
  /\ \/ state = "holdingFirst" /\ e.key = pending[1].key
     \/ state = "holdingBoth"
  /\ KeepAfter(e, <<>>, FALSE)
  /\ UNCHANGED chord

\* Any other down interrupts: the held downs are posted, this key is passed.
Interrupt(e) ==
  /\ Asked(e, FALSE) /\ e.kind # "up"
  /\ \/ state = "holdingFirst" /\ ~(Fresh(e) /\ e.key # pending[1].key)
                               /\ ~(e.kind = "repeat" /\ e.key = pending[1].key)
     \/ state = "holdingBoth" /\ ~(e.kind = "repeat" /\ e.key \in Members)
  /\ PassAfter(e, pending)
  /\ Flushed
  /\ fireTimer' = FALSE

\* A held-back member is released: post the events ps and return nil.
Released(e, ps) ==
  /\ Asked(e, FALSE) /\ e.kind = "up"
  /\ \/ state = "holdingFirst" /\ e.key = pending[1].key
     \/ state = "holdingBoth" /\ e.key \in Members
  /\ KeepAfter(e, ps, FALSE)
  /\ Flushed
  /\ fireTimer' = FALSE

\* Mutant: the held downs are posted last one first.
ReleaseEarly_NewestFirst(e) == Released(e, Append(Reverse(pending), e))

\* Mutant: a release while both are held is passed and changes nothing.
ReleaseEarly_StillHeld(e) ==
  \/ state # "holdingBoth" /\ Released(e, Append(pending, e))
  \/ /\ Asked(e, FALSE) /\ e.kind = "up"
     /\ state = "holdingBoth" /\ e.key \in Members
     /\ Pass(e) /\ UNCHANGED chord

\* A member is released early: the held downs are posted, then this up.
ReleaseEarly(e) == Released(e, Append(pending, e))

\* After the chord fired, its keys are swallowed until both are released.
SwallowFired(e) ==
  /\ Asked(e, FALSE) /\ state = "fired" /\ e.key \in Members
  /\ IF e.kind = "up"
     THEN /\ firedDown' = firedDown \ {e.key}
          /\ state' = IF firedDown' = {} THEN "idle" ELSE "fired"
     ELSE UNCHANGED <<firedDown, state>>
  /\ KeepAfter(e, <<>>, FALSE)
  /\ UNCHANGED <<pending, replayTimer, fireTimer, fires>>

\* Everything else passes.
PassThrough(e) ==
  /\ Asked(e, FALSE)
  /\ \/ state = "idle" /\ ~Fresh(e)
     \/ state = "fired" /\ e.key \notin Members
     \/ state = "holdingFirst" /\ e.kind = "up" /\ e.key # pending[1].key
     \/ state = "holdingBoth" /\ e.kind = "up" /\ e.key \notin Members
  /\ Pass(e)
  /\ UNCHANGED chord

Handle ==
  \E e \in {Head(q).event : q \in {queue} \ {<<>>}} :
    \/ PassTagged(e) \/ HoldFirst(e) \/ HoldSecond(e) \/ DropRepeat(e)
    \/ Interrupt(e) \/ ReleaseEarly(e) \/ SwallowFired(e) \/ PassThrough(e)

-----------------------------------------------------------------------------
(* The timers *)

\* The window of a lone member expires: it types.
ReplayExpires ==
  /\ replayTimer
  /\ queue' = queue \o [i \in DOMAIN pending |-> Tagged(pending[i])]
  /\ Flushed
  /\ UNCHANGED <<world, out, eaten, fireTimer, tapOn, disables>>

\* fireIfStillHeld.
FireExpires ==
  /\ fireTimer /\ fireTimer' = FALSE
  /\ IF state = "holdingBoth"
     THEN /\ pending' = <<>>
          /\ eaten' = eaten \cup Range(pending)
          /\ firedDown' = Members
          /\ state' = "fired"
          /\ fires' = fires + 1
     ELSE UNCHANGED <<pending, eaten, firedDown, state, fires>>
  /\ UNCHANGED <<world, queue, out, replayTimer, tapOn, disables>>

\* A modifier matters to the keys of the chord only.
Keyboard == \E k \in Keys :
  \/ \E m \in BOOLEAN : (m => k \in Members) /\ Press(k, m)
  \/ Repeat(k)
  \/ Release(k)

ChordNext ==
  \/ Keyboard
  \/ DisableTap \/ Bypass \/ EnableTap
  \/ Handle
  \/ ReplayExpires \/ FireExpires

ChordSpec == ChordInit /\ [][ChordNext]_chordVars

\* The run loop serves the tap and both timers; the system re-enables the tap.
FairChord ==
  /\ WF_chordVars(Handle) /\ WF_chordVars(Bypass) /\ WF_chordVars(EnableTap)
  /\ WF_chordVars(ReplayExpires) /\ WF_chordVars(FireExpires)

-----------------------------------------------------------------------------
(* Properties *)

Numbers(events) == {e.n : e \in events}
Waiting == {q.event : q \in Range(queue)}

\* Every key event is in one place: it waits, is held back, was delivered or
\* was swallowed, and none of these twice.  So whatever the interleaving of
\* events, timers and replays, nothing is lost, nothing is typed twice, and
\* nothing of a chord that fired is ever typed.
ExactlyOnce ==
  /\ Numbers(Waiting \cup Range(pending) \cup Range(out) \cup eaten) = 1..typed
  /\ Len(queue) + Len(pending) + Len(out) + Cardinality(eaten) = typed

\* Rolled over or delayed, the chord keys are typed in the order in which
\* they were pressed, unless some went by a tap that was off.
MembersInOrder ==
  disables = 0 => \A i, j \in DOMAIN out :
    Fresh(out[i]) /\ Fresh(out[j]) /\ i < j => out[i].n < out[j].n

\* The chord fires only while both keys were down as far as the tap has
\* seen: no release of a held-back key was handled since.
FiresWhileHeld ==
  [][fires' # fires /\ disables = 0 =>
       \A d \in Range(pending) : \A e \in Range(out) \cup eaten :
         ~(e.kind = "up" /\ e.key = d.key /\ e.n > d.n)]_chordVars

\* A held-back key does not stay held back.
HeldIsReleased == pending # <<>> ~> pending = <<>>
=============================================================================
