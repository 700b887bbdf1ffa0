---------------------------- MODULE ClipHistory ----------------------------
(***************************************************************************)
(* clipabra's capture history: the pasteboard shared with every other      *)
(* application, the 0.3 s poll (PasteboardWatcher.swift), the ring with    *)
(* its memory-only concealed entries (HistoryStore.swift), history.json    *)
(* and relaunches.                                                         *)
(*                                                                         *)
(* poll, wipe and copyBack all run on the main thread; other applications  *)
(* write the pasteboard at any moment, also while poll runs: the change    *)
(* count, the types and the string are three reads.  The pasteboard server *)
(* is external: every write raises changeCount by one.                     *)
(***************************************************************************)
EXTENDS Selection, FiniteSets, Functions

CONSTANTS
  Values,       \* what is copied
  maxEntries,   \* size of the ring (50 in the program)
  NoString,     \* of a copy that has no string
  MaxCount,     \* bound: writes to the pasteboard
  WritesFail    \* may a write of history.json fail, or the process die inside?

ASSUME HistoryAssumption ==
  maxEntries \in Nat \ {0} /\ MaxCount \in Nat /\ NoString \notin Values

VARIABLES
  pasteboard,       \* the last write: [value, concealed, transient, own]
  changeCount,      \* how often the pasteboard was written
  lastChangeCount,  \* what the watcher last saw
  ignoreCount,      \* changes the watcher will skip
  polling,          \* where poll is: it reads the types next, or the string
  types,            \* the types it read; at is auxiliary, the write they are of
  entries,          \* the ring, newest first; kept here after a kill as well
  wipes,            \* entries with a wipe scheduled, earliest deadline first
  disk,             \* what history.json decodes to: <<a ring>>, or <<>> if it does not
  running,
  plain,            \* auxiliary: values a user copied without concealing them
  torn,             \* auxiliary: values read when another write had come
                    \* since their types were read
  stale             \* auxiliary: the last write of history.json failed

watcher == <<lastChangeCount, ignoreCount, polling, types>>
noted == <<plain, torn, stale>>
historyVars == <<pasteboard, changeCount, watcher, entries, wipes, disk, running, noted>>

\* An entry is named by the write it was captured from (the UUID).
Entry == [id : 0..MaxCount, value : Values, concealed : BOOLEAN]

Copy(v, concealed, transient, own) ==
  [value |-> v, concealed |-> concealed, transient |-> transient, own |-> own]

NoTypes == [concealed |-> FALSE, at |-> 0]

Normal(ring) == Only(ring, {e \in Range(ring) : ~e.concealed})
Saved == IF disk = <<>> THEN <<>> ELSE disk[1]

HistoryInit ==
  /\ pasteboard \in {Copy(v, FALSE, FALSE, FALSE) : v \in Values}
  /\ changeCount = 0 /\ lastChangeCount = 0
  /\ ignoreCount = 0 /\ polling = "no"
  /\ types = NoTypes
  /\ entries = <<>> /\ wipes = <<>> /\ disk = <<>>
  /\ running = TRUE
  /\ plain = {} /\ torn = {} /\ stale = FALSE

-----------------------------------------------------------------------------
(* Other applications *)

UserCopies ==
  /\ changeCount < MaxCount
  /\ changeCount' = changeCount + 1
  /\ \E v \in Values \cup {NoString}, concealed, transient \in BOOLEAN :
       /\ pasteboard' = Copy(v, concealed, transient, FALSE)
       /\ plain' = IF concealed THEN plain ELSE plain \cup ({v} \ {NoString})
  /\ UNCHANGED <<watcher, entries, wipes, disk, running, torn, stale>>

-----------------------------------------------------------------------------
(* The watcher *)

Idle == running /\ polling = "no"

\* poll, when an own write is expected: the change is skipped.
PollIgnores ==
  /\ Idle /\ changeCount # lastChangeCount /\ ignoreCount > 0
  /\ lastChangeCount' = changeCount
  /\ ignoreCount' = ignoreCount - 1
  /\ UNCHANGED <<pasteboard, changeCount, polling, types, entries, wipes, disk, running, noted>>

\* poll sees a change and notes its count; the contents are read after.
PollSees ==
  /\ Idle /\ changeCount # lastChangeCount /\ ignoreCount = 0
  /\ lastChangeCount' = changeCount
  /\ polling' = "types"
  /\ UNCHANGED <<pasteboard, changeCount, ignoreCount, types, entries, wipes, disk, running, noted>>

\* pb.types; transient copies are not recorded.
PollReadsTypes ==
  /\ polling = "types"
  /\ \/ /\ pasteboard.transient
        /\ polling' = "no"
        /\ UNCHANGED types
     \/ /\ ~pasteboard.transient
        /\ polling' = "string"
        /\ types' = [concealed |-> pasteboard.concealed, at |-> changeCount]
  /\ UNCHANGED <<pasteboard, changeCount, lastChangeCount, ignoreCount, entries, wipes,
                 disk, running, noted>>

\* The new entry goes in front; what is over the size of the ring goes.
Added(e) == <<e>> \o SubSeq(entries, 1, IF Len(entries) < maxEntries
                                       THEN Len(entries) ELSE maxEntries - 1)

Newest == {entries[i].value : i \in DOMAIN entries \cap {1}}

\* No string, or a repetition of the newest entry, is not recorded.
Recorded == pasteboard.value \notin Newest \cup {NoString}

\* pb.string: the value is of the pasteboard now, the types of a moment ago.
Captured == [id |-> changeCount, value |-> pasteboard.value,
             concealed |-> types.concealed]

PollSkips ==
  /\ polling = "string" /\ ~Recorded
  /\ polling' = "no" /\ types' = NoTypes
  /\ UNCHANGED <<pasteboard, changeCount, lastChangeCount, ignoreCount, entries,
                 wipes, disk, running, noted>>

\* The TTL of a concealed entry starts when it is captured.
ScheduleWipe(e) == wipes' = IF e.concealed THEN Append(wipes, e.id) ELSE wipes

\* Mutant: the whole ring is written.
Persist_Everything(e) ==
  /\ disk' = IF e.concealed THEN disk ELSE <<entries'>>
  /\ stale' = (stale /\ e.concealed)

\* Mutant: the file is written before the entry is in the ring.
Persist_Early(e) ==
  /\ disk' = IF e.concealed THEN disk ELSE <<Normal(entries)>>
  /\ stale' = (stale /\ e.concealed)

\* Adding a normal entry rewrites history.json, a concealed one does not.
\* A write that fails says nothing; it leaves the old file or a part.
Persist(e) ==
  \/ e.concealed /\ UNCHANGED <<disk, stale>>
  \/ ~e.concealed /\ disk' = <<Normal(entries')>> /\ stale' = FALSE
  \/ ~e.concealed /\ WritesFail /\ disk' \in {disk, <<>>} /\ stale' = TRUE

\* add.
PollAdds ==
  /\ polling = "string" /\ Recorded
  /\ entries' = Added(Captured)
  /\ ScheduleWipe(Captured)
  /\ Persist(Captured)
  /\ torn' = IF types.at = changeCount THEN torn ELSE torn \cup {pasteboard.value}
  /\ polling' = "no" /\ types' = NoTypes
  /\ UNCHANGED <<pasteboard, changeCount, lastChangeCount, ignoreCount, running, plain>>

-----------------------------------------------------------------------------
(* The ring *)

\* Mutant: the oldest entry is removed, whichever it is.
Wipe_Oldest ==
  /\ Idle /\ wipes # <<>>
  /\ entries' = SubSeq(entries, 1, Len(entries) - 1)
  /\ wipes' = Tail(wipes)
  /\ UNCHANGED <<pasteboard, changeCount, watcher, disk, running, noted>>

\* The deadline of a concealed entry; it may have been evicted before.
Wipe ==
  /\ Idle /\ wipes # <<>>
  /\ entries' = Only(entries, {e \in Range(entries) : e.id # Head(wipes)})
  /\ wipes' = Tail(wipes)
  /\ UNCHANGED <<pasteboard, changeCount, watcher, disk, running, noted>>

\* copyBack: an entry is put on the pasteboard, concealed if it was.
CopyBack ==
  /\ Idle /\ changeCount < MaxCount
  /\ \E e \in Range(entries) : pasteboard' = Copy(e.value, e.concealed, FALSE, TRUE)
  /\ changeCount' = changeCount + 1
  /\ ignoreCount' = ignoreCount + 1
  /\ UNCHANGED <<lastChangeCount, polling, types, entries, wipes, disk, running, noted>>

-----------------------------------------------------------------------------
(* Quitting and launching *)

Stop ==
  /\ running
  /\ running' = FALSE /\ polling' = "no" /\ types' = NoTypes
  /\ wipes' = <<>>
  /\ UNCHANGED <<pasteboard, changeCount, lastChangeCount, ignoreCount, entries, noted>>

Quit == Stop /\ disk' = disk

\* history.json is not replaced atomically: killed inside the write, it is
\* empty or cut off.
QuitTorn ==
  /\ WritesFail
  /\ polling = "string" /\ Recorded /\ ~types.concealed
  /\ Stop
  /\ disk' = <<>>

\* Mutant: the watcher starts from zero.
Launch_FromZero ==
  /\ ~running /\ running' = TRUE
  /\ entries' = Saved
  /\ lastChangeCount' = 0 /\ ignoreCount' = 0
  /\ stale' = FALSE
  /\ UNCHANGED <<pasteboard, changeCount, polling, types, wipes, disk, plain, torn>>

\* load (a file that does not decode is ignored), and a watcher that starts
\* from the present count.
Launch ==
  /\ ~running /\ running' = TRUE
  /\ entries' = Saved
  /\ lastChangeCount' = changeCount /\ ignoreCount' = 0
  /\ stale' = FALSE
  /\ UNCHANGED <<pasteboard, changeCount, polling, types, wipes, disk, plain, torn>>

HistoryNext ==
  \/ UserCopies
  \/ PollIgnores \/ PollSees \/ PollReadsTypes \/ PollSkips \/ PollAdds
  \/ Wipe \/ CopyBack
  \/ Quit \/ QuitTorn \/ Launch

HistorySpec == HistoryInit /\ [][HistoryNext]_historyVars

\* The deadline of a wipe comes, and the main loop finishes a poll.
FairHistory ==
  WF_historyVars(Wipe) /\ WF_historyVars(PollReadsTypes \/ PollSkips \/ PollAdds)

-----------------------------------------------------------------------------
(* Properties *)

\* A value that was only ever copied as concealed is in no entry that shows
\* or stores it: not in history.json, not in a normal entry of the ring,
\* whatever copy-backs, evictions, repetitions and relaunches came between -
\* unless it was written between the two reads of a poll, which takes the
\* types of the write before it.
ConcealedStaysInMemory ==
  /\ \A e \in Range(Normal(entries)) : e.value \in plain \cup torn
  /\ \A e \in Range(Saved) : e.value \in plain \cup torn

\* HistoryStore.swift of concealed entries: "They are never written to disk".
ConcealedNeverOnDisk == \A e \in Range(Saved) : e.value \in plain

\* The program never records what it put on the pasteboard itself, so a
\* wiped secret that was copied back does not return to the ring.
OwnWriteIsNotRecaptured ==
  [][polling = "string" /\ entries' # entries => ~pasteboard.own]_historyVars

\* Normal entries survive a relaunch ("normal entries persist to
\* history.json (0600) and survive relaunch"), unless the last write of the file
\* failed or the process died inside it: otherwise the file has every normal
\* entry of the ring, after any concealed captures, evictions, wipes and
\* earlier writes that failed.
NormalSurvivesRelaunch ==
  [][~running /\ running' /\ disk # <<>> /\ ~stale =>
       Range(Normal(entries)) \subseteq Range(entries')]_historyVars

\* A concealed entry does not stay in the ring.
ConcealedIsWiped ==
  \A n \in 1..MaxCount :
    (running /\ \E e \in Range(entries) : e.id = n /\ e.concealed)
      ~> ~(running /\ \E e \in Range(entries) : e.id = n /\ e.concealed)
=============================================================================
