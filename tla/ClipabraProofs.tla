--------------------------- MODULE ClipabraProofs ---------------------------
(***************************************************************************)
(* The three parts of clipabra, each on its own: what its history records  *)
(* and keeps, what its chord monitor does with key events, and when its    *)
(* panel reveals and how an entry looks.  For any ring, any typing, any    *)
(* number of events on their way and any entries.                          *)
(***************************************************************************)
EXTENDS ClipHistory, ChordMonitor, RevealPanel, SelectionProofs,
        FiniteSetTheorems, TLAPS

(* ClipHistory *)

\* The variables have their types, and neither the ring nor the file is longer
\* than maxEntries.
HistoryTypes ==
  /\ pasteboard \in [value : Values \cup {NoString}, concealed : BOOLEAN, transient : BOOLEAN,
                     own : BOOLEAN]
  /\ changeCount \in 0..MaxCount /\ lastChangeCount \in 0..changeCount
  /\ ignoreCount \in Nat /\ polling \in {"no", "types", "string"} /\ running \in BOOLEAN
  /\ types \in [concealed : BOOLEAN, at : 0..MaxCount]
  /\ entries \in Seq(Entry) /\ Len(entries) <= maxEntries
  /\ disk = <<>> \/ \E kept \in Seq(Entry) : disk = <<kept>> /\ Len(kept) <= maxEntries
  /\ wipes \in Seq(0..MaxCount)
  /\ plain \subseteq Values /\ torn \subseteq Values /\ stale \in BOOLEAN

\* Values that show may have been copied openly, or read by a torn poll.
Showable(v) == v \in plain \cup torn

\* What was written since the launch and shows is showable, as are the normal
\* entries, of which the file has nothing else.  The types in hand are those
\* of the pasteboard, unless it was written since.
ShownIsPlain ==
  /\ \A e \in Range(entries) : e.concealed \/ Showable(e.value)
  /\ \A e \in Range(Saved) : ~e.concealed /\ Showable(e.value)
  /\ changeCount > 0 => \/ pasteboard.concealed
                        \/ pasteboard.value = NoString
                        \/ Showable(pasteboard.value)
  /\ polling # "no" => changeCount > 0
  /\ polling = "string" =>
       /\ types.at \in 0..changeCount
       /\ types.at = changeCount => types.concealed = pasteboard.concealed

\* A file whose last write went well is up to date.
FileHasNormal ==
  disk # <<>> /\ ~stale => \A e \in Range(entries) : e.concealed \/ e \in Range(Saved)

\* The watcher expects to skip an own write it has not seen.
OwnIsSkipped ==
  /\ pasteboard.own /\ changeCount # lastChangeCount => ignoreCount > 0
  /\ polling # "no" => ~pasteboard.own

HistoryInv == HistoryTypes /\ ShownIsPlain /\ FileHasNormal /\ OwnIsSkipped

-----------------------------------------------------------------------------

\* What the file is given has the normal entries and no other.
LEMMA NormalFacts ==
  ASSUME NEW s \in Seq(Entry)
  PROVE  /\ Normal(s) \in Seq(Entry)
         /\ Len(Normal(s)) <= Len(s)
         /\ Range(Normal(s)) = {e \in Range(s) : ~e.concealed}
<1> DEFINE S == {e \in Range(s) : ~e.concealed}
<1>1. Only(s, S) \in Seq(Entry \cap S) /\ Range(Only(s, S)) = Range(s) \cap S
  BY OnlyFacts, OnlyRange
<1>2. Len(Only(s, S)) <= Len(s)
  BY OnlyIsNoLonger
<1>3. \A t : t \in Seq(Entry \cap S) => t \in Seq(Entry)
  OBVIOUS
<1>4. Normal(s) = Only(s, S)
  BY DEF Normal
<1>5. QED
  BY <1>1, <1>2, <1>3, <1>4

\* A value that is added comes first and pushes at most one entry out.
LEMMA AddedFacts ==
  ASSUME HistoryTypes, NEW e \in Entry
  PROVE  /\ Added(e) \in Seq(Entry) /\ Len(Added(e)) <= maxEntries
         /\ Range(Added(e)) \subseteq {e} \cup Range(entries)
<1> DEFINE m == IF Len(entries) < maxEntries THEN Len(entries) ELSE maxEntries - 1
<1>1. m \in 0..Len(entries) /\ m + 1 <= maxEntries
  BY HistoryAssumption DEF HistoryTypes
<1>2. PICK rest : rest = SubSeq(entries, 1, m)
  OBVIOUS
<1>3. /\ rest \in Seq(Entry) /\ Len(rest) = m
      /\ \A i \in 1..m : rest[i] = entries[i]
  BY <1>1, <1>2 DEF HistoryTypes
<1>4. Added(e) = <<e>> \o rest
  BY <1>2 DEF Added
<1> HIDE DEF m
<1>5. /\ Added(e) \in Seq(Entry) /\ Len(Added(e)) = m + 1
      /\ \A i \in 1..(m + 1) : Added(e)[i] = IF i = 1 THEN e ELSE rest[i - 1]
  BY <1>1, <1>3, <1>4
<1>6. ASSUME NEW i \in 1..(m + 1) PROVE Added(e)[i] \in {e} \cup Range(entries)
  <2>1. CASE i = 1
    BY <1>5, <2>1
  <2>2. CASE i # 1
    <3>1. i - 1 \in 1..m /\ i - 1 \in DOMAIN entries
      BY <1>1, <2>2 DEF HistoryTypes
    <3>2. QED
      BY <1>3, <1>5, <2>2, <3>1 DEF Range
  <2>3. QED
    BY <2>1, <2>2
<1>7. DOMAIN Added(e) = 1..(m + 1)
  BY <1>5
<1>8. QED
  BY <1>1, <1>5, <1>6, <1>7 DEF Range

\* What a launch reads from the file fits into the ring.
LEMMA SavedTypes ==
  ASSUME HistoryTypes
  PROVE  Saved \in Seq(Entry) /\ Len(Saved) <= maxEntries
<1>1. CASE disk = <<>>
  <2>1. Saved = <<>>
    BY <1>1 DEF Saved
  <2>2. QED
    BY <2>1, HistoryAssumption
<1>2. CASE disk # <<>>
  <2>1. PICK kept \in Seq(Entry) : disk = <<kept>> /\ Len(kept) <= maxEntries
    BY <1>2 DEF HistoryTypes
  <2>2. Saved = kept
    BY <2>1 DEF Saved
  <2>3. QED
    BY <2>1, <2>2
<1>3. QED
  BY <1>1, <1>2

LEMMA NoTypesType == NoTypes \in [concealed : BOOLEAN, at : 0..MaxCount]
<1>1. 0 \in 0..MaxCount
  BY HistoryAssumption
<1>2. QED
  BY <1>1 DEF NoTypes

LEMMA HistoryInvInit == HistoryInit => HistoryInv
<1> SUFFICES ASSUME HistoryInit PROVE HistoryInv
  OBVIOUS
<1>1. HistoryTypes
  <2>1. pasteboard \in [value : Values \cup {NoString}, concealed : BOOLEAN, transient : BOOLEAN,
                        own : BOOLEAN]
    <3>1. PICK v \in Values : pasteboard = Copy(v, FALSE, FALSE, FALSE)
      BY DEF HistoryInit
    <3>2. QED
      BY <3>1 DEF Copy
  <2>2. entries \in Seq(Entry) /\ Len(entries) = 0 /\ wipes \in Seq(0..MaxCount)
    BY DEF HistoryInit
  <2>3. changeCount \in 0..MaxCount /\ lastChangeCount \in 0..changeCount
    BY HistoryAssumption DEF HistoryInit
  <2>4. /\ ignoreCount \in Nat /\ polling = "no" /\ running \in BOOLEAN
        /\ disk = <<>> /\ plain \subseteq Values /\ torn \subseteq Values /\ stale \in BOOLEAN
    BY DEF HistoryInit
  <2>5. types \in [concealed : BOOLEAN, at : 0..MaxCount]
    BY NoTypesType DEF HistoryInit
  <2>6. QED
    BY <2>1, <2>2, <2>3, <2>4, <2>5, HistoryAssumption DEF HistoryTypes
<1>2. Range(entries) = {} /\ Range(Saved) = {}
  BY DEF HistoryInit, Saved, Range
<1>3. QED
  BY <1>1, <1>2 DEF HistoryInit, HistoryInv, ShownIsPlain, FileHasNormal, OwnIsSkipped, Copy

LEMMA UserCopiesStep ==
  ASSUME HistoryInv, UserCopies
  PROVE  HistoryInv'
<1>1. PICK v \in Values \cup {NoString}, concealed \in BOOLEAN, transient \in BOOLEAN :
        /\ pasteboard' = Copy(v, concealed, transient, FALSE)
        /\ plain' = IF concealed THEN plain ELSE plain \cup ({v} \ {NoString})
  BY DEF UserCopies
<1>2. pasteboard' = [value |-> v, concealed |-> concealed, transient |-> transient,
                     own |-> FALSE]
  BY <1>1 DEF Copy
<1>3. /\ changeCount' = changeCount + 1 /\ changeCount < MaxCount
      /\ UNCHANGED <<lastChangeCount, ignoreCount, polling, types, entries, wipes, disk,
                     running, torn, stale>>
  BY DEF UserCopies, watcher
<1>4. /\ plain \subseteq plain' /\ plain' \subseteq Values
      /\ ~concealed => v = NoString \/ v \in plain'
  BY <1>1 DEF HistoryInv, HistoryTypes
<1>5. HistoryTypes'
  BY <1>2, <1>3, <1>4, HistoryAssumption DEF HistoryInv, HistoryTypes
<1>6. ShownIsPlain'
  <2>1. Saved' = Saved
    BY <1>3 DEF Saved
  <2>2. \A e \in Range(Saved) : ~e.concealed /\ Showable(e.value)'
    BY <1>3, <1>4 DEF HistoryInv, ShownIsPlain, Showable
  <2>3. \A e \in Range(entries) : e.concealed \/ Showable(e.value)'
    BY <1>3, <1>4 DEF HistoryInv, ShownIsPlain, Showable
  <2>4. /\ changeCount' > 0
        /\ \/ pasteboard'.concealed
           \/ pasteboard'.value = NoString
           \/ Showable(pasteboard.value)'
    BY <1>2, <1>3, <1>4 DEF HistoryInv, HistoryTypes, Showable
  <2>5. polling' = "string" => types'.at \in 0..changeCount' /\ types'.at # changeCount'
    BY <1>3 DEF HistoryInv, HistoryTypes, ShownIsPlain
  <2>6. QED
    BY <1>3, <2>1, <2>2, <2>3, <2>4, <2>5 DEF ShownIsPlain
<1>7. FileHasNormal'
  BY <1>3 DEF HistoryInv, FileHasNormal, Saved
<1>8. OwnIsSkipped'
  BY <1>2 DEF OwnIsSkipped
<1>9. QED
  BY <1>5, <1>6, <1>7, <1>8 DEF HistoryInv

\* What the watcher does before it has the string concerns neither ring nor file.
LEMMA WatchStep ==
  ASSUME HistoryInv, PollIgnores \/ PollSees \/ PollReadsTypes \/ PollSkips
  PROVE  HistoryInv'
<1>1. UNCHANGED <<pasteboard, changeCount, entries, wipes, disk, running, plain, torn, stale>>
  BY DEF PollIgnores, PollSees, PollReadsTypes, PollSkips, noted
<1>2. FileHasNormal'
  BY <1>1 DEF HistoryInv, FileHasNormal, Saved
<1>3. lastChangeCount' \in 0..changeCount /\ ignoreCount' \in Nat
  BY DEF HistoryInv, HistoryTypes, PollIgnores, PollSees, PollReadsTypes, PollSkips
<1>4. /\ polling' \in {"no", "types", "string"}
      /\ types' \in [concealed : BOOLEAN, at : 0..MaxCount]
      /\ polling' # "no" => changeCount > 0
      /\ polling' = "string" =>
           types'.at = changeCount /\ types'.concealed = pasteboard.concealed
  <2>1. CASE PollIgnores
    BY <2>1 DEF HistoryInv, HistoryTypes, ShownIsPlain, Idle, PollIgnores
  <2>2. CASE PollSees
    <3>1. changeCount > 0
      BY <2>2 DEF HistoryInv, HistoryTypes, PollSees
    <3>2. QED
      BY <2>2, <3>1 DEF PollSees, HistoryInv, HistoryTypes
  <2>3. CASE PollSkips
    BY <2>3, NoTypesType DEF PollSkips
  <2>4. CASE PollReadsTypes
    BY <2>4 DEF PollReadsTypes, HistoryInv, HistoryTypes, ShownIsPlain
  <2>5. QED
    BY <2>1, <2>2, <2>3, <2>4
<1>5. HistoryTypes'
  BY <1>1, <1>3, <1>4 DEF HistoryInv, HistoryTypes
<1>6. ShownIsPlain'
  <2>1. Saved' = Saved
    BY <1>1 DEF Saved
  <2>2. changeCount \in Nat
    BY DEF HistoryInv, HistoryTypes
  <2>3. QED
    BY <1>1, <1>4, <2>1, <2>2 DEF HistoryInv, ShownIsPlain, Showable
<1>7. OwnIsSkipped'
  BY <1>1 DEF HistoryInv, HistoryTypes, OwnIsSkipped, Idle, PollIgnores, PollSees,
              PollReadsTypes, PollSkips
<1>8. QED
  BY <1>2, <1>5, <1>6, <1>7 DEF HistoryInv

LEMMA PollAddsStep ==
  ASSUME HistoryInv, PollAdds
  PROVE  HistoryInv'
<1> DEFINE e == Captured
<1>1. e \in Entry
  BY DEF Captured, Entry, HistoryInv, HistoryTypes, PollAdds, Recorded
<1>2. /\ torn \subseteq torn' /\ torn' \subseteq Values
      /\ types.at # changeCount => e.value \in torn'
  BY <1>1 DEF PollAdds, HistoryInv, HistoryTypes, Captured, Entry
<1>3. e.concealed \/ e.value \in plain \/ e.value \in torn'
  <2>1. CASE types.at # changeCount
    BY <1>2, <2>1
  <2>2. CASE types.at = changeCount
    <3>1. changeCount > 0 /\ types.concealed = pasteboard.concealed
      BY <2>2 DEF HistoryInv, ShownIsPlain, PollAdds
    <3>2. e.concealed = pasteboard.concealed /\ e.value = pasteboard.value
      BY <3>1 DEF Captured
    <3>3. e.value # NoString
      BY <3>2 DEF PollAdds, Recorded
    <3>4. QED
      BY <1>2, <3>1, <3>2, <3>3 DEF HistoryInv, ShownIsPlain, Showable
  <2>3. QED
    BY <2>1, <2>2
<1>4. /\ entries' \in Seq(Entry) /\ Len(entries') <= maxEntries
      /\ Range(entries') \subseteq {e} \cup Range(entries)
  <2>1. entries' = Added(e)
    BY DEF PollAdds
  <2>2. QED
    BY <1>1, <2>1, AddedFacts DEF HistoryInv
<1>5. /\ wipes' = IF e.concealed THEN Append(wipes, e.id) ELSE wipes
      /\ \/ e.concealed /\ disk' = disk /\ stale' = stale
         \/ ~e.concealed /\ disk' = <<Normal(entries)'>> /\ stale' = FALSE
         \/ ~e.concealed /\ (disk' = disk \/ disk' = <<>>) /\ stale' = TRUE
  BY DEF PollAdds, ScheduleWipe, Persist
<1>6. /\ polling' = "no" /\ types' = NoTypes
      /\ UNCHANGED <<pasteboard, changeCount, lastChangeCount, ignoreCount, running, plain>>
  BY DEF PollAdds
<1> HIDE DEF e
<1>7. /\ Normal(entries)' \in Seq(Entry) /\ Len(Normal(entries)') <= Len(entries')
      /\ Range(Normal(entries)') = {x \in Range(entries') : ~x.concealed}
  BY <1>4, NormalFacts
<1>8. wipes' \in Seq(0..MaxCount)
  <2>1. wipes \in Seq(0..MaxCount) /\ e.id \in 0..MaxCount
    BY <1>1 DEF Entry, HistoryInv, HistoryTypes
  <2>2. Append(wipes, e.id) \in Seq(0..MaxCount)
    BY <2>1
  <2>3. QED
    BY <1>5, <2>1, <2>2
<1>9. disk' = <<>> \/ \E kept \in Seq(Entry) : disk' = <<kept>> /\ Len(kept) <= maxEntries
  BY <1>4, <1>5, <1>7, HistoryAssumption DEF HistoryInv, HistoryTypes
<1>10. HistoryTypes'
  <2>1. stale' \in BOOLEAN
    BY <1>5 DEF HistoryInv, HistoryTypes
  <2>2. types' \in [concealed : BOOLEAN, at : 0..MaxCount]
    BY <1>6, NoTypesType
  <2>3. QED
    BY <1>2, <1>4, <1>6, <1>8, <1>9, <2>1, <2>2 DEF HistoryInv, HistoryTypes
<1>11. \A x \in Range(entries') : x.concealed \/ Showable(x.value)'
  BY <1>2, <1>3, <1>4, <1>6 DEF HistoryInv, ShownIsPlain, Showable
<1>12. \A x \in Range(Saved') : ~x.concealed /\ Showable(x.value)'
  <2>1. CASE disk' = disk
    <3>1. Saved' = Saved
      BY <2>1 DEF Saved
    <3>2. QED
      BY <1>2, <1>6, <3>1 DEF HistoryInv, ShownIsPlain, Showable
  <2>2. CASE disk' = <<>>
    BY <2>2 DEF Saved, Range
  <2>3. CASE disk' = <<Normal(entries)'>>
    <3>1. Saved' = Normal(entries)'
      BY <2>3 DEF Saved
    <3>2. QED
      BY <1>7, <1>11, <3>1
  <2>4. QED
    BY <1>5, <2>1, <2>2, <2>3
<1>13. ShownIsPlain'
  <2>1. Showable(pasteboard.value) => Showable(pasteboard.value)'
    BY <1>2, <1>6 DEF Showable
  <2>2. QED
    BY <1>6, <1>11, <1>12, <2>1 DEF HistoryInv, ShownIsPlain
<1>14. FileHasNormal'
  <2>1. CASE e.concealed
    <3>1. Saved' = Saved
      BY <1>5, <2>1 DEF Saved
    <3>2. QED
      BY <1>4, <1>5, <2>1, <3>1 DEF HistoryInv, FileHasNormal
  <2>2. CASE disk' = <<Normal(entries)'>>
    <3>1. Saved' = Normal(entries)'
      BY <2>2 DEF Saved
    <3>2. QED
      BY <1>7, <3>1 DEF FileHasNormal
  <2>3. CASE stale' = TRUE
    BY <2>3 DEF FileHasNormal
  <2>4. QED
    BY <1>5, <2>1, <2>2, <2>3
<1>15. OwnIsSkipped'
  BY <1>6 DEF HistoryInv, OwnIsSkipped
<1>16. QED
  BY <1>10, <1>13, <1>14, <1>15 DEF HistoryInv

\* A wipe takes entries away; the file stays as it is.
LEMMA WipeStep ==
  ASSUME HistoryInv, Wipe
  PROVE  HistoryInv'
<1> DEFINE S == {e \in Range(entries) : e.id # Head(wipes)}
<1>1. entries' = Only(entries, S)
  BY DEF Wipe
<1>2. entries \in Seq(Entry) /\ Len(entries) <= maxEntries
  BY DEF HistoryInv, HistoryTypes
<1> HIDE DEF S
<1>3. entries' \in Seq(Entry \cap S) /\ Range(entries') = Range(entries) \cap S
  BY <1>1, <1>2, OnlyFacts, OnlyRange
<1>4. entries' \in Seq(Entry) /\ Len(entries') <= maxEntries
  <2>1. Len(entries') <= Len(entries)
    BY <1>1, <1>2, OnlyIsNoLonger
  <2>2. Len(entries') \in Nat
    BY <1>3
  <2>3. QED
    BY <1>2, <1>3, <2>1, <2>2, HistoryAssumption
<1>5. UNCHANGED <<pasteboard, changeCount, lastChangeCount, ignoreCount, polling, types, disk,
                  running, plain, torn, stale>>
  BY DEF Wipe, watcher, noted
<1>6. wipes' \in Seq(0..MaxCount)
  BY DEF Wipe, HistoryInv, HistoryTypes
<1>7. HistoryTypes'
  BY <1>4, <1>5, <1>6 DEF HistoryInv, HistoryTypes
<1>8. Saved' = Saved
  BY <1>5 DEF Saved
<1>9. ShownIsPlain'
  BY <1>3, <1>5, <1>8 DEF HistoryInv, ShownIsPlain, Showable
<1>10. FileHasNormal'
  BY <1>3, <1>5, <1>8 DEF HistoryInv, FileHasNormal
<1>11. OwnIsSkipped'
  BY <1>5 DEF HistoryInv, OwnIsSkipped
<1>12. QED
  BY <1>7, <1>9, <1>10, <1>11 DEF HistoryInv

LEMMA CopyBackStep ==
  ASSUME HistoryInv, CopyBack
  PROVE  HistoryInv'
<1>1. PICK e \in Range(entries) : pasteboard' = Copy(e.value, e.concealed, FALSE, TRUE)
  BY DEF CopyBack
<1>2. pasteboard' = [value |-> e.value, concealed |-> e.concealed, transient |-> FALSE, own |-> TRUE]
  BY <1>1 DEF Copy
<1>3. e \in Entry
  BY DEF Range, HistoryInv, HistoryTypes
<1>4. e.value \in Values /\ e.concealed \in BOOLEAN
  BY <1>3 DEF Entry
<1>5. /\ changeCount' = changeCount + 1 /\ changeCount < MaxCount
      /\ ignoreCount' = ignoreCount + 1 /\ polling = "no"
      /\ UNCHANGED <<lastChangeCount, polling, types, entries, wipes, disk, running, plain, torn,
                     stale>>
  BY DEF CopyBack, Idle, noted
<1>6. Saved' = Saved
  BY <1>5 DEF Saved
<1>7. HistoryTypes'
  BY <1>2, <1>4, <1>5, HistoryAssumption DEF HistoryInv, HistoryTypes
<1>8. e.concealed \/ Showable(e.value)
  BY <1>1 DEF HistoryInv, ShownIsPlain
<1>9. ShownIsPlain'
  BY <1>2, <1>5, <1>6, <1>8 DEF HistoryInv, ShownIsPlain, Showable
<1>10. FileHasNormal'
  BY <1>5, <1>6 DEF HistoryInv, FileHasNormal
<1>11. OwnIsSkipped'
  BY <1>2, <1>5 DEF HistoryInv, HistoryTypes, OwnIsSkipped
<1>12. QED
  BY <1>7, <1>9, <1>10, <1>11 DEF HistoryInv

LEMMA StopStep ==
  ASSUME HistoryInv, Quit \/ QuitTorn
  PROVE  HistoryInv'
<1>1. /\ UNCHANGED <<pasteboard, changeCount, lastChangeCount, ignoreCount, entries, plain, torn,
                     stale>>
      /\ running' = FALSE /\ polling' = "no" /\ types' = NoTypes /\ wipes' = <<>>
      /\ disk' = disk \/ disk' = <<>>
  BY DEF Quit, QuitTorn, Stop, noted
<1>2. Saved' = Saved \/ Saved' = <<>>
  BY <1>1 DEF Saved
<1>3. Range(Saved') \subseteq Range(Saved)
  BY <1>2 DEF Range
<1>4. HistoryTypes'
  <2>1. wipes' \in Seq(0..MaxCount)
    BY <1>1
  <2>2. /\ polling' \in {"no", "types", "string"} /\ running' \in BOOLEAN
        /\ types' \in [concealed : BOOLEAN, at : 0..MaxCount]
    BY <1>1, NoTypesType
  <2>3. QED
    BY <1>1, <2>1, <2>2 DEF HistoryInv, HistoryTypes
<1>5. ShownIsPlain'
  BY <1>1, <1>3 DEF HistoryInv, ShownIsPlain, Showable
<1>6. FileHasNormal'
  BY <1>1 DEF HistoryInv, FileHasNormal, Saved
<1>7. OwnIsSkipped'
  BY <1>1 DEF HistoryInv, OwnIsSkipped
<1>8. QED
  BY <1>4, <1>5, <1>6, <1>7 DEF HistoryInv

LEMMA LaunchStep ==
  ASSUME HistoryInv, Launch
  PROVE  HistoryInv'
<1>1. /\ UNCHANGED <<pasteboard, changeCount, polling, types, wipes, disk, plain, torn>>
      /\ running' /\ entries' = Saved /\ stale' = FALSE
      /\ lastChangeCount' = changeCount /\ ignoreCount' = 0
  BY DEF Launch
<1>2. Saved' = Saved /\ Saved \in Seq(Entry) /\ Len(Saved) <= maxEntries
  BY <1>1, SavedTypes DEF HistoryInv, Saved
<1>3. HistoryTypes'
  <2>1. lastChangeCount' \in 0..changeCount'
    BY <1>1 DEF HistoryInv, HistoryTypes
  <2>2. running' \in BOOLEAN /\ stale' \in BOOLEAN
    BY <1>1
  <2>3. QED
    BY <1>1, <1>2, <2>1, <2>2 DEF HistoryInv, HistoryTypes
<1>4. ShownIsPlain'
  BY <1>1, <1>2 DEF HistoryInv, ShownIsPlain, Showable
<1>5. FileHasNormal'
  BY <1>1, <1>2 DEF FileHasNormal
<1>6. OwnIsSkipped'
  BY <1>1 DEF HistoryInv, OwnIsSkipped
<1>7. QED
  BY <1>3, <1>4, <1>5, <1>6 DEF HistoryInv

LEMMA HistoryInvStep == HistoryInv /\ [HistoryNext]_historyVars => HistoryInv'
<1> SUFFICES ASSUME HistoryInv, [HistoryNext]_historyVars PROVE HistoryInv'
  OBVIOUS
<1>1. CASE UNCHANGED historyVars
  BY <1>1 DEF historyVars, watcher, noted, HistoryInv, HistoryTypes, ShownIsPlain, Showable,
              FileHasNormal, OwnIsSkipped, Saved
<1>2. QED
  BY <1>1, UserCopiesStep, WatchStep, PollAddsStep, WipeStep, CopyBackStep, StopStep,
     LaunchStep DEF HistoryNext

\* The size of the ring is never exceeded, also after a relaunch, and what the
\* three relations above say always holds.
THEOREM HistoryInvariance == HistorySpec => []HistoryInv
BY HistoryInvInit, HistoryInvStep, PTL DEF HistorySpec

\* What was only ever copied as concealed is not stored and not shown, but for
\* what a poll read under the types of an earlier write.
THEOREM MemoryOnly == HistorySpec => []ConcealedStaysInMemory
<1>1. HistoryInv => ConcealedStaysInMemory
  <2> SUFFICES ASSUME HistoryInv PROVE ConcealedStaysInMemory
    OBVIOUS
  <2>1. Range(Normal(entries)) = {e \in Range(entries) : ~e.concealed}
    BY NormalFacts DEF HistoryInv, HistoryTypes
  <2>2. QED
    BY <2>1 DEF HistoryInv, ShownIsPlain, Showable, ConcealedStaysInMemory
<1>2. QED
  BY <1>1, HistoryInvariance, PTL

\* What copyBack writes is never taken for a copy of the user.
THEOREM OwnWrites == HistorySpec => OwnWriteIsNotRecaptured
<1>1. HistoryInv =>
        [polling = "string" /\ entries' # entries => ~pasteboard.own]_historyVars
  BY DEF HistoryInv, OwnIsSkipped
<1>2. QED
  BY <1>1, HistoryInvariance, PTL DEF OwnWriteIsNotRecaptured

\* A relaunch brings every normal entry back.
THEOREM Relaunches == HistorySpec => NormalSurvivesRelaunch
<1>1. ASSUME HistoryInv, [HistoryNext]_historyVars
      PROVE  [~running /\ running' /\ disk # <<>> /\ ~stale =>
                Range(Normal(entries)) \subseteq Range(entries')]_historyVars
  <2> SUFFICES ASSUME HistoryNext, ~running, running', disk # <<>>, ~stale
               PROVE  Range(Normal(entries)) \subseteq Range(entries')
    BY <1>1
  <2>1. Launch
    BY DEF HistoryNext, UserCopies, Idle, PollIgnores, PollSees, PollReadsTypes,
           PollSkips, PollAdds, Wipe, CopyBack, Quit, QuitTorn, Stop
  <2>2. entries' = Saved
    BY <2>1 DEF Launch
  <2>3. Range(Normal(entries)) = {e \in Range(entries) : ~e.concealed}
    BY <1>1, NormalFacts DEF HistoryInv, HistoryTypes
  <2>4. QED
    BY <1>1, <2>2, <2>3 DEF HistoryInv, FileHasNormal
<1>2. QED
  BY <1>1, HistoryInvariance, PTL DEF HistorySpec, NormalSurvivesRelaunch

-----------------------------------------------------------------------------
(* ChordMonitor *)

Item == [event : Event, tagged : BOOLEAN]

\* What waits in q: events as they were typed, and events posted back.
Untouched(q) == {q[i].event : i \in {j \in 1..Len(q) : ~q[j].tagged}}
Posted(q) == {q[i].event : i \in {j \in 1..Len(q) : q[j].tagged}}

NoneTwice(q) == \A i, j \in 1..Len(q) : q[i].event = q[j].event => i = j

\* Untouched events wait in the order in which they were typed, and so do
\* the posted downs of members.
Sorted(q) ==
  \A i, j \in 1..Len(q) : i < j =>
    /\ ~q[i].tagged /\ ~q[j].tagged => q[i].event.n < q[j].event.n
    /\ q[i].tagged /\ q[j].tagged /\ Fresh(q[i].event) /\ Fresh(q[j].event) =>
         q[i].event.n < q[j].event.n

\* A key that is typed is the last of what waits untouched.
LEMMA TypedFacts ==
  ASSUME NEW q \in Seq(Item), NEW e \in Event, NEW r, r = Append(q, Plain(e))
  PROVE  /\ r \in Seq(Item) /\ Len(r) = Len(q) + 1
         /\ Untouched(r) = Untouched(q) \cup {e} /\ Posted(r) = Posted(q)
         /\ NoneTwice(q) /\ e \notin Untouched(q) \cup Posted(q) => NoneTwice(r)
         /\ Sorted(q) /\ (\A x \in Untouched(q) : x.n < e.n) => Sorted(r)
<1>1. PICK n \in Nat : n = Len(q)
  OBVIOUS
<1>2. PICK it : it = Plain(e) /\ it \in Item /\ it.event = e /\ it.tagged = FALSE
  <2>1. Plain(e) \in Item /\ Plain(e).event = e /\ Plain(e).tagged = FALSE
    BY DEF Plain, Item
  <2>2. QED
    BY <2>1
<1>3. /\ r \in Seq(Item) /\ Len(r) = n + 1
      /\ \A i \in 1..n : r[i] = q[i]
      /\ r[n + 1] = it
  BY <1>1, <1>2
<1>4. \A i \in 1..(n + 1) : i \in 1..n \/ i = n + 1
  OBVIOUS
<1>5. Untouched(r) = Untouched(q) \cup {e}
  BY <1>1, <1>2, <1>3, <1>4 DEF Untouched
<1>6. Posted(r) = Posted(q)
  BY <1>1, <1>2, <1>3, <1>4 DEF Posted
<1>7. \A i \in 1..n : q[i].event \in Untouched(q) \cup Posted(q)
  BY <1>1 DEF Untouched, Posted
<1>8. ASSUME NoneTwice(q), e \notin Untouched(q) \cup Posted(q) PROVE NoneTwice(r)
  BY <1>1, <1>2, <1>3, <1>4, <1>7, <1>8 DEF NoneTwice
<1>9. ASSUME Sorted(q), \A x \in Untouched(q) : x.n < e.n PROVE Sorted(r)
  <2>1. \A i \in 1..n : ~q[i].tagged => q[i].event.n < e.n
    BY <1>1, <1>9 DEF Untouched
  <2> SUFFICES ASSUME NEW i \in 1..(n + 1), NEW j \in 1..(n + 1), i < j
               PROVE  /\ ~r[i].tagged /\ ~r[j].tagged => r[i].event.n < r[j].event.n
                      /\ r[i].tagged /\ r[j].tagged /\ Fresh(r[i].event) /\ Fresh(r[j].event) =>
                           r[i].event.n < r[j].event.n
    BY <1>3 DEF Sorted
  <2>2. CASE j = n + 1
    BY <1>2, <1>3, <2>1, <2>2
  <2>3. CASE j # n + 1
    <3>1. i \in 1..Len(q) /\ j \in 1..Len(q) /\ r[i] = q[i] /\ r[j] = q[j]
      BY <1>1, <1>3, <2>3
    <3>2. QED
      BY <1>9, <3>1 DEF Sorted
  <2>4. QED
    BY <2>2, <2>3
<1>10. QED
  BY <1>1, <1>3, <1>5, <1>6, <1>8, <1>9

\* What handling the head of the queue leaves there.
LEMMA TailFacts ==
  ASSUME NEW q \in Seq(Item), q # <<>>, NEW r, r = Tail(q), NEW e, e = Head(q).event
  PROVE  /\ r \in Seq(Item) /\ Len(r) = Len(q) - 1 /\ Len(q) > 0 /\ e \in Event
         /\ Untouched(q) = Untouched(r) \cup (IF Head(q).tagged THEN {} ELSE {e})
         /\ Posted(q) = Posted(r) \cup (IF Head(q).tagged THEN {e} ELSE {})
         /\ NoneTwice(q) => NoneTwice(r) /\ e \notin Untouched(r) \cup Posted(r)
         /\ Sorted(q) =>
              /\ Sorted(r)
              /\ ~Head(q).tagged => \A x \in Untouched(r) : e.n < x.n
              /\ Head(q).tagged /\ Fresh(e) =>
                   \A x \in Posted(r) : Fresh(x) => e.n < x.n
<1>1. PICK n \in Nat : n + 1 = Len(q)
  OBVIOUS
<1>2. /\ r \in Seq(Item) /\ Len(r) = n
      /\ \A i \in 1..n : r[i] = q[i + 1]
      /\ q[1] = Head(q) /\ q[1] \in Item
  BY <1>1
<1>3. \A i \in 1..(n + 1) : i = 1 \/ (i - 1 \in 1..n /\ q[i] = r[i - 1])
  BY <1>2
<1>4. e \in Event /\ e = q[1].event
  BY <1>2 DEF Item
<1>5. Untouched(q) = Untouched(r) \cup (IF Head(q).tagged THEN {} ELSE {e})
  <2>1. \A i \in 1..n : i + 1 \in 1..(n + 1)
    OBVIOUS
  <2>2. 1 \in 1..(n + 1)
    OBVIOUS
  <2>3. \A x \in Untouched(q) : x \in Untouched(r) \/ (~Head(q).tagged /\ x = e)
    BY <1>1, <1>2, <1>3, <1>4 DEF Untouched
  <2>4. \A x \in Untouched(r) : x \in Untouched(q)
    BY <1>1, <1>2, <2>1 DEF Untouched
  <2>5. ~Head(q).tagged => e \in Untouched(q)
    BY <1>1, <1>2, <1>4, <2>2 DEF Untouched
  <2>6. QED
    BY <2>3, <2>4, <2>5
<1>6. Posted(q) = Posted(r) \cup (IF Head(q).tagged THEN {e} ELSE {})
  <2>1. \A i \in 1..n : i + 1 \in 1..(n + 1)
    OBVIOUS
  <2>2. 1 \in 1..(n + 1)
    OBVIOUS
  <2>3. \A x \in Posted(q) : x \in Posted(r) \/ (Head(q).tagged /\ x = e)
    BY <1>1, <1>2, <1>3, <1>4 DEF Posted
  <2>4. \A x \in Posted(r) : x \in Posted(q)
    BY <1>1, <1>2, <2>1 DEF Posted
  <2>5. Head(q).tagged => e \in Posted(q)
    BY <1>1, <1>2, <1>4, <2>2 DEF Posted
  <2>6. QED
    BY <2>3, <2>4, <2>5
<1>7. ASSUME NoneTwice(q) PROVE NoneTwice(r) /\ e \notin Untouched(r) \cup Posted(r)
  <2>1. NoneTwice(r)
    <3> SUFFICES ASSUME NEW i \in 1..n, NEW j \in 1..n, r[i].event = r[j].event
                 PROVE  i = j
      BY <1>2 DEF NoneTwice
    <3>1. i + 1 \in 1..(n + 1) /\ j + 1 \in 1..(n + 1)
      OBVIOUS
    <3>2. i + 1 = j + 1
      BY <1>1, <1>2, <1>7, <3>1 DEF NoneTwice
    <3>3. QED
      BY <3>2
  <2>2. ASSUME NEW i \in 1..n PROVE r[i].event # e
    <3>1. i + 1 \in 1..(n + 1) /\ 1 \in 1..(n + 1) /\ i + 1 # 1
      OBVIOUS
    <3>2. QED
      BY <1>1, <1>2, <1>4, <1>7, <3>1 DEF NoneTwice
  <2>3. e \notin Untouched(r)
    BY <1>2, <2>2 DEF Untouched
  <2>4. e \notin Posted(r)
    BY <1>2, <2>2 DEF Posted
  <2>5. QED
    BY <2>1, <2>3, <2>4
<1>8. ASSUME Sorted(q)
      PROVE  /\ Sorted(r)
             /\ ~Head(q).tagged => \A x \in Untouched(r) : e.n < x.n
             /\ Head(q).tagged /\ Fresh(e) => \A x \in Posted(r) : Fresh(x) => e.n < x.n
  <2>1. Sorted(r)
    <3> SUFFICES ASSUME NEW i \in 1..n, NEW j \in 1..n, i < j
                 PROVE  /\ ~r[i].tagged /\ ~r[j].tagged => r[i].event.n < r[j].event.n
                        /\ r[i].tagged /\ r[j].tagged /\ Fresh(r[i].event) /\ Fresh(r[j].event) =>
                             r[i].event.n < r[j].event.n
      BY <1>2 DEF Sorted
    <3>1. i + 1 \in 1..(n + 1) /\ j + 1 \in 1..(n + 1) /\ i + 1 < j + 1
      OBVIOUS
    <3>2. QED
      BY <1>1, <1>2, <1>8, <3>1 DEF Sorted
  <2>2. ASSUME NEW i \in 1..n
        PROVE  /\ ~q[1].tagged /\ ~r[i].tagged => e.n < r[i].event.n
               /\ q[1].tagged /\ Fresh(e) /\ r[i].tagged /\ Fresh(r[i].event) => e.n < r[i].event.n
    <3>1. i + 1 \in 1..(n + 1) /\ 1 \in 1..(n + 1) /\ 1 < i + 1
      OBVIOUS
    <3>2. QED
      BY <1>1, <1>2, <1>4, <1>8, <3>1 DEF Sorted
  <2>3. ~Head(q).tagged => \A x \in Untouched(r) : e.n < x.n
    BY <1>2, <2>2 DEF Untouched
  <2>4. Head(q).tagged /\ Fresh(e) => \A x \in Posted(r) : Fresh(x) => e.n < x.n
    BY <1>2, <2>2 DEF Posted
  <2>5. QED
    BY <2>1, <2>3, <2>4
<1>9. QED
  BY <1>1, <1>2, <1>4, <1>5, <1>6, <1>7, <1>8

LEMMA ConcatFacts ==
  ASSUME NEW q \in Seq(Item), NEW t \in Seq(Item)
  PROVE  /\ q \o t \in Seq(Item) /\ Len(q \o t) = Len(q) + Len(t)
         /\ \A i \in 1..Len(q) : (q \o t)[i] = q[i]
         /\ \A i \in 1..Len(t) : (q \o t)[Len(q) + i] = t[i]
<1>1. q \o t \in Seq(Item) /\ Len(q \o t) = Len(q) + Len(t)
  OBVIOUS
<1>2. \A i \in 1..Len(q) : (q \o t)[i] = q[i]
  OBVIOUS
<1>3. \A i \in 1..Len(t) : (q \o t)[Len(q) + i] = t[i]
  OBVIOUS
<1>4. QED
  BY <1>1, <1>2, <1>3

\* What posting events at the end of the queue adds.
LEMMA PostFacts ==
  ASSUME NEW q \in Seq(Item), NEW ps \in Seq(Event),
         NEW r, r = q \o [i \in DOMAIN ps |-> Tagged(ps[i])]
  PROVE  /\ r \in Seq(Item) /\ Len(r) = Len(q) + Len(ps)
         /\ Untouched(r) = Untouched(q) /\ Posted(r) = Posted(q) \cup Range(ps)
         /\ /\ NoneTwice(q)
            /\ \A i, j \in 1..Len(ps) : ps[i] = ps[j] => i = j
            /\ Range(ps) \cap (Untouched(q) \cup Posted(q)) = {}
            => NoneTwice(r)
         /\ /\ Sorted(q)
            /\ \A i, j \in 1..Len(ps) : i < j /\ Fresh(ps[i]) /\ Fresh(ps[j]) => ps[i].n < ps[j].n
            /\ \A x \in Posted(q), y \in Range(ps) : Fresh(x) /\ Fresh(y) => x.n < y.n
            => Sorted(r)
<1>1. PICK n \in Nat, m \in Nat : n = Len(q) /\ m = Len(ps) /\ DOMAIN ps = 1..m
  OBVIOUS
<1>2. PICK t : t = [i \in 1..m |-> Tagged(ps[i])]
  OBVIOUS
<1>3. /\ t \in Seq(Item) /\ Len(t) = m
      /\ \A i \in 1..m : t[i].event = ps[i] /\ t[i].tagged = TRUE
  <2>1. \A i \in 1..m : Tagged(ps[i]) \in Item
    BY <1>1 DEF Tagged, Item
  <2>2. t \in [1..m -> Item]
    BY <1>2, <2>1
  <2>3. \A i \in 1..m : t[i] = [event |-> ps[i], tagged |-> TRUE]
    BY <1>2 DEF Tagged
  <2>4. QED
    BY <2>2, <2>3
<1>4. /\ r \in Seq(Item) /\ Len(r) = n + m
      /\ \A i \in 1..n : r[i] = q[i]
      /\ \A i \in 1..m : r[n + i] = t[i]
  <2>1. r = q \o t
    BY <1>1, <1>2
  <2>2. t \in Seq(Item) /\ m = Len(t) /\ n = Len(q)
    BY <1>1, <1>3
  <2>3. /\ q \o t \in Seq(Item) /\ Len(q \o t) = Len(q) + Len(t)
        /\ \A i \in 1..Len(q) : (q \o t)[i] = q[i]
        /\ \A i \in 1..Len(t) : (q \o t)[Len(q) + i] = t[i]
    <3> HIDE <1>2
    <3> QED BY <2>2, ConcatFacts, Zenon
  <2>4. QED
    BY <2>1, <2>2, <2>3, Zenon
<1> DEFINE New(i, k) == i = n + k /\ r[i].event = ps[k] /\ r[i].tagged = TRUE
<1>5. \A k \in 1..m : n + k \in 1..(n + m) /\ New(n + k, k)
  <2>1. \A k \in 1..m : n + k \in 1..(n + m)
    OBVIOUS
  <2>2. QED
    BY <1>3, <1>4, <2>1
<1>6. ASSUME NEW i \in 1..(n + m) PROVE i \in 1..n \/ \E k \in 1..m : New(i, k)
  <2>1. CASE i \notin 1..n
    <3>1. i - n \in 1..m /\ n + (i - n) = i
      BY <2>1
    <3>2. New(n + (i - n), i - n)
      BY <1>5, <3>1
    <3>3. QED
      BY <3>1, <3>2
  <2>2. QED
    BY <2>1
<1>7. \A i \in 1..n : i \in 1..(n + m)
  OBVIOUS
<1>8. \A i \in 1..m : ps[i] \in Range(ps)
  BY <1>1 DEF Range
<1> HIDE DEF New
<1>9. ASSUME NEW i \in 1..(n + m)
       PROVE  i \in 1..n \/ (r[i].tagged /\ r[i].event \in Range(ps))
  <2>1. CASE i \notin 1..n
    <3>1. PICK k \in 1..m : New(i, k)
      BY <1>6, <2>1
    <3>2. QED
      BY <1>8, <3>1 DEF New
  <2>2. QED
    BY <2>1
<1>10. Untouched(r) = Untouched(q)
  <2>1. \A x \in Untouched(r) : x \in Untouched(q)
    <3> SUFFICES ASSUME NEW i \in 1..(n + m), ~r[i].tagged
                 PROVE  r[i].event \in Untouched(q)
      BY <1>4 DEF Untouched
    <3>1. i \in 1..n /\ r[i] = q[i]
      BY <1>4, <1>9
    <3>2. QED
      BY <1>1, <3>1 DEF Untouched
  <2>2. \A x \in Untouched(q) : x \in Untouched(r)
    <3> SUFFICES ASSUME NEW i \in 1..n, ~q[i].tagged
                 PROVE  q[i].event \in Untouched(r)
      BY <1>1 DEF Untouched
    <3>1. i \in 1..(n + m) /\ r[i] = q[i]
      BY <1>4, <1>7
    <3>2. QED
      BY <1>4, <3>1 DEF Untouched
  <2>3. QED
    BY <2>1, <2>2
<1>11. Posted(r) = Posted(q) \cup Range(ps)
  <2>1. \A x \in Posted(r) : x \in Posted(q) \/ x \in Range(ps)
    <3> SUFFICES ASSUME NEW i \in 1..(n + m), r[i].tagged
                 PROVE  r[i].event \in Posted(q) \/ r[i].event \in Range(ps)
      BY <1>4 DEF Posted
    <3>1. CASE i \in 1..n
      BY <1>1, <1>4, <3>1 DEF Posted
    <3>2. QED
      BY <1>9, <3>1
  <2>2. \A x \in Posted(q) : x \in Posted(r)
    BY <1>1, <1>4, <1>7 DEF Posted
  <2>3. \A i \in 1..m : ps[i] \in Posted(r)
    BY <1>4, <1>5 DEF Posted, New
  <2>4. \A x \in Range(ps) : x \in Posted(r)
    BY <1>1, <2>3 DEF Range
  <2>5. QED
    BY <2>1, <2>2, <2>4
<1>12. \A i \in 1..n : /\ q[i].event \in Untouched(q) \cup Posted(q)
                       /\ q[i].tagged => q[i].event \in Posted(q)
  BY <1>1 DEF Untouched, Posted
<1>13. ASSUME NoneTwice(q),
              \A i, j \in 1..m : ps[i] = ps[j] => i = j,
              Range(ps) \cap (Untouched(q) \cup Posted(q)) = {}
       PROVE  NoneTwice(r)
  <2> SUFFICES ASSUME NEW i \in 1..(n + m), NEW j \in 1..(n + m), r[i].event = r[j].event
               PROVE  i = j
    BY <1>4 DEF NoneTwice
  <2>1. CASE i \in 1..n /\ j \in 1..n
    BY <1>1, <1>4, <1>13, <2>1 DEF NoneTwice
  <2>2. CASE i \in 1..n /\ j \notin 1..n
    BY <1>4, <1>12, <1>13, <1>9, <2>2
  <2>3. CASE i \notin 1..n /\ j \in 1..n
    BY <1>4, <1>12, <1>13, <1>9, <2>3
  <2>4. CASE i \notin 1..n /\ j \notin 1..n
    <3>1. PICK k \in 1..m : New(i, k)
      BY <1>6, <2>4
    <3>2. PICK l \in 1..m : New(j, l)
      BY <1>6, <2>4
    <3>3. k = l
      BY <1>13, <3>1, <3>2 DEF New
    <3>4. QED
      BY <3>1, <3>2, <3>3 DEF New
  <2>5. QED
    BY <2>1, <2>2, <2>3, <2>4
<1>14. ASSUME Sorted(q),
              \A i, j \in 1..m : i < j /\ Fresh(ps[i]) /\ Fresh(ps[j]) => ps[i].n < ps[j].n,
              \A x \in Posted(q), y \in Range(ps) : Fresh(x) /\ Fresh(y) => x.n < y.n
       PROVE  Sorted(r)
  <2> SUFFICES ASSUME NEW i \in 1..(n + m), NEW j \in 1..(n + m), i < j
               PROVE  /\ ~r[i].tagged /\ ~r[j].tagged => r[i].event.n < r[j].event.n
                      /\ r[i].tagged /\ r[j].tagged /\ Fresh(r[i].event) /\ Fresh(r[j].event) =>
                           r[i].event.n < r[j].event.n
    BY <1>4 DEF Sorted
  <2>1. CASE j \in 1..n
    BY <1>1, <1>4, <1>14, <2>1 DEF Sorted
  <2>2. CASE i \in 1..n /\ j \notin 1..n
    BY <1>4, <1>12, <1>14, <1>9, <2>2
  <2>3. CASE i \notin 1..n
    <3>1. PICK k \in 1..m : New(i, k)
      BY <1>6, <2>3
    <3>2. j \notin 1..n
      BY <2>3
    <3>3. PICK l \in 1..m : New(j, l)
      BY <1>6, <3>2
    <3>4. k < l
      BY <3>1, <3>3 DEF New
    <3>5. QED
      BY <1>14, <3>1, <3>3, <3>4 DEF New
  <2>4. QED
    BY <2>1, <2>2, <2>3
<1>15. QED
  BY <1>1, <1>4, <1>10, <1>11, <1>13, <1>14

-----------------------------------------------------------------------------

ChordTypes ==
  /\ held \subseteq Keys /\ typed \in 0..MaxEvents
  /\ queue \in Seq(Item) /\ out \in Seq(Event) /\ pending \in Seq(Event)
  /\ eaten \subseteq Event /\ IsFiniteSet(eaten)
  /\ disables \in Nat

\* What is held back in each state.
Holding ==
  /\ state \in {"idle", "holdingFirst", "holdingBoth", "fired"}
  /\ state \in {"idle", "fired"} => Len(pending) = 0
  /\ state = "holdingFirst" => Len(pending) = 1
  /\ state = "holdingBoth" => Len(pending) = 2 /\ pending[1].key # pending[2].key
  /\ \A i \in 1..Len(pending) : Fresh(pending[i])

\* q, p, o, S are what waits, is held back, was delivered and was swallowed.
Everywhere(q, p, o, S) == Untouched(q) \cup Posted(q) \cup Range(p) \cup Range(o) \cup S

Accounted(q, p, o, S, t) ==
  /\ Numbers(Everywhere(q, p, o, S)) = 1..t
  /\ Len(q) + Len(p) + Len(o) + Cardinality(S) = t

\* No event is in two places.
Apart(q, p, S) ==
  /\ NoneTwice(q)
  /\ \A i, j \in 1..Len(p) : p[i] = p[j] => i = j
  /\ Range(p) \cap (Untouched(q) \cup Posted(q)) = {}
  /\ S \cap (Untouched(q) \cup Posted(q) \cup Range(p)) = {}

Once(q, p, o, S, t) == Accounted(q, p, o, S, t) /\ Apart(q, p, S)

OnceInv == ChordTypes /\ Holding /\ Once(queue, pending, out, eaten, typed)

Up(x, k) == x.kind = "up" /\ x.key = k
Downs(x, k) == x.kind = "down" /\ x.key = k

\* Delivered, posted, held back, not seen: the chord keys are in the order
\* in which they were typed, and what was not seen is newest.  No release of a
\* held-back key was handled since it was pressed.
InOrder(q, p, o, S) ==
  /\ Sorted(q)
  /\ \A i, j \in 1..Len(o) : i < j /\ Fresh(o[i]) /\ Fresh(o[j]) => o[i].n < o[j].n
  /\ \A x \in Range(o), y \in Posted(q) : Fresh(x) /\ Fresh(y) => x.n < y.n
  /\ \A x \in Range(o) \cup Posted(q), d \in Range(p) : Fresh(x) => x.n < d.n
  /\ \A i, j \in 1..Len(p) : i < j => p[i].n < p[j].n
  /\ \A x \in Posted(q) \cup Range(p) \cup Range(o) \cup S, y \in Untouched(q) : x.n < y.n
  /\ \A x \in Posted(q) \cup Range(o) \cup S, d \in Range(p) : Up(x, d.key) => x.n < d.n

\* Between two presses of a key that were not both handled its release waits,
\* and so it does after a press of a key that is not down.
Alternates(q, p, h) ==
  /\ \A x \in Range(p) \cup Untouched(q), y \in Untouched(q) :
       x.kind = "down" /\ Downs(y, x.key) /\ x.n < y.n =>
         \E u \in Untouched(q) : Up(u, x.key) /\ x.n < u.n /\ u.n < y.n
  /\ \A x \in Range(p) \cup Untouched(q) :
       x.kind = "down" /\ x.key \notin h => \E u \in Untouched(q) : Up(u, x.key) /\ x.n < u.n

OrderInv ==
  disables = 0 =>
    tapOn /\ InOrder(queue, pending, out, eaten) /\ Alternates(queue, pending, held)

-----------------------------------------------------------------------------

LEMMA AppendRange ==
  ASSUME NEW s \in Seq(Event), NEW e \in Event
  PROVE  /\ Append(s, e) \in Seq(Event) /\ Len(Append(s, e)) = Len(s) + 1
         /\ Range(Append(s, e)) = Range(s) \cup {e}
         /\ \A i \in 1..(Len(s) + 1) :
              \/ i \in 1..Len(s) /\ Append(s, e)[i] = s[i]
              \/ i = Len(s) + 1 /\ Append(s, e)[i] = e
<1>0. PICK n \in Nat : n = Len(s)
  OBVIOUS
<1>1. PICK t : t = Append(s, e)
  OBVIOUS
<1>2. /\ t \in Seq(Event) /\ Len(t) = n + 1 /\ DOMAIN t = 1..(n + 1) /\ DOMAIN s = 1..n
      /\ \A i \in 1..n : t[i] = s[i]
      /\ t[n + 1] = e
  BY <1>0, <1>1
<1>3. \A i \in 1..(n + 1) : i \in 1..n \/ i = n + 1
  OBVIOUS
<1>4. \A i \in 1..n : i \in 1..(n + 1)
  OBVIOUS
<1>5. Range(t) = Range(s) \cup {e}
  <2>1. \A x \in Range(t) : x \in Range(s) \cup {e}
    BY <1>2, <1>3 DEF Range
  <2>2. \A x \in Range(s) : x \in Range(t)
    BY <1>2, <1>4 DEF Range
  <2>3. e \in Range(t)
    BY <1>2 DEF Range
  <2>4. QED
    BY <2>1, <2>2, <2>3
<1>6. QED
  BY <1>0, <1>1, <1>2, <1>3, <1>5

LEMMA NoRange ==
  ASSUME NEW T, NEW s \in Seq(T), Len(s) = 0
  PROVE  Range(s) = {} /\ s = <<>>
<1>1. s = <<>>
  OBVIOUS
<1>2. QED
  BY <1>1 DEF Range

LEMMA RangeOf ==
  ASSUME NEW T, NEW s \in Seq(T)
  PROVE  /\ Range(s) \subseteq T
         /\ \A x \in Range(s) : \E i \in 1..Len(s) : x = s[i]
         /\ \A i \in 1..Len(s) : s[i] \in Range(s)
BY DEF Range

\* The event at the head leaves, and the events ps are posted.
MovedTo(q, ps, r) == q # <<>> /\ r = Tail(q) \o [i \in DOMAIN ps |-> Tagged(ps[i])]

\* U and P are what is left of the untouched and of the posted ones.
Remains(q, ps, r, e, U, P) ==
  /\ Untouched(q) = U \cup (IF Head(q).tagged THEN {} ELSE {e})
  /\ Posted(q) = P \cup (IF Head(q).tagged THEN {e} ELSE {})
  /\ Untouched(r) = U /\ Posted(r) = P \cup Range(ps)
  /\ NoneTwice(q) => e \notin U \cup P
  /\ /\ NoneTwice(q)
     /\ \A i, j \in 1..Len(ps) : ps[i] = ps[j] => i = j
     /\ Range(ps) \cap (U \cup P) = {}
     => NoneTwice(r)
  /\ Sorted(q) =>
       /\ ~Head(q).tagged => \A x \in U : e.n < x.n
       /\ Head(q).tagged /\ Fresh(e) => \A x \in P : Fresh(x) => e.n < x.n
  /\ /\ Sorted(q)
     /\ \A i, j \in 1..Len(ps) : i < j /\ Fresh(ps[i]) /\ Fresh(ps[j]) => ps[i].n < ps[j].n
     /\ \A x \in P, y \in Range(ps) : Fresh(x) /\ Fresh(y) => x.n < y.n
     => Sorted(r)

LEMMA MoveFacts ==
  ASSUME NEW q \in Seq(Item), NEW ps \in Seq(Event), NEW r, MovedTo(q, ps, r),
         NEW e, e = Head(q).event
  PROVE  /\ r \in Seq(Item) /\ Len(r) = Len(q) - 1 + Len(ps) /\ Len(q) > 0 /\ e \in Event
         /\ \E U, P : Remains(q, ps, r, e, U, P)
<1>1. PICK s : s = Tail(q)
  OBVIOUS
<1>2. q # <<>> /\ r = s \o [i \in DOMAIN ps |-> Tagged(ps[i])]
  BY <1>1 DEF MovedTo
<1> DEFINE U == Untouched(s)
           P == Posted(s)
<1>3. /\ s \in Seq(Item) /\ Len(s) = Len(q) - 1 /\ Len(q) > 0 /\ e \in Event
      /\ Untouched(q) = U \cup (IF Head(q).tagged THEN {} ELSE {e})
      /\ Posted(q) = P \cup (IF Head(q).tagged THEN {e} ELSE {})
      /\ NoneTwice(q) => NoneTwice(s) /\ e \notin U \cup P
      /\ Sorted(q) =>
           /\ Sorted(s)
           /\ ~Head(q).tagged => \A x \in U : e.n < x.n
           /\ Head(q).tagged /\ Fresh(e) => \A x \in P : Fresh(x) => e.n < x.n
  BY <1>1, <1>2, TailFacts, Zenon
<1>4. /\ r \in Seq(Item) /\ Len(r) = Len(s) + Len(ps)
      /\ Untouched(r) = U /\ Posted(r) = P \cup Range(ps)
      /\ /\ NoneTwice(s)
         /\ \A i, j \in 1..Len(ps) : ps[i] = ps[j] => i = j
         /\ Range(ps) \cap (U \cup P) = {}
         => NoneTwice(r)
      /\ /\ Sorted(s)
         /\ \A i, j \in 1..Len(ps) : i < j /\ Fresh(ps[i]) /\ Fresh(ps[j]) => ps[i].n < ps[j].n
         /\ \A x \in P, y \in Range(ps) : Fresh(x) /\ Fresh(y) => x.n < y.n
         => Sorted(r)
  <2>1. s \in Seq(Item) /\ ps \in Seq(Event)
    BY <1>3
  <2>2. r = s \o [i \in DOMAIN ps |-> Tagged(ps[i])]
    BY <1>2
  <2>3. QED
    BY <2>1, <2>2, PostFacts, ZenonT(40)
<1>5. Len(r) = Len(q) - 1 + Len(ps)
  BY <1>3, <1>4
<1> HIDE DEF U, P
<1>6. Remains(q, ps, r, e, U, P)
  BY <1>3, <1>4 DEF Remains
<1>7. QED
  BY <1>3, <1>4, <1>5, <1>6

\* The event e of the head and what was held back go to ps, p2, o2 and S2.
Shared(e, p, o, S, ps, p2, o2, S2) ==
  /\ {e} \cup Range(p) \cup Range(o) \cup S = Range(ps) \cup Range(p2) \cup Range(o2) \cup S2
  /\ 1 + Len(p) + Len(o) + Cardinality(S) = Len(ps) + Len(p2) + Len(o2) + Cardinality(S2)
  /\ \A i, j \in 1..Len(ps) : ps[i] = ps[j] => i = j
  /\ \A i, j \in 1..Len(p2) : p2[i] = p2[j] => i = j
  /\ Range(ps) \cup Range(p2) \subseteq Range(p) \cup {e}
  /\ S2 \subseteq S \cup {e}
  /\ Range(ps) \cap Range(p2) = {}
  /\ S2 \cap (Range(ps) \cup Range(p2)) = {}

LEMMA MoveKeeps ==
  ASSUME NEW q \in Seq(Item), NEW p \in Seq(Event), NEW o \in Seq(Event),
         NEW S \in SUBSET Event, IsFiniteSet(S), NEW t, Once(q, p, o, S, t),
         NEW ps \in Seq(Event), NEW r, MovedTo(q, ps, r), NEW e, e = Head(q).event,
         NEW p2 \in Seq(Event), NEW o2 \in Seq(Event),
         NEW S2 \in SUBSET Event, IsFiniteSet(S2),
         Shared(e, p, o, S, ps, p2, o2, S2)
  PROVE  Once(r, p2, o2, S2, t)
<1>1. /\ r \in Seq(Item) /\ Len(r) = Len(q) - 1 + Len(ps) /\ Len(q) > 0
      /\ \E U, P : Remains(q, ps, r, e, U, P)
  BY MoveFacts
<1>2. PICK U, P :
        /\ Untouched(q) \cup Posted(q) = U \cup P \cup {e}
        /\ Untouched(r) = U /\ Posted(r) = P \cup Range(ps)
        /\ e \notin U \cup P
        /\ Range(ps) \cap (U \cup P) = {} => NoneTwice(r)
  BY <1>1 DEF Once, Apart, Remains, Shared
<1>3. (Range(p) \cup S) \cap (U \cup P) = {}
  BY <1>2 DEF Once, Apart
<1>4. Range(ps) \cap (U \cup P) = {}
  BY <1>2, <1>3 DEF Shared
<1>5. Apart(r, p2, S2)
  <2>1. Range(p2) \cap (U \cup P \cup Range(ps)) = {}
    BY <1>2, <1>3 DEF Shared
  <2>2. S2 \cap (U \cup P \cup Range(ps) \cup Range(p2)) = {}
    BY <1>2, <1>3 DEF Shared
  <2>3. QED
    BY <1>2, <1>4, <2>1, <2>2 DEF Apart, Shared
<1>6. Everywhere(r, p2, o2, S2) = Everywhere(q, p, o, S)
  <2>1. Everywhere(q, p, o, S) = U \cup P \cup ({e} \cup Range(p) \cup Range(o) \cup S)
    BY <1>2 DEF Everywhere
  <2>2. Everywhere(r, p2, o2, S2)
          = U \cup P \cup (Range(ps) \cup Range(p2) \cup Range(o2) \cup S2)
    BY <1>2 DEF Everywhere
  <2>3. QED
    BY <2>1, <2>2 DEF Shared
<1>7. Len(r) + Len(p2) + Len(o2) + Cardinality(S2) = Len(q) + Len(p) + Len(o) + Cardinality(S)
  <2>1. /\ Len(q) \in Nat /\ Len(p) \in Nat /\ Len(o) \in Nat
        /\ Len(p2) \in Nat /\ Len(o2) \in Nat /\ Len(ps) \in Nat
    OBVIOUS
  <2>2. Cardinality(S) \in Nat /\ Cardinality(S2) \in Nat
    BY FS_CardinalityType
  <2>3. Len(q) - 1 + Len(ps) + Len(p2) + Len(o2) + Cardinality(S2)
          = Len(q) + Len(p) + Len(o) + Cardinality(S)
    <3>1. 1 + Len(p) + Len(o) + Cardinality(S)
            = Len(ps) + Len(p2) + Len(o2) + Cardinality(S2)
      BY DEF Shared
    <3>2. PICK a \in Nat, b \in Nat, c \in Nat, d \in Nat, f \in Nat, b2 \in Nat, c2 \in Nat,
               d2 \in Nat :
                 /\ a = Len(q) /\ b = Len(p) /\ c = Len(o) /\ d = Cardinality(S)
                 /\ f = Len(ps) /\ b2 = Len(p2) /\ c2 = Len(o2) /\ d2 = Cardinality(S2)
      BY <2>1, <2>2, Zenon
    <3>3. 1 + b + c + d = f + b2 + c2 + d2
      BY <3>1, <3>2, Zenon
    <3>4. a - 1 + f + b2 + c2 + d2 = a + b + c + d
      BY <3>3
    <3>5. QED
      BY <3>2, <3>4, Zenon
  <2>4. QED
    BY <1>1, <2>3, Zenon
<1>8. QED
  BY <1>5, <1>6, <1>7 DEF Once, Accounted

\* The five ways in which the tap deals with an event: it is delivered, held
\* back or swallowed, or the held events are posted before or with it.
LEMMA FiveWays ==
  ASSUME NEW q \in Seq(Item), NEW p \in Seq(Event), NEW o \in Seq(Event),
         NEW S \in SUBSET Event, IsFiniteSet(S), NEW t, Once(q, p, o, S, t),
         NEW ps \in Seq(Event), NEW r, MovedTo(q, ps, r), NEW e, e = Head(q).event
  PROVE  /\ ps = <<>> => /\ Once(r, p, Append(o, e), S, t)
                         /\ Once(r, Append(p, e), o, S, t)
                         /\ Once(r, p, o, S \cup {e}, t)
         /\ ps = p => Once(r, <<>>, Append(o, e), S, t)
         /\ ps = Append(p, e) => Once(r, <<>>, o, S, t)
<1>1. /\ e \in Event /\ Len(q) > 0
      /\ \E U, P : Remains(q, ps, r, e, U, P)
  BY MoveFacts
<1>2. e \in Untouched(q) \cup Posted(q)
  BY <1>1 DEF Remains
<1>3. /\ e \notin Range(p) /\ e \notin S /\ S \cap Range(p) = {}
      /\ \A i, j \in 1..Len(p) : p[i] = p[j] => i = j
  BY <1>2 DEF Once, Apart
<1>4. /\ Append(o, e) \in Seq(Event) /\ Len(Append(o, e)) = Len(o) + 1
      /\ Range(Append(o, e)) = Range(o) \cup {e}
  BY <1>1, AppendRange
<1>5. /\ Append(p, e) \in Seq(Event) /\ Len(Append(p, e)) = Len(p) + 1
      /\ Range(Append(p, e)) = Range(p) \cup {e}
      /\ \A i, j \in 1..(Len(p) + 1) : Append(p, e)[i] = Append(p, e)[j] => i = j
  <2>1. /\ Append(p, e) \in Seq(Event) /\ Len(Append(p, e)) = Len(p) + 1
        /\ Range(Append(p, e)) = Range(p) \cup {e}
        /\ \A i \in 1..(Len(p) + 1) :
             \/ i \in 1..Len(p) /\ Append(p, e)[i] = p[i]
             \/ i = Len(p) + 1 /\ Append(p, e)[i] = e
    BY <1>1, AppendRange
  <2>2. \A i \in 1..Len(p) : p[i] # e
    BY <1>3, RangeOf
  <2>3. \A i, j \in 1..(Len(p) + 1) : Append(p, e)[i] = Append(p, e)[j] => i = j
    BY <1>3, <2>1, <2>2, Zenon
  <2>4. QED
    BY <2>1, <2>3
<1>6. <<>> \in Seq(Event) /\ Len(<<>>) = 0 /\ Range(<<>>) = {}
  BY DEF Range
<1>7. /\ IsFiniteSet(S \cup {e}) /\ Cardinality(S \cup {e}) = Cardinality(S) + 1
      /\ Cardinality(S) \in Nat
  BY <1>3, FS_AddElement, FS_CardinalityType
<1>8. Len(p) \in Nat /\ Len(o) \in Nat
  OBVIOUS
<1>9. \A i, j \in 1..Len(<<>>) : FALSE
  BY <1>6
<1>10. ASSUME ps = <<>> PROVE Once(r, p, Append(o, e), S, t)
  <2>1. Shared(e, p, o, S, ps, p, Append(o, e), S)
    BY <1>3, <1>4, <1>6, <1>7, <1>8, <1>9, <1>10 DEF Shared
  <2>2. QED
    BY <1>4, <1>5, <1>6, <1>7, <2>1, MoveKeeps
<1>11. ASSUME ps = <<>> PROVE Once(r, Append(p, e), o, S, t)
  <2>1. Shared(e, p, o, S, ps, Append(p, e), o, S)
    BY <1>3, <1>5, <1>6, <1>7, <1>8, <1>9, <1>11 DEF Shared
  <2>2. QED
    BY <1>4, <1>5, <1>6, <1>7, <2>1, MoveKeeps
<1>12. ASSUME ps = <<>> PROVE Once(r, p, o, S \cup {e}, t)
  <2>1. Shared(e, p, o, S, ps, p, o, S \cup {e})
    BY <1>1, <1>3, <1>6, <1>7, <1>8, <1>9, <1>12 DEF Shared
  <2>2. QED
    BY <1>1, <1>7, <2>1, MoveKeeps
<1>13. ASSUME ps = p PROVE Once(r, <<>>, Append(o, e), S, t)
  <2>1. Shared(e, p, o, S, ps, <<>>, Append(o, e), S)
    BY <1>3, <1>4, <1>6, <1>7, <1>8, <1>9, <1>13 DEF Shared
  <2>2. QED
    BY <1>4, <1>5, <1>6, <1>7, <2>1, MoveKeeps
<1>14. ASSUME ps = Append(p, e) PROVE Once(r, <<>>, o, S, t)
  <2>1. Shared(e, p, o, S, ps, <<>>, o, S)
    BY <1>3, <1>5, <1>6, <1>7, <1>8, <1>9, <1>14 DEF Shared
  <2>2. QED
    BY <1>4, <1>5, <1>6, <1>7, <2>1, MoveKeeps
<1>15. QED
  BY <1>10, <1>11, <1>12, <1>13, <1>14

\* What was held back is posted: no event is lost or doubled by it.
LEMMA ReplayOnce ==
  ASSUME NEW q \in Seq(Item), NEW p \in Seq(Event), NEW o \in Seq(Event),
         NEW S \in SUBSET Event, IsFiniteSet(S), NEW t, Once(q, p, o, S, t),
         NEW r, r = q \o [i \in DOMAIN p |-> Tagged(p[i])]
  PROVE  Once(r, <<>>, o, S, t)
<1>1. /\ r \in Seq(Item) /\ Len(r) = Len(q) + Len(p)
      /\ Untouched(r) = Untouched(q) /\ Posted(r) = Posted(q) \cup Range(p)
      /\ /\ NoneTwice(q)
         /\ \A i, j \in 1..Len(p) : p[i] = p[j] => i = j
         /\ Range(p) \cap (Untouched(q) \cup Posted(q)) = {}
         => NoneTwice(r)
  BY PostFacts, ZenonT(40)
<1>2. <<>> \in Seq(Event) /\ Len(<<>>) = 0 /\ Range(<<>>) = {}
  BY DEF Range
<1>3. NoneTwice(r)
  BY <1>1 DEF Once, Apart
<1>4. Apart(r, <<>>, S)
  BY <1>1, <1>2, <1>3 DEF Once, Apart
<1>5. Everywhere(r, <<>>, o, S) = Everywhere(q, p, o, S)
  BY <1>1, <1>2 DEF Everywhere
<1>6. Len(r) + Len(<<>>) + Len(o) + Cardinality(S) = Len(q) + Len(p) + Len(o) + Cardinality(S)
  <2>1. Len(q) \in Nat /\ Len(p) \in Nat /\ Len(o) \in Nat /\ Cardinality(S) \in Nat
    BY FS_CardinalityType
  <2>2. Len(r) + 0 = Len(q) + Len(p)
    BY <1>1, <2>1
  <2>3. QED
    BY <1>2, <2>2, Zenon
<1>7. QED
  BY <1>4, <1>5, <1>6 DEF Once, Accounted

\* The chord has fired: what was held back is swallowed for good.
LEMMA FireOnce ==
  ASSUME NEW q \in Seq(Item), NEW p \in Seq(Event), NEW o \in Seq(Event),
         NEW S \in SUBSET Event, IsFiniteSet(S), NEW t, Once(q, p, o, S, t), Len(p) = 2
  PROVE  Once(q, <<>>, o, S \cup Range(p), t) /\ IsFiniteSet(S \cup Range(p))
<1>1. <<>> \in Seq(Event) /\ Len(<<>>) = 0 /\ Range(<<>>) = {}
  BY DEF Range
<1>2. p[1] # p[2] /\ p[1] \notin S /\ p[2] \notin S /\ Range(p) = {p[1], p[2]}
  <2>1. Range(p) = {p[1], p[2]}
    BY DEF Range
  <2>2. p[1] # p[2]
    BY DEF Once, Apart
  <2>3. QED
    BY <2>1, <2>2 DEF Once, Apart
<1>3. IsFiniteSet(S \cup {p[1]}) /\ Cardinality(S \cup {p[1]}) = Cardinality(S) + 1
  BY <1>2, FS_AddElement
<1>4. /\ IsFiniteSet((S \cup {p[1]}) \cup {p[2]})
      /\ Cardinality((S \cup {p[1]}) \cup {p[2]}) = Cardinality(S) + 1 + 1
  BY <1>2, <1>3, FS_AddElement
<1>5. (S \cup {p[1]}) \cup {p[2]} = S \cup Range(p)
  BY <1>2
<1>6. Apart(q, <<>>, S \cup Range(p))
  BY <1>1 DEF Once, Apart
<1>7. Everywhere(q, <<>>, o, S \cup Range(p)) = Everywhere(q, p, o, S)
  BY <1>1 DEF Everywhere
<1>8. Len(q) + Len(<<>>) + Len(o) + Cardinality(S \cup Range(p))
        = Len(q) + Len(p) + Len(o) + Cardinality(S)
  <2>1. PICK a \in Nat, b \in Nat, c \in Nat : a = Len(q) /\ b = Len(o) /\ c = Cardinality(S)
    BY FS_CardinalityType
  <2>2. a + 0 + b + (c + 1 + 1) = a + 2 + b + c
    OBVIOUS
  <2>3. QED
    BY <1>1, <1>4, <1>5, <2>1, <2>2, Zenon
<1>9. QED
  BY <1>4, <1>5, <1>6, <1>7, <1>8 DEF Once, Accounted

LEMMA TypeOnce ==
  ASSUME NEW q \in Seq(Item), NEW p \in Seq(Event), NEW o \in Seq(Event),
         NEW S \in SUBSET Event, IsFiniteSet(S), NEW t \in Nat, Once(q, p, o, S, t),
         NEW e \in Event, e.n = t + 1, NEW r, r = Append(q, Plain(e))
  PROVE  Once(r, p, o, S, t + 1) /\ \A x \in Everywhere(q, p, o, S) : x.n \in 1..t
<1>1. /\ r \in Seq(Item) /\ Len(r) = Len(q) + 1
      /\ Untouched(r) = Untouched(q) \cup {e} /\ Posted(r) = Posted(q)
      /\ NoneTwice(q) /\ e \notin Untouched(q) \cup Posted(q) => NoneTwice(r)
  BY TypedFacts, ZenonT(40)
<1>2. \A x \in Everywhere(q, p, o, S) : x.n \in 1..t
  BY DEF Once, Accounted, Numbers
<1>3. e \notin Everywhere(q, p, o, S)
  BY <1>2
<1>4. Apart(r, p, S)
  BY <1>1, <1>3 DEF Once, Apart, Everywhere
<1>5. Numbers(Everywhere(r, p, o, S)) = 1..(t + 1)
  <2>1. Everywhere(r, p, o, S) = Everywhere(q, p, o, S) \cup {e}
    BY <1>1 DEF Everywhere
  <2>2. Numbers(Everywhere(q, p, o, S) \cup {e}) = Numbers(Everywhere(q, p, o, S)) \cup {t + 1}
    BY DEF Numbers
  <2>3. (1..t) \cup {t + 1} = 1..(t + 1)
    OBVIOUS
  <2>4. QED
    BY <2>1, <2>2, <2>3 DEF Once, Accounted
<1>6. Len(r) + Len(p) + Len(o) + Cardinality(S) = t + 1
  <2>1. PICK a \in Nat, b \in Nat, c \in Nat, d \in Nat :
          a = Len(q) /\ b = Len(p) /\ c = Len(o) /\ d = Cardinality(S)
    BY FS_CardinalityType
  <2>2. a + b + c + d = t
    BY <2>1 DEF Once, Accounted
  <2>3. (a + 1) + b + c + d = t + 1
    BY <2>2
  <2>4. QED
    BY <1>1, <2>1, <2>3, Zenon
<1>7. QED
  BY <1>2, <1>4, <1>5, <1>6 DEF Once, Accounted

-----------------------------------------------------------------------------

\* What the tap does with the event e at the head of the queue.
Delivered(e) ==
  /\ MovedTo(queue, <<>>, queue') /\ out' = Append(out, e)
  /\ UNCHANGED <<eaten, pending, state>>
  /\ Head(queue).tagged \/ (~Fresh(e) /\ \A d \in Range(pending) : ~Up(e, d.key))

HeldBack(e) ==
  /\ MovedTo(queue, <<>>, queue') /\ pending' = Append(pending, e)
  /\ UNCHANGED <<eaten, out>>
  /\ ~Head(queue).tagged /\ Fresh(e)
  /\ \/ state = "idle" /\ state' = "holdingFirst"
     \/ state = "holdingFirst" /\ e.key # pending[1].key /\ state' = "holdingBoth"

Swallowed(e) ==
  /\ MovedTo(queue, <<>>, queue') /\ eaten' = eaten \cup {e}
  /\ UNCHANGED <<pending, out>>
  /\ ~Head(queue).tagged
  /\ \/ e.kind = "repeat" /\ UNCHANGED state
     \/ state = "fired" /\ state' \in {"idle", "fired"}

Interrupted(e) ==
  /\ MovedTo(queue, pending, queue') /\ out' = Append(out, e) /\ pending' = <<>>
  /\ UNCHANGED eaten /\ state' = "idle"
  /\ ~Head(queue).tagged
  /\ Fresh(e) => state = "holdingBoth" \/ (state = "holdingFirst" /\ e.key = pending[1].key)

Returned(e) ==
  /\ MovedTo(queue, Append(pending, e), queue') /\ pending' = <<>>
  /\ UNCHANGED <<eaten, out>> /\ state' = "idle"
  /\ ~Head(queue).tagged /\ ~Fresh(e)

LEMMA HandleWays ==
  ASSUME ChordTypes, Holding, Handle
  PROVE  /\ tapOn /\ queue # <<>> /\ UNCHANGED <<held, typed, tapOn, disables>>
         /\ \E e : /\ e = Head(queue).event
                   /\ \/ Delivered(e) \/ HeldBack(e) \/ Swallowed(e) \/ Interrupted(e)
                      \/ Returned(e)
<1>1. queue # <<>>
  BY DEF Handle
<1>2. PICK e : /\ e = Head(queue).event
               /\ \/ PassTagged(e) \/ HoldFirst(e) \/ HoldSecond(e) \/ DropRepeat(e)
                  \/ Interrupt(e) \/ ReleaseEarly(e) \/ SwallowFired(e) \/ PassThrough(e)
  BY DEF Handle
<1>3. e \in Event
  BY <1>1, <1>2, MoveFacts DEF ChordTypes, MovedTo
<1>4. \A t : Asked(e, t) => Head(queue).tagged = t
  BY DEF Asked
<1>5. \A x \in Range(pending) : Fresh(x)
  BY RangeOf DEF ChordTypes, Holding
<1>6. Len(pending) = 0 => pending = <<>> /\ Range(pending) = {}
  BY NoRange DEF ChordTypes
<1> DEFINE Kept == tapOn /\ UNCHANGED <<held, typed, tapOn, disables>>
<1>7. CASE PassTagged(e)
  <2>1. Kept
    BY <1>7 DEF PassTagged, Asked, Pass, PassAfter, world
  <2>2. MovedTo(queue, <<>>, queue')
    BY <1>1, <1>7, Zenon DEF MovedTo, PassTagged, Pass, PassAfter
  <2>3. Head(queue).tagged = TRUE
    <3>1. Asked(e, TRUE)
      BY <1>7, Zenon DEF PassTagged
    <3>2. QED
      BY <1>4, <3>1
  <2>4. Delivered(e)
    BY <1>7, <2>2, <2>3 DEF Delivered, PassTagged, Pass, PassAfter, chord
  <2>5. QED
    BY <1>1, <1>2, <2>1, <2>4
<1>8. CASE HoldFirst(e)
  <2>1. Kept
    BY <1>8 DEF HoldFirst, Asked, KeepAfter, world
  <2>2. Append(pending, e) = <<e>>
    BY <1>6, <1>8 DEF HoldFirst, Holding
  <2>3. MovedTo(queue, <<>>, queue')
    BY <1>1, <1>8, Zenon DEF MovedTo, HoldFirst, KeepAfter
  <2>4. Head(queue).tagged = FALSE
    <3>1. Asked(e, FALSE)
      BY <1>8, Zenon DEF HoldFirst
    <3>2. QED
      BY <1>4, <3>1
  <2>5. HeldBack(e)
    BY <1>8, <2>2, <2>3, <2>4 DEF HeldBack, HoldFirst, KeepAfter
  <2>6. QED
    BY <1>1, <1>2, <2>1, <2>5
<1>9. CASE HoldSecond(e)
  <2>1. Kept
    BY <1>9 DEF HoldSecond, Asked, KeepAfter, world
  <2>2. MovedTo(queue, <<>>, queue')
    BY <1>1, <1>9, Zenon DEF MovedTo, HoldSecond, KeepAfter
  <2>3. Head(queue).tagged = FALSE
    <3>1. Asked(e, FALSE)
      BY <1>9, Zenon DEF HoldSecond
    <3>2. QED
      BY <1>4, <3>1
  <2>4. HeldBack(e)
    BY <1>9, <2>2, <2>3 DEF HeldBack, HoldSecond, KeepAfter
  <2>5. QED
    BY <1>1, <1>2, <2>1, <2>4
<1>10. CASE DropRepeat(e)
  <2>1. Kept
    BY <1>10 DEF DropRepeat, Asked, KeepAfter, world
  <2>2. Range(<<>>) = {}
    BY DEF Range
  <2>3. MovedTo(queue, <<>>, queue')
    BY <1>1, <1>10, Zenon DEF MovedTo, DropRepeat, KeepAfter
  <2>4. Head(queue).tagged = FALSE
    <3>1. Asked(e, FALSE)
      BY <1>10, Zenon DEF DropRepeat
    <3>2. QED
      BY <1>4, <3>1
  <2>5. Swallowed(e)
    BY <1>10, <2>2, <2>3, <2>4 DEF Swallowed, DropRepeat, KeepAfter, chord
  <2>6. QED
    BY <1>1, <1>2, <2>1, <2>5
<1>11. CASE Interrupt(e)
  <2>1. Kept
    BY <1>11 DEF Interrupt, Asked, PassAfter, world
  <2>2. MovedTo(queue, pending, queue')
    BY <1>1, <1>11, Zenon DEF MovedTo, Interrupt, PassAfter
  <2>3. Head(queue).tagged = FALSE
    <3>1. Asked(e, FALSE)
      BY <1>11, Zenon DEF Interrupt
    <3>2. QED
      BY <1>4, <3>1
  <2>4. Interrupted(e)
    BY <1>11, <2>2, <2>3 DEF Interrupted, Interrupt, PassAfter, Flushed
  <2>5. QED
    BY <1>1, <1>2, <2>1, <2>4
<1>12. CASE ReleaseEarly(e)
  <2>1. Kept
    BY <1>12 DEF ReleaseEarly, Released, Asked, KeepAfter, world
  <2>2. e \in Range(Append(pending, e))
    BY <1>3, AppendRange DEF ChordTypes
  <2>3. MovedTo(queue, Append(pending, e), queue')
    BY <1>1, <1>12, Zenon DEF MovedTo, ReleaseEarly, Released, KeepAfter
  <2>4. Head(queue).tagged = FALSE
    <3>1. Asked(e, FALSE)
      BY <1>12, Zenon DEF ReleaseEarly, Released
    <3>2. QED
      BY <1>4, <3>1
  <2>5. Returned(e)
    BY <1>12, <2>2, <2>3, <2>4 DEF Returned, ReleaseEarly, Released, KeepAfter, Flushed, Fresh
  <2>6. QED
    BY <1>1, <1>2, <2>1, <2>5
<1>13. CASE SwallowFired(e)
  <2>1. Kept
    BY <1>13 DEF SwallowFired, Asked, KeepAfter, world
  <2>2. Range(<<>>) = {}
    BY DEF Range
  <2>3. MovedTo(queue, <<>>, queue')
    BY <1>1, <1>13, Zenon DEF MovedTo, SwallowFired, KeepAfter
  <2>4. Head(queue).tagged = FALSE
    <3>1. Asked(e, FALSE)
      BY <1>13, Zenon DEF SwallowFired
    <3>2. QED
      BY <1>4, <3>1
  <2>5. Swallowed(e)
    BY <1>13, <2>2, <2>3, <2>4 DEF Swallowed, SwallowFired, KeepAfter
  <2>6. QED
    BY <1>1, <1>2, <2>1, <2>5
<1>14. CASE PassThrough(e)
  <2>1. Kept
    BY <1>14 DEF PassThrough, Asked, Pass, PassAfter, world
  <2>2. ~Fresh(e)
    BY <1>14 DEF PassThrough, Fresh
  <2>3. \A d \in Range(pending) : ~Up(e, d.key)
    <3>1. CASE state \in {"idle", "fired"}
      BY <1>6, <3>1 DEF Holding
    <3>2. CASE state = "holdingFirst"
      <4>1. \A d \in Range(pending) : d = pending[1]
        BY <3>2, RangeOf DEF Holding, ChordTypes
      <4>2. QED
        BY <1>14, <3>2, <4>1 DEF PassThrough, Up
    <3>3. CASE state = "holdingBoth"
      BY <1>5, <1>14, <3>3 DEF PassThrough, Up, Fresh
    <3>4. QED
      BY <3>1, <3>2, <3>3 DEF Holding
  <2>4. MovedTo(queue, <<>>, queue')
    BY <1>1, <1>14, Zenon DEF MovedTo, PassThrough, Pass, PassAfter
  <2>5. Head(queue).tagged = FALSE
    <3>1. Asked(e, FALSE)
      BY <1>14, Zenon DEF PassThrough
    <3>2. QED
      BY <1>4, <3>1
  <2>6. Delivered(e)
    BY <1>14, <2>2, <2>3, <2>4, <2>5 DEF Delivered, PassThrough, Pass, PassAfter, chord
  <2>7. QED
    BY <1>1, <1>2, <2>1, <2>6
<1>15. QED
  BY <1>2, <1>7, <1>8, <1>9, <1>10, <1>11, <1>12, <1>13, <1>14

LEMMA HandleOnce ==
  ASSUME OnceInv, Handle
  PROVE  OnceInv'
<1>1. ChordTypes /\ Holding /\ Once(queue, pending, out, eaten, typed)
  BY DEF OnceInv
<1>2. /\ queue # <<>> /\ UNCHANGED <<held, typed, disables>>
      /\ \E e : /\ e = Head(queue).event
                /\ \/ Delivered(e) \/ HeldBack(e) \/ Swallowed(e) \/ Interrupted(e)
                   \/ Returned(e)
  BY <1>1, HandleWays
<1>3. PICK e : /\ e = Head(queue).event
               /\ \/ Delivered(e) \/ HeldBack(e) \/ Swallowed(e) \/ Interrupted(e)
                  \/ Returned(e)
  BY <1>2
<1>4. /\ queue \in Seq(Item) /\ out \in Seq(Event) /\ pending \in Seq(Event)
      /\ eaten \in SUBSET Event /\ IsFiniteSet(eaten)
  BY <1>1 DEF ChordTypes
<1>5. e \in Event
  BY <1>2, <1>3, <1>4, MoveFacts DEF MovedTo
<1>6. /\ Append(pending, e) \in Seq(Event) /\ <<>> \in Seq(Event) /\ Append(out, e) \in Seq(Event)
      /\ Len(<<>>) = 0 /\ IsFiniteSet(eaten \cup {e})
      /\ Len(Append(pending, e)) = Len(pending) + 1
  BY <1>4, <1>5, FS_AddElement
<1>7. \A ps \in Seq(Event) : MovedTo(queue, ps, queue') => queue' \in Seq(Item)
  BY <1>3, <1>4, MoveFacts
<1>8. \A i \in 1..Len(<<>>) : FALSE
  BY <1>6
<1> DEFINE Types == /\ queue' \in Seq(Item) /\ out' \in Seq(Event) /\ pending' \in Seq(Event)
                    /\ eaten' \subseteq Event /\ IsFiniteSet(eaten')
           Goal == Types /\ Holding' /\ Once(queue', pending', out', eaten', typed)
<1>9. ASSUME Delivered(e) PROVE Goal
  <2>1. Once(queue', pending, Append(out, e), eaten, typed)
    BY <1>1, <1>3, <1>4, <1>6, <1>9, FiveWays DEF Delivered
  <2>2. Holding'
    BY <1>1, <1>9 DEF Delivered, Holding
  <2>3. Types
    BY <1>4, <1>6, <1>7, <1>9 DEF Delivered
  <2>4. QED
    BY <1>9, <2>1, <2>2, <2>3 DEF Delivered
<1>10. ASSUME HeldBack(e) PROVE Goal
  <2>1. Once(queue', Append(pending, e), out, eaten, typed)
    BY <1>1, <1>3, <1>4, <1>6, <1>10, FiveWays DEF HeldBack
  <2>2. Holding'
    <3>1. \A i \in 1..(Len(pending) + 1) :
            \/ i \in 1..Len(pending) /\ Append(pending, e)[i] = pending[i]
            \/ i = Len(pending) + 1 /\ Append(pending, e)[i] = e
      BY <1>4, <1>5, AppendRange
    <3>2. Len(pending) = 1 =>
            Append(pending, e)[1] = pending[1] /\ Append(pending, e)[2] = e
      BY <3>1
    <3>3. \A i \in 1..(Len(pending) + 1) : Fresh(Append(pending, e)[i])
      BY <1>1, <1>10, <3>1 DEF Holding, HeldBack
    <3>4. CASE state = "idle"
      BY <1>1, <1>6, <1>10, <3>3, <3>4 DEF Holding, HeldBack
    <3>5. CASE state = "holdingFirst"
      <4>1. Len(pending) = 1 /\ Len(pending') = 2 /\ pending' = Append(pending, e)
        <5>1. Len(pending) = 1
          BY <1>1, <3>5 DEF Holding
        <5>2. pending' = Append(pending, e)
          BY <1>10 DEF HeldBack
        <5>3. QED
          BY <1>6, <5>1, <5>2
      <4>2. pending'[1].key # pending'[2].key /\ state' = "holdingBoth"
        BY <1>10, <3>2, <3>5, <4>1 DEF HeldBack
      <4>3. QED
        BY <3>3, <4>1, <4>2 DEF Holding
    <3>6. QED
      BY <1>10, <3>4, <3>5 DEF HeldBack
  <2>3. Types
    BY <1>4, <1>6, <1>7, <1>10 DEF HeldBack
  <2>4. QED
    BY <1>10, <2>1, <2>2, <2>3 DEF HeldBack
<1>11. ASSUME Swallowed(e) PROVE Goal
  <2>1. Once(queue', pending, out, eaten \cup {e}, typed)
    BY <1>1, <1>3, <1>4, <1>6, <1>11, FiveWays DEF Swallowed
  <2>2. Holding'
    BY <1>1, <1>11 DEF Swallowed, Holding
  <2>3. Types
    BY <1>4, <1>5, <1>6, <1>7, <1>11 DEF Swallowed
  <2>4. QED
    BY <1>11, <2>1, <2>2, <2>3 DEF Swallowed
<1>12. ASSUME Interrupted(e) PROVE Goal
  <2>1. Once(queue', <<>>, Append(out, e), eaten, typed)
    BY <1>1, <1>3, <1>4, <1>6, <1>12, FiveWays DEF Interrupted
  <2>2. Holding'
    BY <1>6, <1>8, <1>12 DEF Interrupted, Holding
  <2>3. Types
    BY <1>4, <1>6, <1>7, <1>12 DEF Interrupted
  <2>4. QED
    BY <1>12, <2>1, <2>2, <2>3 DEF Interrupted
<1>13. ASSUME Returned(e) PROVE Goal
  <2>1. Once(queue', <<>>, out, eaten, typed)
    BY <1>1, <1>3, <1>4, <1>6, <1>13, FiveWays DEF Returned
  <2>2. Holding'
    BY <1>6, <1>8, <1>13 DEF Returned, Holding
  <2>3. Types
    BY <1>4, <1>6, <1>7, <1>13 DEF Returned
  <2>4. QED
    BY <1>13, <2>1, <2>2, <2>3 DEF Returned
<1>14. Goal
  BY <1>3, <1>9, <1>10, <1>11, <1>12, <1>13
<1>15. ChordTypes'
  BY <1>1, <1>2, <1>14 DEF ChordTypes
<1>16. QED
  BY <1>2, <1>14, <1>15 DEF OnceInv

LEMMA Typing ==
  ASSUME OnceInv, Keyboard
  PROVE  \E e \in Event :
           /\ e.n = typed + 1 /\ typed' = typed + 1 /\ typed < MaxEvents
           /\ queue' = Append(queue, Plain(e))
           /\ UNCHANGED <<out, eaten, pending, state, tapOn, disables>>
           /\ \/ e.kind = "down" /\ e.key \notin held /\ held' = held \cup {e.key}
              \/ e.kind = "repeat" /\ held' = held
              \/ e.kind = "up" /\ held' = held \ {e.key}
<1>1. PICK k \in Keys, m \in BOOLEAN, kind \in {"down", "repeat", "up"} :
        /\ Type([n |-> typed + 1, kind |-> kind, key |-> k, modified |-> m])
        /\ \/ kind = "down" /\ k \notin held /\ held' = held \cup {k}
           \/ kind = "repeat" /\ held' = held
           \/ kind = "up" /\ held' = held \ {k}
  <2>1. PICK k \in Keys : (\E m \in BOOLEAN : Press(k, m)) \/ Repeat(k) \/ Release(k)
    BY DEF Keyboard
  <2>2. QED
    BY <2>1 DEF Press, Repeat, Release
<1> DEFINE e == [n |-> typed + 1, kind |-> kind, key |-> k, modified |-> m]
<1>2. e.n = typed + 1 /\ e.key = k /\ e.kind = kind
  OBVIOUS
<1>3. typed + 1 \in 1..MaxEvents
  BY <1>1, ChordAssumption DEF Type, OnceInv, ChordTypes
<1>4. e \in Event
  BY <1>3 DEF Event
<1>5. Type(e)
  BY <1>1
<1> HIDE DEF e
<1>6. QED
  BY <1>1, <1>2, <1>4, <1>5 DEF Type, chord

LEMMA KeyboardOnce ==
  ASSUME OnceInv, Keyboard
  PROVE  OnceInv'
<1>1. PICK e \in Event : /\ e.n = typed + 1 /\ typed' = typed + 1 /\ typed < MaxEvents
                         /\ queue' = Append(queue, Plain(e))
                         /\ UNCHANGED <<out, eaten, pending, state, disables>>
  BY Typing
<1>2. held' \subseteq Keys
  BY DEF Keyboard, Press, Repeat, Release, OnceInv, ChordTypes
<1>3. ChordTypes /\ Once(queue, pending, out, eaten, typed) /\ typed \in Nat
  BY DEF OnceInv, ChordTypes
<1>4. Once(queue', pending, out, eaten, typed + 1)
  BY <1>1, <1>3, TypeOnce DEF ChordTypes
<1>5. queue' \in Seq(Item)
  BY <1>1, <1>3, TypedFacts DEF ChordTypes
<1>6. ChordTypes'
  BY <1>1, <1>3, <1>5, <1>2, ChordAssumption DEF ChordTypes
<1>7. Holding'
  BY <1>1 DEF OnceInv, Holding
<1>8. QED
  BY <1>1, <1>4, <1>6, <1>7 DEF OnceInv

LEMMA TimersOnce ==
  ASSUME OnceInv, ReplayExpires \/ FireExpires
  PROVE  OnceInv'
<1>1. ChordTypes /\ Holding /\ Once(queue, pending, out, eaten, typed)
  BY DEF OnceInv
<1>2. <<>> \in Seq(Event) /\ Len(<<>>) = 0
  OBVIOUS
<1>3. \A i \in 1..Len(<<>>) : FALSE
  BY <1>2
<1>4. CASE ReplayExpires
  <2>1. /\ queue' = queue \o [i \in DOMAIN pending |-> Tagged(pending[i])]
        /\ pending' = <<>> /\ state' = "idle"
        /\ UNCHANGED <<held, typed, out, eaten, disables>>
    BY <1>4 DEF ReplayExpires, Flushed, world
  <2>2. Once(queue', <<>>, out, eaten, typed)
    BY <1>1, <2>1, ReplayOnce DEF ChordTypes
  <2>3. queue' \in Seq(Item)
    BY <1>1, <2>1, PostFacts DEF ChordTypes
  <2>4. ChordTypes' /\ Holding'
    BY <1>1, <1>2, <1>3, <2>1, <2>3 DEF ChordTypes, Holding
  <2>5. QED
    BY <2>1, <2>2, <2>4 DEF OnceInv
<1>5. CASE FireExpires /\ state = "holdingBoth"
  <2>1. /\ pending' = <<>> /\ eaten' = eaten \cup Range(pending) /\ state' = "fired"
        /\ UNCHANGED <<held, typed, queue, out, disables>>
    BY <1>5 DEF FireExpires, world
  <2>2. Len(pending) = 2
    BY <1>1, <1>5 DEF Holding
  <2>3. Once(queue, <<>>, out, eaten \cup Range(pending), typed) /\ IsFiniteSet(eaten \cup Range(pending))
    BY <1>1, <2>2, FireOnce DEF ChordTypes
  <2>4. eaten' \subseteq Event
    BY <1>1, <2>1, RangeOf DEF ChordTypes
  <2>5. ChordTypes' /\ Holding'
    BY <1>1, <1>2, <1>3, <2>1, <2>3, <2>4 DEF ChordTypes, Holding
  <2>6. QED
    BY <2>1, <2>3, <2>5 DEF OnceInv
<1>6. CASE FireExpires /\ state # "holdingBoth"
  BY <1>1, <1>6 DEF FireExpires, world, OnceInv, ChordTypes, Holding
<1>7. QED
  BY <1>4, <1>5, <1>6

LEMMA TapOnce ==
  ASSUME OnceInv, DisableTap \/ Bypass \/ EnableTap
  PROVE  OnceInv'
<1>1. ChordTypes /\ Holding /\ Once(queue, pending, out, eaten, typed)
  BY DEF OnceInv
<1>2. CASE DisableTap \/ EnableTap
  BY <1>1, <1>2 DEF DisableTap, EnableTap, world, chord, OnceInv, ChordTypes, Holding
<1>3. CASE Bypass
  <2> DEFINE e == Head(queue).event
  <2>1. /\ queue # <<>> /\ queue' = Tail(queue) /\ out' = Append(out, e)
        /\ UNCHANGED <<held, typed, eaten, pending, state, disables>>
    BY <1>3 DEF Bypass, world, chord
  <2>2. MovedTo(queue, <<>>, queue')
    <3>1. Tail(queue) \in Seq(Item)
      BY <1>1, <2>1 DEF ChordTypes
    <3>2. [i \in DOMAIN <<>> |-> Tagged(<<>>[i])] = <<>>
      OBVIOUS
    <3>3. Tail(queue) \o <<>> = Tail(queue)
      BY <3>1
    <3>4. QED
      BY <2>1, <3>2, <3>3 DEF MovedTo
  <2>3. <<>> \in Seq(Event)
    OBVIOUS
  <2>4. queue' \in Seq(Item) /\ e \in Event
    BY <1>1, <2>2, <2>3, MoveFacts DEF ChordTypes
  <2> HIDE DEF e
  <2>5. Once(queue', pending, Append(out, e), eaten, typed)
    BY <1>1, <2>2, <2>3, FiveWays DEF ChordTypes, e
  <2>6. out' \in Seq(Event)
    BY <1>1, <2>1, <2>4 DEF ChordTypes
  <2>7. ChordTypes' /\ Holding'
    BY <1>1, <2>1, <2>4, <2>6 DEF ChordTypes, Holding
  <2>8. QED
    BY <2>1, <2>5, <2>7 DEF OnceInv
<1>4. QED
  BY <1>2, <1>3

LEMMA OnceInit == ChordInit => OnceInv
<1> SUFFICES ASSUME ChordInit PROVE OnceInv
  OBVIOUS
<1>1. /\ queue = <<>> /\ out = <<>> /\ pending = <<>> /\ eaten = {} /\ typed = 0
      /\ held = {} /\ state = "idle" /\ disables = 0
  BY DEF ChordInit
<1>2. /\ <<>> \in Seq(Item) /\ <<>> \in Seq(Event) /\ Len(<<>>) = 0
      /\ IsFiniteSet({}) /\ Cardinality({}) = 0
  BY FS_EmptySet
<1>3. \A i \in 1..Len(<<>>) : FALSE
  BY <1>2
<1>4. Untouched(<<>>) = {} /\ Posted(<<>>) = {} /\ Range(<<>>) = {}
  BY <1>3 DEF Untouched, Posted, Range
<1>5. ChordTypes
  BY <1>1, <1>2, ChordAssumption DEF ChordTypes
<1>6. Holding
  BY <1>1, <1>2, <1>3 DEF Holding
<1>7. Apart(<<>>, <<>>, {})
  BY <1>3, <1>4 DEF Apart, NoneTwice
<1>8. Accounted(<<>>, <<>>, <<>>, {}, 0)
  <2>1. Numbers(Everywhere(<<>>, <<>>, <<>>, {})) = {}
    BY <1>4 DEF Everywhere, Numbers
  <2>2. 1..0 = {}
    OBVIOUS
  <2>3. 0 + 0 + 0 + 0 = 0
    OBVIOUS
  <2>4. QED
    BY <1>2, <2>1, <2>2, <2>3, Zenon DEF Accounted
<1>9. QED
  BY <1>1, <1>5, <1>6, <1>7, <1>8 DEF OnceInv, Once

LEMMA OnceStep == OnceInv /\ [ChordNext]_chordVars => OnceInv'
<1> SUFFICES ASSUME OnceInv, [ChordNext]_chordVars PROVE OnceInv'
  OBVIOUS
<1>1. CASE UNCHANGED chordVars
  BY <1>1 DEF chordVars, OnceInv, ChordTypes, Holding
<1>2. QED
  BY <1>1, HandleOnce, KeyboardOnce, TimersOnce, TapOnce DEF ChordNext

\* Whatever the interleaving, every key event is in one place.
THEOREM NothingLost == ChordSpec => []ExactlyOnce
<1>1. ChordSpec => []OnceInv
  BY OnceInit, OnceStep, PTL DEF ChordSpec
<1>2. OnceInv => ExactlyOnce
  <2> SUFFICES ASSUME OnceInv PROVE ExactlyOnce
    OBVIOUS
  <2>1. DOMAIN queue = 1..Len(queue)
    BY DEF OnceInv, ChordTypes
  <2>2. Waiting = Untouched(queue) \cup Posted(queue)
    BY <2>1 DEF Waiting, Untouched, Posted, Range
  <2>3. QED
    BY <2>2 DEF OnceInv, Once, Accounted, Everywhere, ExactlyOnce
<1>3. QED
  BY <1>1, <1>2, PTL

-----------------------------------------------------------------------------

\* What waits in the queue is an event with its tag.
LEMMA WaitingTypes ==
  ASSUME NEW q \in Seq(Item)
  PROVE  Untouched(q) \subseteq Event /\ Posted(q) \subseteq Event
<1>1. \A i \in 1..Len(q) : q[i] \in Item
  OBVIOUS
<1>2. \A i \in 1..Len(q) : q[i].event \in Event
  BY <1>1 DEF Item
<1>3. QED
  BY <1>2 DEF Untouched, Posted

\* One and the same key does not go down twice without its release.
LEMMA NoSecondDown ==
  ASSUME NEW q \in Seq(Item), NEW p \in Seq(Event), NEW o, NEW S, NEW h,
         InOrder(q, p, o, S), Alternates(q, p, h),
         NEW ps \in Seq(Event), NEW r, MovedTo(q, ps, r), NEW e, e = Head(q).event,
         ~Head(q).tagged, NEW d \in Range(p), d.kind = "down", Downs(e, d.key)
  PROVE  FALSE
<1>1. PICK U, P : Remains(q, ps, r, e, U, P)
  BY MoveFacts
<1>2. Untouched(q) = U \cup {e} /\ \A x \in U : e.n < x.n
  BY <1>1 DEF Remains, InOrder
<1>3. d.n < e.n
  BY <1>2 DEF InOrder
<1>4. PICK u \in Untouched(q) : Up(u, d.key) /\ d.n < u.n /\ u.n < e.n
  BY <1>2, <1>3 DEF Alternates
<1>5. e \in Event /\ u \in Event
  BY <1>2, WaitingTypes
<1>6. e.n \in Int /\ u.n \in Int
  BY <1>5 DEF Event
<1>7. u # e
  BY <1>4, <1>6
<1>8. QED
  BY <1>2, <1>4, <1>6, <1>7

\* The event at the head does not matter to those behind it, unless a
\* held-back key waits for it.
LEMMA AlternatesStep ==
  ASSUME NEW q \in Seq(Item), NEW p \in Seq(Event), NEW h, Alternates(q, p, h),
         NEW U, NEW e \in Event, Untouched(q) = U \cup {e}, \A x \in U : e.n < x.n,
         NEW r, Untouched(r) = U,
         NEW p2, Range(p2) \subseteq Range(p) \cup {e},
         \A d \in Range(p2) : ~Up(e, d.key)
  PROVE  Alternates(r, p2, h)
<1>1. \A x \in U \cup {e} : x \in Event /\ x.n \in Int
  BY WaitingTypes DEF Event
<1>2. \A x \in Range(p2) \cup U : x \in Range(p) \cup Untouched(q)
  OBVIOUS
<1>3. \A x \in Range(p2) \cup U : Up(e, x.key) => ~(x.n < e.n)
  BY <1>1
<1>4. \A x \in Range(p2) \cup U, y \in U :
        x.kind = "down" /\ Downs(y, x.key) /\ x.n < y.n =>
          \E u \in U : Up(u, x.key) /\ x.n < u.n /\ u.n < y.n
  BY <1>2, <1>3 DEF Alternates
<1>5. \A x \in Range(p2) \cup U :
        x.kind = "down" /\ x.key \notin h => \E u \in U : Up(u, x.key) /\ x.n < u.n
  BY <1>2, <1>3 DEF Alternates
<1>6. QED
  BY <1>4, <1>5 DEF Alternates

\* An event that is delivered keeps the order of those behind it.
LEMMA DeliverOrder ==
  ASSUME NEW q \in Seq(Item), NEW p \in Seq(Event), NEW o \in Seq(Event), NEW S, NEW h,
         InOrder(q, p, o, S), Alternates(q, p, h),
         NEW r, MovedTo(q, <<>>, r), NEW e, e = Head(q).event,
         Head(q).tagged \/ (~Fresh(e) /\ \A d \in Range(p) : ~Up(e, d.key))
  PROVE  InOrder(r, p, Append(o, e), S) /\ Alternates(r, p, h)
<1>1. <<>> \in Seq(Event) /\ Len(<<>>) = 0 /\ Range(<<>>) = {}
  BY DEF Range
<1>2. e \in Event /\ \E U, P : Remains(q, <<>>, r, e, U, P)
  BY <1>1, MoveFacts
<1>3. PICK U, P : Remains(q, <<>>, r, e, U, P)
  BY <1>2
<1>4. /\ Untouched(q) = U \cup (IF Head(q).tagged THEN {} ELSE {e})
      /\ Posted(q) = P \cup (IF Head(q).tagged THEN {e} ELSE {})
      /\ Untouched(r) = U /\ Posted(r) = P
      /\ ~Head(q).tagged => \A x \in U : e.n < x.n
      /\ Head(q).tagged /\ Fresh(e) => \A x \in P : Fresh(x) => e.n < x.n
  BY <1>1, <1>3 DEF Remains, InOrder
<1>5. Sorted(r)
  <2>1. \A i \in 1..Len(<<>>) : FALSE
    BY <1>1
  <2>2. QED
    BY <1>1, <1>3, <2>1 DEF Remains, InOrder
<1>6. /\ Range(Append(o, e)) = Range(o) \cup {e} /\ Len(Append(o, e)) = Len(o) + 1
      /\ \A i \in 1..(Len(o) + 1) : \/ i \in 1..Len(o) /\ Append(o, e)[i] = o[i]
                                    \/ i = Len(o) + 1 /\ Append(o, e)[i] = e
  BY <1>2, AppendRange
<1>7. \A x \in Range(o) : Fresh(x) /\ Fresh(e) => x.n < e.n
  BY <1>4 DEF InOrder
<1>8. ASSUME NEW i \in 1..(Len(o) + 1), NEW j \in 1..(Len(o) + 1), i < j,
             Fresh(Append(o, e)[i]), Fresh(Append(o, e)[j])
      PROVE  Append(o, e)[i].n < Append(o, e)[j].n
  <2>1. i \in 1..Len(o) /\ Append(o, e)[i] = o[i] /\ o[i] \in Range(o)
    BY <1>6, <1>8, RangeOf
  <2>2. CASE j = Len(o) + 1
    BY <1>6, <1>7, <1>8, <2>1, <2>2
  <2>3. CASE j \in 1..Len(o) /\ Append(o, e)[j] = o[j]
    BY <1>8, <2>1, <2>3 DEF InOrder
  <2>4. QED
    BY <1>6, <2>2, <2>3
<1>9. \A x \in Range(o) \cup {e}, y \in P : Fresh(x) /\ Fresh(y) => x.n < y.n
  BY <1>4 DEF InOrder
<1>10. \A x \in Range(o) \cup {e} \cup P, d \in Range(p) : Fresh(x) => x.n < d.n
  BY <1>4 DEF InOrder
<1>11. \A x \in P \cup Range(p) \cup (Range(o) \cup {e}) \cup S, y \in U : x.n < y.n
  BY <1>4 DEF InOrder
<1>12. \A x \in P \cup (Range(o) \cup {e}) \cup S, d \in Range(p) : Up(x, d.key) => x.n < d.n
  BY <1>4 DEF InOrder
<1>13. InOrder(r, p, Append(o, e), S)
  <2>1. \A i, j \in 1..Len(p) : i < j => p[i].n < p[j].n
    BY DEF InOrder
  <2>2. \A i, j \in 1..Len(Append(o, e)) :
          i < j /\ Fresh(Append(o, e)[i]) /\ Fresh(Append(o, e)[j]) =>
            Append(o, e)[i].n < Append(o, e)[j].n
    BY <1>6, <1>8
  <2>3. QED
    BY <1>4, <1>5, <1>6, <1>9, <1>10, <1>11, <1>12, <2>1, <2>2, Zenon DEF InOrder
<1>14. Alternates(r, p, h)
  <2>1. CASE Head(q).tagged
    BY <1>4, <2>1 DEF Alternates
  <2>2. CASE ~Head(q).tagged
    BY <1>2, <1>4, <2>2, AlternatesStep
  <2>3. QED
    BY <2>1, <2>2
<1>15. QED
  BY <1>13, <1>14

\* An event that is held back comes after those held back before it.
LEMMA HoldOrder ==
  ASSUME NEW q \in Seq(Item), NEW p \in Seq(Event), NEW o \in Seq(Event), NEW S, NEW h,
         InOrder(q, p, o, S), Alternates(q, p, h),
         NEW r, MovedTo(q, <<>>, r), NEW e, e = Head(q).event,
         ~Head(q).tagged, Fresh(e)
  PROVE  InOrder(r, Append(p, e), o, S) /\ Alternates(r, Append(p, e), h)
<1>1. <<>> \in Seq(Event) /\ Len(<<>>) = 0 /\ Range(<<>>) = {}
  BY DEF Range
<1>2. e \in Event /\ \E U, P : Remains(q, <<>>, r, e, U, P)
  BY <1>1, MoveFacts
<1>3. PICK U, P : Remains(q, <<>>, r, e, U, P)
  BY <1>2
<1>4. /\ Untouched(q) = U \cup {e} /\ Posted(q) = P
      /\ Untouched(r) = U /\ Posted(r) = P
      /\ \A x \in U : e.n < x.n
  BY <1>1, <1>3 DEF Remains, InOrder
<1>5. Sorted(r)
  <2>1. \A i \in 1..Len(<<>>) : FALSE
    BY <1>1
  <2>2. QED
    BY <1>1, <1>3, <2>1 DEF Remains, InOrder
<1>6. /\ Range(Append(p, e)) = Range(p) \cup {e} /\ Len(Append(p, e)) = Len(p) + 1
      /\ \A i \in 1..(Len(p) + 1) : \/ i \in 1..Len(p) /\ Append(p, e)[i] = p[i]
                                    \/ i = Len(p) + 1 /\ Append(p, e)[i] = e
  BY <1>2, AppendRange
<1>7. \A x \in P \cup Range(p) \cup Range(o) \cup S : x.n < e.n
  BY <1>4 DEF InOrder
<1>8. ASSUME NEW i \in 1..(Len(p) + 1), NEW j \in 1..(Len(p) + 1), i < j
      PROVE  Append(p, e)[i].n < Append(p, e)[j].n
  <2>1. i \in 1..Len(p) /\ Append(p, e)[i] = p[i] /\ p[i] \in Range(p)
    BY <1>6, <1>8, RangeOf
  <2>2. CASE j = Len(p) + 1
    BY <1>6, <1>7, <2>1, <2>2
  <2>3. CASE j \in 1..Len(p) /\ Append(p, e)[j] = p[j]
    BY <1>8, <2>1, <2>3 DEF InOrder
  <2>4. QED
    BY <1>6, <2>2, <2>3
<1>9. InOrder(r, Append(p, e), o, S)
  <2>1. \A x \in Range(o), y \in P : Fresh(x) /\ Fresh(y) => x.n < y.n
    BY <1>4 DEF InOrder
  <2>2. \A x \in Range(o) \cup P, d \in Range(p) \cup {e} : Fresh(x) => x.n < d.n
    BY <1>4, <1>7 DEF InOrder
  <2>3. \A x \in P \cup (Range(p) \cup {e}) \cup Range(o) \cup S, y \in U : x.n < y.n
    BY <1>4 DEF InOrder
  <2>4. \A x \in P \cup Range(o) \cup S, d \in Range(p) \cup {e} : Up(x, d.key) => x.n < d.n
    BY <1>4, <1>7 DEF InOrder
  <2>5. \A i, j \in 1..Len(Append(p, e)) : i < j => Append(p, e)[i].n < Append(p, e)[j].n
    BY <1>6, <1>8
  <2>6. \A i, j \in 1..Len(o) : i < j /\ Fresh(o[i]) /\ Fresh(o[j]) => o[i].n < o[j].n
    BY DEF InOrder
  <2>7. QED
    BY <1>4, <1>5, <1>6, <2>1, <2>2, <2>3, <2>4, <2>5, <2>6, Zenon DEF InOrder
<1>10. Alternates(r, Append(p, e), h)
  <2>1. \A k : ~Up(e, k)
    BY DEF Up, Fresh
  <2>2. QED
    BY <1>2, <1>4, <1>6, <2>1, AlternatesStep
<1>11. QED
  BY <1>9, <1>10

\* A swallowed event leaves the order of the others alone.
LEMMA SwallowOrder ==
  ASSUME NEW q \in Seq(Item), NEW p \in Seq(Event), NEW o \in Seq(Event), NEW S, NEW h,
         InOrder(q, p, o, S), Alternates(q, p, h),
         NEW r, MovedTo(q, <<>>, r), NEW e, e = Head(q).event,
         ~Head(q).tagged, \A d \in Range(p) : ~Up(e, d.key)
  PROVE  InOrder(r, p, o, S \cup {e}) /\ Alternates(r, p, h)
<1>1. <<>> \in Seq(Event) /\ Len(<<>>) = 0 /\ Range(<<>>) = {}
  BY DEF Range
<1>2. e \in Event /\ \E U, P : Remains(q, <<>>, r, e, U, P)
  BY <1>1, MoveFacts
<1>3. PICK U, P : Remains(q, <<>>, r, e, U, P)
  BY <1>2
<1>4. /\ Untouched(q) = U \cup {e} /\ Posted(q) = P
      /\ Untouched(r) = U /\ Posted(r) = P
      /\ \A x \in U : e.n < x.n
  BY <1>1, <1>3 DEF Remains, InOrder
<1>5. Sorted(r)
  <2>1. \A i \in 1..Len(<<>>) : FALSE
    BY <1>1
  <2>2. QED
    BY <1>1, <1>3, <2>1 DEF Remains, InOrder
<1>6. InOrder(r, p, o, S \cup {e})
  BY <1>4, <1>5 DEF InOrder
<1>7. Alternates(r, p, h)
  BY <1>2, <1>4, AlternatesStep
<1>8. QED
  BY <1>6, <1>7

\* What was held back is posted in its order, alone or with the event e.
LEMMA FlushOrder ==
  ASSUME NEW q \in Seq(Item), NEW p \in Seq(Event), NEW o \in Seq(Event), NEW S, NEW h,
         InOrder(q, p, o, S), Alternates(q, p, h), NEW e, e = Head(q).event,
         NEW ps \in {p, Append(p, e)}, NEW o2 \in {o, Append(o, e)},
         NEW r, MovedTo(q, ps, r), ~Head(q).tagged, ~Fresh(e)
  PROVE  InOrder(r, <<>>, o2, S) /\ Alternates(r, <<>>, h)
<1>1. Len(<<>>) = 0 /\ Range(<<>>) = {} /\ \A i \in 1..Len(<<>>) : FALSE
  BY DEF Range
<1>2. e \in Event
  <2>1. Head(q) \in Item
    BY DEF MovedTo
  <2>2. QED
    BY <2>1 DEF Item
<1>3. /\ Append(p, e) \in Seq(Event) /\ Len(Append(p, e)) = Len(p) + 1
      /\ Range(Append(p, e)) = Range(p) \cup {e}
      /\ \A i \in 1..(Len(p) + 1) : \/ i \in 1..Len(p) /\ Append(p, e)[i] = p[i]
                                    \/ i = Len(p) + 1 /\ Append(p, e)[i] = e
  BY <1>2, AppendRange
<1>4. ps \in Seq(Event) /\ Range(ps) \subseteq Range(p) \cup {e}
  BY <1>3
<1>5. \A i, j \in 1..Len(ps) : i < j /\ Fresh(ps[i]) /\ Fresh(ps[j]) => ps[i].n < ps[j].n
  <2>1. CASE ps = p
    BY <2>1 DEF InOrder
  <2>2. CASE ps = Append(p, e)
    <3> SUFFICES ASSUME NEW i \in 1..(Len(p) + 1), NEW j \in 1..(Len(p) + 1), i < j,
                        Fresh(ps[i]), Fresh(ps[j])
                 PROVE  ps[i].n < ps[j].n
      BY <1>3, <2>2
    <3>1. i \in 1..Len(p) /\ ps[i] = p[i] /\ j \in 1..Len(p) /\ ps[j] = p[j]
      BY <1>3, <2>2
    <3>2. QED
      BY <3>1 DEF InOrder
  <2>3. QED
    BY <2>1, <2>2
<1>6. PICK U, P : Remains(q, ps, r, e, U, P)
  BY <1>4, MoveFacts
<1>7. /\ Untouched(q) = U \cup {e} /\ Posted(q) = P
      /\ Untouched(r) = U /\ Posted(r) = P \cup Range(ps)
      /\ \A x \in U : e.n < x.n
  BY <1>6 DEF Remains, InOrder
<1>8. \A x \in P, y \in Range(ps) : Fresh(x) /\ Fresh(y) => x.n < y.n
  BY <1>4, <1>7 DEF InOrder
<1>9. Sorted(r)
  BY <1>5, <1>6, <1>8 DEF Remains, InOrder
<1>10. /\ Range(Append(o, e)) = Range(o) \cup {e} /\ Len(Append(o, e)) = Len(o) + 1
       /\ \A i \in 1..(Len(o) + 1) : \/ i \in 1..Len(o) /\ Append(o, e)[i] = o[i]
                                     \/ i = Len(o) + 1 /\ Append(o, e)[i] = e
  BY <1>2, AppendRange
<1>11. Range(o2) \subseteq Range(o) \cup {e}
  BY <1>10
<1>12. \A i, j \in 1..Len(o2) : i < j /\ Fresh(o2[i]) /\ Fresh(o2[j]) => o2[i].n < o2[j].n
  <2>1. CASE o2 = o
    BY <2>1 DEF InOrder
  <2>2. CASE o2 = Append(o, e)
    <3> SUFFICES ASSUME NEW i \in 1..(Len(o) + 1), NEW j \in 1..(Len(o) + 1), i < j,
                        Fresh(o2[i]), Fresh(o2[j])
                 PROVE  o2[i].n < o2[j].n
      BY <1>10, <2>2
    <3>1. i \in 1..Len(o) /\ o2[i] = o[i] /\ j \in 1..Len(o) /\ o2[j] = o[j]
      BY <1>10, <2>2
    <3>2. QED
      BY <3>1 DEF InOrder
  <2>3. QED
    BY <2>1, <2>2
<1>13. \A x \in Range(o2), y \in P \cup Range(ps) : Fresh(x) /\ Fresh(y) => x.n < y.n
  BY <1>4, <1>7, <1>11 DEF InOrder
<1>14. \A x \in (P \cup Range(ps)) \cup Range(o2) \cup S, y \in U : x.n < y.n
  BY <1>4, <1>7, <1>11 DEF InOrder
<1>15. InOrder(r, <<>>, o2, S)
  BY <1>1, <1>7, <1>9, <1>12, <1>13, <1>14 DEF InOrder
<1>16. Alternates(r, <<>>, h)
  BY <1>1, <1>2, <1>7, AlternatesStep
<1>17. QED
  BY <1>15, <1>16

LEMMA ReplayOrder ==
  ASSUME NEW q \in Seq(Item), NEW p \in Seq(Event), NEW o \in Seq(Event), NEW S, NEW h,
         InOrder(q, p, o, S), Alternates(q, p, h),
         NEW r, r = q \o [i \in DOMAIN p |-> Tagged(p[i])]
  PROVE  InOrder(r, <<>>, o, S) /\ Alternates(r, <<>>, h)
<1>1. Len(<<>>) = 0 /\ Range(<<>>) = {} /\ \A i \in 1..Len(<<>>) : FALSE
  BY DEF Range
<1>2. /\ Untouched(r) = Untouched(q) /\ Posted(r) = Posted(q) \cup Range(p)
      /\ /\ Sorted(q)
         /\ \A i, j \in 1..Len(p) : i < j /\ Fresh(p[i]) /\ Fresh(p[j]) => p[i].n < p[j].n
         /\ \A x \in Posted(q), y \in Range(p) : Fresh(x) /\ Fresh(y) => x.n < y.n
         => Sorted(r)
  BY PostFacts, ZenonT(40)
<1>3. Sorted(r)
  BY <1>2 DEF InOrder
<1>4. InOrder(r, <<>>, o, S)
  BY <1>1, <1>2, <1>3 DEF InOrder
<1>5. Alternates(r, <<>>, h)
  BY <1>1, <1>2 DEF Alternates
<1>6. QED
  BY <1>4, <1>5

LEMMA FireOrder ==
  ASSUME NEW q, NEW p, NEW o, NEW S, NEW h, InOrder(q, p, o, S), Alternates(q, p, h)
  PROVE  InOrder(q, <<>>, o, S \cup Range(p)) /\ Alternates(q, <<>>, h)
<1>1. Len(<<>>) = 0 /\ Range(<<>>) = {} /\ \A i \in 1..Len(<<>>) : FALSE
  BY DEF Range
<1>2. InOrder(q, <<>>, o, S \cup Range(p))
  BY <1>1 DEF InOrder
<1>3. Alternates(q, <<>>, h)
  BY <1>1 DEF Alternates
<1>4. QED
  BY <1>2, <1>3

LEMMA TypeOrder ==
  ASSUME NEW q \in Seq(Item), NEW p \in Seq(Event), NEW o \in Seq(Event), NEW S, NEW h,
         InOrder(q, p, o, S), Alternates(q, p, h),
         NEW e \in Event, \A x \in Everywhere(q, p, o, S) : x.n < e.n,
         NEW r, r = Append(q, Plain(e)), NEW h2,
         \/ e.kind = "down" /\ e.key \notin h /\ h2 = h \cup {e.key}
         \/ e.kind = "repeat" /\ h2 = h
         \/ e.kind = "up" /\ h2 = h \ {e.key}
  PROVE  InOrder(r, p, o, S) /\ Alternates(r, p, h2)
<1>1. /\ Untouched(r) = Untouched(q) \cup {e} /\ Posted(r) = Posted(q)
      /\ Sorted(q) /\ (\A x \in Untouched(q) : x.n < e.n) => Sorted(r)
  BY TypedFacts, ZenonT(40)
<1>2. \A x \in Untouched(q) \cup Posted(q) \cup Range(p) \cup Range(o) \cup S : x.n < e.n
  BY DEF Everywhere
<1>3. Sorted(r)
  BY <1>1, <1>2 DEF InOrder
<1>4. InOrder(r, p, o, S)
  BY <1>1, <1>2, <1>3 DEF InOrder
<1>5. e.n \in Int /\ \A x \in Range(p) \cup Untouched(q) : x.n \in Int /\ x.n < e.n
  <2>1. \A x \in Event : x.n \in Int
    BY DEF Event
  <2>2. Range(p) \cup Untouched(q) \subseteq Event
    BY WaitingTypes, RangeOf
  <2>3. QED
    BY <1>2, <2>1, <2>2
<1>6. ASSUME NEW x \in Range(p) \cup Untouched(r), NEW y \in Untouched(r),
             x.kind = "down", Downs(y, x.key), x.n < y.n
      PROVE  \E u \in Untouched(r) : Up(u, x.key) /\ x.n < u.n /\ u.n < y.n
  <2>1. x \in Range(p) \cup Untouched(q)
    <3>1. y.n < e.n \/ y = e
      BY <1>1, <1>5, <1>6
    <3>2. x # e
      BY <1>1, <1>5, <1>6, <3>1
    <3>3. QED
      BY <1>1, <1>6, <3>2
  <2>2. CASE y \in Untouched(q)
    BY <1>1, <1>6, <2>1, <2>2 DEF Alternates
  <2>3. CASE y = e
    <3>1. x.key \notin h
      BY <1>6, <2>3 DEF Downs
    <3>2. PICK u \in Untouched(q) : Up(u, x.key) /\ x.n < u.n
      BY <1>6, <2>1, <3>1 DEF Alternates
    <3>3. QED
      BY <1>1, <1>2, <2>3, <3>2
  <2>4. QED
    BY <1>1, <2>2, <2>3
<1>7. ASSUME NEW x \in Range(p) \cup Untouched(r), x.kind = "down", x.key \notin h2
      PROVE  \E u \in Untouched(r) : Up(u, x.key) /\ x.n < u.n
  <2>1. x \in Range(p) \cup Untouched(q)
    BY <1>1, <1>7
  <2>2. CASE x.key \notin h
    BY <1>1, <1>7, <2>1, <2>2 DEF Alternates
  <2>3. CASE x.key \in h
    <3>1. Up(e, x.key)
      BY <1>7, <2>3 DEF Up
    <3>2. QED
      BY <1>1, <1>2, <2>1, <3>1
  <2>4. QED
    BY <2>2, <2>3
<1>8. Alternates(r, p, h2)
  BY <1>6, <1>7 DEF Alternates
<1>9. QED
  BY <1>4, <1>8

LEMMA OrderStep ==
  ASSUME OnceInv, OrderInv, [ChordNext]_chordVars
  PROVE  OrderInv'
<1> SUFFICES ASSUME disables' = 0
             PROVE  /\ tapOn' /\ InOrder(queue', pending', out', eaten')
                    /\ Alternates(queue', pending', held')
  BY DEF OrderInv
<1>1. /\ queue \in Seq(Item) /\ out \in Seq(Event) /\ pending \in Seq(Event)
      /\ disables \in Nat /\ typed \in Nat
  BY DEF OnceInv, ChordTypes
<1>2. \A d \in Range(pending) : Fresh(d)
  BY <1>1, RangeOf DEF OnceInv, Holding
<1> DEFINE Before == /\ disables = 0 /\ tapOn /\ InOrder(queue, pending, out, eaten)
                     /\ Alternates(queue, pending, held)
           After == /\ tapOn' /\ InOrder(queue', pending', out', eaten')
                    /\ Alternates(queue', pending', held')
<1>3. disables = 0 => Before
  BY DEF OrderInv
<1> HIDE DEF Before
<1>4. CASE Handle
  <2>1. /\ tapOn /\ queue # <<>> /\ UNCHANGED <<held, tapOn, disables>>
        /\ \E e : /\ e = Head(queue).event
                  /\ \/ Delivered(e) \/ HeldBack(e) \/ Swallowed(e) \/ Interrupted(e)
                     \/ Returned(e)
    BY <1>4, HandleWays DEF OnceInv
  <2>2. PICK e : /\ e = Head(queue).event
                 /\ \/ Delivered(e) \/ HeldBack(e) \/ Swallowed(e) \/ Interrupted(e)
                    \/ Returned(e)
    BY <2>1
  <2>3. Before
    BY <1>3, <2>1
  <2>4. InOrder(queue, pending, out, eaten) /\ Alternates(queue, pending, held)
    BY <2>3 DEF Before
  <2>5. ASSUME Delivered(e) PROVE After
    <3>1. /\ InOrder(queue', pending, Append(out, e), eaten)
          /\ Alternates(queue', pending, held)
      BY <1>1, <2>2, <2>4, <2>5, DeliverOrder DEF Delivered
    <3>2. QED
      BY <2>1, <2>5, <3>1 DEF Delivered
  <2>6. ASSUME HeldBack(e) PROVE After
    <3>1. /\ InOrder(queue', Append(pending, e), out, eaten)
          /\ Alternates(queue', Append(pending, e), held)
      BY <1>1, <2>2, <2>4, <2>6, HoldOrder DEF HeldBack
    <3>2. QED
      BY <2>1, <2>6, <3>1 DEF HeldBack
  <2>7. ASSUME Swallowed(e) PROVE After
    <3>1. \A d \in Range(pending) : ~Up(e, d.key)
      <4>1. CASE e.kind = "repeat"
        BY <4>1 DEF Up
      <4>2. CASE state = "fired"
        <5>1. Len(pending) = 0
          BY <4>2 DEF OnceInv, Holding
        <5>2. QED
          BY <1>1, <5>1, NoRange
      <4>3. QED
        BY <2>7, <4>1, <4>2 DEF Swallowed
    <3>2. /\ InOrder(queue', pending, out, eaten \cup {e})
          /\ Alternates(queue', pending, held)
      BY <1>1, <2>2, <2>4, <2>7, <3>1, SwallowOrder DEF Swallowed
    <3>3. QED
      BY <2>1, <2>7, <3>2 DEF Swallowed
  <2>8. ASSUME Interrupted(e) PROVE After
    <3>1. ~Fresh(e)
      <4> SUFFICES ASSUME Fresh(e) PROVE FALSE
        OBVIOUS
      <4>1. state = "holdingBoth" \/ (state = "holdingFirst" /\ e.key = pending[1].key)
        BY <2>8 DEF Interrupted
      <4>2. \E d \in Range(pending) : d.key = e.key
        <5>1. CASE state = "holdingBoth"
          <6>0. Len(pending) = 2 /\ pending[1].key # pending[2].key
            BY <5>1 DEF OnceInv, Holding
          <6>1. /\ Len(pending) = 2 /\ pending[1].key # pending[2].key
                /\ pending[1] \in Range(pending) /\ pending[2] \in Range(pending)
            <7>1. 1 \in 1..Len(pending) /\ 2 \in 1..Len(pending)
              BY <6>0
            <7>2. \A i \in 1..Len(pending) : pending[i] \in Range(pending)
              BY <1>1, RangeOf
            <7>3. QED
              BY <6>0, <7>1, <7>2
          <6>2. pending[1].key \in Members /\ pending[2].key \in Members /\ e.key \in Members
            BY <1>2, <6>1 DEF Fresh
          <6>3. QED
            BY <6>1, <6>2 DEF Members
        <5>2. CASE state = "holdingFirst" /\ e.key = pending[1].key
          <6>0. Len(pending) = 1
            BY <5>2 DEF OnceInv, Holding
          <6>1. pending[1] \in Range(pending)
            BY <1>1, <6>0, RangeOf
          <6>2. QED
            BY <5>2, <6>1
        <5>3. QED
          BY <4>1, <5>1, <5>2
      <4>3. PICK d \in Range(pending) : d.key = e.key
        BY <4>2
      <4>4. d.kind = "down" /\ Downs(e, d.key)
        BY <1>2, <4>3 DEF Fresh, Downs
      <4>5. MovedTo(queue, pending, queue') /\ ~Head(queue).tagged
        BY <2>8 DEF Interrupted
      <4>6. QED
        BY <1>1, <2>2, <2>4, <4>4, <4>5, NoSecondDown
    <3>2. InOrder(queue', <<>>, Append(out, e), eaten) /\ Alternates(queue', <<>>, held)
      BY <1>1, <2>2, <2>4, <2>8, <3>1, FlushOrder DEF Interrupted
    <3>3. QED
      BY <2>1, <2>8, <3>2 DEF Interrupted
  <2>9. ASSUME Returned(e) PROVE After
    <3>1. InOrder(queue', <<>>, out, eaten) /\ Alternates(queue', <<>>, held)
      BY <1>1, <2>2, <2>4, <2>9, FlushOrder DEF Returned
    <3>2. QED
      BY <2>1, <2>9, <3>1 DEF Returned
  <2>10. QED
    BY <2>2, <2>5, <2>6, <2>7, <2>8, <2>9
<1>5. CASE ReplayExpires
  <2>1. /\ queue' = queue \o [i \in DOMAIN pending |-> Tagged(pending[i])] /\ pending' = <<>>
        /\ UNCHANGED <<held, out, eaten, tapOn, disables>>
    BY <1>5 DEF ReplayExpires, Flushed, world
  <2>2. Before
    BY <1>3, <2>1
  <2>3. InOrder(queue', <<>>, out, eaten) /\ Alternates(queue', <<>>, held)
    BY <1>1, <2>1, <2>2, ReplayOrder DEF Before
  <2>4. QED
    BY <2>1, <2>2, <2>3 DEF Before
<1>6. CASE FireExpires
  <2>1. /\ UNCHANGED <<held, queue, out, tapOn, disables>>
        /\ \/ pending' = <<>> /\ eaten' = eaten \cup Range(pending)
           \/ UNCHANGED <<pending, eaten>>
    BY <1>6 DEF FireExpires, world
  <2>2. Before
    BY <1>3, <2>1
  <2>3. InOrder(queue, <<>>, out, eaten \cup Range(pending)) /\ Alternates(queue, <<>>, held)
    BY <2>2, FireOrder DEF Before
  <2>4. QED
    BY <2>1, <2>2, <2>3 DEF Before
<1>7. CASE Keyboard
  <2>1. PICK e \in Event :
          /\ e.n = typed + 1 /\ queue' = Append(queue, Plain(e))
          /\ UNCHANGED <<out, eaten, pending, tapOn, disables>>
          /\ \/ e.kind = "down" /\ e.key \notin held /\ held' = held \cup {e.key}
             \/ e.kind = "repeat" /\ held' = held
             \/ e.kind = "up" /\ held' = held \ {e.key}
    BY <1>7, Typing
  <2>2. Before
    BY <1>3, <2>1
  <2>3. \A x \in Everywhere(queue, pending, out, eaten) : x.n < e.n
    <3>1. \A x \in Everywhere(queue, pending, out, eaten) : x.n \in 1..typed
      BY DEF OnceInv, Once, Accounted, Numbers
    <3>2. QED
      BY <1>1, <2>1, <3>1
  <2>4. InOrder(queue', pending, out, eaten) /\ Alternates(queue', pending, held')
    BY <1>1, <2>1, <2>2, <2>3, TypeOrder DEF Before
  <2>5. QED
    BY <2>1, <2>2, <2>4 DEF Before
<1>8. CASE DisableTap \/ Bypass \/ EnableTap
  <2>1. disables = 0 /\ (~tapOn \/ disables' = 1)
    BY <1>1, <1>8 DEF DisableTap, Bypass, EnableTap
  <2>2. QED
    BY <1>3, <2>1 DEF Before
<1>9. CASE UNCHANGED chordVars
  <2>1. UNCHANGED <<held, queue, out, eaten, pending, tapOn, disables>>
    BY <1>9 DEF chordVars
  <2>2. QED
    BY <1>3, <2>1 DEF Before
<1>10. QED
  BY <1>4, <1>5, <1>6, <1>7, <1>8, <1>9 DEF ChordNext

LEMMA OrderInit == ChordInit => OrderInv
<1> SUFFICES ASSUME ChordInit PROVE OrderInv
  OBVIOUS
<1>1. queue = <<>> /\ out = <<>> /\ pending = <<>> /\ eaten = {} /\ tapOn
  BY DEF ChordInit
<1>2. Len(<<>>) = 0 /\ \A i \in 1..Len(<<>>) : FALSE
  OBVIOUS
<1>3. Untouched(<<>>) = {} /\ Posted(<<>>) = {} /\ Range(<<>>) = {}
  BY <1>2 DEF Untouched, Posted, Range
<1>4. InOrder(<<>>, <<>>, <<>>, {})
  BY <1>2, <1>3 DEF InOrder, Sorted
<1>5. Alternates(<<>>, <<>>, held)
  BY <1>3 DEF Alternates
<1>6. QED
  BY <1>1, <1>4, <1>5 DEF OrderInv

LEMMA ChordInvariance == ChordSpec => [](OnceInv /\ OrderInv)
BY OnceInit, OnceStep, OrderInit, OrderStep, PTL DEF ChordSpec

\* However the timers interleave, the members are typed in their order.
THEOREM TypedInOrder == ChordSpec => []MembersInOrder
<1>1. OnceInv /\ OrderInv => MembersInOrder
  BY DEF OnceInv, ChordTypes, OrderInv, InOrder, MembersInOrder
<1>2. QED
  BY <1>1, ChordInvariance, PTL

\* When the chord fires, the tap has seen no release of its keys.
THEOREM FiresOnlyHeld == ChordSpec => FiresWhileHeld
<1>1. ASSUME OnceInv, OrderInv
      PROVE  [fires' # fires /\ disables = 0 =>
                \A d \in Range(pending) : \A e \in Range(out) \cup eaten :
                  ~(e.kind = "up" /\ e.key = d.key /\ e.n > d.n)]_chordVars
  <2> SUFFICES ASSUME disables = 0, NEW d \in Range(pending), NEW e \in Range(out) \cup eaten,
                      e.kind = "up", e.key = d.key, e.n > d.n
               PROVE  FALSE
    OBVIOUS
  <2>1. e.n < d.n
    BY <1>1 DEF OrderInv, InOrder, Up
  <2>2. e \in Event /\ d \in Event
    BY <1>1, RangeOf DEF OnceInv, ChordTypes
  <2>3. QED
    BY <2>1, <2>2 DEF Event
<1>2. QED
  BY <1>1, ChordInvariance, PTL DEF FiresWhileHeld

-----------------------------------------------------------------------------
(* RevealPanel *)

Events == [down : BOOLEAN, key : revealChord]

TypeOK ==
  /\ keysDown \subseteq revealChord
  /\ keyEvents \in Seq(Events)
  /\ revealDown \subseteq revealChord

\* A press of k at i of the queue, a release at i.
Presses(k, i) == i \in 1..Len(keyEvents) /\ keyEvents[i].key = k /\ keyEvents[i].down
Releases(k, i) == i \in 1..Len(keyEvents) /\ keyEvents[i].key = k /\ ~keyEvents[i].down

\* What the monitor believes down, or is about to, is down or will be seen
\* to have been let go.
Coming ==
  \A k \in revealChord \ keysDown :
    /\ k \in revealDown => \E j \in 1..Len(keyEvents) : Releases(k, j)
    /\ \A i \in 1..Len(keyEvents) :
         Presses(k, i) => \E j \in 1..Len(keyEvents) : i < j /\ Releases(k, j)

\* In the background nothing is on its way, and no key believed down.
Away == ~active => keyEvents = <<>> /\ revealDown = {}

IInv ==
  /\ TypeOK
  /\ Coming
  /\ Away
  /\ ~localMonitor => revealDown = {}
  /\ revealHeld => revealChord \subseteq revealDown

LEMMA InvInit == PanelInit => IInv
<1> SUFFICES ASSUME PanelInit PROVE IInv
  OBVIOUS
<1>1. keysDown = {} /\ keyEvents = <<>> /\ revealDown = {} /\ ~revealHeld
  BY DEF PanelInit
<1>2. Len(keyEvents) = 0 /\ keyEvents \in Seq(Events)
  BY <1>1
<1>3. QED
  BY <1>1, <1>2 DEF IInv, TypeOK, Coming, Away

\* Nothing but keys and the handling of their events concerns the switch.
LEMMA Frame ==
  ASSUME IInv, UNCHANGED <<keysDown, keyEvents, revealDown>>
  PROVE  Coming' /\ TypeOK'
BY DEF IInv, TypeOK, Coming, Presses, Releases

\* A key event that is posted comes last.
LEMMA PostStep ==
  ASSUME IInv, NEW e \in Events, keyEvents' = Append(keyEvents, e), UNCHANGED revealDown,
         \A m \in revealChord \ keysDown' : m \notin keysDown \/ m = e.key,
         e.key \notin keysDown' => ~e.down
  PROVE  Coming' /\ keyEvents' \in Seq(Events)
<1>1. PICK n \in Nat : n = Len(keyEvents)
  BY DEF IInv, TypeOK
<1>2. /\ keyEvents' \in Seq(Events) /\ Len(keyEvents') = n + 1
      /\ \A i \in 1..n : keyEvents'[i] = keyEvents[i]
      /\ keyEvents'[n + 1] = e
  BY <1>1 DEF IInv, TypeOK
<1>3. \A m : \A i \in 1..n : /\ Presses(m, i)' <=> Presses(m, i)
                             /\ Releases(m, i)' <=> Releases(m, i)
  <2> SUFFICES ASSUME NEW m, NEW i \in 1..n
               PROVE  /\ Presses(m, i)' <=> Presses(m, i)
                      /\ Releases(m, i)' <=> Releases(m, i)
    OBVIOUS
  <2>1. i \in 1..Len(keyEvents) /\ i \in 1..Len(keyEvents') /\ keyEvents'[i] = keyEvents[i]
    BY <1>1, <1>2
  <2>2. Presses(m, i)' <=> Presses(m, i)
    BY <2>1, Zenon DEF Presses
  <2>3. Releases(m, i)' <=> Releases(m, i)
    BY <2>1, Zenon DEF Releases
  <2>4. QED
    BY <2>2, <2>3
<1>4. ASSUME NEW m \in revealChord \ keysDown', m # e.key
      PROVE  /\ m \in revealDown' => \E j \in 1..Len(keyEvents') : Releases(m, j)'
             /\ \A i \in 1..Len(keyEvents') :
                  Presses(m, i)' => \E j \in 1..Len(keyEvents') : i < j /\ Releases(m, j)'
  <2>1. m \in revealChord \ keysDown
    BY <1>4
  <2>2. ~Presses(m, n + 1)'
    BY <1>2, <1>4 DEF Presses
  <2>3. m \in revealDown => \E j \in 1..n : Releases(m, j)
    BY <1>1, <2>1 DEF IInv, Coming
  <2>4. \A i \in 1..n : Presses(m, i) => \E j \in 1..n : i < j /\ Releases(m, j)
    BY <1>1, <2>1 DEF IInv, Coming
  <2>5. 1..Len(keyEvents') = 1..n \cup {n + 1}
    BY <1>2
  <2>6. QED
    BY <1>3, <2>2, <2>3, <2>4, <2>5
<1>5. ASSUME NEW k \in revealChord \ keysDown', k = e.key
      PROVE  Releases(k, n + 1)' /\ ~Presses(k, n + 1)'
  <2>1. n + 1 \in 1..Len(keyEvents') /\ keyEvents'[n + 1].key = k /\ ~keyEvents'[n + 1].down
    BY <1>2, <1>5
  <2>2. QED
    BY <2>1 DEF Presses, Releases
<1>6. ASSUME NEW m \in revealChord \ keysDown'
      PROVE  /\ m \in revealDown' => \E j \in 1..Len(keyEvents') : Releases(m, j)'
             /\ \A i \in 1..Len(keyEvents') :
                  Presses(m, i)' => \E j \in 1..Len(keyEvents') : i < j /\ Releases(m, j)'
  <2>1. CASE m = e.key
    <3>1. Releases(m, n + 1)' /\ ~Presses(m, n + 1)'
      BY <1>5, <2>1
    <3>2. n + 1 \in 1..Len(keyEvents') /\ \A i \in 1..Len(keyEvents') : i = n + 1 \/ i < n + 1
      BY <1>2
    <3>3. QED
      BY <3>1, <3>2
  <2>2. QED
    BY <1>4, <2>1
<1>7. QED
  BY <1>2, <1>6 DEF Coming

LEMMA KeyStep ==
  ASSUME IInv, NEW k \in revealChord, PressKey(k) \/ RepeatKey(k) \/ ReleaseKey(k)
  PROVE  IInv'
<1>1. /\ UNCHANGED <<active, localMonitor, revealDown, revealHeld>>
      /\ keysDown' \subseteq revealChord
  BY DEF PressKey, RepeatKey, ReleaseKey, Post, panel, reveal, IInv, TypeOK
<1>2. CASE active
  <2>1. PICK e \in Events : /\ keyEvents' = Append(keyEvents, e) /\ e.key = k
                            /\ k \notin keysDown' => ~e.down
    <3>1. CASE PressKey(k) \/ RepeatKey(k)
      <4>1. /\ keyEvents' = Append(keyEvents, [down |-> TRUE, key |-> k])
            /\ k \in keysDown'
        BY <1>2, <3>1 DEF PressKey, RepeatKey, Post
      <4>2. [down |-> TRUE, key |-> k] \in Events
        BY DEF Events
      <4>3. QED
        BY <4>1, <4>2
    <3>2. CASE ReleaseKey(k)
      <4>1. keyEvents' = Append(keyEvents, [down |-> FALSE, key |-> k])
        BY <1>2, <3>2 DEF ReleaseKey, Post
      <4>2. [down |-> FALSE, key |-> k] \in Events
        BY DEF Events
      <4>3. QED
        BY <4>1, <4>2
    <3>3. QED
      BY <3>1, <3>2
  <2>2. \A m \in revealChord \ keysDown' : m \notin keysDown \/ m = k
    BY DEF PressKey, RepeatKey, ReleaseKey
  <2>3. Coming' /\ keyEvents' \in Seq(Events)
    BY <1>1, <2>1, <2>2, PostStep
  <2>4. QED
    BY <1>1, <1>2, <2>3 DEF IInv, TypeOK, Away
<1>3. CASE ~active
  <2>1. UNCHANGED keyEvents /\ keyEvents = <<>> /\ revealDown = {}
    BY <1>3 DEF PressKey, RepeatKey, ReleaseKey, Post, IInv, Away
  <2>2. Len(keyEvents') = 0
    BY <2>1
  <2>3. QED
    BY <1>1, <2>1, <2>2 DEF IInv, TypeOK, Away, Coming
<1>4. QED
  BY <1>2, <1>3

\* The event at the head has been handled, and its key with it.
LEMMA HandleStep ==
  ASSUME IInv, keyEvents # <<>>, keyEvents' = Tail(keyEvents), UNCHANGED keysDown,
         \A k \in revealDown' : k \in revealDown \/ Presses(k, 1),
         \A k \in revealDown' : ~Releases(k, 1)
  PROVE  Coming' /\ keyEvents' \in Seq(Events)
<1>1. /\ keyEvents' \in Seq(Events) /\ Len(keyEvents') = Len(keyEvents) - 1 /\ Len(keyEvents) \in Nat \ {0}
      /\ \A i \in 1..Len(keyEvents') : keyEvents'[i] = keyEvents[i + 1]
  BY DEF IInv, TypeOK
<1>2. \A k, i : i \in 1..Len(keyEvents') => (Presses(k, i)' <=> Presses(k, i + 1))
  BY <1>1 DEF Presses
<1>3. \A k, j : j \in 2..Len(keyEvents) /\ Releases(k, j) =>
        j - 1 \in 1..Len(keyEvents') /\ Releases(k, j - 1)'
  BY <1>1 DEF Releases
<1>4. ASSUME NEW k \in revealChord \ keysDown', k \in revealDown'
      PROVE  \E j \in 1..Len(keyEvents') : Releases(k, j)'
  <2>1. PICK j \in 1..Len(keyEvents) : Releases(k, j) /\ j # 1
    <3>1. CASE k \in revealDown
      BY <1>4, <3>1 DEF IInv, Coming
    <3>2. CASE Presses(k, 1)
      BY <1>1, <1>4, <3>2 DEF IInv, Coming
    <3>3. QED
      BY <1>4, <3>1, <3>2
  <2>2. QED
    BY <1>1, <1>3, <2>1
<1>5. ASSUME NEW k \in revealChord \ keysDown', NEW i \in 1..Len(keyEvents'), Presses(k, i)'
      PROVE  \E j \in 1..Len(keyEvents') : i < j /\ Releases(k, j)'
  <2>1. i + 1 \in 1..Len(keyEvents) /\ Presses(k, i + 1)
    BY <1>1, <1>2, <1>5
  <2>2. PICK j \in 1..Len(keyEvents) : i + 1 < j /\ Releases(k, j)
    BY <1>5, <2>1 DEF IInv, Coming
  <2>3. QED
    BY <1>1, <1>3, <2>2
<1>6. QED
  BY <1>1, <1>4, <1>5 DEF Coming

LEMMA MonitorStep ==
  ASSUME IInv, Monitored
  PROVE  IInv'
<1>1. /\ keyEvents # <<>> /\ localMonitor /\ keyEvents' = Tail(keyEvents) /\ active
      /\ UNCHANGED <<keysDown, active, visible, localMonitor>>
      /\ Head(keyEvents) \in Events /\ Head(keyEvents) = keyEvents[1] /\ 1 \in 1..Len(keyEvents)
  BY DEF Monitored, panel, IInv, TypeOK, Away
<1>2. revealDown' = Down(Head(keyEvents))
  BY DEF Monitored
<1>3. \A k \in revealDown' : k \in revealDown \/ Presses(k, 1)
  BY <1>1, <1>2 DEF Down, Presses
<1>4. \A k \in revealDown' : ~Releases(k, 1)
  BY <1>1, <1>2 DEF Down, Releases
<1>5. Coming' /\ keyEvents' \in Seq(Events)
  BY <1>1, <1>3, <1>4, HandleStep
<1>6. revealDown' \subseteq revealChord
  BY <1>1, <1>2 DEF Down, Events, IInv, TypeOK
<1>7. revealHeld' => revealChord \subseteq revealDown'
  BY DEF Monitored
<1>8. QED
  BY <1>1, <1>5, <1>6, <1>7 DEF IInv, TypeOK, Away

LEMMA InvStep ==
  ASSUME ~SwitchesHolding PROVE IInv /\ [PanelNext]_panelVars => IInv'
<1> SUFFICES ASSUME IInv, [PanelNext]_panelVars PROVE IInv'
  OBVIOUS
<1>1. ASSUME NEW k \in revealChord, PressKey(k) \/ RepeatKey(k) \/ ReleaseKey(k)
      PROVE  IInv'
  BY <1>1, KeyStep
<1>2. CASE SwitchApplication
  <2>1. /\ UNCHANGED <<keysDown, keyEvents, visible, localMonitor, revealDown, revealHeld>>
        /\ active => keysDown = {} /\ keyEvents = <<>>
    BY <1>2 DEF SwitchApplication, keys, panel, reveal, IInv, TypeOK
  <2>2. active => revealDown = {}
    BY <2>1 DEF IInv, TypeOK, Coming
  <2>3. keyEvents = <<>> /\ revealDown = {}
    BY <2>1, <2>2 DEF IInv, Away
  <2>4. QED
    BY <2>1, <2>3 DEF IInv, TypeOK, Coming, Away, Presses, Releases
<1>3. CASE CloseButton \/ \E e \in Entries : Select(e) \/ WipeEntry(e)
  <2>1. UNCHANGED <<keysDown, keyEvents, active, localMonitor, revealDown, revealHeld>>
    BY <1>3 DEF CloseButton, Select, WipeEntry, keys, panel, reveal
  <2>2. QED
    BY <2>1, Frame DEF IInv, Away
<1>9. CASE Show
  <2>1. UNCHANGED <<keysDown, keyEvents, revealDown, revealHeld>> /\ active' /\ localMonitor'
    BY <1>9 DEF Show, keys, reveal
  <2>2. QED
    BY <2>1, Frame DEF IInv, Away
<1>4. CASE Hide
  <2>1. UNCHANGED <<keysDown, keyEvents, active>> /\ revealDown' = {} /\ ~revealHeld'
    BY <1>4 DEF Hide, keys
  <2>2. Coming' /\ TypeOK'
    BY <2>1 DEF IInv, TypeOK, Coming, Presses, Releases
  <2>3. QED
    BY <2>1, <2>2 DEF IInv, Away
<1>5. CASE Monitored
  BY <1>5, MonitorStep
<1>6. CASE Unmonitored
  <2>1. /\ keyEvents # <<>> /\ keyEvents' = Tail(keyEvents) /\ revealDown' = {} /\ revealDown = {}
        /\ UNCHANGED <<keysDown, active, visible, localMonitor, revealHeld>>
    BY <1>6 DEF Unmonitored, panel, reveal, IInv
  <2>2. Coming' /\ keyEvents' \in Seq(Events)
    BY <2>1, HandleStep
  <2>3. QED
    BY <2>1, <2>2 DEF IInv, TypeOK, Away
<1>7. CASE UNCHANGED panelVars
  <2>1. UNCHANGED <<keysDown, keyEvents, active, localMonitor, revealDown, revealHeld>>
    BY <1>7 DEF panelVars
  <2>2. QED
    BY <2>1, Frame DEF IInv, Away
<1>8. QED
  BY <1>1, <1>2, <1>3, <1>4, <1>5, <1>6, <1>7, <1>9 DEF PanelNext

\* As long as nobody leaves clipabra with a key down, a value is on screen
\* only while both keys are, up to the events on their way.
THEOREM SwitchSafe ==
  ASSUME ~SwitchesHolding PROVE PanelSpec => []DeadManSwitch
<1>1. IInv => DeadManSwitch
  <2> SUFFICES ASSUME IInv, Shown # {}, keyEvents = <<>> PROVE keysDown = revealChord
    BY DEF DeadManSwitch
  <2>1. revealHeld
    BY DEF Shown
  <2>2. revealChord \subseteq revealDown /\ keysDown \subseteq revealChord
    BY <2>1 DEF IInv, TypeOK
  <2>3. ASSUME NEW k \in revealChord PROVE k \in keysDown
    <3>1. \A j \in 1..Len(keyEvents) : FALSE
      OBVIOUS
    <3>2. QED
      BY <2>2, <2>3, <3>1 DEF IInv, Coming
  <2>4. QED
    BY <2>2, <2>3
<1>2. QED
  BY <1>1, InvInit, InvStep, PTL DEF PanelSpec
=============================================================================
