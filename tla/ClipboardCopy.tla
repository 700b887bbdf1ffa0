---------------------------- MODULE ClipboardCopy ----------------------------
(***************************************************************************)
(* keyabra copy (_cmd_copy in keyabra/cli.py): an entry of the vault goes  *)
(* to the clipboard, and a detached watcher clears the clipboard after a   *)
(* while if it still holds the value.  Composed with EnvVault, whose file  *)
(* is read while it may be rewritten, and with what clipabra's poll        *)
(* (PasteboardWatcher.swift) does with the clipboard.                      *)
(*                                                                         *)
(* The pasteboard is external: taking it raises the change count, empties  *)
(* it and makes the taker its owner; only the owner may add types to it,   *)
(* which leaves the count alone.  poll reads the count, the types and the  *)
(* string in three calls, and any of the calls here may come in between.   *)
(***************************************************************************)
EXTENDS EnvVault

CONSTANTS
  Copies,   \* invocations of keyabra copy
  Texts     \* what a user may copy elsewhere

VARIABLES
  pasteboard,  \* [owner, concealed, text, fresh]: no owner of ours or one, no
               \* text or one, and whether clipabra's poll has yet to see it
  polling,     \* what that poll reads next
  types,       \* what it read of the types
  cpc,         \* the next call of each invocation, then of its watcher
  line,        \* the text it puts on the clipboard, none before it is loaded
  watched,     \* the text its watcher was given
  moved,       \* auxiliary: the pasteboard has changed since it read the types
  recorded,    \* auxiliary: texts that poll took for ordinary ones, those
               \* apart that came after the types
  exposed,     \* auxiliary: texts that were copied without concealing them
  since        \* auxiliary: texts copied since the watcher looked

reads == <<polling, types, recorded>>
auxiliary == <<reads, moved, exposed, since>>
vars == <<vaultvars, pasteboard, cpc, line, watched, auxiliary>>

\* --env-line.
EnvLine(n, v) == <<"line", n, v>>

Init ==
  /\ VaultInit
  /\ pasteboard = [owner |-> {}, concealed |-> FALSE, text |-> {}, fresh |-> FALSE]
  /\ cpc = [c \in Copies |-> "load"]
  /\ line = [c \in Copies |-> {}] /\ watched = line
  /\ polling = "no" /\ types = {} /\ moved = FALSE
  /\ recorded = {} /\ exposed = {}
  /\ since = [c \in Copies |-> {}]

Goto(c, next) == cpc' = [cpc EXCEPT ![c] = next]

\* The pasteboard is taken, by one of our invocations or by someone else.
Take(owner, concealed, text) ==
  /\ pasteboard' = [owner |-> owner, concealed |-> concealed, text |-> text, fresh |-> TRUE]
  /\ exposed' = IF concealed THEN exposed ELSE exposed \cup text
  /\ since' = [c \in Copies |-> IF cpc[c] = "clearing" THEN since[c] \cup text ELSE {}]
  /\ moved' = (polling = "string")
  /\ UNCHANGED reads

-----------------------------------------------------------------------------
(* _cmd_copy *)

\* load_env_file, and then the value or, with --env-line, the whole line.
Load(c) ==
  /\ cpc[c] = "load"
  /\ \E n \in Names : \E v \in load_env_file[n] : \E text \in {v, EnvLine(n, v)} :
       line' = [line EXCEPT ![c] = {text}]
  /\ \E tool \in {"clear", "pbcopy"} : Goto(c, tool)
  /\ UNCHANGED <<vaultvars, pasteboard, watched, auxiliary>>

\* No such entry, or a vault that fails.
LoadFails(c) ==
  /\ cpc[c] = "load" /\ \E n \in Names : load_env_file[n] = {}
  /\ Goto(c, "gone")
  /\ UNCHANGED <<vaultvars, pasteboard, line, watched, auxiliary>>

\* _concealed_copy_macos: the pasteboard is cleared, ...
ClearContents(c) ==
  /\ cpc[c] = "clear"
  /\ Take({c}, FALSE, {})
  /\ Goto(c, "conceal")
  /\ UNCHANGED <<vaultvars, line, watched>>

\* Mutant: the string is set first.
Added_StringFirst(c) ==
  IF cpc[c] = "conceal" THEN [pasteboard EXCEPT !.text = line[c]]
                        ELSE [pasteboard EXCEPT !.concealed = TRUE]

\* ... the concealed type is set, then the string, ...
Added(c) ==
  IF cpc[c] = "conceal" THEN [pasteboard EXCEPT !.concealed = TRUE]
                        ELSE [pasteboard EXCEPT !.text = line[c]]

\* ... if no other application has taken it meanwhile, which is not looked at.
SetType(c) ==
  /\ cpc[c] \in {"conceal", "plain"}
  /\ pasteboard' = IF pasteboard.owner = {c} THEN Added(c) ELSE pasteboard
  /\ since' = [d \in Copies |-> IF cpc[d] = "clearing" THEN since[d] \cup pasteboard'.text ELSE {}]
  /\ Goto(c, IF cpc[c] = "conceal" THEN "plain" ELSE "ends")
  /\ moved' = (polling = "string")
  /\ UNCHANGED <<vaultvars, line, watched, reads, exposed>>

\* osascript fails or times out, wherever it is.
ConcealFails(c) ==
  /\ cpc[c] \in {"clear", "conceal", "plain", "ends"}
  /\ Goto(c, "pbcopy")
  /\ UNCHANGED <<vaultvars, pasteboard, line, watched, auxiliary>>

\* The fallback, and the only way with other tools.
CopyPlainly(c) ==
  /\ cpc[c] = "pbcopy"
  /\ Take({}, FALSE, line[c])
  /\ Goto(c, "spawn")
  /\ UNCHANGED <<vaultvars, line, watched>>

\* It says that all went well.
ConcealEnds(c) ==
  /\ cpc[c] = "ends"
  /\ Goto(c, "spawn")
  /\ UNCHANGED <<vaultvars, pasteboard, line, watched, auxiliary>>

\* Mutant: the watcher is given the value, not the line.
Spawn_WithValue(c) ==
  /\ cpc[c] = "spawn"
  /\ \E text \in line[c] :
       watched' = [watched EXCEPT ![c] = IF text \in Values THEN {text} ELSE {text[3]}]
  /\ Goto(c, "sleep") \/ Goto(c, "gone")
  /\ UNCHANGED <<vaultvars, pasteboard, line, auxiliary>>

\* The detached watcher is given the text; with --ttl 0 there is none.
Spawn(c) ==
  /\ cpc[c] = "spawn"
  /\ watched' = [watched EXCEPT ![c] = line[c]]
  /\ Goto(c, "sleep") \/ Goto(c, "gone")
  /\ UNCHANGED <<vaultvars, pasteboard, line, auxiliary>>

\* The tool raises, or keyabra is killed before it has started the watcher.
CopyEnds(c) ==
  /\ cpc[c] \in {"clear", "conceal", "plain", "ends", "pbcopy", "spawn"}
  /\ Goto(c, "gone")
  /\ UNCHANGED <<vaultvars, pasteboard, line, watched, auxiliary>>

-----------------------------------------------------------------------------
(* The watcher *)

\* Mutant: it clears whatever is there.
StillThere_NotCompared(c) == pasteboard.text # {}

StillThere(c) == pasteboard.text = watched[c]

\* The time is up: is the text still there?
Look(c) ==
  /\ cpc[c] = "sleep"
  /\ Goto(c, IF StillThere(c) THEN "clearing" ELSE "gone")
  /\ UNCHANGED <<vaultvars, pasteboard, line, watched, auxiliary>>

ClearClipboard(c) ==
  /\ cpc[c] = "clearing"
  /\ Take({}, FALSE, {})
  /\ Goto(c, "gone")
  /\ UNCHANGED <<vaultvars, line, watched>>

\* The tool that reads or clears the clipboard fails, which is not looked at.
ToolFails(c) ==
  /\ cpc[c] \in {"sleep", "clearing"}
  /\ Goto(c, "failed")
  /\ UNCHANGED <<vaultvars, pasteboard, line, watched, auxiliary>>

-----------------------------------------------------------------------------
(* Other applications *)

UserCopies ==
  /\ \E concealed \in BOOLEAN, text \in Texts : Take({}, concealed, {text})
  /\ UNCHANGED <<vaultvars, cpc, line, watched>>

\* poll: the change count, ...
PollSees ==
  /\ polling = "no" /\ pasteboard.fresh
  /\ pasteboard' = [pasteboard EXCEPT !.fresh = FALSE]
  /\ polling' = "types"
  /\ UNCHANGED <<types, moved, recorded, exposed, since>>

\* ... the types ...
PollReadsTypes ==
  /\ polling = "types"
  /\ types' = IF pasteboard.concealed THEN {"concealed"} ELSE {}
  /\ polling' = "string" /\ moved' = FALSE
  /\ UNCHANGED <<pasteboard, recorded, exposed, since>>

\* ... and the string.  Concealed texts are kept in memory, and do not count.
PollReadsString ==
  /\ polling = "string"
  /\ recorded' = IF types = {} /\ ~moved THEN recorded \cup pasteboard.text ELSE recorded
  /\ polling' = "no" /\ types' = {} /\ moved' = FALSE
  /\ UNCHANGED <<pasteboard, exposed, since>>

Poll ==
  /\ PollSees \/ PollReadsTypes \/ PollReadsString
  /\ UNCHANGED <<vaultvars, cpc, line, watched>>

Copying(c) ==
  \/ Load(c) \/ LoadFails(c) \/ ClearContents(c) \/ SetType(c) \/ ConcealFails(c)
  \/ ConcealEnds(c) \/ CopyPlainly(c) \/ Spawn(c) \/ CopyEnds(c)

Watcher(c) == Look(c) \/ ClearClipboard(c) \/ ToolFails(c)

Next ==
  \/ VaultNext /\ UNCHANGED <<pasteboard, cpc, line, watched, auxiliary>>
  \/ \E c \in Copies : Copying(c) \/ Watcher(c)
  \/ UserCopies \/ Poll

Spec == Init /\ [][Next]_vars

\* time.sleep returns and the tools end, well or not.
FairSpec == Spec /\ \A c \in Copies : WF_vars(Watcher(c))

-----------------------------------------------------------------------------
(* Properties *)

\* "A newer copy is never clobbered", up to the moment between the look and
\* the clearing: what a watcher clears is its own text, or was copied since it
\* looked.
NewerIsNotClobbered ==
  [][\A c \in Copies : cpc[c] = "clearing" /\ cpc'[c] = "gone" =>
       pasteboard.text \subseteq watched[c] \cup since[c]]_vars

\* clipabra takes no text for an ordinary one that was only ever copied with
\* the concealed type, whatever calls of keyabra and other copies come between
\* its polls and before it reads the types; only a text that comes between the
\* types and the string it may.
ConcealedIsNotRecorded == recorded \subseteq exposed

\* Once there is a watcher, the text does not stay on the clipboard, unless a
\* tool of the watcher failed.
WatchedSecretGoes ==
  \A c \in Copies :
    cpc[c] = "sleep" ~> (pasteboard.text # line[c] \/ cpc[c] = "failed")
=============================================================================
