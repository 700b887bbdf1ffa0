----------------------------- MODULE AppInstall -----------------------------
(***************************************************************************)
(* xabra --install / --update of an application bundle (act_install in     *)
(* xabra/cli.py, install_dmg_app and _quit_app_and_wait in xabra/core.py): *)
(* several invocations, each a sequence of calls to the system's tools,    *)
(* replace one bundle in /Applications while the user starts and quits it. *)
(*                                                                         *)
(* The tools are external: each call succeeds or fails, ditto merges what  *)
(* it copies into what is there, a copy or a removal that fails leaves     *)
(* part of a bundle, SIGKILL may not end a process in time, and the two    *)
(* checks accept a payload or not.                                         *)
(* Composed with ProtocolRepoint, which ends an installation or is what    *)
(* the invocation is for (act_protocol_update).                            *)
(***************************************************************************)
EXTENDS ProtocolRepoint

CONSTANTS
  Payloads,     \* dmg files that a source may resolve to
  Genuine       \* those that Gatekeeper and codesign accept

ASSUME InstallAssumption == Genuine \subseteq Payloads

Old == "old"       \* the bundle that is there at first
Mixed == "mixed"   \* one made of files of several

Bundle(v, whole) == [version |-> v, whole |-> whole]
InPart(b) == [b EXCEPT !.whole = FALSE]

VARIABLES
  target,   \* the bundle in /Applications: none or one
  backups,  \* bundles of which BACKUP_DIR has all
  procs,    \* versions of the bundle that processes run from
  pc,       \* the next call of each invocation
  payload,  \* what it installs: none or one
  quit,     \* what its receipt says of quitting the application
  banked,   \* invocations whose receipt was banked
  overlap,  \* auxiliary: two invocations were at work at once
  unsaved,  \* auxiliary: bundles of which a backup failed
  reopened  \* auxiliary: the user started it while it was being replaced

vars == <<target, backups, procs, pc, payload, quit, banked, overlap, unsaved, reopened,
          protocolvars>>

disk == <<target, backups, unsaved>>
progress == <<pc, payload, quit, banked, overlap>>

Init ==
  /\ ProtocolInit
  /\ target \in {{}, {Bundle(Old, TRUE)}}
  /\ backups = {}
  /\ procs \in SUBSET {b.version : b \in target}
  /\ pc = [i \in Invocations |-> "idle"]
  /\ payload = [i \in Invocations |-> {}]
  /\ quit = [i \in Invocations |-> "was not running"]
  /\ banked = {} /\ overlap = FALSE
  /\ unsaved = {} /\ reopened = FALSE

\* What it holds is of no interest when it has ended.
Forget(i) == payload' = [payload EXCEPT ![i] = {}]

Ended(i) == pc[i] \in {"done", "killed"}

Goto(i, next) == pc' = [pc EXCEPT ![i] = next]

\* A tool call that changes nothing: on to the next call.
Call(i, at, next) ==
  /\ pc[i] = at /\ Goto(i, next)
  /\ UNCHANGED <<disk, procs, payload, quit, banked, overlap, reopened>>

-----------------------------------------------------------------------------
(* act_install, up to the payload *)

Begins(i) ==
  overlap' = (overlap \/ \E j \in Invocations \ {i} : pc[j] # "idle" /\ ~Ended(j))

\* A source resolves, it is newer if that matters, and the user agrees.
Start(i) ==
  /\ pc[i] = "idle"
  /\ \E p \in Payloads : payload' = [payload EXCEPT ![i] = {p}]
  /\ Begins(i)
  /\ Goto(i, "fetch")
  /\ UNCHANGED <<disk, procs, quit, banked, reopened>>

\* No source resolves: a receipt of the failure is banked.
NoSource(i) == Call(i, "idle", "bank")

\* --update --protocol, if the user agrees.
ProtocolUpdate(i) ==
  /\ pc[i] = "idle" /\ Goto(i, "protocol")
  /\ Begins(i)
  /\ UNCHANGED <<disk, procs, payload, quit, banked, reopened>>

\* Nothing newer, or the user declines: no receipt.
Decline(i) == Call(i, "idle", "done")

Fetch(i) == Call(i, "fetch", "attach") \/ Call(i, "fetch", "bank")
Attach(i) == Call(i, "attach", "assess") \/ Call(i, "attach", "bank")

-----------------------------------------------------------------------------
(* install_dmg_app *)

\* Mutant: a rejection is noted in the receipt and no more.
Verify_NotEnforced(i) == Call(i, "assess", "pids")

\* spctl --assess, then codesign --verify.
Verify(i) ==
  \/ payload[i] \subseteq Genuine /\ Call(i, "assess", "pids")
  \/ payload[i] \cap Genuine = {} /\ Call(i, "assess", "detach")

\* _quit_app_and_wait: is it running?
Pids(i) ==
  \/ procs = {} /\ Call(i, "pids", "backup")
  \/ procs # {} /\ Call(i, "pids", "poll")

\* One of the polls after the request to quit finds no process, or the last
\* look after SIGKILL does not, or it does, and this is noted and no more.
Quit(i) ==
  /\ pc[i] = "poll"
  /\ procs' \in {{}, procs}
  /\ quit' = [quit EXCEPT ![i] = IF procs' = {} THEN "exited" ELSE "still-running"]
  /\ Goto(i, "backup")
  /\ UNCHANGED <<disk, payload, banked, overlap, reopened>>

NothingToReplace(i) == target = {} /\ Call(i, "backup", "copy")

Whole == {b \in target : b.whole}

\* Mutant: one backup is enough.
Backup_OnlyFirst(i) ==
  /\ pc[i] = "backup" /\ target # {}
  /\ \/ backups' = (IF backups = {} THEN Whole ELSE backups) /\ UNCHANGED unsaved
     \/ unsaved' = unsaved \cup Whole /\ UNCHANGED backups
  /\ Goto(i, "remove")
  /\ UNCHANGED <<target, procs, payload, quit, banked, overlap, reopened>>

\* ditto to BACKUP_DIR, whose result is not looked at.
Backup(i) ==
  /\ pc[i] = "backup" /\ target # {}
  /\ \/ backups' = backups \cup Whole /\ UNCHANGED unsaved
     \/ unsaved' = unsaved \cup Whole /\ UNCHANGED backups
  /\ Goto(i, "remove")
  /\ UNCHANGED <<target, procs, payload, quit, banked, overlap, reopened>>

\* shutil.rmtree, which raises when it cannot remove all of it.
Remove(i) ==
  /\ pc[i] = "remove"
  /\ \/ target' = {} /\ Goto(i, "copy")
     \/ target' = {InPart(b) : b \in target} /\ Goto(i, "detach")
  /\ UNCHANGED <<backups, unsaved, procs, payload, quit, banked, overlap, reopened>>

Ditto(i, whole) ==
  /\ target' = {Bundle(IF \A b \in target : b.version = p THEN p ELSE Mixed, whole) : p \in payload[i]}
  /\ UNCHANGED <<backups, unsaved, procs, payload, quit, banked, overlap, reopened>>

\* ditto to /Applications begins, ...
CopyBegins(i) == pc[i] = "copy" /\ Ditto(i, FALSE) /\ Goto(i, "copying")

\* ... and ends: the bundle is whole, if nobody else has a hand in it.
CopyEnds(i) ==
  /\ pc[i] = "copying"
  /\ \E whole \in BOOLEAN : (overlap \/ whole) /\ Ditto(i, whole)
  /\ Goto(i, "open")

CopyFails(i) == Call(i, "copying", "detach")

\* Started again only if it was running; then the receipt says ok, before the
\* protocol is repointed.
Open(i) ==
  /\ pc[i] = "open"
  /\ \/ UNCHANGED procs
     \/ \E b \in target : b.whole /\ quit[i] # "was not running" /\ procs' = procs \cup {b.version}
  /\ Goto(i, "protocol")
  /\ UNCHANGED <<disk, payload, quit, banked, overlap, reopened>>

\* Mutant: the receipt is banked when all has gone well.
Detach_NotBanked(i) == Call(i, "detach", "done")

\* The finally clauses on the way out of an error.
Detach(i) == Call(i, "detach", "bank")

-----------------------------------------------------------------------------
(* act_install, the rest *)

Binary == \E b \in target : b.whole

\* repoint_protocol, which needs a binary: a bundle in part may have it.
Repoint(i) ==
  /\ pc[i] = "protocol"
  /\ repoint_protocol(i, Binary) \/ (~Binary /\ target # {} /\ repoint_protocol(i, TRUE))
  /\ UNCHANGED <<disk, procs, progress, reopened>>

\* Whatever came of it.
RepointEnds(i) == Repointed(i) /\ Call(i, "protocol", "bank")

\* The finally clause: the receipt is banked in any case.
Bank(i) ==
  /\ pc[i] = "bank"
  /\ banked' = banked \cup {i}
  /\ Goto(i, "done") /\ Forget(i)
  /\ UNCHANGED <<disk, procs, quit, overlap, reopened>>

-----------------------------------------------------------------------------
(* The rest of the system *)

\* Killed, with the tool it has called.
Killed(i) ==
  /\ pc[i] # "idle" /\ ~Ended(i)
  /\ Goto(i, "killed") /\ Forget(i)
  /\ IF pc[i] = "protocol" THEN EndsAt(i, "killed") ELSE UNCHANGED protocolvars
  /\ UNCHANGED <<disk, procs, quit, banked, overlap, reopened>>

Replacing == \E i \in Invocations : pc[i] \in {"poll", "backup", "remove", "copy", "copying"}

UserOpens ==
  /\ \E b \in target : b.whole /\ procs' = procs \cup {b.version}
  /\ reopened' = (reopened \/ Replacing)
  /\ UNCHANGED <<disk, progress>>

UserQuits ==
  /\ \E v \in procs : procs' = procs \ {v}
  /\ UNCHANGED <<disk, progress, reopened>>

Installing(i) ==
  \/ Start(i) \/ ProtocolUpdate(i) \/ NoSource(i) \/ Decline(i)
  \/ Fetch(i) \/ Attach(i) \/ Verify(i)
  \/ Pids(i) \/ Quit(i)
  \/ NothingToReplace(i) \/ Backup(i) \/ Remove(i)
  \/ CopyBegins(i) \/ CopyEnds(i) \/ CopyFails(i) \/ Open(i) \/ Detach(i)
  \/ RepointEnds(i) \/ Bank(i)

Next ==
  \/ \E i \in Invocations :
       (Installing(i) /\ UNCHANGED protocolvars) \/ Repoint(i) \/ Killed(i)
  \/ (UserOpens \/ UserQuits) /\ UNCHANGED protocolvars
  \/ /\ \E e \in Edits : AgentWrites(e)
     /\ UNCHANGED <<disk, procs, progress, reopened>>

Spec == Init /\ [][Next]_vars

-----------------------------------------------------------------------------
(* Properties *)

\* "Verification is non-negotiable": what is rejected is never in
\* /Applications, not even in part, and never runs; two invocations at once may
\* leave a mixture of bundles that were accepted.
OnlyVerifiedInstalled ==
  {b.version : b \in target} \cup procs \subseteq
    Genuine \cup {Old} \cup (IF overlap THEN {Mixed} ELSE {})

\* "back up the replaced app": a whole bundle goes out of /Applications only
\* with a whole copy of it in BACKUP_DIR; one invocation at a time.
ReplacedIsBackedUp ==
  [][~overlap => \A b \in target : b.whole /\ b \notin target' => b \in backups]_vars

\* So it is wherever xabra fails or is killed and run again, but for a bundle
\* whose backup has failed.
ReplacedIsBackedUpOrUnsaved ==
  [][~overlap => \A b \in target : b.whole /\ b \notin target' => b \in backups \cup unsaved]_vars

\* No process runs from a bundle that is gone or replaced ("so we never
\* orphan a running instance behind a stale bundle"), unless a banked receipt
\* says that one is still running, or one that is yet to be banked does, or an
\* invocation was killed with it in hand; one invocation at a time, and when
\* the user does not start the application meanwhile.
OrphansAreReported ==
  \/ overlap \/ reopened
  \/ \E i \in Invocations :
       quit[i] = "still-running" /\ (i \in banked \/ pc[i] # "done")
  \/ \A v \in procs : Bundle(v, TRUE) \in target

\* Nothing that agent sessions wrote to ~/.claude.json goes without a copy,
\* whatever fails and wherever xabra is killed and run again ("edits bank a
\* backup first"), but for what they write between the copy and the write; one
\* invocation at a time.
EditsAreKept ==
  overlap \/ made \subseteq late \cup UNION {c.edits : c \in config \cup copies}

\* The shim is enrolled only when it can be started, so that no agent session
\* finds its server gone ("re-running is always safe"); one invocation at a
\* time, unless one ended between the writing of the shim and its chmod.
EnrolledShimRuns == overlap \/ missed \/ ~Enrolled \/ (shim.execs /\ shim.executable)
=============================================================================
