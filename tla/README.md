# Noldorian, modelled and proved

TLA+ specifications of the Noldorian repository (paths below are relative to
`src/`): the key broker with its service and its clients, the tools that move
and store secrets, the clipboard manager, the application installer, the
paste-once runner and the monorepo commands. Each module models one component, TLC
checks it on a small instance, and TLAPS proves the most important results for
every value of the constants.

Contents: [inventory](#inventory), [modules](#modules-and-the-code),
[runs](#what-each-run-checks), [bounds](#bounds), [fairness](#fairness),
[proofs](#proofs), [what code and docs disagree on](#where-code-and-docs-disagree),
[not modelled](#not-modelled), [plan](#plan).

## Inventory

The repository is a family of small tools around one idea: an agent may *use* a
credential without ever seeing it.

| Component | State it keeps | Operations | Interacts with | What is hard | What makes it correct |
|---|---|---|---|---|---|
| capability broker (`keyabra/broker.py`, `broker_server.py`) | `capabilities.json`, one file per secret | status, list, describe, invoke; register, enroll, import_env for owners | clients over a Unix socket, `tunnel-client` children, launchd | one thread per connection and no lock over shared files; crashes; children that hang | no entry or secret is lost or mixed up, answers are true, children run only inside the owner's window, requests end |
| atomic replacement (`broker.py: _atomic_write`) | a file, its mode, temporary files | write | the file system | calls that fail, kill, power loss, two writers | one whole payload with its exact mode at any moment |
| broker clients (`broker_client.py`, `noldorian/client.py`, `noldorian/mcp.py`) | the connection; messages not yet served | one request each; one message after the other | the daemon | timeouts on both sides, daemons that die inside a call | what a caller is told is true of what was done; calls end; messages are answered |
| broker service and installer (`broker_server.py`, `install_broker_macos.sh`) | launchd job, socket file, daemons | start, serve, close; bootout, bootstrap, wait, register | launchd, operators | stale sockets, overlapping daemons | a daemon that serves is reachable; installed means the new daemon; the service comes back |
| keyabra vault and command line (`keyabra/__init__.py`, `cli.py`) | env files, the clipboard for a while | env, copy, run, rites | shell, pasteboard | rewrites in place, a detached process that clears the clipboard | a newer copy is not clobbered, no value is lost |
| GCP rites (`discord_gcp.py`, `cursor_gcp.py`) | versions of a secret at Google | store: validate, add, read back, validate | `gcloud`, the provider | several rites on one secret, timeouts that took effect, keys revoked meanwhile | only accepted keys are stored; a receipt is true |
| macOS keychain rite (`macos_keychain.py`) | none | read one vault value, unlock a keychain with it, probe codesign | the Security framework, `codesign` | | the value stays out of arguments |
| clipabra chord (`ChordMonitor.swift`) | keys held back, two timers | tap callback, timers | the keyboard, every application | replayed keys, timers and new keys interleave | no key lost, doubled or typed by a chord |
| clipabra history (`HistoryStore.swift`, `PasteboardWatcher.swift`) | ring, deadlines, `history.json` | poll, add, wipe, copy back, load | pasteboard of all applications | writes between the reads of a poll, polls that see several writes, eviction, relaunch, writes that fail | concealed values stay in memory and go; normal ones survive |
| clipabra panel (`HistoryPanelController.swift`, `HistoryView.swift`) | keys believed down, reveal flag, selection | toggle, key monitor, select | window server, history | key events that go elsewhere, a panel closed behind its back | shown only while the keys are held |
| xabra (`xabra/core.py`, `cli.py`) | bundles, backups, receipts, `~/.claude.json`, a shim | install, update, repoint, open, status | `hdiutil`, `spctl`, `codesign`, `ditto`, running processes | any tool fails, xabra is killed, two invocations, a user who starts the application | nothing rejected is installed, what is replaced is backed up, receipts are true |
| xadabra paste runner (`xadabra/*.py`) | history of runs | parse, fill, preview, run | shell | placeholders that are secret | values are neither shown nor stored; what was shown runs |
| xadabra noldorian (`xadabra/noldorian.py`) | the monorepo, its clone, tags | pack, push | git, GitHub, another clone | a kill or an edit inside a copy, half of a push, another branch checked out | a success is whole and published |
| xalakazam, binabra, bootstrap, packaging | none that matters | remote settings, exec, installs | `gh`, pip | | |

`PROJECT.json` lists every component with its status, and under `hazards` the
places in the code where something can go wrong that a test would hardly reach,
with the property that would show it.

## Modules and the code

**Broker** (`keyabra/broker.py`, `broker_server.py`). `catalog` is
`capabilities.json`, `custody` the directory `secrets/`. Each handler thread has
a program counter and its locals: `snap` (the catalog it loaded), `todo`/`found`
(the secret files it still looks for, and found), `key` (the secret it holds),
`outcome`. One action per access to a shared file: `LoadCatalog`,
`WriteCatalog`, `WriteSecret`, `Reload`, `Probe`, `ReadSecret`; then
`StartChild`, `ChildExits` (its output may be no UTF-8, and then the answer is
"broker internal error"), `ChildTimesOut`; `CrashRestart` loses every thread
and keeps the files. Authorization and validation (`Admitted`, `ValidSpec`,
`Accepts`) are the code's guards. `seenOps`, `seenKeys` and
`overlapped` are auxiliary: what catalog and custody said since the request came
in, and that two registrations were at work at once.

**CapabilityRegistry** is the abstract specification: the catalog and custody
with one-step `Register` and `Enroll`. Every step of Broker is one of its steps or
changes nothing of it, over the identity on the two variables, until two
registrations overlap: from then on an entry may be lost.

**BrokerService** (`broker_server.py`, `install_broker_macos.sh`) models the
daemon as a process: `life` is where it is in `BrokerDaemon.__init__` (look at
the path, unlink, bind, listen, chmod, chown), in `serve_forever` and in
`server_close`, one action per system call. `path` is whose socket file is at
the socket path; it outlives its daemon, and every unlink takes whatever is
there. `Launch` is launchd (a restart is another daemon), `RunByHand` and
`Interrupt` an operator with a terminal, `Crash` and `TerminateJob` the ends. The
installer's `step` goes from `Bootout` over `Bootstrap`, the wait for the socket
file and the registration through `nc` to its last line. `before`, `leftover`
and `overlap` are auxiliary.

**BrokerWire** extends it with the exchange itself. The client is
`broker_client.py` and `noldorian/client.py`, which are the same call for call:
`Connect` (or `RefuseHere`, `ConnectFails`, `ConnectDenied`), `SendMore` and
`SendRest` of the line, `Receive`, `ReceiveEnd` on a closed connection, and
`GiveUp` for its timeout. The handler thread is in the daemon the client reached
(`peer`) and goes no further when that daemon ends: `Accept`, `ReadRequest` or
`ReadJunk`, then `CarryOut`, `Raise` and `Finish` for dispatch, `WriteAnswer`. The
MCP server (`noldorian/mcp.py`) takes `inbox` message after message, and a call
keeps the messages behind it waiting; a message of the kind "raises" ends it
(`DieOfMessage`): text that is no UTF-8, JSON that is no object, `initialize` with
params null or no object, `tools/call` with params that are no object or a name
that cannot be looked up. Dispatch is one effect here, `runs`; Broker
looks inside it.

**RemoteCall** is the abstract specification of a call, with no sockets and no
timers: it runs at most once, and of what a caller is told, `result` means it ran,
`nothing` that it did not and never will, `unknown` leaves it open. BrokerWire
implements it, `verdict` being a function of the error text the caller gets.

**AtomicWrite** opens what Broker takes as one step, the replacement of a file:
one action per system call (`MakeTemp`, `WriteTemp`, `SyncTemp`, `ChmodTemp`,
`Replace`, `Recheck`), failure of each with the `finally` clause, `Kill` and
`PowerLoss`. `path` is what processes see, `durable` what a power loss leaves.
Its property `ChangesAreWhole` is what entitles Broker to one step.

**SecretRite** models both GCP rites, which are call for call the same:
`Preflight`, `Describe`, `Create`, `Add`, `Access`, `Compare`, `Postflight`, a
`TimeOut` that took effect, `Fail` for everything else, and the provider's
`Revoke`. `versions` is the store; several rites work on one secret. A receipt
speaks of the version "add" named or else of "latest" (`Denoted`); `readAt`,
auxiliary, is the place it was read back from.

**ChordMonitor** models the event tap. Events wait in `queue`; `Handle` is the
callback on the head of it, split by what becomes of the event (held, dropped,
passed, replayed). A posted event goes to the end of the queue, tagged; a passed
one to `out`. `ReplayExpires` and `FireExpires` are the timers, at any moment
they are armed; `DisableTap`, `Bypass`, `EnableTap` the system's switch. The
order that `MembersInOrder` promises is that of presses: a release that waits in
the queue may overtake its own press when that is held and replayed.

**ClipHistory** models `poll`, `add`, `wipe`, `copyBack`, `persist` and `load`
over a pasteboard that other applications write. `poll` is three reads, each a
step: the change count (`PollIgnores`, `PollSees`), the types
(`PollReadsTypes`), the string (`PollSkips`, `PollAdds`, which carries `add` out to
its end); any write may come in between. `wipes` holds scheduled wipes in the order of
their deadlines. `disk` is what `history.json` decodes to, nothing after a kill
inside the write (`QuitTorn`); a write that fails says nothing and leaves the old
file or a part (`Persist`). `plain`, `torn` and `stale` are auxiliary: what was
copied openly, what was read as the string of one copy under the types of
another, that the last write of the file failed.

**Selection** has one operator, `Only`: the part of a sequence that is in a set.
It is what `filter` and `removeAll` do in `HistoryStore.swift` and the list
comprehension in `env set`, written as a recursive function so that something
can be proved about it; MCKeyabra has TLC compare it with `SelectSeq`.

**RevealPanel** models the panel: `keysDown` and the `keyEvents` on their way, what
the local monitor believes (`revealDown`, `revealHeld`), the selection, and the
panel's three ways to go (toggle, title bar, another application in front).
`audited` is the entry that the row of the present reveal names. `ring` is
ClipHistory's ring, reduced to which entries are there.

**Clipabra** puts the three together as `AppDelegate.swift` does: a behaviour is a
session of the history, of the chord or of the panel (`part`). The tap calls
`toggle` and no more, which RevealPanel takes at any moment; of the history the
panel sees which entries there are, and RevealPanel lets them go at any moment.

**AppInstall** models `act_install` with `install_dmg_app` and
`_quit_app_and_wait`, one action per tool call, and `act_protocol_update`. Every
call may fail: where the code looks at the result it leaves by `Detach` and `Bank`,
the failure of the backup, at which it does not look, puts the bundle into
`unsaved`. `ditto` merges into what is there: a bundle that two invocations write
is `Mixed`, and whole or not. `quit` is what the receipt says of the processes,
`banked` whose receipt is on disk; a kill takes the tool that was called along.
`UserOpens` and `UserQuits` are the user, at any moment. `overlap`, `unsaved` and
`reopened` (the user started the application while it was being replaced) are
auxiliary.

**ProtocolRepoint**, which AppInstall extends, models `repoint_protocol`: `rpc`
is the call an invocation is at, `shim` and `config` the two files it changes
(text and mode of the shim, emptying and writing of `~/.claude.json` being steps
of their own), `copies` the backups, `snap` what it read. `AgentWrites` is an
agent session that changes the file meanwhile. AppInstall says when an
invocation gets there and what its receipt makes of the result.

**EnvVault** models the vault file: `load_env_file` (all entries, the last line
for a name wins) as an operator over `vault.lines`, and `env set` and `set-file` as steps:
`ensure_vault`, `UpsertReads`, `UpsertOpens` (which empties the file),
`UpsertWrites`, and a kill anywhere. `contents` is what pointers give.

**ClipboardCopy** extends EnvVault with `_cmd_copy`: `Load` from the vault as it
is at that moment, then the three calls of `_concealed_copy_macos`
(`ClearContents` and twice `SetType`) or `CopyPlainly`, then `Spawn`; `Look` and
`ClearClipboard` are the detached watcher, two processes of their own in the
code, either of which may fail unnoticed (`ToolFails`). `pasteboard` is shared with
the user's other copies and with the three reads of clipabra's `poll`. Of the
pasteboard it assumes what NSPasteboard documents: who takes it empties it, and
only its owner adds types. `moved` is auxiliary: something was written since the
poll read the types.

**Keyabra** is the command line: a behaviour is a session of the vault and the
clipboard or one of rites, which touch neither.

**PasteRunner** models an invocation of xadabra, from the options to the shell.
A block is a sequence of tokens, words and holes; `parse_placeholder_inner`,
`find_placeholders`, `substitute`, `substitute_for_run`, `prefill_placeholder`
and `script_uses_spells` are operators named as in the code, and `Fill`,
`Preview`, `confirm_run`, `Blocked`, `append_run`, `execute_script` the steps of
`run_pipeline`. Values are tokens as well, so that one may look like a
placeholder or be a spell. A block ends with its line, and tokens are separated by
blanks: what `policy.py` makes of a spell beside a bracket or a slash is not in the
model (see [below](#where-code-and-docs-disagree)).

**Monorepo** models `cmd_pack` and `cmd_push`. `tree` is the copy of each package
in the projects directory and in the destination, `part` when an `rmtree` or a
`copytree` is not through, and also for a mixture of what was there and what came
while it was copied. `log` is the commits of the clone, each with whether it was
made on the branch main, `head` and `local` are HEAD and the branch main, `here`
whether that is what is checked out; `tags` are its tags, `main` and `rtags`
GitHub's. One action per call: `CheckPackage`, `RemoveSome` and `RemoveRest`,
`CopySome` and `CopyRest` for each package; `Commit`, `TagHead`, `PushMain`,
`PushTag`. Before any command the operator may change the branch (`Checkout`);
`Kill` comes anywhere, a push that fails may have arrived, a developer `Edit`s,
also a source that is being copied (`edited`, auxiliary), another clone
`Publish`es. What a commit contains, and whether there is something to commit, is
left open.

**Xadabra** is the command: `main` hands "noldorian ..." to Monorepo and everything
else to PasteRunner, which share no state.

Broker and AtomicWrite, Broker and BrokerWire, ClipHistory and ClipboardCopy meet at
one step or one variable, and are composed by property, not by product: a
product would multiply states and add no interaction. Clipabra, Keyabra and
Xadabra have their parts side by side, for the same reason. AppInstall with
ProtocolRepoint, ClipboardCopy with EnvVault, and BrokerWire with BrokerService run
together.

## What each run checks

| Run | Shows |
|---|---|
| `broker` | Until two registrations overlap, `register` answers with what it was given (`RegisterIsReadBack`) and the threads implement the registry (`ImplementsRegistry`; with it, no secret without an entry). Always, what is reported available is enrolled (`AvailableIsEnrolled`), a child runs only with an operation and secret valid since the request came (`RunsWithinWindow`), and every request ends. |
| `broker_lost_update` | Violation: two registrations overlap, one entry is lost (`RegisterReadsBack`). |
| `broker_wire` | A daemon that serves is where clients connect, with its mode and group, unless two overlapped (`ServedIsReachable`); "installed" speaks of the new daemon, but for a stale socket or a daemon run by hand (`InstalledIsNew`); after every crash the service comes back (`ServiceComesBack`); what callers are told is true of what was done (`KeepsRemoteCall`); every call ends, even if its thread never moves again (`EveryCallEnds`); the MCP server answers each message that asks for it, once and in order, up to one that makes the server raise (`EveryMessageIsAnswered`). |
| `atomic_write` | The path changes only by a rename of a whole synced file, or back to the last committed one (`ChangesAreWhole`), and its mode is exact at every moment (`ModeIsExact`), through failures, kills and power loss. |
| `keyabra` | What `env set` wrote is what copy and run get (`LatestSetWins`); no poll takes a concealed secret for an ordinary text, but for one that comes between its types and its string (`ConcealedIsNotRecorded`); the watcher clears only its own text or what was copied since it looked (`NewerIsNotClobbered`), and a watched secret goes unless a tool of the watcher fails (`WatchedSecretGoes`). A rite's receipt is true of the store: the version it names holds the key, and what it calls latest does until the next version (`ReceiptIsTrue`); success is reported only while the key is live, also when another rite stored another key in between (`StoredIsValidatedAgain`). |
| `clipabra` | History: a value only ever copied as concealed is in no normal entry and not on disk, unless it came between the two reads of a poll (`ConcealedStaysInMemory`), and goes in the end (`ConcealedIsWiped`); own writes are not recorded (`OwnWriteIsNotRecaptured`), and normal entries survive unless the write of the file failed (`NormalSurvivesRelaunch`). Chord: every event is in exactly one place, presses of members come out in order, the chord fires only while held, nothing stays held back (`ExactlyOnce`, `MembersInOrder`, `FiresWhileHeld`, `HeldIsReleased`). Panel: a value on screen means both keys are held, up to events on their way (`DeadManSwitch`), and releasing masks (`ReleaseMasks`). |
| `clip_history_torn` | Violation: a concealed copy between the types and the string of a poll is written to disk (`ConcealedNeverOnDisk`). |
| `reveal_switch` | Violation: `DeadManSwitch` with switches of application while keys are down. |
| `reveal_row` | Violation: a value on screen has no audit row (`RevealLeavesRow`). |
| `install` | Nothing rejected is in `/Applications` even in part (`OnlyVerifiedInstalled`), a process that outlives its bundle is reported by a banked receipt (`OrphansAreReported`), a whole bundle goes only with a whole backup or after a backup that failed (`ReplacedIsBackedUpOrUnsaved`); nothing an agent wrote to `~/.claude.json` goes without a copy (`EditsAreKept`), and the shim is enrolled only when it can be started (`EnrolledShimRuns`). |
| `install_backup` | Violation: a bundle is removed after a backup that failed (`ReplacedIsBackedUp`). |
| `xadabra` | What the preview showed is what runs (`PreviewIsRun`), a name marked secret where it is first seen shows its value in neither preview nor history (`SecretsStayHidden`); a pack that succeeds is whole over what killed packs left, but for packages edited while they were copied (`PackedIsWhole`), a push that succeeds under a new tag has put it on GitHub at the commit it made, and main if that was checked out (`AnnouncedIsPublished`), and no tag of a commit made on main is published before the commits below it (`TagsAreOnMain`). |

Each property of a run that passes has a mutant in `PROJECT.json`: a plausible change to one
definition, kept beside it (`X_WhatIsWrong`), under which TLC reports the property.

## Bounds

- Broker: two threads, two capabilities, two secrets, three uids (owner, agent,
  stranger) and 14 requests that reach every branch; no symmetry, since the run
  checks liveness too (about two minutes). Every property speaks of one thread
  against *some* other, or of one capability against another: two of each are the
  smallest case, and the theorems remove the bound.
- BrokerWire: two daemons of launchd (one restart, or the one before and the one
  after an installation; the last does not crash, or nothing could come back)
  and one run by hand, which overlaps either. One call of an owner and one of the
  MCP server, whose `Session` has every kind of message and one behind the
  message that ends it. The operators of the service and the calls of clients do
  not meet in one behaviour (`operated`): each meets every start, crash and
  restart. The theorems have no such bound on daemons, calls or messages.
- AtomicWrite: two writers, two payloads; theorems remove the bound.
- Keyabra. The rites: two, with two keys, so that one interferes with another;
  theorems remove the bound. The vault and the clipboard: two names and values,
  one pointer, one invocation of each command, four vaults written by hand (two
  names, two kinds of line for a name, a line that does not parse). Other copies,
  of the same text or another, come from `UserCopies` without bound, so a second
  copy of ours would add nothing. In `KeyabraInit` the part that is not at work has
  one initial state. About two and a half minutes.
- Clipabra. The history: `MaxCount` = 4 pasteboard writes and `maxEntries` = 2, so
  that the ring overflows, evicted entries have wipes ahead, and a copy-back may
  follow (5 in `clip_history_torn`). The chord: `MaxEvents` = 5, with one key that is
  no member: two presses, two releases and one more event (a repeat, an
  interruption, a third press) between any two of them; `MaxDisables` = 1. The
  panel: two entries, `MaxQueue` = 3 key events on their way. Theorems remove the
  bounds. About two minutes.
- AppInstall: two interchangeable invocations, two payloads that pass, so that one
  may be mixed with the other, and one that does not, one edit by an agent.
  `MCSpec` does not follow two invocations that have overlapped into the protocol
  (`Bound`): the properties claim nothing of it then. Theorems remove the bounds.
  In `install_backup` one invocation is enough.
- PasteRunner: seven blocks of two or three tokens with every kind of hole, a
  name marked secret first or second, six values, every combination of options.
  Theorems remove the bound.
- Monorepo: two packages (a kill between or inside them leaves one whole, one
  not), two contents, one tag, `MaxCommits` = 3: the tag on an old commit, one on
  another branch, and one made after both. Theorems remove the bound.

Clipabra, Keyabra, AppInstall, BrokerWire and Xadabra come to an end (the events
are typed and the writes made, the rites and invocations done, the daemons used
up), so their configurations turn the deadlock check off; in the others it is on.

## Fairness

- Broker: weak fairness of each thread's own steps, `ChildTimesOut` included: the
  scheduler runs threads, and `subprocess.run(timeout=90)` kills the child.
  Nothing is assumed of the child, of peers, or of crashes.
- BrokerWire: processes run (a daemon starts up and closes, clients and the MCP
  server take their steps, `settimeout(120)` ends a call), and launchd starts a
  loaded job and ends one that was booted out. Nothing is assumed of handler
  threads, of operators, or of crashes.
- Clipabra is fair to each of its parts. The chord: the run loop serves the tap and
  its timers, and the system delivers the notice on which the code re-enables the
  tap. The history: a deadline comes (`Wipe`) and the main thread finishes a poll
  it has begun; when polls come is left open. The panel: the run loop handles posted
  key events; none of the user's actions.
- Keyabra: the watcher's process runs (`time.sleep` returns, the clipboard tools
  end, well or not). Nothing is assumed of the command itself: killed before it has
  started the watcher, it leaves the text where it is, and the property says so.
- The rites, AppInstall, AtomicWrite, Xadabra: safety only.

## Proofs

The proofs need the named assumptions of the modules only (`RequestsAssumption`:
requests are well formed; `NoSpecAssumption`, `NoKeyAssumption`,
`NoReqAssumption`, `PayloadsAssumption`: the markers for "none" and "partial" are
no values; `InstallAssumption`: what is genuine is a payload; `DaemonsAssumption`
and `CallsAssumption`: launchd's daemons are not the operators', owners' calls not
everybody's; `PackagesAssumption`: the list names each package once; `HistoryAssumption` and
`ChordAssumption`: the bounds are numbers, and a ring has room for an entry;
`VaultAssumption`: a vault is a sequence of lines), and one theorem
one more: `SwitchSafe` of RevealPanel `~SwitchesHolding`.

**BrokerProofs.** `TypeOK` is not inductive: what a thread writes is well typed
only because of what it checked earlier. `ThreadInv` says what a thread may rely
on at each point of its code (an admitted request, a nonblank secret before a
write); `Inv == TypeOK /\ ThreadInv` is inductive and gives `TypeCorrect`.
`LocalInv` relates locals to the files they were read from: custody only gains
files and the window only grows, so what was true when read is true when used,
and a child has been started only by who answers with its result, "timed out" or
"broker internal error"; it gives `AvailableSafe`, `EnrollSafe`, `WindowSafe`, `RefusalSafe`.
`OwnersOnly` follows from `ThreadInv`. `SerialInv`, which holds until
`overlapped`, says that the one registering thread holds the current catalog, hence that its write differs from the file at
its own id only, and that the entry an enrollment looked up is still there; it
gives `CustodySafe`, `ReadBackSafe`, `NeverShrinks`, and with the step lemma
`RegistryStep` the refinement `ImplementsAbstract`.

**AtomicWriteProofs.** The invariant says how complete the temporary file is at
each call, and that only whole synced files reach the path; from it
`Completeness`, `ExactMode`, `NoLitter`, `Atomicity`.

**BrokerWireProofs.** Of the service: as long as no two daemons were alive at once
there is at most one (`Sole`), and from `listen` to `serve` the path is its own, with
mode and group at the end (`Holds`); that is inductive, and gives
`ServedReachable`. Of the installer: once it goes on after bootstrap, whatever was
started before is gone, so that a daemon that answered it, or has bound the path
since, is new (`InstallInv`, on top of the former, hence `InstalledNew`). Of a call: `Progress` says how far its thread and its count of
runs can have come while the client is where it is, `Settled` that a caller who
was told that nothing happened has no connection, or a thread that ended without
the effect, and one told "result" a call that ran. Together with the type invariant they are
inductive, and every step maps to a step of RemoteCall or a stutter:
`CallsAreRemote`, for any number of calls, daemons and installations.

**XadabraProofs.** `PackInv` says that before package `k` everything is whole or was
edited while it was copied, `k` itself taken apart or half copied, and that what is
being copied comes from the projects directory; `PushInv` that no name is
ahead of the clone, that every commit made on main is below its branch, that HEAD
is at it when it is checked out, and that a tag is pushed only when the remote's
main is at the branch main or belongs to the other clone. From them `PackedSafe`,
`AnnouncedSafe`, `TagsSafe`, for every list of packages and any number of tags. Of
the paste runner, `FillInv` says that names come to be filled and secret in the
order of the block, and that a name marked where it is first seen is secret from
then on; `EffectInv` that preview, history and run were made from the block and the
values as they are now, and the last two only past the policy. From them
`ShownIsRun` and `SecretsHidden`, for every block and every value. The lemma
`Sessions` says that the command's behaviours are behaviours of either half.

**AppInstallProofs.** The invariant has two parts, and each step is shown to keep
both. Of an installation: past the checks an invocation holds only a payload that
passed them (`VerifiedInv`, hence `VerifiedSafe`, with any overlap); as long as no
two have overlapped at most one is at work (`Exclusive`), the bundle it is about
to remove has its backup unless that failed, and the copy begins on nothing
(`BackupInv`, hence `BackupSafe`). Of the protocol: an invocation is inside only when act_install
has called it (`CalledInv`), and so alone (lemma `Alone`); between the copy and
the write the copies alone hold every edit (`EditsInv`, hence `EditsSafe`); the
shim execs the binary before it is enrolled, and lacks its mode only while
someone is at the chmod (`ShimInv`, hence `ShimSafe`). `EditsAreKept` is not
inductive without the second part of `EditsInv`: the file is torn meanwhile.
`OrphanInv` adds that from the quit to the end of the copy nothing runs, or a receipt
says so, or the user has started it meanwhile; `ReceiptInv` that who ends without
being killed has banked what it found; hence `OrphansSafe`.

**SelectionProofs.** What `Only` returns, for every sequence and every set
(`OnlyFacts`): elements of the set, all of them, at places that ascend. This is
an induction over a recursive function. The library's induction theorems cannot
be used (their parameter is an operator), so it is built from well-foundedness:
strict inclusion of finite sets is well-founded, hence a set of naturals that
has 0 and successors is Nat (`Induction`), and the set is the one of the lengths
up to which the claim holds. That the recursive function exists at all is shown
the same way (`FiltersExists`). `OnlyRange` and `OnlyIsNoLonger` follow.

**KeyabraProofs.**

- *EnvVault.* `VaultInv` says that an invocation of `env set` that has met no other
  is alone at work, that the one that is about to write finds the file empty as it
  left it, that nobody takes the file or its mode back once it is ensured, and that
  what the vault gave when it was read is what the lines read give. A step that
  writes to an emptied vault is therefore the writer's own (`WriterWrites`). What it
  writes is a matter of sequences: the new line is the last of its name
  (`NewLineWins`), and of every other name the last line is the same, since `Only`
  keeps all lines of that name in their order (`OthersStay`). Hence `SetWins`.
- *ClipboardCopy.* `ConcealInv` says that whatever lies on the pasteboard
  without the concealed type was copied openly: between the two calls of a
  concealed copy the one who is to set the string has set the type, and still owns
  the pasteboard; and that the types a poll holds are those of the pasteboard
  until something is written. `ClearInv` says that what a watcher finds when it
  clears is what it was started for or came after its look. From them
  `ConcealedSafe` and `NewerSafe`, whatever the vault holds; both need no assumption.
- *SecretRite.* `RiteInv` says that up to the add the rite's key is a
  validated one, from then on the store has it at the version named (versions are
  only appended, lemma `Appended`), what was read back stays at the place it was read
  from, and after the comparison it is the key given; from it `ValidatedSafe`,
  `ReceiptSafe`, `VerifiedLive`. It is the comparison that makes a receipt of
  "latest" true, and the append-only store one that names a version.

**ClipabraProofs.**

- *ClipHistory.* `HistoryInv` has the types with the bound on ring and file, and
  three relations. `ShownIsPlain`: what a normal entry or the file has was copied
  openly once or came between the two reads of a poll, and the types in hand are
  those of the pasteboard unless it was written since. `FileHasNormal`: a file that
  decodes and whose last write went well has every normal entry of the ring,
  because only `add` brings one in, and `persist` follows it in the same step.
  `OwnIsSkipped`: while an own write is unseen `ignoreCount` is positive, so a poll
  that has gone on to read does not read an own write. Hence `MemoryOnly`,
  `OwnWrites`, `Relaunches`, for any size of the ring and any number of copies.
- *ChordMonitor.* Events are in four places: waiting (`Untouched` as they were
  typed, `Posted` back by the tap), held back, delivered, swallowed. `OnceInv` says
  that these are disjoint, that no place has an event twice, and that together they
  are all that was typed, by number and by count; the step lemmas say what moving
  the head of the queue does to each place (`MoveFacts`), for the five ways in which
  the callback deals with an event (`HandleWays`). It gives `NothingLost`.
  `OrderInv`, for a tap that was never off, orders the places: what was delivered
  is before what was posted, that before what is held back, that before what was
  not seen, and a release handled is older than a press held back. It is inductive
  only together with `Alternates`: between two presses of a key, of which the
  first is held back or unseen, its release waits; without it a key could be held
  back twice. Hence `TypedInOrder` and `FiresOnlyHeld`, for any number of events.
- *RevealPanel.* `Coming` is the reason for the switch: a key that the monitor
  believes down, or will from an event on its way, is down, or its release is in the
  queue, behind that event. It is inductive because nothing is on its way while
  clipabra is in the background (`Away`), which is where `SwitchSafe` needs that
  nobody leaves with a key down; the run `reveal_switch` shows what happens otherwise.

Some theorems state what no run repeats, because a run with the same state space
shows more: `TypeCorrect` and `NeverShrinks`, `EnrollSafe`, `RefusalSafe`,
`OwnersOnly` and `CustodySafe` of Broker, `Completeness` and `NoLitter`,
`ValidatedSafe`.

Every safety property that a run checks is proved, invariants, action properties
and the two refinements alike. Only model-checked is liveness
(`EveryRequestEnds`, `ServiceComesBack`, `EveryCallEnds`, `EveryMessageIsAnswered`,
`HeldIsReleased`, `ConcealedIsWiped`, `ReleaseMasks`, `WatchedSecretGoes`): fairness
and ENABLED are out of reach of the installed provers. So are operators declared
RECURSIVE; the modules have none, only recursive functions.

## Where code and docs disagree

Checked, one run each (`findings` quotes the lines):

- *Lost update* (`broker.py:352`): two overlapping registrations, one lost.
- *Torn poll* (`PasteboardWatcher.swift:46`): types and string are two reads; a
  concealed copy that comes between them is recorded as a normal entry and
  written to disk.
- *Dead-man switch* (`HistoryPanelController.swift:74`): keys released in another
  application never reach the local monitor; the value stays on screen.
- *Reveal without a row* (`HistoryPanelController.swift:85`): an entry selected with
  the reveal keys held is shown and leaves no audit row.
- *Backup that fails* (`core.py:193`): the application is removed all the same.

Met while modelling and stated in the hazards, with no run of their own:

- the path of the socket is unlinked by whoever starts or ends
  (`broker_server.py:130`): a daemon run by hand that ends late, or whose bind
  fails, takes the file of the one that serves, and launchd, whose job is alive,
  never restarts it (`overlap` in ServedIsReachable and ServiceComesBack);
- the installer's wait is ended by the socket file of a killed daemon
  (`install_broker_macos.sh:136`): "installed" may be printed with no daemon
  behind it (`leftover` in InstalledIsNew), and a registration in that moment is
  refused and fails the script;
- the refusal of an owner's call may follow its effect (register and enroll read
  the catalog again for their answer), and an answer over 2 MiB is an error to the
  caller after the effect (`broker_client.py:57`): both are "unknown" in RemoteCall;
- the MCP server ends on text that is no UTF-8, on a JSON message that is no
  object, such as a batch (`noldorian/mcp.py:102`), on `initialize` with params null
  or no object (`:109`) and on `tools/call` with params that are no object or a name
  that is an object or a list (`:125-126`), and what follows goes unanswered;
- pack with its defaults copies `~/noldorian` onto itself: it can only fail, and with
  --force removes the packages before it finds their source gone
  (`xadabra/noldorian.py:82`; the help of --force says "overwrite existing package
  copies");
- a tag that exists is passed over by `git tag` and published as it is
  (`xadabra/noldorian.py:203`; `reused` in AnnouncedIsPublished): "pushed ... @ tag"
  then names an old commit; a dry run makes the tag; and push publishes what a
  killed pack left half copied;
- HEAD is committed and tagged and the branch main is pushed, whatever is checked
  out (`xadabra/noldorian.py:198`, `:203`, `:215`; `branch -M main` runs after `git init`
  only, `:180`, and its failure is passed over): on another branch main is "up to
  date", the tag is pushed and "pushed ... @ tag" printed, and main lacks the
  commit (`here` in AnnouncedIsPublished, `log` in TagsAreOnMain);
- a source that is edited while `copytree` walks it may be packed as a mixture of
  before and after, and pack returns 0 (`xadabra/noldorian.py:83`; `edited` in
  PackedIsWhole);
- a rite whose `gcloud` names no version says "latest" in its receipt
  (`discord_gcp.py:224`, `cursor_gcp.py:195`), which is another rite's key once that has
  added a version; a rite that timed out may have stored a version that no receipt
  names;
- that a process survived SIGKILL is noted and the bundle replaced all the same
  (`core.py:189`, against the comment at `:187`), and a kill before the end loses the
  note, which is banked last (`xabra/cli.py:177`);
- the policy of cloud sessions wants white space or `;`, `&`, `|` before `snx` and white
  space after it (`policy.py:7`): `(snx x)`, `$(snx x)`, `/path/snx x` and an `snx` that
  ends the block without a newline go through, against
  `integrations/CLAUDE-CLOUD.md:13` ("rejects scripts containing `snx`");
- killed between the writing of a new shim and its chmod, xabra leaves a shim
  that cannot be started, and the next run calls it converged (`core.py:342`;
  EnrolledShimRuns without `missed` fails), against xabra/README.md:37;
- what an agent session writes to `~/.claude.json` between the copy and the write
  is lost (`core.py:361`);
- a copy made between the watcher's look and its clearing is cleared, and so is
  the same text copied again before its own time (`keyabra/cli.py:341`; the
  docstring says that a newer copy is never clobbered);
- `env set` empties the vault before it writes it: a kill in between loses every
  value (`keyabra/cli.py:145`); a value in quotes reads back without them; a name
  set beside a pointer of the same name is loaded by run and refused by probe;
- the history has the values of names that are not secret, and of a name that is
  marked secret only at a later place (`history.py:12` says placeholder values
  are never stored); a default is taken without asking (`fills.py:44`);
- the secret is read before the arguments are validated (`broker.py:513`;
  SECURE_CAPABILITY_BROKER.md:152 says the reverse), and an operation withdrawn
  between the read of the catalog and the start of the child still runs;
- a key that interrupts a held chord key is typed before it
  (`ChordMonitor.swift:117`; the comment above says it follows);
- a kill inside the write of `history.json` loses all of it, and a write that fails
  says nothing (`HistoryStore.swift:63`);
- a copy by another application between a copy-back and the next poll is
  skipped in its place (`PasteboardWatcher.swift:40`);
- with two overlapping invocations of xabra neither receipts nor backups are
  worth anything, and two copies at once make one bundle of files of both; and a receipt says ok although repointing the protocol raised
  (`xabra/cli.py:170`).

## Not modelled

- Wording, layout, JSON formatting, permission prompts, logging; in the vault, the
  white space that is stripped around names and values.
- What a spell looks like beside a bracket, a slash or the end of the text: a block
  of the model is tokens between blanks.
- That no copy is left beside the path by a failed replacement is proved
  (`NoLitter`) and in no run.
- `status` of the broker beyond its list; the legacy vault behind `import_env`,
  whose verdict is an input.
- Measured time: a timer may go off whenever it is armed, which covers every
  real order; 150 ms and 300 s themselves are not.
- AuditLog's append, the shell of clipabra, xalakazam (remote settings through
  `gh`, one call each), binabra, bootstrap and packaging, the abra MCP server (one
  command line per call): remote or local I/O with no state of their own.
- The macOS keychain rite: it reads one vault value and hands it to the Security
  framework and, if asked, to one codesign probe; it keeps nothing.
- `keyabra run` (one load of the vault and a child), `env probe` and `list` (readers
  of the vault) and pypi; pypi builds into `dist/` and uploads whatever is there, old
  builds included, which is one command line and no protocol.
- `install_cli` of xabra (one copy into a bin directory), and of xadabra
  noldorian `install`, `yank`, `guide` and `script`: one pip or twine call after the
  other, or a printout.
- The installer before `launchctl bootout`: a script that stops at the first failure
  and has changed nothing that runs.

## Plan

In order of importance; each with its component's abstract promise.

1. done: Broker, CapabilityRegistry, AtomicWrite, and their proofs.
2. done: SecretRite, RevealPanel and AppInstall with proofs; ChordMonitor, ClipHistory.
3. done: EnvVault and ClipboardCopy; PasteRunner with proofs; ProtocolRepoint.
4. done: BrokerService, RemoteCall and BrokerWire with proofs; Monorepo and Xadabra
   with proofs.
5. done: theorems for ChordMonitor, ClipHistory and EnvVault, on lemmas about
   selecting from sequences.
6. done: the reads of a poll apart, what is checked out in the clone, edits during a
   copy, the outcome of every tool of an installation; Clipabra and Keyabra, which
   put their parts together.

What could be added: safety forms of the liveness properties (what is left to
happen, and that no step undoes it), which the provers can reach. The components
that are left hold no state that several steps could get wrong.
