--------------------------- MODULE ProtocolRepoint ---------------------------
(***************************************************************************)
(* repoint_protocol in xabra/core.py: the enrollment in ~/.claude.json is  *)
(* made to run a shim, and the shim the binary inside the installed        *)
(* application, by invocations that may be killed and run again while      *)
(* agent sessions write the same file.  AppInstall says when it runs.      *)
(***************************************************************************)
EXTENDS Integers, FiniteSets

CONSTANTS
  Invocations,  \* runs of xabra
  Edits         \* what agent sessions may add to the file

VARIABLES
  shim,    \* [execs, executable]: does it exec the application's binary?
  config,  \* ~/.claude.json: no file or one, [whole, command, edits]
  copies,  \* copies of it in BACKUP_DIR
  rpc,     \* the next call of each invocation in repoint_protocol
  info,    \* what it saw first: was the shim enrolled?
  snap,    \* what it read of the file: none or one
  made,    \* auxiliary: edits ever made
  late,    \* auxiliary: edits made between a copy and the write after it
  missed   \* auxiliary: an invocation has ended at the chmod

files == <<shim, config, copies>>
locals == <<info, snap>>
protocolvars == <<files, rpc, locals, made, late, missed>>

\* The command is the shim, another one, or there is no entry.
Config(command, edits) == [whole |-> TRUE, command |-> command, edits |-> edits]
Torn == [whole |-> FALSE, command |-> "none", edits |-> {}]

ProtocolInit ==
  /\ shim \in [execs : BOOLEAN, executable : BOOLEAN]
  /\ config \in {{}} \cup {{Config(c, {})} : c \in {"none", "other", "shim"}}
  /\ shim.execs \/ Config("shim", {}) \in config => shim.execs /\ shim.executable
  /\ copies = {} /\ made = {} /\ late = {} /\ missed = FALSE
  /\ rpc = [i \in Invocations |-> "before"]
  /\ info = [i \in Invocations |-> FALSE]
  /\ snap = [i \in Invocations |-> {}]

At(i, call, next) ==
  /\ rpc[i] = call /\ rpc' = [rpc EXCEPT ![i] = next]
  /\ UNCHANGED <<made, late, missed>>

Forgets(i) == info' = [info EXCEPT ![i] = FALSE] /\ snap' = [snap EXCEPT ![i] = {}]

\* What does not parse has no command.
Enrolled == {c.command : c \in config} = {"shim"}

\* protocol_info, which a missing binary ends: what is there to do?
Before(i, binary) ==
  /\ info' = [info EXCEPT ![i] = Enrolled]
  /\ At(i, "before", IF ~binary THEN "raised" ELSE IF ~shim.execs THEN "shim"
                     ELSE IF Enrolled THEN "after" ELSE "read")
  /\ UNCHANGED <<files, snap>>

\* The text, which leaves the mode as it is, ...
WriteShim(i) ==
  /\ At(i, "shim", "chmod")
  /\ shim' = [shim EXCEPT !.execs = TRUE]
  /\ UNCHANGED <<config, copies, locals>>

\* Mutant: the mode is left as it is.
ChmodShim_Skipped(i) ==
  /\ At(i, "chmod", IF info[i] THEN "after" ELSE "read")
  /\ UNCHANGED <<files, locals>>

\* ... and the mode.
ChmodShim(i) ==
  /\ At(i, "chmod", IF info[i] THEN "after" ELSE "read")
  /\ shim' = [shim EXCEPT !.executable = TRUE]
  /\ UNCHANGED <<config, copies, locals>>

\* The file must be there, parse, and have an entry.
ReadConfig(i) ==
  /\ snap' = [snap EXCEPT ![i] = config]
  /\ At(i, "read", IF \A c \in config : c.command = "none" THEN "raised" ELSE "copy")
  /\ UNCHANGED <<files, info>>

\* Mutant: one copy is enough.
CopyConfig_OnlyFirst(i) ==
  /\ At(i, "copy", "open")
  /\ copies' = IF copies = {} THEN config ELSE copies
  /\ UNCHANGED <<shim, config, locals>>

\* The file as it is now, which may not be what was read.
CopyConfig(i) ==
  /\ At(i, "copy", "open")
  /\ copies' = copies \cup config
  /\ UNCHANGED <<shim, config, locals>>

\* write_text opens the file, which empties it, ...
OpenConfig(i) ==
  /\ At(i, "open", "write")
  /\ config' = {Torn}
  /\ UNCHANGED <<shim, copies, locals>>

\* ... and writes what was read, with another command.
WriteConfig(i) ==
  /\ At(i, "write", "after")
  /\ config' = {[c EXCEPT !.command = "shim"] : c \in snap[i]}
  /\ UNCHANGED <<shim, copies, locals>>

\* protocol_info again: is there drift?
After(i) ==
  /\ At(i, "after", IF Enrolled /\ shim.execs THEN "converged" ELSE "drifted")
  /\ Forgets(i)
  /\ UNCHANGED files

\* A call raises, or xabra is killed before it.
EndsAt(i, how) ==
  /\ rpc' = [rpc EXCEPT ![i] = how]
  /\ missed' = (missed \/ rpc[i] = "chmod")
  /\ Forgets(i)
  /\ UNCHANGED <<files, made, late>>

Raises(i) == rpc[i] \in {"shim", "chmod", "copy", "open", "write"} /\ EndsAt(i, "raised")

repoint_protocol(i, binary) ==
  \/ Before(i, binary) \/ WriteShim(i) \/ ChmodShim(i)
  \/ ReadConfig(i) \/ CopyConfig(i) \/ OpenConfig(i) \/ WriteConfig(i)
  \/ After(i) \/ Raises(i)

Repointed(i) == rpc[i] \in {"converged", "drifted", "raised"}

\* An agent session adds something to the file.
AgentWrites(e) ==
  /\ e \notin made /\ made' = made \cup {e}
  /\ \E c \in config : c.whole /\ config' = {[c EXCEPT !.edits = @ \cup {e}]}
  /\ late' = IF \E i \in Invocations : rpc[i] = "open" THEN late \cup {e} ELSE late
  /\ UNCHANGED <<shim, copies, rpc, locals, missed>>
=============================================================================
