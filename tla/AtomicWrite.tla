---------------------------- MODULE AtomicWrite ----------------------------
(***************************************************************************)
(* _atomic_write (keyabra/broker.py) against the file system: how the      *)
(* broker replaces the catalog and the secret files, one system call a     *)
(* step, with several threads replacing the same file, calls that fail,    *)
(* the process killed and the machine losing power at any moment.          *)
(*                                                                         *)
(* The file system is external: fsync makes the bytes of a file durable, a *)
(* rename is visible at once but reaches the disk some time later, and     *)
(* after a power loss bytes that were not synced are garbage.              *)
(***************************************************************************)

CONSTANTS
  Writers,   \* threads that call _atomic_write for one path
  Payloads   \* what they write

\* The contents of a file that holds no complete payload.
Partial == "partial"
Modes == {"mkstemp", "exact"}

ASSUME PayloadsAssumption == Partial \notin Payloads

File == [data : Payloads \cup {Partial}, synced : BOOLEAN, mode : Modes]

VARIABLES
  path,     \* the file at the path, as every process sees it
  durable,  \* the file the path would have after a power loss
  tmp,      \* the temporary file of each writer
  pc,       \* the call each writer makes next
  payload,  \* what each writer is writing
  result,   \* how its last _atomic_write ended
  litter,   \* temporary files nobody will remove
  crashed   \* auxiliary: the process was killed or the power lost

vars == <<path, durable, tmp, pc, payload, result, litter, crashed>>

Good(p) == [data |-> p, synced |-> TRUE, mode |-> "exact"]
Fresh == [data |-> Partial, synced |-> FALSE, mode |-> "mkstemp"]

Calls == {"idle", "write", "fsync", "chmod", "replace", "recheck", "unlink"}

Init ==
  /\ \E p \in Payloads : path = Good(p)
  /\ durable = path
  /\ tmp = [w \in Writers |-> Fresh]
  /\ pc = [w \in Writers |-> "idle"]
  /\ payload \in [Writers -> Payloads]
  /\ result = [w \in Writers |-> "none"]
  /\ litter = {}
  /\ crashed = FALSE

\* tempfile.mkstemp: a new empty file beside the path, mode 0600.
MakeTemp(w, p) ==
  /\ pc[w] = "idle"
  /\ tmp' = [tmp EXCEPT ![w] = Fresh]
  /\ payload' = [payload EXCEPT ![w] = p]
  /\ result' = [result EXCEPT ![w] = "none"]
  /\ pc' = [pc EXCEPT ![w] = "write"]
  /\ UNCHANGED <<path, durable, litter, crashed>>

\* A call on the temporary file that leaves it as f, then the next call.
OnTemp(w, call, f, next) ==
  /\ pc[w] = call
  /\ tmp' = [tmp EXCEPT ![w] = f]
  /\ pc' = [pc EXCEPT ![w] = next]
  /\ UNCHANGED <<path, durable, payload, result, litter, crashed>>

WriteTemp(w) == OnTemp(w, "write", [tmp[w] EXCEPT !.data = payload[w]], "fsync")

\* Mutant: flush without fsync.
SyncTemp_FlushOnly(w) == OnTemp(w, "fsync", tmp[w], "chmod")

SyncTemp(w) == OnTemp(w, "fsync", [tmp[w] EXCEPT !.synced = TRUE], "chmod")

\* Mutant: the mode is left to the chmod after the replace.
ChmodTemp_Skipped(w) == OnTemp(w, "chmod", tmp[w], "replace")

ChmodTemp(w) == OnTemp(w, "chmod", [tmp[w] EXCEPT !.mode = "exact"], "replace")

\* os.replace: the temporary name is gone and the path has the new file.
Replace(w) ==
  /\ pc[w] = "replace"
  /\ path' = tmp[w]
  /\ pc' = [pc EXCEPT ![w] = "recheck"]
  /\ UNCHANGED <<durable, tmp, payload, result, litter, crashed>>

\* _chmod_exact on whatever file the path has by now.
Recheck(w) ==
  /\ pc[w] = "recheck"
  /\ path' = [path EXCEPT !.mode = "exact"]
  /\ pc' = [pc EXCEPT ![w] = "idle"]
  /\ result' = [result EXCEPT ![w] = "ok"]
  /\ UNCHANGED <<durable, tmp, payload, litter, crashed>>

\* A call fails (no space, an I/O error, a mode that does not stick): the
\* finally clause removes the temporary file, then the error is raised.
Fail(w) ==
  /\ pc[w] \in {"write", "fsync", "chmod", "replace"}
  /\ pc' = [pc EXCEPT ![w] = "unlink"]
  /\ UNCHANGED <<path, durable, tmp, payload, result, litter, crashed>>

UnlinkTemp(w) ==
  /\ pc[w] = "unlink"
  /\ tmp' = [tmp EXCEPT ![w] = Fresh]
  /\ pc' = [pc EXCEPT ![w] = "idle"]
  /\ result' = [result EXCEPT ![w] = "error"]
  /\ UNCHANGED <<path, durable, payload, litter, crashed>>

\* After the replace there is no temporary file left: only the error is raised.
FailRecheck(w) ==
  /\ pc[w] = "recheck"
  /\ pc' = [pc EXCEPT ![w] = "idle"]
  /\ result' = [result EXCEPT ![w] = "error"]
  /\ UNCHANGED <<path, durable, tmp, payload, litter, crashed>>

\* The file system commits the directory.
Commit ==
  /\ durable' = path
  /\ UNCHANGED <<path, tmp, pc, payload, result, litter, crashed>>

Stop ==
  /\ crashed' = TRUE
  /\ litter' = litter \cup {tmp[w] : w \in {v \in Writers : pc[v] \notin {"idle", "recheck"}}}
  /\ pc' = [w \in Writers |-> "idle"]
  /\ tmp' = [w \in Writers |-> Fresh]
  /\ result' = [w \in Writers |-> "none"]
  /\ UNCHANGED payload

\* The daemon is killed: the page cache survives it.
Kill == Stop /\ UNCHANGED <<path, durable>>

\* Power is lost: the path has the last committed file, as far as synced.
PowerLoss ==
  /\ Stop
  /\ path' = IF durable.synced THEN durable ELSE [durable EXCEPT !.data = Partial]
  /\ durable' = path'

Write(w) ==
  \/ \E p \in Payloads : MakeTemp(w, p)
  \/ WriteTemp(w) \/ SyncTemp(w) \/ ChmodTemp(w) \/ Replace(w) \/ Recheck(w)
  \/ Fail(w) \/ UnlinkTemp(w) \/ FailRecheck(w)

Next == (\E w \in Writers : Write(w)) \/ Commit \/ Kill \/ PowerLoss

Spec == Init /\ [][Next]_vars

-----------------------------------------------------------------------------
(* Properties *)

\* Type invariant.
TypeOK ==
  /\ path \in File /\ durable \in File
  /\ tmp \in [Writers -> File]
  /\ pc \in [Writers -> Calls]
  /\ payload \in [Writers -> Payloads]
  /\ result \in [Writers -> {"none", "ok", "error"}]
  /\ litter \subseteq File
  /\ crashed \in BOOLEAN

\* A reader, and the next daemon after a kill or a power loss, finds one
\* complete payload at the path: never an empty, half-written or lost file.
PathIsComplete == path.data \in Payloads

\* The payload is never visible under the path with another mode than the
\* one asked for, not even between the replace and the second chmod.
ModeIsExact == path.mode = "exact"

\* A write that fails leaves no temporary copy of the payload behind: only a
\* killed process does.
NoLitterWithoutCrash == litter # {} => crashed

\* A call that has not come as far as the replace has not touched the path,
\* so an error raised there leaves the old contents: the path changes to a
\* payload only by a rename of one whole synced file, or back to an earlier
\* whole one when power is lost.  A reader never finds half of a payload.
ChangesAreWhole ==
  [][path'.data # path.data =>
       /\ path'.data \in Payloads
       /\ \/ \E w \in Writers : pc[w] = "replace" /\ path' = Good(payload[w])
          \/ crashed' /\ path' = durable]_vars
=============================================================================
