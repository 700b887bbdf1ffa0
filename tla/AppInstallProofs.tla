--------------------------- MODULE AppInstallProofs ---------------------------
(***************************************************************************)
(* What xabra may install and what it may not lose, for any number of      *)
(* invocations, payloads and edits, killed and run again anywhere.         *)
(***************************************************************************)
EXTENDS AppInstall, TLAPS

Calls == {"idle", "fetch", "attach", "assess", "pids", "poll", "backup", "remove",
          "copy", "copying", "open", "protocol", "detach", "bank",
          "done", "killed"}
RCalls == {"before", "shim", "chmod", "read", "copy", "open", "write", "after",
           "converged", "drifted", "raised", "killed"}

Bundles == [version : Payloads \cup {Old, Mixed}, whole : BOOLEAN]
Configs == [whole : BOOLEAN, command : {"none", "other", "shim"}, edits : SUBSET Edits]

InstallTypeOK ==
  /\ pc \in [Invocations -> Calls]
  /\ payload \in [Invocations -> SUBSET Payloads]
  /\ \A i \in Invocations : \A p, q \in payload[i] : p = q
  /\ target \subseteq Bundles /\ backups \subseteq Bundles
  /\ overlap \in BOOLEAN

ProtocolTypeOK ==
  /\ shim \in [execs : BOOLEAN, executable : BOOLEAN]
  /\ config \subseteq Configs /\ copies \subseteq Configs
  /\ rpc \in [Invocations -> RCalls]
  /\ info \in [Invocations -> BOOLEAN]
  /\ snap \in [Invocations -> SUBSET Configs]
  /\ missed \in BOOLEAN
  /\ \A c, d \in config : c = d
  /\ \A i \in Invocations : \A c, d \in snap[i] : c = d

-----------------------------------------------------------------------------
(* Only what was verified *)

\* Past the checks an invocation holds nothing but a payload that passed them.
VerifiedInv ==
  /\ \A i \in Invocations :
       pc[i] \in {"pids", "poll", "backup", "remove", "copy", "copying"} =>
         payload[i] \subseteq Genuine
  /\ OnlyVerifiedInstalled

-----------------------------------------------------------------------------
(* One invocation at a time *)

Active(i) == pc[i] \notin {"idle", "bank", "done", "killed"}

Exclusive ==
  ~overlap => \A i, j \in Invocations : Active(i) /\ Active(j) => i = j

\* The bundle that is to be removed has its backup, unless that failed, the
\* copy begins on nothing, and what is there while it goes on is its own.
BackupInv ==
  ~overlap =>
    \A i \in Invocations :
      /\ pc[i] = "remove" => Whole \subseteq backups \cup unsaved
      /\ pc[i] = "copy" => target = {}
      /\ pc[i] = "copying" => \A b \in target : b.version \in payload[i]

-----------------------------------------------------------------------------
(* The protocol *)

InProtocol(i) == rpc[i] \in {"shim", "chmod", "read", "copy", "open", "write", "after"}

\* An invocation is in repoint_protocol when act_install has called it.
CalledInv == \A i \in Invocations : InProtocol(i) => pc[i] = "protocol"

Kept(fs) == made \subseteq late \cup UNION {c.edits : c \in fs}

\* Between the copy and the write, the copies alone have all edits.
EditsInv ==
  ~overlap =>
    /\ Kept(config \cup copies)
    /\ \A i \in Invocations : rpc[i] \in {"open", "write"} => Kept(copies)
    /\ \A i \in Invocations : rpc[i] = "write" => config = {Torn}

\* The shim is made ready before it is enrolled.
ShimInv ==
  ~overlap /\ ~missed =>
    /\ Enrolled => shim.execs
    /\ shim.execs => shim.executable \/ \E i \in Invocations : rpc[i] = "chmod"
    /\ \A i \in Invocations :
         /\ rpc[i] = "shim" => ~shim.execs /\ ~info[i]
         /\ rpc[i] = "chmod" => shim.execs /\ ~Enrolled /\ ~info[i]
         /\ rpc[i] \in {"read", "copy", "open", "write", "after"} => shim.execs

IInv ==
  /\ InstallTypeOK /\ ProtocolTypeOK /\ VerifiedInv /\ Exclusive /\ BackupInv
  /\ CalledInv /\ EditsInv /\ ShimInv

InstallInv == InstallTypeOK /\ VerifiedInv /\ Exclusive /\ BackupInv
ProtocolInv == ProtocolTypeOK /\ CalledInv /\ EditsInv /\ ShimInv

-----------------------------------------------------------------------------
(* The steps of an installation *)

\* A call of one tool: what its invocation may rely on afterwards.
LEMMA CallStep ==
  ASSUME InstallInv, NEW i \in Invocations, NEW at \in Calls, NEW next \in Calls,
         Call(i, at, next),
         at = "idle" => next \in {"bank", "done"}, at \notin {"bank", "done", "killed"},
         next = "pids" => payload[i] \subseteq Genuine,
         next = "copy" => at = "backup" /\ target = {}, next \notin {"poll", "backup", "remove", "copying"}
  PROVE  InstallInv'
<1> USE DEF Call, Goto, InstallInv, InstallTypeOK, disk, Whole
<1>1. InstallTypeOK'
  OBVIOUS
<1>2. VerifiedInv'
  BY DEF VerifiedInv, OnlyVerifiedInstalled
<1>3. Exclusive'
  BY DEF Exclusive, Active
<1>4. BackupInv'
  BY DEF BackupInv
<1> QED BY <1>1, <1>2, <1>3, <1>4

\* ditto puts nothing in /Applications but what the invocation holds, or a
\* mixture when another one has a hand in it.
LEMMA DittoStep ==
  ASSUME InstallInv, NEW i \in Invocations, NEW whole \in BOOLEAN, Ditto(i, whole),
         \/ pc[i] = "copy" /\ pc' = [pc EXCEPT ![i] = "copying"]
         \/ pc[i] = "copying" /\ pc' = [pc EXCEPT ![i] = "open"]
  PROVE  InstallInv'
<1> USE DEF InstallInv, InstallTypeOK
<1>1. /\ target' = {Bundle(IF \A b \in target : b.version = p THEN p ELSE Mixed, whole) : p \in payload[i]}
      /\ UNCHANGED <<backups, unsaved, procs, payload, overlap>>
  BY DEF Ditto
<1>2. \A v \in Payloads \cup {Mixed} : Bundle(v, whole) \in Bundles /\ Bundle(v, whole).version = v
  BY DEF Bundles, Bundle
<1>3. ~overlap => \A b \in target, p \in payload[i] : b.version = p
  BY DEF BackupInv
<1>4. \A c \in target' : \E v \in payload[i] \cup (IF overlap THEN {Mixed} ELSE {}) :
        c = Bundle(v, whole)
  <2> SUFFICES ASSUME NEW p \in payload[i]
               PROVE  (IF \A b \in target : b.version = p THEN p ELSE Mixed)
                        \in payload[i] \cup (IF overlap THEN {Mixed} ELSE {})
    BY <1>1
  <2> QED BY <1>3
<1>5. \A c \in target' : c \in Bundles /\ c.version \in payload[i] \cup (IF overlap THEN {Mixed} ELSE {})
  <2> SUFFICES ASSUME NEW v \in payload[i] \cup (IF overlap THEN {Mixed} ELSE {})
               PROVE  /\ Bundle(v, whole) \in Bundles
                      /\ Bundle(v, whole).version \in payload[i] \cup (IF overlap THEN {Mixed} ELSE {})
    BY <1>4
  <2>1. v \in Payloads \cup {Mixed}
    OBVIOUS
  <2> QED BY <1>2, <2>1
<1>6. InstallTypeOK'
  BY <1>1, <1>5 DEF Calls
<1>7. VerifiedInv'
  BY <1>1, <1>5 DEF VerifiedInv, OnlyVerifiedInstalled
<1>8. Exclusive'
  BY <1>1 DEF Exclusive, Active
<1>9. BackupInv'
  BY <1>1, <1>5 DEF BackupInv, Exclusive, Active
<1> QED BY <1>6, <1>7, <1>8, <1>9

\* Every step of an installation keeps its part of the invariant.
LEMMA InstallStep ==
  ASSUME InstallInv, NEW i \in Invocations, Installing(i)
  PROVE  InstallInv'
<1> USE InstallAssumption
<1>1. CASE Start(i)
  <2> USE <1>1 DEF Start, Begins, Ended, Goto, disk, InstallInv, InstallTypeOK
  <2>1. InstallTypeOK'
    BY DEF Calls
  <2>2. VerifiedInv'
    BY DEF VerifiedInv, OnlyVerifiedInstalled
  <2>3. Exclusive'
    BY DEF Exclusive, Active
  <2>4. BackupInv'
    BY DEF BackupInv
  <2> QED BY <2>1, <2>2, <2>3, <2>4
<1>2. CASE ProtocolUpdate(i)
  BY <1>2 DEF ProtocolUpdate, Begins, Ended, Goto, disk, InstallInv, InstallTypeOK, VerifiedInv, OnlyVerifiedInstalled,
               Exclusive, Active, BackupInv, Calls, Bundles, Bundle, Whole
<1>3. CASE NoSource(i)
  BY <1>3, CallStep DEF NoSource, Calls
<1>4. CASE Decline(i)
  BY <1>4, CallStep DEF Decline, Calls
<1>5. CASE Fetch(i)
  BY <1>5, CallStep DEF Fetch, Calls
<1>6. CASE Attach(i)
  BY <1>6, CallStep DEF Attach, Calls
<1>7. CASE Verify(i)
  BY <1>7, CallStep DEF Verify, Calls
<1>8. CASE Pids(i)
  BY <1>8 DEF Pids, Call, Goto, disk, InstallInv, InstallTypeOK, VerifiedInv, OnlyVerifiedInstalled,
               Exclusive, Active, BackupInv, Calls, Whole
<1>9. CASE Quit(i)
  BY <1>9 DEF Quit, Goto, disk, InstallInv, InstallTypeOK, VerifiedInv, OnlyVerifiedInstalled,
               Exclusive, Active, BackupInv, Calls, Bundles, Bundle, Whole
<1>11. CASE NothingToReplace(i)
  BY <1>11, CallStep DEF NothingToReplace, Calls
<1>12. CASE Backup(i)
  <2> USE <1>12 DEF Backup, Goto, disk, InstallInv, InstallTypeOK
  <2>1. InstallTypeOK'
    BY DEF Calls, Whole
  <2>2. VerifiedInv'
    BY DEF VerifiedInv, OnlyVerifiedInstalled
  <2>3. Exclusive'
    BY DEF Exclusive, Active
  <2>4. BackupInv'
    BY DEF BackupInv, Exclusive, Active, Whole
  <2> QED BY <2>1, <2>2, <2>3, <2>4
<1>13. CASE Remove(i)
  <2> USE <1>13 DEF Remove, Goto, disk, InstallInv, InstallTypeOK
  <2>0. \A b \in Bundles : InPart(b) \in Bundles /\ InPart(b).version = b.version
    BY DEF Bundles, InPart
  <2>1. target' \subseteq Bundles /\ backups' \subseteq Bundles
    BY <2>0
  <2>2. InstallTypeOK'
    BY <2>1 DEF Calls
  <2>3. VerifiedInv'
    <3>1. \A b \in target' : \E c \in target : b.version = c.version
      BY <2>0
    <3> QED BY <3>1 DEF VerifiedInv, OnlyVerifiedInstalled
  <2>4. Exclusive'
    BY DEF Exclusive, Active
  <2>5. BackupInv'
    BY DEF BackupInv, Exclusive, Active
  <2> QED BY <2>2, <2>3, <2>4, <2>5
<1>14. CASE CopyBegins(i)
  <2>1. Ditto(i, FALSE) /\ pc[i] = "copy" /\ pc' = [pc EXCEPT ![i] = "copying"]
    BY <1>14 DEF CopyBegins, Goto
  <2> QED BY <2>1, DittoStep
<1>15. CASE CopyEnds(i)
  <2>1. PICK whole \in BOOLEAN : Ditto(i, whole)
    BY <1>15 DEF CopyEnds
  <2>2. pc[i] = "copying" /\ pc' = [pc EXCEPT ![i] = "open"]
    BY <1>15 DEF CopyEnds, Goto
  <2> QED BY <2>1, <2>2, DittoStep
<1>16. CASE CopyFails(i)
  BY <1>16, CallStep DEF CopyFails, Calls
<1>17. CASE Open(i)
  <2>1. /\ pc[i] = "open" /\ pc' = [pc EXCEPT ![i] = "protocol"]
        /\ UNCHANGED <<target, backups, unsaved, payload, overlap>>
        /\ procs' = procs \/ \E b \in target : procs' = procs \cup {b.version}
    BY <1>17 DEF Open, Goto, disk
  <2>2. InstallTypeOK'
    BY <2>1 DEF InstallInv, InstallTypeOK, Calls
  <2>3. OnlyVerifiedInstalled'
    BY <2>1 DEF InstallInv, VerifiedInv, OnlyVerifiedInstalled
  <2>4. VerifiedInv' /\ Exclusive' /\ BackupInv'
    BY <2>1, <2>3 DEF InstallInv, InstallTypeOK, VerifiedInv, Exclusive, Active, BackupInv, Whole
  <2> QED BY <2>2, <2>4 DEF InstallInv
<1>18. CASE Detach(i)
  BY <1>18, CallStep DEF Detach, Calls
<1>20. CASE RepointEnds(i)
  BY <1>20, CallStep DEF RepointEnds, Calls
<1>21. CASE Bank(i)
  BY <1>21 DEF Bank, Goto, Forget, disk, InstallInv, InstallTypeOK, VerifiedInv, OnlyVerifiedInstalled,
               Exclusive, Active, BackupInv, Calls, Bundles, Bundle, Whole
<1> QED
  BY <1>1, <1>2, <1>3, <1>4, <1>5, <1>6, <1>7, <1>8, <1>9, <1>11, <1>12, <1>13, <1>14, <1>15, <1>16, <1>17, <1>18, <1>20, <1>21 DEF Installing

-----------------------------------------------------------------------------
(* The other steps, on the installation's part *)

LEMMA OtherSteps ==
  ASSUME InstallInv,
         \/ UserOpens \/ UserQuits
         \/ \E i \in Invocations : Killed(i)
         \/ UNCHANGED <<disk, procs, progress>>
  PROVE  InstallInv'
<1>1. CASE UserOpens
  BY <1>1 DEF UserOpens, disk, InstallInv, InstallTypeOK, VerifiedInv, OnlyVerifiedInstalled,
              Exclusive, Active, BackupInv, progress, Whole
<1>2. CASE UserQuits
  BY <1>2 DEF UserQuits, disk, InstallInv, InstallTypeOK, VerifiedInv, OnlyVerifiedInstalled,
              Exclusive, Active, BackupInv, progress, Whole
<1>3. ASSUME NEW i \in Invocations, Killed(i) PROVE InstallInv'
  BY <1>3 DEF Killed, Goto, Forget, Calls, disk, Whole, InstallInv, InstallTypeOK, VerifiedInv,
              OnlyVerifiedInstalled, Exclusive, Active, BackupInv
<1>4. CASE UNCHANGED <<disk, procs, progress>>
  <2>1. UNCHANGED <<target, backups, unsaved, procs, pc, payload, overlap>>
    BY <1>4 DEF disk, progress
  <2>2. InstallTypeOK' /\ VerifiedInv'
    BY <2>1 DEF InstallInv, InstallTypeOK, VerifiedInv, OnlyVerifiedInstalled
  <2>3. Exclusive' /\ BackupInv'
    BY <2>1 DEF InstallInv, Exclusive, Active, BackupInv, Whole
  <2> QED BY <2>2, <2>3 DEF InstallInv
<1> QED BY <1>1, <1>2, <1>3, <1>4

-----------------------------------------------------------------------------
(* The protocol's part *)

\* A step of an installation is in repoint_protocol no longer.
LEMMA InstallFacts ==
  ASSUME InstallTypeOK, NEW i \in Invocations, Installing(i)
  PROVE  /\ \A j \in Invocations \ {i} : pc'[j] = pc[j]
         /\ pc[i] = "protocol" => Repointed(i)
         /\ overlap => overlap'
<1> USE DEF InstallTypeOK, Goto
<1>1. CASE Start(i) \/ ProtocolUpdate(i)
  BY <1>1 DEF Start, ProtocolUpdate, Begins
<1>2. CASE NoSource(i) \/ Decline(i) \/ Fetch(i) \/ Attach(i) \/ Verify(i) \/ Pids(i) \/ NothingToReplace(i)
  BY <1>2 DEF NoSource, Decline, Fetch, Attach, Verify, Pids, NothingToReplace, Call
<1>3. CASE CopyFails(i) \/ Detach(i) \/ RepointEnds(i)
  BY <1>3 DEF CopyFails, Detach, RepointEnds, Call
<1>4. CASE Quit(i) \/ Backup(i) \/ Remove(i) \/ Open(i) \/ Bank(i)
  BY <1>4 DEF Quit, Backup, Remove, Open, Bank
<1>5. CASE CopyBegins(i) \/ CopyEnds(i)
  BY <1>5 DEF CopyBegins, CopyEnds, Ditto
<1> QED BY <1>1, <1>2, <1>3, <1>4, <1>5 DEF Installing

LEMMA ProtocolFrame ==
  ASSUME InstallTypeOK, ProtocolInv, NEW i \in Invocations, Installing(i),
         UNCHANGED protocolvars
  PROVE  ProtocolInv'
<1> USE DEF protocolvars, files, locals, ProtocolInv
<1>1. ProtocolTypeOK'
  BY DEF ProtocolTypeOK
<1>2. CalledInv'
  BY InstallFacts DEF CalledInv, InProtocol, Repointed
<1>3. EditsInv'
  BY InstallFacts DEF EditsInv, Kept
<1>4. ShimInv'
  BY InstallFacts DEF ShimInv, Enrolled
<1> QED BY <1>1, <1>2, <1>3, <1>4

\* While one invocation is in repoint_protocol no other is, unless they overlap.
LEMMA Alone ==
  ASSUME Exclusive, CalledInv, ~overlap,
         NEW i \in Invocations, pc[i] = "protocol",
         NEW j \in Invocations \ {i}
  PROVE  ~InProtocol(j)
BY DEF Exclusive, Active, CalledInv


(* The steps of repoint_protocol, which a lone invocation takes *)

LEMMA ProtocolStep ==
  ASSUME ProtocolInv, Exclusive, NEW i \in Invocations, pc[i] = "protocol",
         NEW binary \in BOOLEAN, repoint_protocol(i, binary), UNCHANGED <<pc, overlap>>
  PROVE  ProtocolInv'
<1> USE DEF ProtocolInv, ProtocolTypeOK, files, locals
<1>a. ~overlap => \A j \in Invocations \ {i} : ~InProtocol(j)
  BY Alone
<1>1. CASE Before(i, binary)
  <2> USE <1>1 DEF Before, At
  <2>0. Enrolled \in BOOLEAN
    BY DEF Enrolled
  <2>1. ProtocolTypeOK'
    BY <2>0 DEF RCalls
  <2>2. CalledInv'
    BY DEF CalledInv, InProtocol
  <2>3. EditsInv'
    BY <1>a DEF EditsInv, Kept, InProtocol
  <2>4. ShimInv'
    BY <1>a DEF ShimInv, Enrolled, InProtocol
  <2> QED BY <2>1, <2>2, <2>3, <2>4
<1>2. CASE WriteShim(i)
  <2> USE <1>2 DEF WriteShim, At
  <2>1. ProtocolTypeOK'
    BY DEF RCalls
  <2>2. CalledInv'
    BY DEF CalledInv, InProtocol
  <2>3. EditsInv'
    BY <1>a DEF EditsInv, Kept, InProtocol
  <2>4. ShimInv'
    BY <1>a DEF ShimInv, Enrolled, InProtocol
  <2> QED BY <2>1, <2>2, <2>3, <2>4
<1>3. CASE ChmodShim(i)
  <2> USE <1>3 DEF ChmodShim, At
  <2>1. ProtocolTypeOK'
    BY DEF RCalls
  <2>2. CalledInv'
    BY DEF CalledInv, InProtocol
  <2>3. EditsInv'
    BY <1>a DEF EditsInv, Kept, InProtocol
  <2>4. ShimInv'
    BY <1>a DEF ShimInv, Enrolled, InProtocol
  <2> QED BY <2>1, <2>2, <2>3, <2>4
<1>4. CASE ReadConfig(i)
  <2> USE <1>4 DEF ReadConfig, At
  <2>1. ProtocolTypeOK'
    BY DEF RCalls
  <2>2. CalledInv'
    BY DEF CalledInv, InProtocol
  <2>3. EditsInv'
    BY <1>a DEF EditsInv, Kept, InProtocol
  <2>4. ShimInv'
    BY <1>a DEF ShimInv, Enrolled, InProtocol
  <2> QED BY <2>1, <2>2, <2>3, <2>4
<1>5. CASE CopyConfig(i)
  <2> USE <1>5 DEF CopyConfig, At
  <2>1. ProtocolTypeOK'
    BY DEF RCalls
  <2>2. CalledInv'
    BY DEF CalledInv, InProtocol
  <2>3. EditsInv'
    BY <1>a DEF EditsInv, Kept, InProtocol
  <2>4. ShimInv'
    BY <1>a DEF ShimInv, Enrolled, InProtocol
  <2> QED BY <2>1, <2>2, <2>3, <2>4
<1>6. CASE OpenConfig(i)
  <2> USE <1>6 DEF OpenConfig, At
  <2>0. Torn \in Configs
    BY DEF Torn, Configs
  <2>1. ProtocolTypeOK'
    BY <2>0 DEF RCalls
  <2>2. CalledInv'
    BY DEF CalledInv, InProtocol
  <2>3. EditsInv'
    BY <1>a DEF EditsInv, Kept, InProtocol
  <2>4. ShimInv'
    BY <1>a DEF ShimInv, Enrolled, InProtocol
  <2> QED BY <2>1, <2>2, <2>3, <2>4
<1>7. CASE WriteConfig(i)
  <2> USE <1>7 DEF WriteConfig, At
  <2>0. \A c \in Configs : [c EXCEPT !.command = "shim"] \in Configs
    BY DEF Configs
  <2>1. ProtocolTypeOK'
    BY <2>0 DEF RCalls
  <2>2. CalledInv'
    BY DEF CalledInv, InProtocol
  <2>3. EditsInv'
    BY <1>a DEF EditsInv, Kept, InProtocol
  <2>4. ShimInv'
    BY <1>a DEF ShimInv, Enrolled, InProtocol
  <2> QED BY <2>1, <2>2, <2>3, <2>4
<1>8. CASE After(i)
  <2> USE <1>8 DEF After, At, Forgets
  <2>1. ProtocolTypeOK'
    BY DEF RCalls
  <2>2. CalledInv'
    BY DEF CalledInv, InProtocol
  <2>3. EditsInv'
    BY <1>a DEF EditsInv, Kept, InProtocol
  <2>4. ShimInv'
    BY <1>a DEF ShimInv, Enrolled, InProtocol
  <2> QED BY <2>1, <2>2, <2>3, <2>4
<1>9. CASE Raises(i)
  <2> USE <1>9 DEF Raises, EndsAt, Forgets
  <2>1. ProtocolTypeOK'
    BY DEF RCalls
  <2>2. CalledInv'
    BY DEF CalledInv, InProtocol
  <2>3. EditsInv'
    BY <1>a DEF EditsInv, Kept, InProtocol
  <2>4. ShimInv'
    BY <1>a DEF ShimInv, Enrolled, InProtocol
  <2> QED BY <2>1, <2>2, <2>3, <2>4
<1> QED
  BY <1>1, <1>2, <1>3, <1>4, <1>5, <1>6, <1>7, <1>8, <1>9 DEF repoint_protocol

-----------------------------------------------------------------------------
(* The other steps, on the protocol's part *)

LEMMA EndsStep ==
  ASSUME ProtocolInv, Exclusive, NEW i \in Invocations, Killed(i)
  PROVE  ProtocolInv'
<1> USE DEF Killed, Goto, EndsAt, Forgets, files, ProtocolInv
<1>1. CASE pc[i] = "protocol"
  <2> USE <1>1
  <2>0. rpc[i] \in RCalls /\ (missed \/ rpc[i] = "chmod") \in BOOLEAN
    BY DEF ProtocolTypeOK
  <2>1. ProtocolTypeOK'
    BY <2>0 DEF ProtocolTypeOK, RCalls
  <2>2. CalledInv'
    BY DEF CalledInv, InProtocol, ProtocolTypeOK
  <2>3. EditsInv'
    BY DEF EditsInv, Kept, ProtocolTypeOK
  <2>4. ShimInv'
    BY DEF ShimInv, Enrolled, ProtocolTypeOK
  <2> QED BY <2>1, <2>2, <2>3, <2>4
<1>2. CASE pc[i] # "protocol"
  <2> USE <1>2 DEF protocolvars, locals
  <2>1. ProtocolTypeOK'
    BY DEF ProtocolTypeOK
  <2>2. CalledInv'
    BY DEF CalledInv, InProtocol
  <2>3. EditsInv'
    BY DEF EditsInv, Kept
  <2>4. ShimInv'
    BY DEF ShimInv, Enrolled
  <2> QED BY <2>1, <2>2, <2>3, <2>4
<1> QED BY <1>1, <1>2

LEMMA AgentStep ==
  ASSUME ProtocolInv, NEW e \in Edits, AgentWrites(e), UNCHANGED <<pc, overlap>>
  PROVE  ProtocolInv'
<1> USE DEF AgentWrites, locals, ProtocolInv
<1>1. PICK c \in config : c.whole /\ config' = {[c EXCEPT !.edits = @ \cup {e}]}
  OBVIOUS
<1>2. config = {c} /\ c \in Configs
  BY <1>1 DEF ProtocolTypeOK
<1>3. PICK d \in Configs : /\ config' = {d} /\ d.whole /\ d.command = c.command
                           /\ d.edits = c.edits \cup {e}
  <2> DEFINE d == [c EXCEPT !.edits = @ \cup {e}]
  <2>1. c.edits \cup {e} \in SUBSET Edits
    BY <1>2 DEF Configs
  <2>2. d \in Configs
    BY <1>2, <2>1 DEF Configs
  <2>3. d.whole /\ d.command = c.command /\ d.edits = c.edits \cup {e}
    BY <1>1, <1>2 DEF Configs
  <2> QED BY <1>1, <2>2, <2>3
<1>4. c # Torn
  BY <1>1 DEF Torn
<1>5. ProtocolTypeOK'
  BY <1>3 DEF ProtocolTypeOK
<1>6. CalledInv'
  BY DEF CalledInv, InProtocol
<1>7. EditsInv'
  <2> SUFFICES ASSUME ~overlap PROVE EditsInv'
    BY DEF EditsInv
  <2>1. Kept(config \cup copies)'
    BY <1>2, <1>3 DEF EditsInv, Kept
  <2>2. ASSUME NEW i \in Invocations, rpc[i] = "open" PROVE Kept(copies)'
    BY <2>2 DEF EditsInv, Kept
  <2>3. ASSUME NEW i \in Invocations, rpc[i] = "write" PROVE FALSE
    BY <1>2, <1>4, <2>3 DEF EditsInv
  <2> QED BY <2>1, <2>2, <2>3 DEF EditsInv
<1>8. ShimInv'
  <2>1. Enrolled' <=> Enrolled
    BY <1>2, <1>3 DEF Enrolled
  <2> QED BY <2>1 DEF ShimInv
<1> QED BY <1>5, <1>6, <1>7, <1>8

LEMMA ProtocolStutter ==
  ASSUME ProtocolInv, UNCHANGED <<protocolvars, pc, overlap>>
  PROVE  ProtocolInv'
BY DEF protocolvars, files, locals, ProtocolInv, ProtocolTypeOK, CalledInv, InProtocol, EditsInv,
       Kept, ShimInv, Enrolled

-----------------------------------------------------------------------------
(* The invariant *)

LEMMA Parts == IInv <=> InstallInv /\ ProtocolInv
BY DEF IInv, InstallInv, ProtocolInv

LEMMA InitInv == Init => IInv
<1> SUFFICES ASSUME Init PROVE IInv
  OBVIOUS
<1> USE DEF Init, ProtocolInit
<1>1. InstallTypeOK
  <2>1. Bundle(Old, TRUE) \in Bundles
    BY DEF Bundle, Bundles
  <2>2. pc \in [Invocations -> Calls]
    BY DEF Calls
  <2>3. payload \in [Invocations -> SUBSET Payloads]
    OBVIOUS
  <2>4. target \subseteq Bundles
    BY <2>1
  <2> QED BY <2>2, <2>3, <2>4 DEF InstallTypeOK
<1>2. \A command \in {"none", "other", "shim"} : Config(command, {}) \in Configs
  BY DEF Config, Configs
<1>3. ProtocolTypeOK
  BY <1>2 DEF ProtocolTypeOK, RCalls
<1>4. VerifiedInv
  <2>1. \A b \in target : b.version = Old
    <3>1. target = {} \/ target = {Bundle(Old, TRUE)}
      OBVIOUS
    <3>2. Bundle(Old, TRUE).version = Old
      BY DEF Bundle
    <3> QED BY <3>1, <3>2
  <2>2. procs \subseteq {Old}
    BY <2>1
  <2> QED BY <2>1, <2>2 DEF VerifiedInv, OnlyVerifiedInstalled
<1>5. Exclusive /\ BackupInv
  BY DEF Exclusive, Active, BackupInv
<1>6. CalledInv
  BY DEF CalledInv, InProtocol
<1>7. EditsInv
  BY DEF EditsInv, Kept
<1>8. ShimInv
  <2>1. Enrolled => Config("shim", {}) \in config
    <3>1. config = {} \/ \E c \in {"none", "other", "shim"} : config = {Config(c, {})}
      OBVIOUS
    <3>2. CASE config = {}
      BY <3>2 DEF Enrolled
    <3>3. ASSUME NEW c \in {"none", "other", "shim"}, config = {Config(c, {})}
          PROVE  {d.command : d \in config} = {c}
      <4>1. Config(c, {}).command = c
        BY DEF Config
      <4> HIDE DEF Config
      <4> QED BY <3>3, <4>1
    <3> QED BY <3>1, <3>2, <3>3 DEF Enrolled
  <2> QED BY <2>1 DEF ShimInv
<1> QED BY <1>1, <1>3, <1>4, <1>5, <1>6, <1>7, <1>8 DEF IInv

LEMMA NextInv == IInv /\ [Next]_vars => IInv'
<1> SUFFICES ASSUME IInv, [Next]_vars PROVE InstallInv' /\ ProtocolInv'
  BY DEF IInv, InstallInv, ProtocolInv
<1>0. InstallInv /\ ProtocolInv /\ InstallTypeOK /\ Exclusive
  BY Parts DEF InstallInv
<1>1. ASSUME NEW i \in Invocations, Installing(i), UNCHANGED protocolvars
      PROVE  InstallInv' /\ ProtocolInv'
  BY <1>0, <1>1, InstallStep, ProtocolFrame
<1>2. ASSUME NEW i \in Invocations, Repoint(i) PROVE InstallInv' /\ ProtocolInv'
  <2>1. UNCHANGED <<disk, procs, progress>>
    BY <1>2 DEF Repoint
  <2>2. pc[i] = "protocol" /\ \E binary \in BOOLEAN : repoint_protocol(i, binary)
    BY <1>2 DEF Repoint, Binary
  <2> QED BY <1>0, <2>1, <2>2, OtherSteps, ProtocolStep DEF progress
<1>3. ASSUME NEW i \in Invocations, Killed(i) PROVE InstallInv' /\ ProtocolInv'
  BY <1>0, <1>3, OtherSteps, EndsStep
<1>4. CASE (UserOpens \/ UserQuits) /\ UNCHANGED protocolvars
  <2>1. UNCHANGED <<protocolvars, pc, overlap>>
    BY <1>4 DEF UserOpens, UserQuits, progress
  <2> QED BY <1>0, <1>4, <2>1, OtherSteps, ProtocolStutter
<1>5. ASSUME NEW e \in Edits, AgentWrites(e),
             UNCHANGED <<disk, procs, progress>>
      PROVE  InstallInv' /\ ProtocolInv'
  BY <1>0, <1>5, OtherSteps, AgentStep DEF progress
<1>6. CASE UNCHANGED vars
  <2>1. /\ UNCHANGED <<disk, procs, progress>>
        /\ UNCHANGED <<protocolvars, pc, overlap>>
    BY <1>6 DEF vars, disk, progress
  <2> QED BY <1>0, <2>1, OtherSteps, ProtocolStutter
<1> QED BY <1>1, <1>2, <1>3, <1>4, <1>5, <1>6 DEF Next

LEMMA Invariance == Spec => []IInv
BY InitInv, NextInv, PTL DEF Spec

\* Whatever is refused by Gatekeeper or codesign is never in /Applications and
\* never runs, for any number of invocations that overlap and are killed.
THEOREM VerifiedSafe == Spec => []OnlyVerifiedInstalled
<1>1. IInv => OnlyVerifiedInstalled
  BY DEF IInv, VerifiedInv
<1> QED BY <1>1, Invariance, PTL

\* A bundle goes only when its backup is complete or has failed, wherever
\* invocations that do not overlap are killed and run again.
THEOREM BackupSafe == Spec => ReplacedIsBackedUpOrUnsaved
<1>1. IInv /\ [Next]_vars =>
        [~overlap => \A b \in target : b.whole /\ b \notin target' => b \in backups \cup unsaved]_vars
  <2> SUFFICES ASSUME IInv, ~overlap, Next, NEW b \in target, b.whole, b \notin target'
               PROVE  b \in backups \cup unsaved
    OBVIOUS
  <2>1. target' # target
    OBVIOUS
  <2>2. PICK i \in Invocations : Remove(i) \/ CopyBegins(i) \/ CopyEnds(i)
    BY <2>1 DEF Next, Installing, Repoint, Killed, UserOpens, UserQuits, disk, Start,
       ProtocolUpdate, NoSource, Decline, Fetch, Attach, Verify, Pids, Quit,
       NothingToReplace, Backup, CopyFails, Open, Detach, RepointEnds, Bank, Call
  <2>3. CASE Remove(i)
    BY <2>3 DEF Remove, IInv, BackupInv, Whole
  <2>4. CASE CopyBegins(i)
    BY <2>4 DEF CopyBegins, IInv, BackupInv
  <2>5. CASE CopyEnds(i)
    <3>1. PICK whole \in BOOLEAN : Ditto(i, whole) /\ (overlap \/ whole)
      BY <2>5 DEF CopyEnds
    <3>2. pc[i] = "copying" /\ (\A c \in target : c.version \in payload[i])
          /\ \A p, q \in payload[i] : p = q
      BY <2>5 DEF CopyEnds, IInv, BackupInv, InstallTypeOK
    <3>3. target' = {Bundle(p, TRUE) : p \in payload[i]}
      BY <3>1, <3>2 DEF Ditto
    <3>4. b = Bundle(b.version, TRUE)
      BY DEF IInv, InstallTypeOK, Bundles, Bundle
    <3> QED BY <3>2, <3>3, <3>4
  <2> QED BY <2>2, <2>3, <2>4, <2>5
<1> QED BY <1>1, Invariance, PTL DEF Spec, ReplacedIsBackedUpOrUnsaved

\* No edit of an agent session is lost by the repointing of one invocation at
\* a time, wherever it is killed, but for those made after its copy.
THEOREM EditsSafe == Spec => []EditsAreKept
<1>1. IInv => EditsAreKept
  BY DEF IInv, EditsInv, Kept, EditsAreKept
<1> QED BY <1>1, Invariance, PTL

\* One invocation at a time never leaves the protocol with a command that
\* cannot be started, unless one has ended just before the chmod.
THEOREM ShimSafe == Spec => []EnrolledShimRuns
<1>1. IInv => EnrolledShimRuns
  BY DEF IInv, ShimInv, EnrolledShimRuns, ProtocolTypeOK
<1> QED BY <1>1, Invariance, PTL

-----------------------------------------------------------------------------
(* No process behind a stale bundle *)

Answers == {"was not running", "exited", "still-running"}
Early == {"idle", "fetch", "attach", "assess", "pids", "poll"}

\* A receipt says how quitting went once it has, and who ends without being
\* killed after that has banked it.
ReceiptInv ==
  /\ quit \in [Invocations -> Answers]
  /\ \A i \in Invocations : pc[i] \in Early => quit[i] = "was not running"
  /\ \A i \in Invocations : pc[i] = "done" /\ quit[i] = "still-running" => i \in banked

Reported ==
  \E i \in Invocations : quit[i] = "still-running" /\ (i \in banked \/ pc[i] # "done")
Replaces(i) == pc[i] \in {"backup", "remove", "copy", "copying"}

\* From the quit to the end of the copy nothing runs.
OrphanInv ==
  /\ OrphansAreReported
  /\ overlap \/ reopened \/ Reported \/ \A i \in Invocations : Replaces(i) => procs = {}

\* What a step of an installation does to receipts, and where it goes.
LEMMA ReceiptStep ==
  ASSUME ReceiptInv, InstallTypeOK, NEW i \in Invocations, Installing(i)
  PROVE  /\ quit' \in [Invocations -> Answers]
         /\ \A j \in Invocations \ {i} : quit'[j] = quit[j] /\ pc'[j] = pc[j]
         /\ \/ quit'[i] = quit[i]
            \/ pc[i] = "poll" /\ pc'[i] = "backup"
         /\ pc'[i] \in Early => pc[i] \in Early
         /\ pc'[i] = "done" => pc[i] \in Early \/ i \in banked'
         /\ banked \subseteq banked'
         /\ pc[i] # "done"
<1> USE DEF ReceiptInv, InstallTypeOK, Early, Goto
<1>1. CASE Start(i) \/ ProtocolUpdate(i)
  BY <1>1 DEF Start, ProtocolUpdate
<1>2. CASE NoSource(i) \/ Decline(i) \/ Fetch(i) \/ Attach(i) \/ Verify(i)
  BY <1>2 DEF NoSource, Decline, Fetch, Attach, Verify, Call
<1>3. CASE Pids(i) \/ NothingToReplace(i) \/ CopyFails(i) \/ Detach(i) \/ RepointEnds(i)
  BY <1>3 DEF Pids, NothingToReplace, CopyFails, Detach, RepointEnds, Call
<1>4. CASE Quit(i)
  BY <1>4 DEF Quit, Answers
<1>5. CASE Backup(i) \/ Remove(i) \/ Open(i) \/ Bank(i)
  BY <1>5 DEF Backup, Remove, Open, Bank
<1>6. CASE CopyBegins(i) \/ CopyEnds(i)
  BY <1>6 DEF CopyBegins, CopyEnds, Ditto
<1> QED
  BY <1>1, <1>2, <1>3, <1>4, <1>5, <1>6 DEF Installing

LEMMA ReceiptInvStep ==
  ASSUME ReceiptInv, InstallTypeOK, [Next]_vars
  PROVE  ReceiptInv' /\ (Reported => Reported')
<1>1. ASSUME NEW i \in Invocations, Installing(i)
      PROVE  ReceiptInv' /\ (Reported => Reported')
  <2>1. /\ quit' \in [Invocations -> Answers]
        /\ \A j \in Invocations \ {i} : quit'[j] = quit[j] /\ pc'[j] = pc[j]
        /\ \/ quit'[i] = quit[i]
           \/ pc[i] = "poll" /\ pc'[i] = "backup"
        /\ pc'[i] \in Early => pc[i] \in Early
        /\ pc'[i] = "done" => pc[i] \in Early \/ i \in banked'
        /\ banked \subseteq banked'
    BY <1>1, ReceiptStep
  <2>2. ReceiptInv'
    BY <2>1 DEF ReceiptInv, Early
  <2>3. ASSUME NEW j \in Invocations, quit[j] = "still-running"
        PROVE  quit'[j] = "still-running"
    BY <2>1, <2>3 DEF ReceiptInv, Early
  <2>4. Reported => Reported'
    BY <2>2, <2>3 DEF ReceiptInv, Reported
  <2>5. QED
    BY <2>2, <2>4
<1>2. ASSUME UNCHANGED <<quit, banked>>,
             UNCHANGED pc \/ \E i \in Invocations : pc' = [pc EXCEPT ![i] = "killed"]
      PROVE  ReceiptInv' /\ (Reported => Reported')
  BY <1>2 DEF ReceiptInv, Reported, InstallTypeOK, Early
<1>3. QED
  BY <1>1, <1>2 DEF Next, Repoint, Killed, Goto, UserOpens, UserQuits, vars, progress

-----------------------------------------------------------------------------

\* A step that neither starts a process nor touches the bundle, and that comes
\* to replace it only when nothing runs.
LEMMA QuietStep ==
  ASSUME OrphanInv, Reported => Reported', overlap => overlap', reopened => reopened',
         procs' \subseteq procs, target' = target,
         \A i \in Invocations : Replaces(i)' => Replaces(i) \/ procs' = {}
  PROVE  OrphanInv'
BY DEF OrphanInv, OrphansAreReported, Reported

LEMMA OrphanStep ==
  ASSUME IInv, ReceiptInv, OrphanInv, [Next]_vars
  PROVE  OrphanInv'
<1>0. /\ Reported => Reported'
      /\ InstallTypeOK /\ Exclusive
  BY ReceiptInvStep DEF IInv
<1>1. ASSUME NEW i \in Invocations, Installing(i)
      PROVE  OrphanInv'
  <2> USE <1>0 DEF InstallTypeOK, Goto, disk
  <2>1. CASE Start(i) \/ ProtocolUpdate(i)
    BY <2>1, QuietStep DEF Start, ProtocolUpdate, Begins, Replaces
  <2>2. CASE \/ NoSource(i) \/ Decline(i) \/ Fetch(i) \/ Attach(i) \/ Verify(i)
             \/ NothingToReplace(i) \/ CopyFails(i) \/ Detach(i)
    BY <2>2, QuietStep DEF NoSource, Decline, Fetch, Attach, Verify, NothingToReplace,
       CopyFails, Detach, Call, Replaces
  <2>3. CASE Pids(i)
    BY <2>3, QuietStep DEF Pids, Call, Replaces
  <2>5. CASE Quit(i)
    <3>1. CASE procs' = {}
      BY <2>5, <3>1, QuietStep DEF Quit, Replaces
    <3>2. CASE procs' # {}
      <4>1. /\ quit' = [quit EXCEPT ![i] = "still-running"]
            /\ pc' = [pc EXCEPT ![i] = "backup"]
        BY <2>5, <3>2 DEF Quit
      <4>2. quit'[i] = "still-running" /\ pc'[i] = "backup"
        BY <4>1 DEF ReceiptInv
      <4>3. QED
        BY <4>2 DEF OrphanInv, OrphansAreReported, Reported
    <3>3. QED
      BY <3>1, <3>2
  <2>6. CASE Backup(i)
    BY <2>6, QuietStep DEF Backup, Replaces
  <2>7. CASE Remove(i) \/ CopyBegins(i) \/ CopyEnds(i)
    <3>1. /\ Replaces(i) /\ UNCHANGED <<procs, overlap, reopened>>
          /\ \A j \in Invocations : Replaces(j)' => Replaces(j)
      BY <2>7 DEF Remove, CopyBegins, CopyEnds, Ditto, Replaces
    <3>2. overlap \/ reopened \/ Reported' \/ procs' = {}
      BY <1>0, <3>1 DEF OrphanInv
    <3>3. QED
      BY <3>1, <3>2 DEF OrphanInv, OrphansAreReported, Reported
  <2>8. CASE Open(i)
    <3>1. /\ pc[i] = "open" /\ pc' = [pc EXCEPT ![i] = "protocol"]
          /\ UNCHANGED <<target, overlap, reopened>>
          /\ \A v \in procs' : v \in procs \/ \E b \in target : b.whole /\ b.version = v
      BY <2>8 DEF Open
    <3>2. \A b \in target : b.whole => b = Bundle(b.version, TRUE)
      BY DEF Bundles, Bundle
    <3>3. overlap \/ \A j \in Invocations : ~Replaces(j)'
      BY <3>1 DEF Exclusive, Active, Replaces
    <3>4. OrphansAreReported'
      <4>1. ASSUME NEW v \in procs', \A w \in procs : Bundle(w, TRUE) \in target
            PROVE  Bundle(v, TRUE) \in target
        <5>1. CASE v \in procs
          BY <4>1, <5>1
        <5>2. CASE \E b \in target : b.whole /\ b.version = v
          <6>1. PICK b \in target : b.whole /\ b.version = v
            BY <5>2
          <6>2. b = Bundle(v, TRUE)
            BY <3>2, <6>1
          <6>3. QED
            BY <6>1, <6>2
        <5>3. QED
          BY <3>1, <5>1, <5>2
      <4>2. CASE overlap \/ reopened \/ Reported
        BY <1>0, <3>1, <4>2 DEF OrphansAreReported, Reported
      <4>3. CASE \A w \in procs : Bundle(w, TRUE) \in target
        BY <3>1, <4>1, <4>3 DEF OrphansAreReported
      <4>4. QED
        BY <4>2, <4>3 DEF OrphanInv, OrphansAreReported, Reported
    <3>5. overlap' \/ \A j \in Invocations : ~Replaces(j)'
      BY <3>1, <3>3
    <3>6. QED
      BY <3>4, <3>5 DEF OrphanInv
  <2>9. CASE RepointEnds(i) \/ Bank(i)
    BY <2>9, QuietStep DEF RepointEnds, Call, Bank, Replaces
  <2>10. QED
    BY <1>1, <2>1, <2>2, <2>3, <2>5, <2>6, <2>7, <2>8, <2>9 DEF Installing
<1>2. CASE UserOpens
  <2>1. CASE Replacing
    BY <1>2, <2>1 DEF UserOpens, OrphanInv, OrphansAreReported
  <2>2. CASE ~Replacing
    <3>1. \A i \in Invocations : ~Replaces(i)'
      BY <1>2, <2>2 DEF UserOpens, Replacing, Replaces, progress
    <3>2. \A b \in target : b.whole => b = Bundle(b.version, TRUE)
      BY <1>0 DEF InstallTypeOK, Bundles, Bundle
    <3>3. /\ UNCHANGED <<target, overlap, quit, banked, pc>>
          /\ reopened => reopened'
          /\ \A v \in procs' : v \in procs \/ \E b \in target : b.whole /\ b.version = v
      BY <1>2 DEF UserOpens, disk, progress
    <3>4. QED
      BY <3>1, <3>2, <3>3 DEF OrphanInv, OrphansAreReported, Reported
  <2>3. QED
    BY <2>1, <2>2
<1>3. CASE UserQuits
  BY <1>0, <1>3, QuietStep DEF UserQuits, disk, progress, Replaces
<1>4. ASSUME NEW i \in Invocations, Killed(i)
      PROVE  OrphanInv'
  BY <1>0, <1>4, QuietStep DEF Killed, Goto, disk, Replaces, InstallTypeOK
<1>5. CASE UNCHANGED <<disk, procs, progress, reopened>>
  BY <1>0, <1>5, QuietStep DEF disk, progress, Replaces
<1>6. QED
  BY <1>1, <1>2, <1>3, <1>4, <1>5 DEF Next, Repoint, vars, disk, progress

LEMMA OrphanInit == Init => ReceiptInv /\ OrphanInv
<1> SUFFICES ASSUME Init PROVE ReceiptInv /\ OrphanInv
  OBVIOUS
<1>1. ReceiptInv
  BY DEF Init, ReceiptInv, Answers
<1>2. \A v \in procs : Bundle(v, TRUE) \in target
  <2>1. Bundle(Old, TRUE).version = Old
    BY DEF Bundle
  <2>2. target = {} \/ target = {Bundle(Old, TRUE)}
    BY DEF Init
  <2> QED BY <2>1, <2>2 DEF Init
<1>3. QED
  BY <1>1, <1>2 DEF Init, OrphanInv, OrphansAreReported, Replaces

\* No process runs from a bundle that is gone or replaced and goes unreported,
\* wherever invocations that do not overlap fail, but for those killed with the
\* report in hand.
THEOREM OrphansSafe == Spec => []OrphansAreReported
<1>1. Init => IInv /\ ReceiptInv /\ OrphanInv
  BY InitInv, OrphanInit
<1>2. IInv /\ ReceiptInv /\ OrphanInv /\ [Next]_vars => (IInv /\ ReceiptInv /\ OrphanInv)'
  BY NextInv, ReceiptInvStep, OrphanStep DEF IInv
<1>3. IInv /\ ReceiptInv /\ OrphanInv => OrphansAreReported
  BY DEF OrphanInv
<1> QED BY <1>1, <1>2, <1>3, PTL DEF Spec

=============================================================================
