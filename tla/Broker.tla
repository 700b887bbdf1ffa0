------------------------------- MODULE Broker -------------------------------
(***************************************************************************)
(* The capability broker: the threads of the root daemon                   *)
(* (keyabra/broker_server.py, one handler thread per connection, one       *)
(* request per connection) over the state directory that CapabilityStore   *)
(* and CapabilityBroker share (keyabra/broker.py).  There is no lock: every *)
(* read of the catalog file, every os.replace and every look at a secret   *)
(* file is a step of its own, and the steps of all threads interleave.     *)
(*                                                                         *)
(* Abstracted: what os.replace makes atomic is one step here (AtomicWrite  *)
(* looks inside it); texts and metadata that no decision depends on; the   *)
(* contents of the legacy vault, whose verdict is part of the request.     *)
(***************************************************************************)

CONSTANTS
  Handlers,     \* handler threads
  Caps,         \* capability ids
  Keys,         \* secret values
  Uids,         \* peer uids
  AllowedUids,  \* --allowed-uid
  OwnerUids,    \* --owner-uid
  Requests,     \* the requests peers may send
  NoSpec, NoKey, NoReq

\* TunnelAdminAdapter.OPERATIONS
Operations == {"tunnels.list", "tunnels.get", "tunnels.create"}

\* A catalog entry: what _validate_spec lets through.
Specs ==
  {s \in [adapter : {"presence", "openai_tunnel_admin"},
          operations : SUBSET Operations] :
     s.adapter = "presence" => s.operations = {}}

\* What an owner may offer for registration; clean stands for the checks
\* on the id, the texts, duplicates and public metadata.
Offers ==
  [adapter : {"presence", "openai_tunnel_admin", "other"},
   operations : SUBSET (Operations \cup {"other"}),
   clean : BOOLEAN]

Actions == {"status", "list", "describe", "invoke",
            "register", "enroll", "import_env", "other"}

\* A request.  Fields that its action does not read are arbitrary.  body is
\* "refused" when dispatch cannot use the body (arguments or capability not
\* an object, bad base64, a vault import_env refuses) and "unusable" when
\* _build_command rejects the arguments.  A blank secret is NoKey.
RequestType ==
  [uid : Uids, action : Actions, cap : Caps,
   operation : Operations \cup {"other"},
   body : {"good", "refused", "unusable"},
   offer : Offers, secret : Keys \cup {NoKey}]

ASSUME RequestsAssumption == Requests \subseteq RequestType
ASSUME NoSpecAssumption == NoSpec \notin Specs
ASSUME NoKeyAssumption == NoKey \notin Keys
ASSUME NoReqAssumption == NoReq \notin RequestType

VARIABLES
  catalog,  \* capabilities.json
  custody,  \* the files of secrets/
  pc,       \* where each handler thread is
  req,      \* the request it serves
  snap,     \* its local copy of the catalog
  todo,     \* ids whose secret file it still has to look for
  found,    \* ids it found a secret file for
  key,      \* its local copy of a secret
  outcome,  \* what it answers
  effect,   \* whether its child created something at the provider
  seenOps,  \* auxiliary: operations the catalog allowed since the request came
  seenKeys, \* auxiliary: secrets held in custody since the request came
  overlapped  \* auxiliary: two registrations were at work at the same time

store == <<catalog, custody>>
thread == <<pc, req, snap, todo, found, key, outcome, effect>>
window == <<seenOps, seenKeys, overlapped>>
vars == <<catalog, custody, pc, req, snap, todo, found, key, outcome, effect,
          seenOps, seenKeys, overlapped>>

NoCatalog == [c \in Caps |-> NoSpec]
Registered(cat) == {c \in Caps : cat[c] # NoSpec}
OpsOf(s) == IF s = NoSpec THEN {} ELSE s.operations

PCs == {"idle", "load", "write", "reload", "scan", "secret", "build",
        "running", "done"}
\* "error" is a BrokerError other than the timeout, "internal" any other
\* exception, which handle answers as "broker internal error".
Outcomes == {"none", "ok", "error", "timeout", "internal"}

Init ==
  /\ catalog = NoCatalog
  /\ custody = [c \in Caps |-> NoKey]
  /\ pc = [h \in Handlers |-> "idle"]
  /\ req = [h \in Handlers |-> NoReq]
  /\ snap = [h \in Handlers |-> NoCatalog]
  /\ todo = [h \in Handlers |-> {}]
  /\ found = [h \in Handlers |-> {}]
  /\ key = [h \in Handlers |-> NoKey]
  /\ outcome = [h \in Handlers |-> "none"]
  /\ effect = [h \in Handlers |-> FALSE]
  /\ seenOps = [h \in Handlers |-> {}]
  /\ seenKeys = [h \in Handlers |-> {}]
  /\ overlapped = FALSE

-----------------------------------------------------------------------------
(* dispatch: authorization and the checks made before any file is read *)

Allowed(u) == u \in AllowedUids \cup OwnerUids
Queries == {"status", "list", "describe", "invoke"}

\* _validate_spec: the offer becomes a catalog entry or is refused.
ValidSpec(o) ==
  /\ o.clean
  /\ \/ o.adapter = "presence" /\ o.operations = {}
     \/ o.adapter = "openai_tunnel_admin" /\ o.operations \subseteq Operations

Entry(o) == [adapter |-> o.adapter, operations |-> o.operations]

\* dispatch lets the request through to the store.
Admitted(r) ==
  /\ Allowed(r.uid)
  /\ r.action \notin Queries => r.uid \in OwnerUids
  /\ r.action # "other"
  /\ r.body # "refused"
  /\ r.action = "register" => ValidSpec(r.offer)

InFlight(h) == pc[h] \notin {"idle", "done"}
Registering == {h \in Handlers : InFlight(h) /\ req[h].action = "register"}

\* A connection is accepted: its thread reads one request and dispatches it.
Receive(h, r) ==
  /\ pc[h] = "idle"
  /\ req' = [req EXCEPT ![h] = r]
  /\ seenOps' = [seenOps EXCEPT ![h] = OpsOf(catalog[r.cap])]
  /\ seenKeys' = [seenKeys EXCEPT ![h] = {custody[r.cap]} \ {NoKey}]
  /\ overlapped' = (overlapped \/ (Admitted(r) /\ r.action = "register" /\ Registering # {}))
  /\ \/ /\ Admitted(r)
        /\ pc' = [pc EXCEPT ![h] = "load"]
        /\ UNCHANGED outcome
     \/ /\ ~Admitted(r)
        /\ pc' = [pc EXCEPT ![h] = "done"]
        /\ outcome' = [outcome EXCEPT ![h] = "error"]
  /\ UNCHANGED <<store, snap, todo, found, key, effect>>

\* The thread ends its request with outcome o; its locals that held a
\* secret are cleared.
Answer(h, o) ==
  /\ pc' = [pc EXCEPT ![h] = "done"]
  /\ outcome' = [outcome EXCEPT ![h] = o]
  /\ key' = [key EXCEPT ![h] = NoKey]
  /\ UNCHANGED <<store, req, snap, todo, found, effect, window>>

Goto(h, label) ==
  /\ pc' = [pc EXCEPT ![h] = label]
  /\ UNCHANGED outcome

-----------------------------------------------------------------------------
(* The steps of one request *)

InvokeAllowed(r, entry) ==
  /\ r.operation \in OpsOf(entry)
  /\ entry.adapter = "openai_tunnel_admin"

\* Mutant: enroll does not look the capability up.
Accepts_EnrollUnknown(r, cat) ==
  CASE r.action \in {"status", "list", "register"} -> TRUE
    [] r.action = "describe" -> cat[r.cap] # NoSpec
    [] r.action = "invoke" -> InvokeAllowed(r, cat[r.cap])
    [] OTHER -> r.secret # NoKey

\* Mutant: invoke accepts every operation of the adapter.
Accepts_AnyAdapterOperation(r, cat) ==
  CASE r.action \in {"status", "list", "register"} -> TRUE
    [] r.action = "describe" -> cat[r.cap] # NoSpec
    [] r.action = "invoke" -> cat[r.cap] # NoSpec /\ r.operation \in Operations
    [] OTHER -> cat[r.cap] # NoSpec /\ r.secret # NoKey

\* Can the request go on with this catalog?  _get_spec fails for an unknown
\* id, invoke for an operation the entry does not list or an entry without
\* an invocable adapter, enroll for a blank secret.
Accepts(r, cat) ==
  CASE r.action \in {"status", "list", "register"} -> TRUE
    [] r.action = "describe" -> cat[r.cap] # NoSpec
    [] r.action = "invoke" -> InvokeAllowed(r, cat[r.cap])
    [] OTHER -> cat[r.cap] # NoSpec /\ r.secret # NoKey

AfterLoad(r) ==
  CASE r.action = "invoke" -> "secret"
    [] r.action \in {"status", "list", "describe"} -> "scan"
    [] OTHER -> "write"

\* The ids whose secret file the answer to r, computed from cat, looks for.
Probed(r, cat) ==
  IF r.action \in {"status", "list"} THEN Registered(cat) ELSE {r.cap}

\* _load_catalog, and the checks made on what it returned.
LoadCatalog(h) ==
  /\ pc[h] = "load"
  /\ Accepts(req[h], catalog)
  /\ snap' = [snap EXCEPT ![h] = catalog]
  /\ todo' = [todo EXCEPT ![h] = Probed(req[h], catalog)]
  /\ Goto(h, AfterLoad(req[h]))
  /\ UNCHANGED <<store, req, found, key, effect, window>>

LoadRefused(h) ==
  /\ pc[h] = "load"
  /\ ~Accepts(req[h], catalog)
  /\ Answer(h, "error")

\* What the requests in flight may see from now on.
Publish(file) ==
  seenOps' = [h \in Handlers |->
    IF req[h] = NoReq THEN {} ELSE seenOps[h] \cup OpsOf(file[req[h].cap])]
Deposit(c, k) ==
  seenKeys' = [h \in Handlers |->
    IF req[h] # NoReq /\ req[h].cap = c THEN seenKeys[h] \cup {k}
    ELSE seenKeys[h]]

\* register puts file in the place of the catalog.
ReplaceCatalog(h, file) ==
  /\ pc[h] = "write" /\ req[h].action = "register"
  /\ catalog' = file
  /\ Publish(file)
  /\ Goto(h, "reload")
  /\ UNCHANGED <<custody, req, snap, todo, found, key, effect, seenKeys, overlapped>>

\* Mutant: an existing entry is kept (setdefault).
WriteCatalog_KeepsOldEntry(h) ==
  ReplaceCatalog(h, [snap[h] EXCEPT ![req[h].cap] =
                       IF @ = NoSpec THEN Entry(req[h].offer) ELSE @])

\* register: the copy of the catalog, with the new entry, replaces the file.
WriteCatalog(h) ==
  ReplaceCatalog(h, [snap[h] EXCEPT ![req[h].cap] = Entry(req[h].offer)])

\* enroll and import_env: the secret replaces the file of the capability.
WriteSecret(h) ==
  LET c == req[h].cap
  IN /\ pc[h] = "write" /\ req[h].action # "register"
     /\ custody' = [custody EXCEPT ![c] = req[h].secret]
     /\ Deposit(c, req[h].secret)
     /\ Goto(h, "reload")
     /\ UNCHANGED <<catalog, req, snap, todo, found, key, effect, seenOps, overlapped>>

\* Both end with describe, which loads the catalog again.
Describe(h, ids) ==
  /\ pc[h] = "reload"
  /\ catalog[req[h].cap] # NoSpec
  /\ snap' = [snap EXCEPT ![h] = catalog]
  /\ todo' = [todo EXCEPT ![h] = ids]
  /\ Goto(h, "scan")
  /\ UNCHANGED <<store, req, found, key, effect, window>>

Reload(h) == Describe(h, {req[h].cap})

ReloadFails(h) ==
  /\ pc[h] = "reload"
  /\ catalog[req[h].cap] = NoSpec
  /\ Answer(h, "error")

\* _public: is there a secret file for c?
Look(h, c, available) ==
  /\ pc[h] = "scan"
  /\ c \in todo[h]
  /\ todo' = [todo EXCEPT ![h] = @ \ {c}]
  /\ found' = [found EXCEPT ![h] = IF available THEN @ \cup {c} ELSE @]
  /\ UNCHANGED <<store, pc, req, snap, key, outcome, effect, window>>

\* Mutant: whatever is registered is reported as available.
Probe_AssumesEnrolled(h, c) == Look(h, c, TRUE)

Probe(h, c) == Look(h, c, custody[c] # NoKey)

ScanDone(h) ==
  /\ pc[h] = "scan"
  /\ todo[h] = {}
  /\ Answer(h, "ok")

\* read_secret: the secret of the capability is in memory from here on.
ReadSecret(h) ==
  LET k == custody[req[h].cap]
  IN /\ pc[h] = "secret"
     /\ k # NoKey
     /\ key' = [key EXCEPT ![h] = k]
     /\ Goto(h, "build")
     /\ UNCHANGED <<store, req, snap, todo, found, effect, window>>

ReadSecretFails(h) ==
  /\ pc[h] = "secret"
  /\ custody[req[h].cap] = NoKey
  /\ Answer(h, "error")

\* _build_command: the arguments are checked, and a child is started that
\* has the secret in its environment.
StartChild(h) ==
  /\ pc[h] = "build"
  /\ req[h].body = "good"
  /\ Goto(h, "running")
  /\ UNCHANGED <<store, req, snap, todo, found, key, effect, window>>

BuildFails(h) ==
  /\ pc[h] = "build"
  /\ req[h].body # "good"
  /\ Answer(h, "error")

\* The tunnel-client child creates the tunnel at the provider.
ChildCreates(h) ==
  /\ pc[h] = "running"
  /\ req[h].operation = "tunnels.create" /\ ~effect[h]
  /\ effect' = [effect EXCEPT ![h] = TRUE]
  /\ UNCHANGED <<store, pc, req, snap, todo, found, key, outcome, window>>

\* The child exits; its result, whatever the exit code, is answered.  Output
\* that is no UTF-8 raises once the child has run; so does a child that
\* cannot be started.
ChildExits(h) ==
  /\ pc[h] = "running"
  /\ \E o \in {"ok", "internal"} : Answer(h, o)

\* Mutant: no timeout is given to subprocess.run.
ChildTimesOut_Never(h) == pc[h] = "running" /\ FALSE /\ Answer(h, "timeout")

\* subprocess.run gives up after 90 s and kills the child.
ChildTimesOut(h) ==
  /\ pc[h] = "running"
  /\ Answer(h, "timeout")

\* The answer is written and the connection closed.
Close(h) ==
  /\ pc[h] = "done"
  /\ pc' = [pc EXCEPT ![h] = "idle"]
  /\ req' = [req EXCEPT ![h] = NoReq]
  /\ snap' = [snap EXCEPT ![h] = NoCatalog]
  /\ found' = [found EXCEPT ![h] = {}]
  /\ todo' = [todo EXCEPT ![h] = {}]
  /\ outcome' = [outcome EXCEPT ![h] = "none"]
  /\ effect' = [effect EXCEPT ![h] = FALSE]
  /\ seenOps' = [seenOps EXCEPT ![h] = {}]
  /\ seenKeys' = [seenKeys EXCEPT ![h] = {}]
  /\ UNCHANGED <<store, key, overlapped>>

\* The daemon dies with all its threads; launchd starts another one on the
\* files it left.
CrashRestart ==
  /\ pc' = [h \in Handlers |-> "idle"]
  /\ req' = [h \in Handlers |-> NoReq]
  /\ snap' = [h \in Handlers |-> NoCatalog]
  /\ todo' = [h \in Handlers |-> {}]
  /\ found' = [h \in Handlers |-> {}]
  /\ key' = [h \in Handlers |-> NoKey]
  /\ outcome' = [h \in Handlers |-> "none"]
  /\ effect' = [h \in Handlers |-> FALSE]
  /\ seenOps' = [h \in Handlers |-> {}]
  /\ seenKeys' = [h \in Handlers |-> {}]
  /\ UNCHANGED <<store, overlapped>>

Serve(h) ==
  \/ LoadCatalog(h) \/ LoadRefused(h)
  \/ WriteCatalog(h) \/ WriteSecret(h) \/ Reload(h) \/ ReloadFails(h)
  \/ \E c \in Caps : Probe(h, c)
  \/ ScanDone(h)
  \/ ReadSecret(h) \/ ReadSecretFails(h) \/ StartChild(h) \/ BuildFails(h)
  \/ ChildTimesOut(h)
  \/ Close(h)

Next ==
  \/ \E h \in Handlers :
       \/ \E r \in Requests : Receive(h, r)
       \/ Serve(h)
       \/ ChildCreates(h) \/ ChildExits(h)
  \/ CrashRestart

Spec == Init /\ [][Next]_vars

\* The scheduler runs every thread and the 90 s timer of a child goes off;
\* nothing is assumed of the child, of peers or of crashes.
FairSpec == Spec /\ \A h \in Handlers : WF_vars(Serve(h))

-----------------------------------------------------------------------------
(* Properties *)

\* Type invariant: the catalog file holds only entries that _validate_spec
\* lets through, and every thread's locals are what its code puts there.
TypeOK ==
  /\ catalog \in [Caps -> Specs \cup {NoSpec}]
  /\ custody \in [Caps -> Keys \cup {NoKey}]
  /\ pc \in [Handlers -> PCs]
  /\ req \in [Handlers -> Requests \cup {NoReq}]
  /\ \A h \in Handlers : pc[h] # "idle" => req[h] # NoReq
  /\ snap \in [Handlers -> [Caps -> Specs \cup {NoSpec}]]
  /\ todo \in [Handlers -> SUBSET Caps]
  /\ found \in [Handlers -> SUBSET Caps]
  /\ key \in [Handlers -> Keys \cup {NoKey}]
  /\ outcome \in [Handlers -> Outcomes]
  /\ effect \in [Handlers -> BOOLEAN]
  /\ seenOps \in [Handlers -> SUBSET Operations]
  /\ seenKeys \in [Handlers -> SUBSET Keys]
  /\ overlapped \in BOOLEAN

\* No secret without an entry that says what it may be used for: enroll
\* looks the capability up before it writes the file, other threads run in
\* between, and every later catalog still has the entry - as long as no two
\* registrations overlap, which do lose entries.
SecretsAreCatalogued ==
  overlapped \/ \A c \in Caps : custody[c] # NoKey => catalog[c] # NoSpec

\* A capability that is registered stays registered until two registrations
\* overlap: there is no operation that removes one, so no register may write
\* back a catalog without it.
CatalogNeverShrinks ==
  [][overlapped' \/ \A c \in Caps : catalog[c] # NoSpec => catalog'[c] # NoSpec]_vars

\* register answers with the entry it was given (it writes the catalog, then
\* loads it again to describe the capability), whatever runs meanwhile.
RegisterReadsBack ==
  \A h \in Handlers :
    (pc[h] = "done" /\ req[h].action = "register" /\ Admitted(req[h])) =>
      /\ outcome[h] = "ok"
      /\ snap[h][req[h].cap] = Entry(req[h].offer)

\* That is true until two registrations overlap: enrollments, invocations and
\* crashes between the write and the second load do not disturb it.
RegisterIsReadBack == overlapped \/ RegisterReadsBack

\* available: true stays true.  A list is no snapshot: the catalog is read
\* once and the secret files are looked for one by one while owners work,
\* but what was found is still in custody when the answer is sent.
AvailableIsEnrolled ==
  \A h \in Handlers : \A c \in found[h] : custody[c] # NoKey

\* An enrollment that is answered with success reports the capability as
\* available, over a reload of the catalog and a second look at the files.
EnrollReportsAvailable ==
  \A h \in Handlers :
    (pc[h] = "done" /\ outcome[h] = "ok" /\ req[h].action \in {"enroll", "import_env"})
      => req[h].cap \in found[h]

\* A child runs only an operation that the owner's catalog allowed, and only
\* with a secret that was in custody for that capability, at some moment
\* since the request came in: never on an entry or secret of another
\* capability, of another request or of before.
RunsWithinWindow ==
  \A h \in Handlers : pc[h] = "running" =>
    /\ req[h].operation \in seenOps[h]
    /\ key[h] \in seenKeys[h]

\* Of what a peer is told, only "timed out" and "broker internal error" leave
\* open whether something was created at the provider: after any other
\* refusal nothing was, at whatever step the request was refused, and the peer
\* may simply try again.
RefusedHasNoEffect ==
  \A h \in Handlers : outcome[h] = "error" => ~effect[h]

\* Only threads that serve an owner's connection change the files, however
\* long ago they were dispatched and whatever other threads do.
OnlyOwnersChangeFiles ==
  [][store' # store =>
       \E h \in Handlers : pc[h] = "write" /\ req[h].uid \in OwnerUids]_vars

\* Every request comes to an end, even if the child hangs for ever and peers
\* keep the other threads busy.
EveryRequestEnds == \A h \in Handlers : InFlight(h) ~> ~InFlight(h)

\* The threads and files implement the one-step promises of the registry, up
\* to the first overlap of two registrations.
Registry == INSTANCE CapabilityRegistry WITH catalog <- catalog, custody <- custody
ImplementsRegistry ==
  Registry!Init /\ [][overlapped' \/ Registry!Next]_(Registry!vars)
=============================================================================
