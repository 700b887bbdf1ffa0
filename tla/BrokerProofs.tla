---------------------------- MODULE BrokerProofs ----------------------------
(***************************************************************************)
(* Theorems about Broker, for any number of threads, capabilities, secrets *)
(* and requests.                                                           *)
(***************************************************************************)
EXTENDS Broker, TLAPS

-----------------------------------------------------------------------------
(* Types *)

LEMMA EntryIsSpec ==
  ASSUME NEW r \in Requests, r.action = "register", Admitted(r)
  PROVE  Entry(r.offer) \in Specs
<1>1. r.offer \in Offers
  BY RequestsAssumption DEF RequestType
<1>2. ValidSpec(r.offer)
  BY DEF Admitted
<1>3. QED
  BY <1>1, <1>2 DEF ValidSpec, Entry, Specs, Offers

LEMMA RequestFields ==
  ASSUME NEW r \in Requests
  PROVE  /\ r # NoReq
         /\ r.cap \in Caps
         /\ r.uid \in Uids
         /\ r.secret \in Keys \cup {NoKey}
         /\ r.action \in Actions
BY RequestsAssumption, NoReqAssumption DEF RequestType

LEMMA OpsOfType ==
  ASSUME NEW s \in Specs \cup {NoSpec}
  PROVE  OpsOf(s) \subseteq Operations
BY DEF OpsOf, Specs

\* What a thread may rely on at each point of its code, whatever others do.
ThreadInv ==
  \A h \in Handlers :
    /\ InFlight(h) => Admitted(req[h])
    /\ pc[h] # "done" => outcome[h] = "none"
    /\ pc[h] \in {"secret", "build", "running"} => req[h].action = "invoke"
    /\ pc[h] = "write" =>
         \/ req[h].action = "register"
         \/ req[h].action \in {"enroll", "import_env"} /\ req[h].secret # NoKey
    /\ pc[h] = "reload" => req[h].action \in {"register", "enroll", "import_env"}
    /\ pc[h] \in {"write", "reload", "scan"} => req[h].action # "invoke"

Inv == TypeOK /\ ThreadInv

LEMMA InvInit == Init => Inv
<1>1. Init => overlapped \in BOOLEAN
  BY DEF Init
<1>2. QED
  BY <1>1 DEF Init, Inv, TypeOK, ThreadInv, NoCatalog, InFlight, PCs, Outcomes

LEMMA InvStep == Inv /\ [Next]_vars => Inv'
<1> SUFFICES ASSUME Inv, [Next]_vars
             PROVE  Inv'
  OBVIOUS
<1> USE DEF Inv, PCs, Outcomes
<1>1. ASSUME NEW h \in Handlers, NEW r \in Requests, Receive(h, r)
      PROVE  Inv'
  <2>1. OpsOf(catalog[r.cap]) \subseteq Operations
    BY RequestFields, OpsOfType DEF TypeOK
  <2>0. overlapped' \in BOOLEAN
    BY <1>1 DEF Receive
  <2>a. pc' \in [Handlers -> PCs] /\ outcome' \in [Handlers -> Outcomes]
    BY <1>1 DEF Receive, TypeOK
  <2>b. req' \in [Handlers -> Requests \cup {NoReq}]
    BY <1>1 DEF Receive, TypeOK
  <2>c. \A g \in Handlers : pc'[g] # "idle" => req'[g] # NoReq
    BY <1>1, NoReqAssumption, RequestsAssumption DEF Receive, TypeOK
  <2>d. seenOps' \in [Handlers -> SUBSET Operations] /\ seenKeys' \in [Handlers -> SUBSET Keys]
    BY <1>1, <2>1, RequestFields DEF Receive, TypeOK
  <2>2. TypeOK'
    BY <1>1, <2>0, <2>a, <2>b, <2>c, <2>d DEF Receive, TypeOK, store
  <2>3. ThreadInv'
    BY <1>1 DEF Receive, TypeOK, ThreadInv, InFlight
  <2>4. QED
    BY <2>2, <2>3
<1>2. ASSUME NEW h \in Handlers, LoadCatalog(h)
      PROVE  Inv'
  <2>0. req[h] \in Requests /\ pc[h] = "load"
    BY <1>2 DEF LoadCatalog, TypeOK
  <2>1. Probed(req[h], catalog) \subseteq Caps
    BY <2>0, RequestFields DEF Probed, Registered
  <2>2. AfterLoad(req[h]) \in {"secret", "scan", "write"}
    BY DEF AfterLoad
  <2>3. TypeOK'
    BY <1>2, <2>0, <2>1, <2>2 DEF LoadCatalog, Goto, TypeOK, store, window
  <2>4. /\ AfterLoad(req[h]) = "secret" <=> req[h].action = "invoke"
        /\ AfterLoad(req[h]) = "write" =>
             req[h].action \notin {"status", "list", "describe", "invoke"}
    BY DEF AfterLoad
  <2>5. AfterLoad(req[h]) = "write" =>
          \/ req[h].action = "register"
          \/ req[h].action \in {"enroll", "import_env"} /\ req[h].secret # NoKey
    <3>1. Admitted(req[h])
      BY <2>0 DEF ThreadInv, InFlight
    <3>2. req[h].action \in Actions \ {"other"}
      BY <2>0, <3>1, RequestFields DEF Admitted
    <3>3. Accepts(req[h], catalog)
      BY <1>2 DEF LoadCatalog
    <3>4. QED
      BY <2>4, <3>2, <3>3 DEF Accepts, Actions
  <2>6. ThreadInv'
    BY <1>2, <2>0, <2>2, <2>4, <2>5 DEF LoadCatalog, Goto, TypeOK, ThreadInv, InFlight
  <2>7. QED
    BY <2>3, <2>6
<1>3. ASSUME NEW h \in Handlers, LoadRefused(h)
      PROVE  Inv'
  <2>1. TypeOK'
    BY <1>3, RequestFields DEF LoadRefused, Answer, TypeOK, store, window
  <2>2. ThreadInv'
    BY <1>3, RequestFields DEF LoadRefused, Answer, TypeOK, ThreadInv, InFlight
  <2>3. QED
    BY <2>1, <2>2
<1>4. ASSUME NEW h \in Handlers, WriteCatalog(h)
      PROVE  Inv'
  <2>0. /\ pc[h] = "write" /\ req[h] \in Requests
        /\ req[h].action = "register" /\ Admitted(req[h])
    BY <1>4 DEF WriteCatalog, ReplaceCatalog, TypeOK, ThreadInv, InFlight
  <2>a. /\ catalog' = [snap[h] EXCEPT ![req[h].cap] = Entry(req[h].offer)]
        /\ catalog' \in [Caps -> Specs \cup {NoSpec}]
    BY <1>4, <2>0, EntryIsSpec, RequestFields DEF WriteCatalog, ReplaceCatalog, TypeOK
  <2>b. \A g \in Handlers : req[g] # NoReq => OpsOf(catalog'[req[g].cap]) \subseteq Operations
    BY <2>a, OpsOfType, RequestFields DEF TypeOK
  <2>c. seenOps' \in [Handlers -> SUBSET Operations]
    BY <1>4, <2>a, <2>b DEF WriteCatalog, ReplaceCatalog, Publish, TypeOK
  <2>1. TypeOK'
    BY <1>4, <2>0, <2>a, <2>c DEF WriteCatalog, ReplaceCatalog, Goto, TypeOK
  <2>2. ThreadInv'
    BY <1>4, RequestFields DEF WriteCatalog, ReplaceCatalog, Publish, Goto, TypeOK, ThreadInv, InFlight
  <2>3. QED
    BY <2>1, <2>2
<1>5. ASSUME NEW h \in Handlers, WriteSecret(h)
      PROVE  Inv'
  <2>0. pc[h] = "write" /\ req[h] \in Requests /\ req[h].secret \in Keys
    BY <1>5, RequestFields DEF WriteSecret, TypeOK, ThreadInv
  <2>a. seenKeys' \in [Handlers -> SUBSET Keys]
    BY <1>5, <2>0 DEF WriteSecret, Deposit, TypeOK
  <2>1. TypeOK'
    BY <1>5, <2>0, <2>a, RequestFields DEF WriteSecret, Goto, TypeOK
  <2>2. ThreadInv'
    BY <1>5, RequestFields DEF WriteSecret, Deposit, Goto, TypeOK, ThreadInv, InFlight
  <2>3. QED
    BY <2>1, <2>2
<1>6. ASSUME NEW h \in Handlers, Reload(h)
      PROVE  Inv'
  <2>1. TypeOK'
    BY <1>6, RequestFields DEF Reload, Describe, Goto, TypeOK, store, window
  <2>2. ThreadInv'
    BY <1>6, RequestFields DEF Reload, Describe, Goto, TypeOK, ThreadInv, InFlight
  <2>3. QED
    BY <2>1, <2>2
<1>7. ASSUME NEW h \in Handlers, ReloadFails(h)
      PROVE  Inv'
  <2>1. TypeOK'
    BY <1>7, RequestFields DEF ReloadFails, Answer, TypeOK, store, window
  <2>2. ThreadInv'
    BY <1>7, RequestFields DEF ReloadFails, Answer, TypeOK, ThreadInv, InFlight
  <2>3. QED
    BY <2>1, <2>2
<1>8. ASSUME NEW h \in Handlers, NEW c \in Caps, Probe(h, c)
      PROVE  Inv'
  <2>1. TypeOK'
    BY <1>8, RequestFields DEF Probe, Look, TypeOK, store, window
  <2>2. ThreadInv'
    BY <1>8, RequestFields DEF Probe, Look, TypeOK, ThreadInv, InFlight
  <2>3. QED
    BY <2>1, <2>2
<1>9. ASSUME NEW h \in Handlers, ScanDone(h)
      PROVE  Inv'
  <2>1. TypeOK'
    BY <1>9, RequestFields DEF ScanDone, Answer, TypeOK, store, window
  <2>2. ThreadInv'
    BY <1>9, RequestFields DEF ScanDone, Answer, TypeOK, ThreadInv, InFlight
  <2>3. QED
    BY <2>1, <2>2
<1>10. ASSUME NEW h \in Handlers, ReadSecret(h)
      PROVE  Inv'
  <2>1. TypeOK'
    BY <1>10, RequestFields DEF ReadSecret, Goto, TypeOK, store, window
  <2>2. ThreadInv'
    BY <1>10, RequestFields DEF ReadSecret, Goto, TypeOK, ThreadInv, InFlight
  <2>3. QED
    BY <2>1, <2>2
<1>11. ASSUME NEW h \in Handlers, ReadSecretFails(h)
      PROVE  Inv'
  <2>1. TypeOK'
    BY <1>11, RequestFields DEF ReadSecretFails, Answer, TypeOK, store, window
  <2>2. ThreadInv'
    BY <1>11, RequestFields DEF ReadSecretFails, Answer, TypeOK, ThreadInv, InFlight
  <2>3. QED
    BY <2>1, <2>2
<1>12. ASSUME NEW h \in Handlers, StartChild(h)
      PROVE  Inv'
  <2>1. TypeOK'
    BY <1>12, RequestFields DEF StartChild, Goto, TypeOK, store, window
  <2>2. ThreadInv'
    BY <1>12, RequestFields DEF StartChild, Goto, TypeOK, ThreadInv, InFlight
  <2>3. QED
    BY <2>1, <2>2
<1>13. ASSUME NEW h \in Handlers, BuildFails(h)
      PROVE  Inv'
  <2>1. TypeOK'
    BY <1>13, RequestFields DEF BuildFails, Answer, TypeOK, store, window
  <2>2. ThreadInv'
    BY <1>13, RequestFields DEF BuildFails, Answer, TypeOK, ThreadInv, InFlight
  <2>3. QED
    BY <2>1, <2>2
<1>14. ASSUME NEW h \in Handlers, ChildTimesOut(h)
      PROVE  Inv'
  <2>1. TypeOK'
    BY <1>14, RequestFields DEF ChildTimesOut, Answer, TypeOK, store, window
  <2>2. ThreadInv'
    BY <1>14, RequestFields DEF ChildTimesOut, Answer, TypeOK, ThreadInv, InFlight
  <2>3. QED
    BY <2>1, <2>2
<1>15. ASSUME NEW h \in Handlers, ChildCreates(h)
      PROVE  Inv'
  <2>1. TypeOK'
    BY <1>15, RequestFields DEF ChildCreates, TypeOK, store, window
  <2>2. ThreadInv'
    BY <1>15, RequestFields DEF ChildCreates, TypeOK, ThreadInv, InFlight
  <2>3. QED
    BY <2>1, <2>2
<1>16. ASSUME NEW h \in Handlers, ChildExits(h)
      PROVE  Inv'
  <2>1. TypeOK'
    BY <1>16, RequestFields DEF ChildExits, Answer, TypeOK, store, window
  <2>2. ThreadInv'
    BY <1>16, RequestFields DEF ChildExits, Answer, TypeOK, ThreadInv, InFlight
  <2>3. QED
    BY <2>1, <2>2
<1>17. ASSUME NEW h \in Handlers, Close(h)
      PROVE  Inv'
  <2>1. TypeOK'
    BY <1>17, RequestFields DEF Close, TypeOK, store, NoCatalog
  <2>2. ThreadInv'
    BY <1>17, RequestFields DEF Close, TypeOK, ThreadInv, InFlight
  <2>3. QED
    BY <2>1, <2>2
<1>18. ASSUME CrashRestart
      PROVE  Inv'
  BY <1>18 DEF CrashRestart, TypeOK, ThreadInv, InFlight, store, NoCatalog
<1>19. CASE UNCHANGED vars
  BY <1>19 DEF vars, TypeOK, ThreadInv, InFlight
<1>20. QED
  BY <1>1, <1>2, <1>3, <1>4, <1>5, <1>6, <1>7, <1>8, <1>9, <1>10, <1>11, <1>12, <1>13, <1>14, <1>15, <1>16, <1>17, <1>18, <1>19 DEF Next, Serve

\* The catalog file, custody and every thread's locals keep their types.
THEOREM TypeCorrect == Spec => []TypeOK
<1>1. Spec => []Inv
  BY InvInit, InvStep, PTL DEF Spec
<1>2. Inv => TypeOK
  BY DEF Inv
<1>3. QED
  BY <1>1, <1>2, PTL

-----------------------------------------------------------------------------
(* What holds whatever the owners do: refusals, answers, authorization *)

\* What a thread's locals say about the files it is not looking at any more.
\* Custody only ever gains files, and seenOps, seenKeys only grow, so what
\* was true when it was read is true when it is used.
LocalInv ==
  \A h \in Handlers :
    /\ \A c \in found[h] : custody[c] # NoKey
    /\ effect[h] => pc[h] = "running" \/ (pc[h] = "done" /\ outcome[h] # "error")
    /\ InFlight(h) /\ req[h].action = "invoke" =>
         /\ OpsOf(catalog[req[h].cap]) \subseteq seenOps[h]
         /\ custody[req[h].cap] # NoKey => custody[req[h].cap] \in seenKeys[h]
    /\ pc[h] \in {"secret", "build", "running"} => req[h].operation \in seenOps[h]
    /\ pc[h] \in {"build", "running"} => key[h] \in seenKeys[h]
    /\ pc[h] \in {"idle", "load", "write", "reload"} => found[h] = {}
    /\ pc[h] = "reload" /\ req[h].action # "register" => custody[req[h].cap] # NoKey
    /\ (pc[h] = "scan" \/ (pc[h] = "done" /\ outcome[h] = "ok")) =>
         (req[h].action \in {"enroll", "import_env"} =>
            /\ custody[req[h].cap] # NoKey
            /\ req[h].cap \in todo[h] \cup found[h])
    /\ pc[h] = "done" /\ outcome[h] = "ok" =>
         (req[h].action \in {"enroll", "import_env"} => todo[h] = {})

LEMMA LocalInvInit == Init => LocalInv
<1> SUFFICES ASSUME Init, NEW h \in Handlers
             PROVE  /\ pc[h] = "idle" /\ found[h] = {}
                    /\ ~effect[h]
  BY DEF LocalInv, InFlight
<1>1. pc[h] = "idle" /\ found[h] = {}
  BY DEF Init
<1>2. ~effect[h]
  BY Zenon DEF Init
<1>3. QED
  BY <1>1, <1>2

LEMMA LocalInvStep == Inv /\ LocalInv /\ [Next]_vars => LocalInv'
<1> SUFFICES ASSUME Inv, LocalInv, [Next]_vars
             PROVE  LocalInv'
  OBVIOUS
<1> USE DEF Inv
<1>1. ASSUME NEW h \in Handlers, NEW r \in Requests, Receive(h, r)
      PROVE  LocalInv'
  BY <1>1, RequestFields DEF Receive, store, TypeOK, ThreadInv, LocalInv, InFlight
<1>2. ASSUME NEW h \in Handlers, LoadCatalog(h)
      PROVE  LocalInv'
  BY <1>2, RequestFields DEF LoadCatalog, Goto, store, window, AfterLoad, Accepts, InvokeAllowed, TypeOK, ThreadInv, LocalInv, InFlight
<1>3. ASSUME NEW h \in Handlers, LoadRefused(h)
      PROVE  LocalInv'
  BY <1>3, RequestFields DEF LoadRefused, Answer, store, window, TypeOK, ThreadInv, LocalInv, InFlight
<1>4. ASSUME NEW h \in Handlers, WriteCatalog(h)
      PROVE  LocalInv'
  BY <1>4, RequestFields DEF WriteCatalog, ReplaceCatalog, Publish, Goto, TypeOK, ThreadInv, LocalInv, InFlight
<1>5. ASSUME NEW h \in Handlers, WriteSecret(h)
      PROVE  LocalInv'
  BY <1>5, RequestFields DEF WriteSecret, Deposit, Goto, TypeOK, ThreadInv, LocalInv, InFlight
<1>6. ASSUME NEW h \in Handlers, Reload(h)
      PROVE  LocalInv'
  BY <1>6, RequestFields DEF Reload, Describe, Goto, store, window, TypeOK, ThreadInv, LocalInv, InFlight
<1>7. ASSUME NEW h \in Handlers, ReloadFails(h)
      PROVE  LocalInv'
  BY <1>7, RequestFields DEF ReloadFails, Answer, store, window, TypeOK, ThreadInv, LocalInv, InFlight
<1>8. ASSUME NEW h \in Handlers, NEW c \in Caps, Probe(h, c)
      PROVE  LocalInv'
  BY <1>8, RequestFields DEF Probe, Look, store, window, TypeOK, ThreadInv, LocalInv, InFlight
<1>9. ASSUME NEW h \in Handlers, ScanDone(h)
      PROVE  LocalInv'
  BY <1>9, RequestFields DEF ScanDone, Answer, store, window, TypeOK, ThreadInv, LocalInv, InFlight
<1>10. ASSUME NEW h \in Handlers, ReadSecret(h)
      PROVE  LocalInv'
  BY <1>10, RequestFields DEF ReadSecret, Goto, store, window, TypeOK, ThreadInv, LocalInv, InFlight
<1>11. ASSUME NEW h \in Handlers, ReadSecretFails(h)
      PROVE  LocalInv'
  BY <1>11, RequestFields DEF ReadSecretFails, Answer, store, window, TypeOK, ThreadInv, LocalInv, InFlight
<1>12. ASSUME NEW h \in Handlers, StartChild(h)
      PROVE  LocalInv'
  BY <1>12, RequestFields DEF StartChild, Goto, store, window, TypeOK, ThreadInv, LocalInv, InFlight
<1>13. ASSUME NEW h \in Handlers, BuildFails(h)
      PROVE  LocalInv'
  BY <1>13, RequestFields DEF BuildFails, Answer, store, window, TypeOK, ThreadInv, LocalInv, InFlight
<1>14. ASSUME NEW h \in Handlers, ChildTimesOut(h)
      PROVE  LocalInv'
  BY <1>14, RequestFields DEF ChildTimesOut, Answer, store, window, TypeOK, ThreadInv, LocalInv, InFlight
<1>15. ASSUME NEW h \in Handlers, ChildCreates(h)
      PROVE  LocalInv'
  BY <1>15, RequestFields DEF ChildCreates, store, window, TypeOK, ThreadInv, LocalInv, InFlight
<1>16. ASSUME NEW h \in Handlers, ChildExits(h)
      PROVE  LocalInv'
  BY <1>16, RequestFields DEF ChildExits, Answer, store, window, TypeOK, ThreadInv, LocalInv, InFlight
<1>17. ASSUME NEW h \in Handlers, Close(h)
      PROVE  LocalInv'
  BY <1>17, RequestFields DEF Close, store, TypeOK, ThreadInv, LocalInv, InFlight
<1>18. ASSUME CrashRestart
      PROVE  LocalInv'
  BY <1>18 DEF CrashRestart, store, LocalInv, InFlight
<1>19. CASE UNCHANGED vars
  BY <1>19 DEF vars, LocalInv, InFlight
<1>20. QED
  BY <1>1, <1>2, <1>3, <1>4, <1>5, <1>6, <1>7, <1>8, <1>9, <1>10, <1>11, <1>12, <1>13, <1>14, <1>15, <1>16, <1>17, <1>18, <1>19 DEF Next, Serve

LEMMA LocalInvInvariant == Spec => [](Inv /\ LocalInv)
<1>1. Init => Inv /\ LocalInv
  BY InvInit, LocalInvInit
<1>2. (Inv /\ LocalInv) /\ [Next]_vars => (Inv /\ LocalInv)'
  BY InvStep, LocalInvStep
<1>3. QED
  BY <1>1, <1>2, PTL DEF Spec

\* What an answer reports as available is in custody, although the catalog
\* and the secret files are read at different moments.
THEOREM AvailableSafe == Spec => []AvailableIsEnrolled
<1>1. LocalInv => AvailableIsEnrolled
  BY DEF LocalInv, AvailableIsEnrolled
<1>2. QED
  BY <1>1, LocalInvInvariant, PTL

\* A successful enrollment answers available: true.
THEOREM EnrollSafe == Spec => []EnrollReportsAvailable
<1>1. LocalInv => EnrollReportsAvailable
  BY DEF LocalInv, EnrollReportsAvailable
<1>2. QED
  BY <1>1, LocalInvInvariant, PTL

\* A child runs what the catalog allowed and with what custody held for its
\* capability, at some moment since the request came in.
THEOREM WindowSafe == Spec => []RunsWithinWindow
<1>1. LocalInv => RunsWithinWindow
  BY DEF LocalInv, RunsWithinWindow
<1>2. QED
  BY <1>1, LocalInvInvariant, PTL

\* A refusal means that the provider was not touched.
THEOREM RefusalSafe == Spec => []RefusedHasNoEffect
<1>1. Inv /\ LocalInv => RefusedHasNoEffect
  BY DEF LocalInv, Inv, ThreadInv, RefusedHasNoEffect
<1>2. QED
  BY <1>1, LocalInvInvariant, PTL

\* Only threads serving an owner write the catalog or a secret.
THEOREM OwnersOnly == Spec => OnlyOwnersChangeFiles
<1>1. Inv /\ [Next]_vars =>
        [store' # store =>
           \E h \in Handlers : pc[h] = "write" /\ req[h].uid \in OwnerUids]_vars
  <2> SUFFICES ASSUME Inv, [Next]_vars, store' # store
               PROVE  \E h \in Handlers : pc[h] = "write" /\ req[h].uid \in OwnerUids
    OBVIOUS
  <2>1. PICK h \in Handlers : WriteCatalog(h) \/ WriteSecret(h)
    BY DEF Next, Serve, vars, store, Receive, LoadCatalog, LoadRefused, Answer, Goto,
       Reload, Describe, ReloadFails, Probe, Look, ScanDone, ReadSecret,
       ReadSecretFails, StartChild, BuildFails, ChildCreates, ChildExits,
       ChildTimesOut, Close, CrashRestart
  <2>2. pc[h] = "write"
    BY <2>1 DEF WriteCatalog, ReplaceCatalog, WriteSecret
  <2>3. Admitted(req[h]) /\ req[h].action \notin Queries
    BY <2>2 DEF Inv, ThreadInv, InFlight, Queries
  <2>4. QED
    BY <2>2, <2>3 DEF Admitted
<1>2. QED
  BY <1>1, LocalInvInvariant, PTL DEF Spec, OnlyOwnersChangeFiles

-----------------------------------------------------------------------------
(* What holds when registrations do not overlap *)

\* The strengthening: the one registering thread holds the current catalog,
\* so what it writes differs at its own id only, so the entry that enroll
\* looked up is still there when the secret is written.
SerialInv ==
  /\ \A c \in Caps : custody[c] # NoKey => catalog[c] # NoSpec
  /\ RegisterReadsBack
  /\ \A g, h \in Registering : g = h
  /\ \A h \in Handlers :
       /\ pc[h] = "write" =>
            IF req[h].action = "register" THEN snap[h] = catalog
            ELSE catalog[req[h].cap] # NoSpec
       /\ pc[h] = "reload" =>
            /\ catalog[req[h].cap] # NoSpec
            /\ req[h].action = "register" =>
                 catalog[req[h].cap] = Entry(req[h].offer)
       /\ pc[h] = "scan" =>
            (req[h].action = "register" =>
               snap[h][req[h].cap] = Entry(req[h].offer))

LEMMA SerialInvInit == Init => SerialInv
BY DEF Init, SerialInv, RegisterReadsBack, Registering, InFlight

\* One register at a time: its write changes the catalog at one id.
LEMMA SerialWrite ==
  ASSUME Inv, SerialInv, NEW h \in Handlers, WriteCatalog(h)
  PROVE  /\ req[h] \in Requests
         /\ Entry(req[h].offer) \in Specs
         /\ catalog' = [catalog EXCEPT ![req[h].cap] = Entry(req[h].offer)]
         /\ \A g \in Handlers \ {h} :
              pc[g] \in {"write", "reload"} => req[g].action # "register"
<1>1. pc[h] = "write" /\ req[h].action = "register" /\ req[h] \in Requests
  BY DEF WriteCatalog, ReplaceCatalog, Inv, TypeOK
<1>2. Admitted(req[h])
  BY <1>1 DEF Inv, ThreadInv, InFlight
<1>3. snap[h] = catalog
  BY <1>1 DEF SerialInv
<1>4. h \in Registering
  BY <1>1 DEF Registering, InFlight
<1>5. QED
  BY <1>1, <1>2, <1>3, <1>4, EntryIsSpec
     DEF WriteCatalog, ReplaceCatalog, SerialInv, Registering, InFlight

LEMMA SerialInvStep ==
  Inv /\ SerialInv /\ [Next]_vars /\ ~overlapped' => SerialInv'
<1> SUFFICES ASSUME Inv, SerialInv, [Next]_vars, ~overlapped'
             PROVE  SerialInv'
  OBVIOUS
<1> USE DEF Inv, RegisterReadsBack
<1>1. ASSUME NEW h \in Handlers, NEW r \in Requests, Receive(h, r)
      PROVE  SerialInv'
  <2>1. Admitted(r) /\ r.action = "register" => Registering = {}
    BY <1>1 DEF Receive
  <2>2. QED
    BY <1>1, <2>1, RequestFields DEF Receive, store, TypeOK, ThreadInv, SerialInv, Registering, InFlight
<1>2. ASSUME NEW h \in Handlers, LoadCatalog(h)
      PROVE  SerialInv'
  BY <1>2, RequestFields DEF LoadCatalog, Goto, store, window, AfterLoad, Accepts, InvokeAllowed, TypeOK, ThreadInv, SerialInv, Registering, InFlight
<1>3. ASSUME NEW h \in Handlers, LoadRefused(h)
      PROVE  SerialInv'
  BY <1>3, RequestFields DEF LoadRefused, Answer, store, window, Accepts, TypeOK, ThreadInv, SerialInv, Registering, InFlight
<1>4. ASSUME NEW h \in Handlers, WriteCatalog(h)
      PROVE  SerialInv'
  <2>1. /\ req[h] \in Requests /\ req[h].cap \in Caps
        /\ Entry(req[h].offer) \in Specs
        /\ catalog' = [catalog EXCEPT ![req[h].cap] = Entry(req[h].offer)]
        /\ \A g \in Handlers \ {h} :
             pc[g] \in {"write", "reload"} => req[g].action # "register"
    BY <1>4, SerialWrite, RequestFields
  <2>2. /\ pc[h] = "write" /\ req[h].action = "register"
        /\ pc' = [pc EXCEPT ![h] = "reload"]
        /\ UNCHANGED <<custody, req, snap, outcome>>
    BY <1>4 DEF WriteCatalog, ReplaceCatalog, Goto
  <2>3. \A c \in Caps : catalog[c] # NoSpec => catalog'[c] # NoSpec
    BY <2>1, NoSpecAssumption DEF TypeOK
  <2>4. catalog'[req[h].cap] = Entry(req[h].offer) /\ catalog'[req[h].cap] # NoSpec
    BY <2>1, NoSpecAssumption DEF TypeOK
  <2>5. \A c \in Caps : custody'[c] # NoKey => catalog'[c] # NoSpec
    BY <2>2, <2>3 DEF SerialInv
  <2>6. RegisterReadsBack'
    BY <2>2 DEF SerialInv, TypeOK
  <2>7. Registering' = Registering
    BY <2>2 DEF Registering, InFlight, TypeOK
  <2>8. \A g \in Handlers :
          /\ pc'[g] = "write" =>
               IF req'[g].action = "register" THEN snap'[g] = catalog'
               ELSE catalog'[req'[g].cap] # NoSpec
          /\ pc'[g] = "reload" =>
               /\ catalog'[req'[g].cap] # NoSpec
               /\ req'[g].action = "register" =>
                    catalog'[req'[g].cap] = Entry(req'[g].offer)
          /\ pc'[g] = "scan" =>
               (req'[g].action = "register" =>
                  snap'[g][req'[g].cap] = Entry(req'[g].offer))
    <3> SUFFICES ASSUME NEW g \in Handlers
                 PROVE  /\ pc'[g] = "write" =>
                             IF req'[g].action = "register" THEN snap'[g] = catalog'
                             ELSE catalog'[req'[g].cap] # NoSpec
                        /\ pc'[g] = "reload" =>
                             /\ catalog'[req'[g].cap] # NoSpec
                             /\ req'[g].action = "register" =>
                                  catalog'[req'[g].cap] = Entry(req'[g].offer)
                        /\ pc'[g] = "scan" =>
                             (req'[g].action = "register" =>
                                snap'[g][req'[g].cap] = Entry(req'[g].offer))
      OBVIOUS
    <3>1. CASE g = h
      BY <3>1, <2>2, <2>4 DEF TypeOK
    <3>2. CASE g # h
      <4>1. pc'[g] = pc[g] /\ req'[g] = req[g] /\ snap'[g] = snap[g]
        BY <3>2, <2>2 DEF TypeOK
      <4>2. pc[g] \in {"write", "reload"} => req[g].cap \in Caps
        BY RequestFields DEF TypeOK
      <4>3. QED
        BY <3>2, <4>1, <4>2, <2>1, <2>3 DEF SerialInv
    <3>3. QED
      BY <3>1, <3>2
  <2>9. QED
    BY <2>2, <2>5, <2>6, <2>7, <2>8 DEF SerialInv
<1>5. ASSUME NEW h \in Handlers, WriteSecret(h)
      PROVE  SerialInv'
  BY <1>5, RequestFields DEF WriteSecret, Deposit, Goto, TypeOK, ThreadInv, SerialInv, Registering, InFlight
<1>6. ASSUME NEW h \in Handlers, Reload(h)
      PROVE  SerialInv'
  BY <1>6, RequestFields DEF Reload, Describe, Goto, store, window, TypeOK, ThreadInv, SerialInv, Registering, InFlight
<1>7. ASSUME NEW h \in Handlers, ReloadFails(h)
      PROVE  SerialInv'
  BY <1>7, RequestFields DEF ReloadFails, Answer, store, window, TypeOK, ThreadInv, SerialInv, Registering, InFlight
<1>8. ASSUME NEW h \in Handlers, NEW c \in Caps, Probe(h, c)
      PROVE  SerialInv'
  BY <1>8, RequestFields DEF Probe, Look, store, window, TypeOK, ThreadInv, SerialInv, Registering, InFlight
<1>9. ASSUME NEW h \in Handlers, ScanDone(h)
      PROVE  SerialInv'
  BY <1>9, RequestFields DEF ScanDone, Answer, store, window, TypeOK, ThreadInv, SerialInv, Registering, InFlight
<1>10. ASSUME NEW h \in Handlers, ReadSecret(h)
      PROVE  SerialInv'
  BY <1>10, RequestFields DEF ReadSecret, Goto, store, window, TypeOK, ThreadInv, SerialInv, Registering, InFlight
<1>11. ASSUME NEW h \in Handlers, ReadSecretFails(h)
      PROVE  SerialInv'
  BY <1>11, RequestFields DEF ReadSecretFails, Answer, store, window, TypeOK, ThreadInv, SerialInv, Registering, InFlight
<1>12. ASSUME NEW h \in Handlers, StartChild(h)
      PROVE  SerialInv'
  BY <1>12, RequestFields DEF StartChild, Goto, store, window, TypeOK, ThreadInv, SerialInv, Registering, InFlight
<1>13. ASSUME NEW h \in Handlers, BuildFails(h)
      PROVE  SerialInv'
  BY <1>13, RequestFields DEF BuildFails, Answer, store, window, TypeOK, ThreadInv, SerialInv, Registering, InFlight
<1>14. ASSUME NEW h \in Handlers, ChildTimesOut(h)
      PROVE  SerialInv'
  BY <1>14, RequestFields DEF ChildTimesOut, Answer, store, window, TypeOK, ThreadInv, SerialInv, Registering, InFlight
<1>15. ASSUME NEW h \in Handlers, ChildCreates(h)
      PROVE  SerialInv'
  BY <1>15, RequestFields DEF ChildCreates, store, window, TypeOK, ThreadInv, SerialInv, Registering, InFlight
<1>16. ASSUME NEW h \in Handlers, ChildExits(h)
      PROVE  SerialInv'
  BY <1>16, RequestFields DEF ChildExits, Answer, store, window, TypeOK, ThreadInv, SerialInv, Registering, InFlight
<1>17. ASSUME NEW h \in Handlers, Close(h)
      PROVE  SerialInv'
  BY <1>17, RequestFields DEF Close, store, TypeOK, ThreadInv, SerialInv, Registering, InFlight
<1>18. ASSUME CrashRestart
      PROVE  SerialInv'
  BY <1>18 DEF CrashRestart, store, SerialInv, Registering, InFlight
<1>19. CASE UNCHANGED vars
  BY <1>19 DEF vars, SerialInv, Registering, InFlight
<1>20. QED
  BY <1>1, <1>2, <1>3, <1>4, <1>5, <1>6, <1>7, <1>8, <1>9, <1>10, <1>11, <1>12, <1>13, <1>14, <1>15, <1>16, <1>17, <1>18, <1>19 DEF Next, Serve

\* Once two registrations have overlapped they have, and until then each
\* step starts from the strengthening.
LEMMA OverlapStays == [Next]_vars /\ overlapped => overlapped'
BY DEF Next, Serve, vars, window, Receive, LoadCatalog, LoadRefused, Answer, Goto,
     WriteCatalog, ReplaceCatalog, WriteSecret, Reload, Describe, ReloadFails, Probe,
     Look, ScanDone, ReadSecret, ReadSecretFails, StartChild, BuildFails, ChildCreates,
     ChildExits, ChildTimesOut, Close, CrashRestart

LEMMA SerialInvInvariant == Spec => [](Inv /\ (overlapped \/ SerialInv))
<1>1. Init => Inv /\ (overlapped \/ SerialInv)
  BY InvInit, SerialInvInit
<1>2. Inv /\ (overlapped \/ SerialInv) /\ [Next]_vars => (Inv /\ (overlapped \/ SerialInv))'
  BY InvStep, SerialInvStep, OverlapStays
<1>3. QED
  BY <1>1, <1>2, PTL DEF Spec

\* Until two registrations overlap, no secret is without a catalog entry.
THEOREM CustodySafe == Spec => []SecretsAreCatalogued
<1>1. overlapped \/ SerialInv => SecretsAreCatalogued
  BY DEF SerialInv, SecretsAreCatalogued
<1>2. QED
  BY <1>1, SerialInvInvariant, PTL

\* Until two registrations overlap, register answers with its own entry.
THEOREM ReadBackSafe == Spec => []RegisterIsReadBack
<1>1. overlapped \/ SerialInv => RegisterIsReadBack
  BY DEF SerialInv, RegisterIsReadBack
<1>2. QED
  BY <1>1, SerialInvInvariant, PTL

\* A step of the daemon is a step of the registry, or changes nothing of it.
LEMMA RegistryStep ==
  Inv /\ SerialInv /\ [Next]_vars => [Registry!Next]_(Registry!vars)
<1> SUFFICES ASSUME Inv, SerialInv, [Next]_vars
             PROVE  [Registry!Next]_(Registry!vars)
  OBVIOUS
<1> USE DEF Registry!vars
<1>1. CASE \E h \in Handlers : WriteCatalog(h)
  <2>1. PICK h \in Handlers : WriteCatalog(h)
    BY <1>1
  <2>2. UNCHANGED custody
    BY <2>1 DEF WriteCatalog, ReplaceCatalog
  <2>3. Registry!Register(req[h].cap, Entry(req[h].offer))
    BY <2>1, <2>2, SerialWrite DEF Registry!Register
  <2>4. req[h].cap \in Caps /\ Entry(req[h].offer) \in Specs
    BY <2>1, SerialWrite, RequestFields
  <2>5. QED
    BY <2>3, <2>4 DEF Registry!Next
<1>2. CASE \E h \in Handlers : WriteSecret(h)
  <2>1. PICK h \in Handlers : WriteSecret(h)
    BY <1>2
  <2>2. /\ pc[h] = "write" /\ req[h].action # "register" /\ req[h] \in Requests
        /\ req[h].secret \in Keys
    BY <2>1, RequestFields DEF WriteSecret, Inv, TypeOK, ThreadInv
  <2>3. catalog[req[h].cap] # NoSpec
    BY <2>2 DEF SerialInv
  <2>4. Registry!Enroll(req[h].cap, req[h].secret)
    BY <2>1, <2>3 DEF WriteSecret, Registry!Enroll
  <2>5. QED
    BY <2>2, <2>4, RequestFields DEF Registry!Next
<1>3. CASE ~\E h \in Handlers : WriteCatalog(h) \/ WriteSecret(h)
  BY <1>3 DEF Next, Serve, vars, store, Receive, LoadCatalog, LoadRefused, Answer, Goto,
       Reload, Describe, ReloadFails, Probe, Look, ScanDone, ReadSecret,
       ReadSecretFails, StartChild, BuildFails, ChildCreates, ChildExits,
       ChildTimesOut, Close, CrashRestart
<1>4. QED
  BY <1>1, <1>2, <1>3

\* Until two registrations overlap, the threads implement the registry:
\* every owner operation takes effect at one instant and at one id.
THEOREM ImplementsAbstract == Spec => ImplementsRegistry
<1>1. Init => Registry!Init
  BY DEF Init, Registry!Init, NoCatalog
<1>2. Inv /\ (overlapped \/ SerialInv) /\ [Next]_vars =>
        [overlapped' \/ Registry!Next]_(Registry!vars)
  BY RegistryStep, OverlapStays
<1>3. QED
  BY <1>1, <1>2, SerialInvInvariant, PTL DEF Spec, ImplementsRegistry

\* Until two registrations overlap, no capability ever leaves the catalog.
THEOREM NeverShrinks == Spec => CatalogNeverShrinks
<1>1. Inv /\ (overlapped \/ SerialInv) /\ [Next]_vars =>
        [overlapped' \/ \A c \in Caps : catalog[c] # NoSpec => catalog'[c] # NoSpec]_vars
  <2> SUFFICES ASSUME Inv, SerialInv, [Next]_vars, NEW c \in Caps, catalog[c] # NoSpec
               PROVE  catalog'[c] # NoSpec
    BY OverlapStays
  <2>1. [Registry!Next]_(Registry!vars)
    BY RegistryStep
  <2>2. CASE UNCHANGED Registry!vars
    BY <2>2 DEF Registry!vars
  <2>3. ASSUME NEW d \in Caps, NEW s \in Specs, Registry!Register(d, s)
        PROVE  catalog'[c] # NoSpec
    BY <2>3, NoSpecAssumption DEF Registry!Register, Inv, TypeOK
  <2>4. ASSUME NEW d \in Caps, NEW k \in Keys, Registry!Enroll(d, k)
        PROVE  catalog'[c] # NoSpec
    BY <2>4 DEF Registry!Enroll
  <2>5. QED
    BY <2>1, <2>2, <2>3, <2>4 DEF Registry!Next
<1>2. QED
  BY <1>1, SerialInvInvariant, PTL DEF Spec, CatalogNeverShrinks
=============================================================================
