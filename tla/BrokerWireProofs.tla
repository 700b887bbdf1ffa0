-------------------------- MODULE BrokerWireProofs --------------------------
(***************************************************************************)
(* For any number of daemons and calls: a call to the broker keeps the     *)
(* promises of RemoteCall, and without a second daemon the one that serves *)
(* is reachable.                                                           *)
(***************************************************************************)
EXTENDS BrokerWire, TLAPS

(* The service *)

LEMMA ServiceTypeStep ==
  ASSUME ServiceTypeOK, ProcessNext \/ OperatorNext
  PROVE  ServiceTypeOK'
<1> USE DEF ServiceTypeOK, Lives, Steps
<1>1. ASSUME NEW d \in Daemons, Boot(d)
      PROVE  ServiceTypeOK'
  BY <1>1 DEF Boot, LookAtPath, UnlinkStale, Bind, Listen, SetMode, SetGroup, Move, install
<1>2. ASSUME NEW d \in Daemons, ServerClose(d)
      PROVE  ServiceTypeOK'
  BY <1>2 DEF ServerClose, CloseLooks, CloseUnlinks, Move, install
<1>3. ASSUME NEW d \in Daemons, Launch(d) \/ RunByHand(d)
      PROVE  ServiceTypeOK'
  BY <1>3 DEF Launch, RunByHand, Start, install
<1>4. ASSUME NEW d \in Daemons, Crash(d) \/ TerminateJob(d)
      PROVE  ServiceTypeOK'
  BY <1>4 DEF Crash, TerminateJob, End, install
<1>5. ASSUME NEW d \in Daemons, Interrupt(d)
      PROVE  ServiceTypeOK'
  BY <1>5 DEF Interrupt, Move, install
<1>6. CASE Install
  BY <1>6 DEF Install, Bootout, Bootstrap, SocketAppears, SocketMissing, Ask, AskRefused,
     Answered, Await, Proceed
<1>7. QED
  BY <1>1, <1>2, <1>3, <1>4, <1>5, <1>6 DEF ProcessNext, OperatorNext

\* Without a second daemon there is one that may touch the path.
Sole == overlap \/ \A d, e \in Daemons : Alive(d) /\ Alive(e) => d = e

\* And it has the path to itself from the moment it looked.
Holds ==
  overlap \/ \A d \in Daemons :
    /\ life[d] = "bind" => path = {}
    /\ life[d] \in {"listen", "chmod", "chown", "serve"} => path = {d}
    /\ life[d] = "serve" => d \in ready

ServiceInv == ServiceTypeOK /\ Sole /\ Holds

LEMMA ServiceInvInit == ServiceInit => ServiceInv
BY DEF ServiceInit, ServiceInv, ServiceTypeOK, Sole, Holds, Lives, Steps, Alive

LEMMA ServiceInvStep ==
  ASSUME ServiceInv, ProcessNext \/ OperatorNext
  PROVE  ServiceInv'
<1>1. ServiceTypeOK'
  BY ServiceTypeStep DEF ServiceInv
<1> USE DEF ServiceInv, ServiceTypeOK, Sole, Holds, Alive, Lives
<1>2. ASSUME NEW d \in Daemons, Boot(d)
      PROVE  Sole' /\ Holds'
  <2>1. CASE LookAtPath(d)
    BY <2>1 DEF LookAtPath, Move, install
  <2>2. CASE UnlinkStale(d)
    BY <2>2 DEF UnlinkStale, Move, install
  <2>3. CASE Bind(d)
    BY <2>3 DEF Bind, Move, install
  <2>4. CASE Listen(d) \/ SetMode(d)
    BY <2>4 DEF Listen, SetMode, Move, install
  <2>5. CASE SetGroup(d)
    BY <2>5 DEF SetGroup, Move, install
  <2>6. QED
    BY <1>2, <2>1, <2>2, <2>3, <2>4, <2>5 DEF Boot
<1>3. ASSUME NEW d \in Daemons, ServerClose(d)
      PROVE  Sole' /\ Holds'
  BY <1>3 DEF ServerClose, CloseLooks, CloseUnlinks, Move, install
<1>4. ASSUME NEW d \in Daemons, Launch(d) \/ RunByHand(d)
      PROVE  Sole' /\ Holds'
  BY <1>4 DEF Launch, RunByHand, Start, install
<1>5. ASSUME NEW d \in Daemons, Crash(d) \/ TerminateJob(d)
      PROVE  Sole' /\ Holds'
  BY <1>5 DEF Crash, TerminateJob, End, install
<1>6. ASSUME NEW d \in Daemons, Interrupt(d)
      PROVE  Sole' /\ Holds'
  BY <1>6 DEF Interrupt, Move, install
<1> HIDE DEF ServiceInv, ServiceTypeOK, Sole, Holds, Alive, Lives
<1>7. CASE Install
  <2>1. UNCHANGED <<path, life, ready, overlap>>
    BY <1>7 DEF Install, Bootout, Bootstrap, SocketAppears, SocketMissing, Ask, AskRefused,
       Answered, Await, Proceed
  <2>2. QED
    BY <1>1, <2>1 DEF ServiceInv, Sole, Holds, Alive
<1>8. QED
  BY <1>1, <1>2, <1>3, <1>4, <1>5, <1>6, <1>7 DEF ServiceInv, ProcessNext, OperatorNext

LEMMA ServiceInvInvariant == Spec => []ServiceInv
<1>1. Init => ServiceInv
  BY ServiceInvInit DEF Init
<1>2. ServiceInv /\ [Next]_vars => ServiceInv'
  <2> SUFFICES ASSUME ServiceInv, [Next]_vars PROVE ServiceInv'
    OBVIOUS
  <2>1. CASE ProcessNext \/ OperatorNext
    BY <2>1, ServiceInvStep
  <2>2. CASE UNCHANGED service
    BY <2>2 DEF service, ServiceInv, ServiceTypeOK, Sole, Holds, Alive
  <2>3. QED
    BY <2>1, <2>2 DEF Next, vars, service
<1>3. QED
  BY <1>1, <1>2, PTL DEF Spec

\* Whatever crashes and installations there were, a daemon that serves is the
\* one that clients reach, unless a second one ran beside it.
THEOREM ServedReachable == Spec => []ServedIsReachable
<1>1. ServiceInv => ServedIsReachable
  BY DEF ServiceInv, Holds, ServedIsReachable, Serving, Reachable, Listening
<1>2. QED
  BY <1>1, ServiceInvInvariant, PTL

-----------------------------------------------------------------------------
(* The installer *)

Late == {"serve", "listen", "chmod", "chown", "closing", "unlinking", "gone"}
NoneByHand == \A d \in ByHand : life[d] = "unborn"
Booted == step \in {"waiting", "register", "asked", "installed"}
NewBound == \E d \in Daemons \ before : life[d] \in Late

\* Whatever was started before bootstrap is gone when the installer goes on,
\* so that who answers it, or has bound the path since, is new.
InstallInv ==
  /\ step \in {"idle", "booted", "waiting", "register"} => asked = {}
  /\ NoneByHand /\ Booted =>
       /\ \A d \in before : life[d] = "gone"
       /\ asked \cap before = {}
       /\ leftover \/ NewBound \/ (step = "waiting" /\ path = {})

LEMMA InstallInit == ServiceInit => InstallInv
BY DEF ServiceInit, InstallInv, Booted

\* A daemon never goes back, and binds the path when it is past its start.
LEMMA DaemonMoves ==
  ASSUME ServiceTypeOK, NEW d \in Daemons,
         \/ Boot(d) \/ ServerClose(d) \/ Interrupt(d)
         \/ Launch(d) \/ RunByHand(d) \/ Crash(d) \/ TerminateJob(d)
  PROVE  /\ UNCHANGED install
         /\ \A e \in Daemons :
              /\ life[e] = "gone" => life'[e] = "gone"
              /\ life'[e] = "unborn" => life[e] = "unborn"
              /\ life[e] \in Late => life'[e] \in Late
         /\ path' \subseteq path \/ (life[d] # "gone" /\ life'[d] \in Late)
<1> USE DEF ServiceTypeOK, Lives, Late
<1>1. CASE Boot(d)
  BY <1>1 DEF Boot, LookAtPath, UnlinkStale, Bind, Listen, SetMode, SetGroup, Move
<1>2. CASE ServerClose(d) \/ Interrupt(d)
  BY <1>2 DEF ServerClose, CloseLooks, CloseUnlinks, Interrupt, Move
<1>3. CASE Launch(d) \/ RunByHand(d)
  BY <1>3 DEF Launch, RunByHand, Start
<1>4. CASE Crash(d) \/ TerminateJob(d)
  BY <1>4 DEF Crash, TerminateJob, End, Alive
<1>5. QED
  BY <1>1, <1>2, <1>3, <1>4

LEMMA InstallStep ==
  ASSUME ServiceTypeOK, InstallInv, ProcessNext \/ OperatorNext
  PROVE  InstallInv'
<1> USE DEF ServiceTypeOK
<1>1. ASSUME NEW d \in Daemons,
             \/ Boot(d) \/ ServerClose(d) \/ Interrupt(d)
             \/ Launch(d) \/ RunByHand(d) \/ Crash(d) \/ TerminateJob(d)
      PROVE  InstallInv'
  <2>1. /\ UNCHANGED <<step, asked, before, leftover>>
        /\ \A e \in Daemons :
             /\ life[e] = "gone" => life'[e] = "gone"
             /\ life'[e] = "unborn" => life[e] = "unborn"
             /\ life[e] \in Late => life'[e] \in Late
        /\ path' \subseteq path \/ (life[d] # "gone" /\ life'[d] \in Late)
    BY <1>1, DaemonMoves DEF install
  <2>2. NoneByHand' => NoneByHand
    BY <2>1 DEF NoneByHand, Daemons
  <2>3. Booted' = Booted
    BY <2>1 DEF Booted
  <2>4. NewBound => NewBound'
    BY <2>1 DEF NewBound
  <2>5. ASSUME NoneByHand', Booted'
        PROVE  /\ \A e \in before' : life'[e] = "gone"
               /\ asked' \cap before' = {}
               /\ leftover' \/ NewBound' \/ (step' = "waiting" /\ path' = {})
    <3>1. /\ \A e \in before : life[e] = "gone"
          /\ asked \cap before = {}
          /\ leftover \/ NewBound \/ (step = "waiting" /\ path = {})
      BY <2>2, <2>3, <2>5 DEF InstallInv
    <3>2. d \notin before \/ path' \subseteq path
      BY <2>1, <3>1
    <3>3. path' \subseteq path \/ NewBound'
      BY <2>1, <3>2 DEF NewBound
    <3>4. QED
      BY <2>1, <2>4, <3>1, <3>3
  <2>6. QED
    BY <2>1, <2>5 DEF InstallInv
<1>2. CASE Install
  <2>1. UNCHANGED <<path, life>>
    BY <1>2 DEF Install, Bootout, Bootstrap, SocketAppears, SocketMissing, Ask, AskRefused,
       Answered, Await, Proceed
  <2>2. NoneByHand' = NoneByHand
    BY <2>1 DEF NoneByHand
  <2>3. CASE Bootout
    BY <2>1, <2>3 DEF Bootout, Proceed, InstallInv, Booted
  <2>4. CASE Bootstrap
    <3>1. CASE step' = "failed"
      BY <2>1, <2>4, <3>1 DEF Bootstrap, InstallInv, Booted
    <3>2. CASE step' # "failed"
      <4>1. /\ ~JobRuns /\ step = "booted" /\ step' = "waiting"
            /\ before' = {d \in Daemons : life[d] # "unborn"}
            /\ leftover' = (path # {})
            /\ UNCHANGED asked
        BY <2>4, <3>2 DEF Bootstrap, Proceed
      <4>2. asked' = {}
        BY <4>1 DEF InstallInv
      <4>3. leftover' \/ path' = {}
        BY <4>1, <2>1
      <4>4. NoneByHand => \A d \in before' : life'[d] = "gone"
        BY <4>1, <2>1 DEF NoneByHand, JobRuns, Alive, Daemons
      <4>5. QED
        BY <4>1, <4>2, <4>3, <4>4, <2>2 DEF InstallInv
    <3>3. QED
      BY <3>1, <3>2
  <2>5. ASSUME NEW d \in Daemons, Ask(d)
        PROVE  InstallInv'
    <3>1. life[d] # "gone" /\ asked' = {d} /\ step = "register" /\ step' = "asked"
          /\ UNCHANGED <<before, leftover>>
      BY <2>5 DEF Ask, Reachable, Listening, Proceed
    <3>2. QED
      BY <2>1, <2>2, <3>1 DEF InstallInv, Booted, NewBound
  <2>6. CASE SocketAppears
    BY <2>1, <2>2, <2>6 DEF SocketAppears, Await, Proceed, InstallInv, Booted, NewBound
  <2>7. CASE SocketMissing \/ AskRefused \/ Answered
    BY <2>1, <2>2, <2>7 DEF SocketMissing, AskRefused, Answered, Await, Proceed,
       InstallInv, Booted, NewBound
  <2>8. QED
    BY <1>2, <2>3, <2>4, <2>5, <2>6, <2>7 DEF Install
<1>3. QED
  BY <1>1, <1>2 DEF ProcessNext, OperatorNext

LEMMA InstallInvInvariant == Spec => []InstallInv
<1>1. Init => InstallInv
  BY InstallInit DEF Init
<1>2. ServiceInv /\ InstallInv /\ [Next]_vars => InstallInv'
  <2> SUFFICES ASSUME ServiceInv, InstallInv, [Next]_vars PROVE InstallInv'
    OBVIOUS
  <2>1. CASE ProcessNext \/ OperatorNext
    BY <2>1, InstallStep DEF ServiceInv
  <2>2. CASE UNCHANGED service
    BY <2>2 DEF service, InstallInv, NoneByHand, Booted, NewBound
  <2>3. QED
    BY <2>1, <2>2 DEF Next, vars, service
<1>3. QED
  BY <1>1, <1>2, ServiceInvInvariant, PTL DEF Spec

\* "installed" speaks of a daemon started by this installation, whatever
\* crashes and restarts there were before and meanwhile.
THEOREM InstalledNew == Spec => []InstalledIsNew
<1>1. ServiceInv /\ InstallInv => InstalledIsNew
  BY DEF ServiceInv, ServiceTypeOK, InstallInv, InstalledIsNew, NoneByHand, Booted, NewBound,
     Late
<1>2. QED
  BY <1>1, ServiceInvInvariant, InstallInvInvariant, PTL

-----------------------------------------------------------------------------
(* The calls *)

\* What is known of a call when its caller is told of it.
Settled(r) ==
  /\ told[r] = "none" <=> client[r] # "closed"
  /\ told[r] \in {"not_sent", "unavailable"} => peer[r] = {}
  /\ told[r] = "result" => runs[r] = 1
  /\ told[r] = "refused" /\ r \in OpenCalls => thread[r] = "ended" /\ runs[r] = 0

\* How far its handler thread is, and what that says about the effect.
Progress(r) ==
  /\ client[r] = "idle" => peer[r] = {}
  /\ peer[r] = {} => thread[r] = "none"
  /\ thread[r] \in {"none", "reading", "dispatching"} => runs[r] = 0
  /\ thread[r] \in {"none", "reading", "dispatching", "carried"} => answer[r] = "none"
  /\ thread[r] = "carried" => runs[r] = 1
  /\ runs[r] \in {0, 1}
  /\ answer[r] = "ok" => runs[r] = 1
  /\ answer[r] = "refused" /\ r \in OpenCalls => runs[r] = 0

IInv == TypeOK /\ \A r \in Calls : Settled(r) /\ Progress(r)

LEMMA TypeStep == TypeOK /\ [Next]_vars => TypeOK'
<1> SUFFICES ASSUME TypeOK, [Next]_vars PROVE TypeOK'
  OBVIOUS
<1>1. CASE (ProcessNext \/ OperatorNext) /\ UNCHANGED wire /\ UNCHANGED operated
  BY <1>1, ServiceTypeStep DEF TypeOK, wire
<1>2. ASSUME UNCHANGED service, UNCHANGED operated
      PROVE  ServiceTypeOK' /\ operated' \in BOOLEAN
  BY <1>2 DEF service, TypeOK, ServiceTypeOK
<1>3. CASE Mcp /\ UNCHANGED service /\ UNCHANGED operated
  BY <1>2, <1>3 DEF Mcp, handler, TypeOK
<1> USE DEF TypeOK, handler, mcp
<1>4. ASSUME NEW r \in Calls, ClientStep(r), UNCHANGED service, UNCHANGED operated
      PROVE  TypeOK'
  <2>1. CASE RefuseHere(r) \/ ConnectFails(r) \/ ConnectDenied(r) \/ ReceiveEnd(r) \/ GiveUp(r)
    BY <1>2, <1>4, <2>1 DEF RefuseHere, ConnectFails, ConnectDenied, ReceiveEnd, GiveUp, Tell
  <2>2. CASE Receive(r)
    BY <1>2, <1>4, <2>2 DEF Receive, Heard, Tell
  <2>3. CASE Connect(r) \/ SendMore(r) \/ SendRest(r)
    BY <1>2, <1>4, <2>3 DEF Connect, SendMore, SendRest
  <2>4. QED
    BY <1>4, <2>1, <2>2, <2>3 DEF ClientStep
<1>5. ASSUME NEW r \in Calls, ThreadStep(r), UNCHANGED service, UNCHANGED operated
      PROVE  TypeOK'
  BY <1>2, <1>5 DEF ThreadStep, ThreadGoes, Accept, ReadRequest, ReadJunk, CarryOut, Raise,
     Finish, WriteAnswer
<1>6. CASE UNCHANGED vars
  BY <1>6, <1>2 DEF vars, service
<1>7. QED
  BY <1>1, <1>3, <1>4, <1>5, <1>6 DEF Next, WireNext

LEMMA IInvInit == Init => IInv
<1> SUFFICES ASSUME Init PROVE IInv
  OBVIOUS
<1>1. TypeOK
  BY ServiceInvInit DEF Init, TypeOK, ServiceInv
<1>2. QED
  BY <1>1 DEF Init, IInv, Settled, Progress

LEMMA IInvStep == IInv /\ [Next]_vars => IInv'
<1> SUFFICES ASSUME IInv, [Next]_vars PROVE IInv'
  OBVIOUS
<1>1. TypeOK /\ TypeOK'
  BY TypeStep DEF IInv
<1> DEFINE Call(r) == Settled(r) /\ Progress(r)
<1>2. CASE UNCHANGED <<client, peer, told, handler>>
  BY <1>1, <1>2 DEF IInv, Settled, Progress, handler
<1>3. ASSUME NEW q \in Calls, ClientStep(q)
      PROVE  IInv'
  <2>1. SUFFICES ASSUME NEW r \in Calls
                 PROVE  Call(r)'
    BY <1>1 DEF IInv
  <2> USE DEF IInv, TypeOK, Settled, Progress, handler
  <2>2. CASE RefuseHere(q) \/ ConnectFails(q) \/ ConnectDenied(q)
    BY <1>1, <2>2 DEF RefuseHere, ConnectFails, ConnectDenied, Tell
  <2>3. CASE Connect(q)
    BY <1>1, <2>3 DEF Connect
  <2>4. CASE SendMore(q) \/ SendRest(q)
    BY <1>1, <2>4 DEF SendMore, SendRest
  <2>5. CASE Receive(q)
    BY <1>1, <2>5 DEF Receive, Heard, Tell
  <2>6. CASE ReceiveEnd(q) \/ GiveUp(q)
    BY <1>1, <2>6 DEF ReceiveEnd, GiveUp, Tell
  <2>7. QED
    BY <1>3, <2>2, <2>3, <2>4, <2>5, <2>6 DEF ClientStep
<1>4. ASSUME NEW q \in Calls, ThreadStep(q)
      PROVE  IInv'
  <2>1. SUFFICES ASSUME NEW r \in Calls
                 PROVE  Call(r)'
    BY <1>1 DEF IInv
  <2> USE DEF IInv, TypeOK, Settled, Progress, ThreadGoes, Runs
  <2>2. CASE Accept(q) \/ ReadRequest(q)
    BY <1>1, <2>2 DEF Accept, ReadRequest
  <2>3. CASE ReadJunk(q)
    BY <1>1, <2>3 DEF ReadJunk
  <2>4. CASE CarryOut(q)
    BY <1>1, <2>4 DEF CarryOut
  <2>5. CASE Raise(q)
    BY <1>1, <2>5 DEF Raise
  <2>6. CASE Finish(q)
    BY <1>1, <2>6, CallsAssumption DEF Finish
  <2>7. CASE WriteAnswer(q)
    BY <1>1, <2>7 DEF WriteAnswer
  <2>8. QED
    BY <1>4, <2>2, <2>3, <2>4, <2>5, <2>6, <2>7 DEF ThreadStep
<1>5. QED
  BY <1>2, <1>3, <1>4 DEF Next, WireNext, Mcp, wire, vars, handler

LEMMA IInvInvariant == Spec => []IInv
BY IInvInit, IInvStep, PTL DEF Spec

\* Type correctness.
THEOREM TypeCorrect == Spec => []TypeOK
<1>1. IInv => TypeOK
  BY DEF IInv
<1>2. QED
  BY <1>1, IInvInvariant, PTL

-----------------------------------------------------------------------------
(* The refinement: what is told agrees with what was done *)

LEMMA RemoteInit == Init => Remote!Init
BY DEF Init, Remote!Init, Verdict

LEMMA RemoteStep == IInv /\ [Next]_vars => [Remote!Next]_(Remote!vars)
<1> SUFFICES ASSUME IInv, [Next]_vars PROVE [Remote!Next]_(Remote!vars)
  OBVIOUS
<1> DEFINE verdict == [r \in Calls |-> Verdict(r)]
<1>1. CASE UNCHANGED <<told, runs>>
  BY <1>1 DEF Remote!vars, Verdict
<1>2. ASSUME NEW q \in Calls, ClientStep(q)
      PROVE  [Remote!Next]_(Remote!vars)
  <2>1. ASSUME NEW o, client[q] # "closed", Tell(q, o), o # "none",
               o = "result" => runs[q] = 1,
               o \in {"not_sent", "unavailable"} => runs[q] = 0,
               o = "refused" /\ q \in OpenCalls => runs[q] = 0
        PROVE  Remote!Next
    <3>1. told[q] = "none" /\ told' = [told EXCEPT ![q] = o] /\ runs' = runs
      BY <2>1 DEF Tell, handler, IInv, Settled
    <3>2. told \in [Calls -> {"none", "not_sent", "unavailable", "failed", "invalid",
                             "mismatch", "too_long", "refused", "unsure", "result"}]
      BY DEF IInv, TypeOK
    <3>3. PICK v \in {"result", "nothing", "unknown"} :
            /\ verdict[q] = "pending" /\ verdict' = [verdict EXCEPT ![q] = v]
            /\ v = "result" => runs[q] = 1
            /\ v = "nothing" => runs[q] = 0
      <4>1. Verdict(q)' \in {"result", "nothing", "unknown"}
        BY <2>1, <3>1, <3>2 DEF Verdict
      <4>2. \A r \in Calls : r # q => Verdict(r)' = Verdict(r)
        BY <3>1, <3>2 DEF Verdict
      <4>3. verdict' = [verdict EXCEPT ![q] = Verdict(q)']
        BY <4>2
      <4>4. verdict[q] = "pending"
        BY <3>1 DEF Verdict
      <4>5. /\ Verdict(q)' = "result" => runs[q] = 1
            /\ Verdict(q)' = "nothing" => runs[q] = 0
        BY <2>1, <3>1, <3>2 DEF Verdict
      <4>6. QED
        BY <4>1, <4>3, <4>4, <4>5
    <3>4. Remote!Conclude(q, v)
      BY <3>1, <3>3 DEF Remote!Conclude
    <3>5. QED
      BY <3>4 DEF Remote!Next
  <2> USE DEF IInv, Settled, Progress
  <2>2. CASE RefuseHere(q) \/ ConnectFails(q) \/ ConnectDenied(q)
    BY <2>1, <2>2 DEF RefuseHere, ConnectFails, ConnectDenied
  <2>3. CASE Receive(q)
    <3>1. PICK o \in Heard(q) : Tell(q, o)
      BY <2>3 DEF Receive
    <3>2. client[q] = "sent" /\ answer[q] # "none"
      BY <2>3 DEF Receive
    <3>3. answer[q] \in {"ok", "refused", "unsure", "anonymous"}
      BY <3>2 DEF TypeOK
    <3>4. QED
      BY <2>1, <3>1, <3>2, <3>3 DEF Heard
  <2>4. CASE ReceiveEnd(q) \/ GiveUp(q)
    BY <2>1, <2>4 DEF ReceiveEnd, GiveUp
  <2>5. CASE Connect(q) \/ SendMore(q) \/ SendRest(q)
    BY <1>1, <2>5 DEF Connect, SendMore, SendRest, handler
  <2>6. QED
    BY <1>2, <2>2, <2>3, <2>4, <2>5 DEF ClientStep
<1>3. ASSUME NEW q \in Calls, ThreadStep(q)
      PROVE  [Remote!Next]_(Remote!vars)
  <2>1. CASE CarryOut(q)
    <3>1. /\ thread[q] = "dispatching" /\ runs' = [runs EXCEPT ![q] = @ + 1]
          /\ UNCHANGED told /\ peer[q] # {}
      BY <2>1 DEF CarryOut, ThreadGoes, Runs
    <3>2. runs[q] = 0 /\ verdict' = verdict
      BY <3>1 DEF IInv, Progress, Verdict
    <3>3. verdict[q] \in {"pending", "unknown"}
      BY <3>1, <3>2 DEF IInv, Settled, Verdict
    <3>4. Remote!CarryOut(q)
      BY <3>1, <3>2, <3>3 DEF Remote!CarryOut, IInv, TypeOK
    <3>5. QED
      BY <3>4 DEF Remote!Next
  <2>2. QED
    BY <1>1, <1>3, <2>1 DEF ThreadStep, ThreadGoes, Accept, ReadRequest, ReadJunk, Raise,
       Finish, WriteAnswer
<1>4. QED
  BY <1>1, <1>2, <1>3 DEF Next, WireNext, Mcp, wire, vars, handler

\* Whatever a caller is told of its call is true, for ever.
THEOREM CallsAreRemote == Spec => KeepsRemoteCall
BY RemoteInit, RemoteStep, IInvInvariant, PTL DEF Spec, KeepsRemoteCall, Remote!Spec
=============================================================================
