----------------------------- MODULE BrokerWire -----------------------------
(***************************************************************************)
(* One call to the broker, end to end: the client                          *)
(* (keyabra/broker_client.py and noldorian/client.py, the same exchange    *)
(* twice), its connection to whichever daemon BrokerService has at the     *)
(* socket path, and the handler thread there (broker_server.py).  Calls    *)
(* come from commands and from an MCP server (noldorian/mcp.py), which     *)
(* works its messages off one at a time.  Daemons start, die and are       *)
(* replaced meanwhile.                                                     *)
(*                                                                         *)
(* Abstracted: dispatch (Broker looks inside it) either refuses a call or  *)
(* carries it out - starts the child, replaces the file, reads the store - *)
(* and may fail after it did.                                              *)
(***************************************************************************)
EXTENDS BrokerService, Naturals, Sequences

CONSTANTS
  OwnerCalls,  \* register, enroll and import_env, made by root
  OpenCalls,   \* status, list, describe and invoke
  Messages     \* what the MCP server finds on its standard input: OpenCalls,
               \* "request", "notification" and "raises"

ASSUME CallsAssumption == OwnerCalls \cap OpenCalls = {}

Calls == OwnerCalls \cup OpenCalls
McpCalls == {r \in OpenCalls : \E i \in DOMAIN Messages : Messages[i] = r}

VARIABLES
  client,    \* where the client is
  peer,      \* the daemon it is connected to
  line,      \* what of the request line has been sent
  thread,    \* where the handler thread is
  answer,    \* what the thread answers
  told,      \* what the caller is told
  runs,      \* how often the call was carried out
  inbox,     \* messages the MCP server has not finished
  replies,   \* what it has written
  operated   \* an operator is at work on the service (and nobody calls it)

handler == <<thread, answer, runs>>
mcp == <<inbox, replies>>
wire == <<client, peer, line, thread, answer, told, runs, inbox, replies>>
vars == <<path, life, ready, loaded, step, asked, before, leftover, overlap,
          client, peer, line, thread, answer, told, runs, inbox, replies,
          operated>>

Init ==
  /\ ServiceInit
  /\ client = [r \in Calls |-> "idle"]
  /\ peer = [r \in Calls |-> {}]
  /\ line = [r \in Calls |-> "none"]
  /\ thread = [r \in Calls |-> "none"]
  /\ answer = [r \in Calls |-> "none"]
  /\ told = [r \in Calls |-> "none"]
  /\ runs = [r \in Calls |-> 0]
  /\ inbox = Messages
  /\ replies = <<>>
  /\ operated \in BOOLEAN

-----------------------------------------------------------------------------
(* The client: request() *)

\* A command makes its one call at any time, the MCP server in its turn.
Turn(r) == r \in McpCalls => inbox # <<>> /\ Head(inbox) = r

\* The call ends with outcome o, and its connection is closed.
Tell(r, o) ==
  /\ client' = [client EXCEPT ![r] = "closed"]
  /\ told' = [told EXCEPT ![r] = o]
  /\ UNCHANGED <<peer, line, handler, mcp>>

\* Bad arguments, a bad file, or a request that would exceed 1 MiB.
RefuseHere(r) ==
  /\ client[r] = "idle" /\ Turn(r)
  /\ Tell(r, "not_sent")

\* connect(): there is no file, or nobody (or a full backlog) behind it.
ConnectFails(r) ==
  /\ client[r] = "idle" /\ Turn(r)
  /\ Tell(r, "unavailable")

\* Until the socket has its group, only root may connect to it.
ConnectDenied(r) ==
  /\ client[r] = "idle" /\ Turn(r)
  /\ r \in OpenCalls
  /\ \E d \in Daemons : Reachable(d) /\ d \notin ready
  /\ Tell(r, "failed")

Connect(r) ==
  /\ client[r] = "idle" /\ Turn(r)
  /\ \E d \in Daemons :
       /\ Reachable(d)
       /\ r \in OpenCalls => d \in ready
       /\ peer' = [peer EXCEPT ![r] = {d}]
  /\ client' = [client EXCEPT ![r] = "connected"]
  /\ UNCHANGED <<line, told, handler, mcp>>

\* sendall() is not one step: a part, all but the newline, the line.
SendMore(r) ==
  /\ client[r] = "connected"
  /\ line[r] \in {"none", "part"}
  /\ line' = [line EXCEPT ![r] = IF @ = "none" THEN "part" ELSE "body"]
  /\ UNCHANGED <<client, peer, told, handler, mcp>>

SendRest(r) ==
  /\ client[r] = "connected"
  /\ line' = [line EXCEPT ![r] = "line"]
  /\ client' = [client EXCEPT ![r] = "sent"]
  /\ UNCHANGED <<peer, told, handler, mcp>>

\* What the caller is told of an answer line.
Heard(r) ==
  CASE answer[r] = "ok" -> {"result", "too_long"}
    [] answer[r] = "anonymous" -> {"mismatch"}
    [] OTHER -> {answer[r]}

Receive(r) ==
  /\ client[r] = "sent"
  /\ thread[r] = "ended" /\ answer[r] # "none"
  /\ \E o \in Heard(r) : Tell(r, o)

\* recv() returns b"": the daemon went away without (all of) an answer.
ReceiveEnd(r) ==
  /\ client[r] = "sent"
  /\ \A d \in peer[r] : ~Alive(d)
  /\ Tell(r, "invalid")

\* Mutant: what goes wrong on the connection counts as "unavailable".
GiveUp_Unavailable(r) ==
  /\ client[r] \in {"connected", "sent"}
  /\ Tell(r, "unavailable")

\* Mutant: the socket has no timeout.
GiveUp_NoTimeout(r) ==
  /\ client[r] \in {"connected", "sent"}
  /\ \A d \in peer[r] : ~Alive(d)
  /\ Tell(r, "failed")

\* 120 s in one operation, a connection reset, or the client is killed.
GiveUp(r) ==
  /\ client[r] \in {"connected", "sent"}
  /\ Tell(r, "failed")

ClientStep(r) ==
  \/ RefuseHere(r) \/ ConnectFails(r) \/ ConnectDenied(r) \/ Connect(r)
  \/ SendMore(r) \/ SendRest(r)
  \/ Receive(r) \/ ReceiveEnd(r) \/ GiveUp(r)

-----------------------------------------------------------------------------
(* The handler thread: BrokerRequestHandler.handle in the daemon *)

Runs(r) == \E d \in peer[r] : Alive(d)

ThreadGoes(r, from, to) ==
  /\ Runs(r)
  /\ thread[r] = from
  /\ thread' = [thread EXCEPT ![r] = to]
  /\ UNCHANGED <<client, peer, line, told, mcp>>

\* serve_forever takes the connection from the backlog.
Accept(r) ==
  /\ \A d \in peer[r] : Serving(d)
  /\ ThreadGoes(r, "none", "reading")
  /\ UNCHANGED <<answer, runs>>

\* readline has a line, or what there is when the client is gone; a request
\* does not need its newline.
ReadRequest(r) ==
  /\ line[r] = "line" \/ (line[r] = "body" /\ client[r] = "closed")
  /\ ThreadGoes(r, "reading", "dispatching")
  /\ UNCHANGED <<answer, runs>>

\* Less than a request is answered with id None.
ReadJunk(r) ==
  /\ line[r] \in {"none", "part"} /\ client[r] = "closed"
  /\ ThreadGoes(r, "reading", "answering")
  /\ answer' = [answer EXCEPT ![r] = "anonymous"]
  /\ UNCHANGED runs

CarryOut(r) ==
  /\ ThreadGoes(r, "dispatching", "carried")
  /\ runs' = [runs EXCEPT ![r] = @ + 1]
  /\ UNCHANGED answer

\* dispatch raises: "refused" is a BrokerError, "unsure" a timeout of the
\* child or another exception.
Raise(r) ==
  /\ ThreadGoes(r, "dispatching", "answering")
  /\ answer' \in {[answer EXCEPT ![r] = a] : a \in {"refused", "unsure"}}
  /\ UNCHANGED runs

\* It returns, or fails after all: the child timed out or wrote no text, or
\* the catalog that describe reads again no longer knows the capability.
Finish(r) ==
  /\ ThreadGoes(r, "carried", "answering")
  /\ \E a \in {"ok", "unsure", "refused"} :
       /\ a = "refused" => r \in OwnerCalls
       /\ answer' = [answer EXCEPT ![r] = a]
  /\ UNCHANGED runs

\* wfile.write: the answer is in the connection, or the client is gone.
WriteAnswer(r) ==
  /\ ThreadGoes(r, "answering", "ended")
  /\ answer' = [answer EXCEPT ![r] = IF client[r] = "closed" THEN "none" ELSE @]
  /\ UNCHANGED runs

ThreadStep(r) ==
  \/ Accept(r) \/ ReadRequest(r) \/ ReadJunk(r)
  \/ CarryOut(r) \/ Raise(r) \/ Finish(r) \/ WriteAnswer(r)

-----------------------------------------------------------------------------
(* McpServer.serve: one message after the other *)

Reply(m) ==
  /\ replies' = Append(replies, m)
  /\ inbox' = Tail(inbox)

\* Mutant: an unknown tool or method is passed over.
ServeRequest_Silent ==
  /\ inbox # <<>> /\ Head(inbox) = "request"
  /\ inbox' = Tail(inbox)
  /\ UNCHANGED replies

\* initialize, tools/list, an unknown tool or method, arguments a tool cannot
\* use: answered at once.
ServeRequest == inbox # <<>> /\ Head(inbox) = "request" /\ Reply("request")

\* No JSON, notifications/initialized, an unknown method without id.
SkipMessage ==
  /\ inbox # <<>> /\ Head(inbox) = "notification"
  /\ inbox' = Tail(inbox)
  /\ UNCHANGED replies

\* What raises outside the try around the tool ends the server: text that is
\* no UTF-8, JSON that is no object (a batch), initialize with params null or
\* no object, tools/call with params no object or a name that is none.
DieOfMessage ==
  /\ inbox # <<>> /\ Head(inbox) = "raises"
  /\ inbox' = <<>>
  /\ UNCHANGED replies

\* tools/call: the reply waits for the call of the client.
ServeCall(r) ==
  /\ inbox # <<>> /\ Head(inbox) = r
  /\ client[r] = "closed"
  /\ Reply(r)

Mcp ==
  /\ ServeRequest \/ SkipMessage \/ DieOfMessage \/ \E r \in McpCalls : ServeCall(r)
  /\ UNCHANGED <<client, peer, line, told, handler>>

WireNext == Mcp \/ \E r \in Calls : ClientStep(r) \/ ThreadStep(r)

Next ==
  /\ \/ /\ ProcessNext \/ (operated /\ OperatorNext)
        /\ UNCHANGED wire
     \/ /\ ~operated /\ WireNext
        /\ UNCHANGED service
  /\ UNCHANGED operated

Spec == Init /\ [][Next]_vars

\* Clients and the MCP server run.  Nothing is assumed of handler threads: a
\* daemon may be stopped, and a disk or a child may hang.
FairSpec ==
  /\ Spec
  /\ ServiceFairness
  /\ WF_vars(~operated /\ Mcp /\ UNCHANGED <<service, operated>>)
  /\ \A r \in Calls :
       WF_vars(~operated /\ ClientStep(r) /\ UNCHANGED <<service, operated>>)

-----------------------------------------------------------------------------
(* Properties *)

\* Type invariant.
TypeOK ==
  /\ ServiceTypeOK
  /\ client \in [Calls -> {"idle", "connected", "sent", "closed"}]
  /\ peer \in [Calls -> SUBSET Daemons]
  /\ line \in [Calls -> {"none", "part", "body", "line"}]
  /\ thread \in [Calls -> {"none", "reading", "dispatching", "carried",
                           "answering", "ended"}]
  /\ answer \in [Calls -> {"none", "ok", "refused", "unsure", "anonymous"}]
  /\ told \in [Calls -> {"none", "not_sent", "unavailable", "failed", "invalid",
                         "mismatch", "too_long", "refused", "unsure", "result"}]
  /\ runs \in [Calls -> Nat]
  /\ operated \in BOOLEAN

\* What a caller may conclude from what it is told.
Verdict(r) ==
  CASE told[r] = "none" -> "pending"
    [] told[r] = "result" -> "result"
    [] told[r] \in {"not_sent", "unavailable"} -> "nothing"
    [] told[r] = "refused" /\ r \in OpenCalls -> "nothing"
    [] OTHER -> "unknown"

\* Over all that sockets, threads, timeouts and restarts do, every call keeps
\* the promises of RemoteCall: no call is carried out twice, a result is
\* never told of a call that was not carried out, and after "unavailable",
\* an unsent request or the refusal of a query or an invoke nothing happens
\* later either.
Remote == INSTANCE RemoteCall WITH
  Calls <- Calls, runs <- runs, verdict <- [r \in Calls |-> Verdict(r)]
KeepsRemoteCall == Remote!Spec

\* Every call of a client ends, whatever becomes of the daemon and even if
\* its handler thread never moves again.
EveryCallEnds == \A r \in Calls : client[r] = "connected" ~> client[r] = "closed"

\* The MCP server answers every message that asks for it, once and in order,
\* however its calls end, up to the first that raises before the tool is
\* called: that one and what follows it go unanswered.
EveryMessageIsAnswered ==
  ~operated ~> \E n \in 0..Len(Messages) :
    /\ n < Len(Messages) => Messages[n + 1] = "raises"
    /\ \A i \in 1..n : Messages[i] # "raises"
    /\ replies = SelectSeq(SubSeq(Messages, 1, n), LAMBDA m : m # "notification")
=============================================================================
