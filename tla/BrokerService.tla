---------------------------- MODULE BrokerService ----------------------------
(***************************************************************************)
(* The broker as a service: how a daemon (keyabra/broker_server.py) takes  *)
(* and gives up the path of its Unix socket, how launchd keeps one running *)
(* and how scripts/install_broker_macos.sh replaces it.  A daemon is one   *)
(* process, so a restart is another daemon.  The socket file of a daemon   *)
(* outlives the process: whatever is at the path is left there by SIGTERM, *)
(* SIGKILL and crashes alike.                                              *)
(*                                                                         *)
(* Abstracted: the daemon's arguments, which the installer wrote; chmod    *)
(* and chown as one pair (ready) whoever's socket is at the path.          *)
(***************************************************************************)

CONSTANTS
  Jobs,    \* daemons that launchd may start; their number bounds restarts
  ByHand   \* daemons that an operator may start in a terminal

ASSUME DaemonsAssumption == Jobs \cap ByHand = {}

VARIABLES
  path,      \* whose socket is at the socket path: empty, or one daemon
  life,      \* where each daemon is
  ready,     \* daemons whose socket has its mode and group
  loaded,    \* launchd has the job
  step,      \* where the installer is
  asked,     \* the daemon the installer's registration was sent to
  before,    \* auxiliary: daemons started before the installer's bootstrap
  leftover,  \* auxiliary: a socket was at the path at that bootstrap
  overlap    \* auxiliary: two daemons were alive at the same time

install == <<step, asked, before, leftover>>
service == <<path, life, ready, loaded, step, asked, before, leftover, overlap>>

Daemons == Jobs \cup ByHand
Lives == {"unborn", "new", "unlink", "bind", "listen", "chmod", "chown",
          "serve", "closing", "unlinking", "gone"}
Steps == {"idle", "booted", "waiting", "register", "asked", "installed", "failed"}

Alive(d) == life[d] \notin {"unborn", "gone"}
\* connect() succeeds: the socket is bound and listening, its process alive.
Listening(d) == life[d] \in {"chmod", "chown", "serve"}
Serving(d) == life[d] = "serve"
Reachable(d) == path = {d} /\ Listening(d)

ServiceInit ==
  /\ path = {}
  /\ life = [d \in Daemons |-> "unborn"]
  /\ ready = {}
  /\ loaded \in BOOLEAN
  /\ step = "idle"
  /\ asked = {}
  /\ before = {}
  /\ leftover = FALSE
  /\ overlap = FALSE

-----------------------------------------------------------------------------
(* BrokerDaemon.__init__, step by step *)

Move(d, from, to) ==
  /\ life[d] = from
  /\ life' = [life EXCEPT ![d] = to]
  /\ UNCHANGED <<loaded, install, overlap>>

\* Mutant: a socket that is already there is left there.
LookAtPath_KeepsStale(d) ==
  /\ Move(d, "new", "bind")
  /\ UNCHANGED <<path, ready>>

\* Is something at the path?
LookAtPath(d) ==
  /\ Move(d, "new", IF path # {} THEN "unlink" ELSE "bind")
  /\ UNCHANGED <<path, ready>>

\* It is unlinked, whoever's it is.  Somebody else may have been faster.
UnlinkStale(d) ==
  /\ Move(d, "unlink", IF path # {} THEN "bind" ELSE "gone")
  /\ path' = {}
  /\ UNCHANGED ready

\* bind() creates the file.  If there is one again by now it fails, and
\* TCPServer.__init__ calls server_close.
Bind(d) ==
  \/ /\ path = {}
     /\ Move(d, "bind", "listen")
     /\ path' = {d}
     /\ UNCHANGED ready
  \/ /\ path # {}
     /\ Move(d, "bind", "closing")
     /\ UNCHANGED <<path, ready>>

\* Mutant: the mode and group are left to the umask.
Listen_NoMode(d) == Move(d, "listen", "serve") /\ UNCHANGED <<path, ready>>

Listen(d) == Move(d, "listen", "chmod") /\ UNCHANGED <<path, ready>>

\* os.chmod and os.chown take the path: they raise if it is gone, which ends
\* the process, and act on whatever socket is there.
SetMode(d) ==
  /\ Move(d, "chmod", IF path # {} THEN "chown" ELSE "gone")
  /\ UNCHANGED <<path, ready>>

SetGroup(d) ==
  /\ Move(d, "chown", IF path # {} THEN "serve" ELSE "gone")
  /\ ready' = ready \cup path
  /\ UNCHANGED path

Boot(d) ==
  \/ LookAtPath(d) \/ UnlinkStale(d) \/ Bind(d)
  \/ Listen(d) \/ SetMode(d) \/ SetGroup(d)

\* Ctrl-C in the terminal of a daemon: serve_forever ends, main closes.
Interrupt(d) ==
  /\ d \in ByHand
  /\ Move(d, "serve", "closing")
  /\ UNCHANGED <<path, ready>>

\* server_close: the descriptor is closed, then the path is looked at and
\* unlinked, whoever's socket is there.
CloseLooks(d) ==
  /\ Move(d, "closing", IF path # {} THEN "unlinking" ELSE "gone")
  /\ UNCHANGED <<path, ready>>

CloseUnlinks(d) ==
  /\ Move(d, "unlinking", "gone")
  /\ path' = {}
  /\ UNCHANGED ready

ServerClose(d) == CloseLooks(d) \/ CloseUnlinks(d)

-----------------------------------------------------------------------------
(* Processes: launchd, operators, crashes *)

Start(d) ==
  /\ life[d] = "unborn"
  /\ life' = [life EXCEPT ![d] = "new"]
  /\ overlap' = (overlap \/ \E e \in Daemons : Alive(e))
  /\ UNCHANGED <<path, ready, loaded, install>>

JobRuns == \E d \in Jobs : Alive(d)

\* RunAtLoad and KeepAlive: a loaded job that is not running is started.
Launch(d) == d \in Jobs /\ loaded /\ ~JobRuns /\ Start(d)

RunByHand(d) == d \in ByHand /\ Start(d)

End(d) ==
  /\ Alive(d)
  /\ life' = [life EXCEPT ![d] = "gone"]
  /\ UNCHANGED <<path, ready, loaded, install, overlap>>

\* A crash, or a signal with its default action.  Bound: launchd's last
\* daemon does not crash.
Crash(d) ==
  /\ d \in Jobs => \E e \in Jobs : life[e] = "unborn"
  /\ End(d)

\* A job that was booted out is signalled until it is gone.
TerminateJob(d) == d \in Jobs /\ ~loaded /\ End(d)

-----------------------------------------------------------------------------
(* install_broker_macos.sh, from launchctl bootout to its last line *)

Proceed(from, to) ==
  /\ step = from
  /\ step' = to
  /\ UNCHANGED <<path, life, ready, overlap>>

\* launchctl bootout ... || true: the job may not have been loaded, or stay.
Bootout ==
  /\ Proceed("idle", "booted")
  /\ loaded' \in {FALSE, loaded}
  /\ UNCHANGED <<asked, before, leftover>>

\* launchctl bootstrap under set -e: it fails while the old job is there.
\* Bound: there is a daemon left for it to start.
Bootstrap ==
  \/ /\ ~loaded /\ ~JobRuns
     /\ \E d \in Jobs : life[d] = "unborn"
     /\ Proceed("booted", "waiting")
     /\ loaded' = TRUE
     /\ before' = {d \in Daemons : life[d] # "unborn"}
     /\ leftover' = (path # {})
     /\ UNCHANGED asked
  \/ /\ Proceed("booted", "failed")
     /\ UNCHANGED <<loaded, asked, before, leftover>>

Await(from, to) == Proceed(from, to) /\ UNCHANGED <<loaded, asked, before, leftover>>

\* Mutant: the installer does not look for the socket.
SocketAppears_NoWait ==
  \/ Await("waiting", "installed")
  \/ Await("waiting", "register")

\* [[ -S path ]]: done, or on to the registration if a spec was given.
SocketAppears ==
  /\ path # {}
  /\ \/ Await("waiting", "installed")
     \/ Await("waiting", "register")

\* 50 looks, 0.1 s apart.
SocketMissing == path = {} /\ Await("waiting", "failed")

\* jq | nc -U: the registration goes to whoever listens at the path.
Ask(d) ==
  /\ Reachable(d)
  /\ Proceed("register", "asked")
  /\ asked' = {d}
  /\ UNCHANGED <<loaded, before, leftover>>

AskRefused ==
  /\ ~\E d \in Daemons : Reachable(d)
  /\ Await("register", "failed")

\* .ok == true of what nc printed; nothing, if the daemon died first.
Answered ==
  \/ (\A d \in asked : Serving(d)) /\ Await("asked", "installed")
  \/ (\A d \in asked : Serving(d)) /\ Await("asked", "failed")
  \/ (\E d \in asked : ~Alive(d)) /\ Await("asked", "failed")

Install ==
  \/ Bootout \/ Bootstrap \/ SocketAppears \/ SocketMissing
  \/ (\E d \in Daemons : Ask(d)) \/ AskRefused \/ Answered

\* What happens by itself, and what an operator does.
ProcessNext ==
  \E d \in Daemons :
    Boot(d) \/ ServerClose(d) \/ Launch(d) \/ Crash(d) \/ TerminateJob(d)

OperatorNext ==
  \/ \E d \in Daemons : Interrupt(d) \/ RunByHand(d)
  \/ Install

\* Processes run, and launchd does what the property list tells it to.
ServiceFairness ==
  \A d \in Daemons :
    /\ WF_service(Boot(d))
    /\ WF_service(ServerClose(d))
    /\ WF_service(Launch(d))
    /\ WF_service(TerminateJob(d))

-----------------------------------------------------------------------------
(* Properties *)

\* Type invariant.
ServiceTypeOK ==
  /\ path = {} \/ \E d \in Daemons : path = {d}
  /\ life \in [Daemons -> Lives]
  /\ ready \subseteq Daemons
  /\ loaded \in BOOLEAN
  /\ step \in Steps
  /\ asked \subseteq Daemons /\ before \subseteq Daemons
  /\ leftover \in BOOLEAN /\ overlap \in BOOLEAN

\* A daemon that serves is the one that clients reach, with the mode and
\* group that let them in - unless two daemons were ever alive together.
\* Then it may listen where nobody can connect: what is at the path is
\* unlinked by whoever starts or ends, and nothing puts the path back.
ServedIsReachable ==
  \A d \in Daemons : Serving(d) => overlap \/ (Reachable(d) /\ d \in ready)

\* "installed" speaks of the new daemon: the registration was answered by
\* one that was started after bootstrap, and without a registration one has
\* at least bound the path.  The exceptions are a daemon run by hand, and for
\* the latter a socket that a killed daemon left: it ends the wait at once.
InstalledIsNew ==
  (step = "installed" /\ \A d \in ByHand : life[d] = "unborn") =>
    IF asked # {} THEN asked \cap before = {}
    ELSE leftover \/ \E d \in Daemons \ before :
                        life[d] \notin {"unborn", "new", "unlink", "bind"}

\* As long as the job is loaded its service comes back: after every crash a
\* daemon gets to serve at the path, over the socket the last one left.
ServiceComesBack ==
  loaded ~> (~loaded \/ overlap \/ \E d \in Daemons : Serving(d) /\ Reachable(d))
=============================================================================
