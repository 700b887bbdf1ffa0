------------------------------ MODULE MCBroker ------------------------------
(***************************************************************************)
(* Small instances of Broker for TLC.  root may own, agent may query and   *)
(* stranger may do neither.                                                *)
(***************************************************************************)
EXTENDS Broker, TLC

CONSTANTS root, agent, stranger, h1, h2, c1, c2, k1, k2

\* Field values for the fields an action does not read.
Presence == [adapter |-> "presence", operations |-> {}, clean |-> TRUE]
Tunnel(ops) == [adapter |-> "openai_tunnel_admin", operations |-> ops, clean |-> TRUE]
Blank(u, a, c) ==
  [uid |-> u, action |-> a, cap |-> c, operation |-> "other", body |-> "good",
   offer |-> Presence, secret |-> NoKey]

Invoke(c, o, b) ==
  [Blank(agent, "invoke", c) EXCEPT !.operation = o, !.body = b]
Register(c, o) == [Blank(root, "register", c) EXCEPT !.offer = o]
Enroll(c, k) == [Blank(root, "enroll", c) EXCEPT !.secret = k]

Create == "tunnels.create"

\* Requests that reach every branch: two capabilities, one of them with two
\* secrets one after the other.
AllRequests ==
  {Blank(agent, "list", c1), Blank(agent, "describe", c1), Blank(stranger, "list", c1),
   Invoke(c1, Create, "good"), Invoke(c1, Create, "unusable"),
   Invoke(c1, "tunnels.get", "good"),
   Register(c1, Presence), Register(c1, Tunnel({Create})),
   Register(c2, Tunnel({"tunnels.get"})), Register(c1, Tunnel({"other"})),
   [Enroll(c2, k1) EXCEPT !.uid = agent],
   Enroll(c1, k1), Enroll(c1, NoKey),
   [Enroll(c1, k2) EXCEPT !.action = "import_env"]}

Threads == Permutations(Handlers)
=============================================================================
