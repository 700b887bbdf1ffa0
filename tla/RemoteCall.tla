----------------------------- MODULE RemoteCall -----------------------------
(***************************************************************************)
(* What a caller of the broker may conclude from what it is told, with no  *)
(* sockets, processes or timers in sight: a result means that the broker   *)
(* carried the call out, once; an error that says that nothing happened    *)
(* means that nothing happened and nothing will; any other error leaves it *)
(* open for ever.  BrokerWire.tla is shown to implement this module.       *)
(***************************************************************************)
EXTENDS Naturals

CONSTANT Calls

VARIABLES
  runs,    \* how often the broker carried each call out
  verdict  \* what its caller may conclude

vars == <<runs, verdict>>

Init ==
  /\ runs = [r \in Calls |-> 0]
  /\ verdict = [r \in Calls |-> "pending"]

CarryOut(r) ==
  /\ runs[r] = 0
  /\ verdict[r] \in {"pending", "unknown"}
  /\ runs' = [runs EXCEPT ![r] = 1]
  /\ UNCHANGED verdict

Conclude(r, v) ==
  /\ verdict[r] = "pending"
  /\ v = "result" => runs[r] = 1
  /\ v = "nothing" => runs[r] = 0
  /\ verdict' = [verdict EXCEPT ![r] = v]
  /\ UNCHANGED runs

Next ==
  \E r \in Calls :
    CarryOut(r) \/ \E v \in {"result", "nothing", "unknown"} : Conclude(r, v)

Spec == Init /\ [][Next]_vars
=============================================================================
