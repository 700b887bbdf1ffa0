---------------------------- MODULE MCBrokerWire ----------------------------
(***************************************************************************)
(* A small instance of BrokerWire for TLC: an owner's command, and an MCP  *)
(* server whose messages hold one call and one of every other kind.        *)
(***************************************************************************)
EXTENDS BrokerWire

CONSTANTS enroll, invoke

Session == <<"notification", "request", invoke, "raises", "request">>
=============================================================================
