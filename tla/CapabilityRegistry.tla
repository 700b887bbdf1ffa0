------------------------- MODULE CapabilityRegistry -------------------------
(***************************************************************************)
(* What the owner of a Noldorian key broker is promised, with no threads,  *)
(* files or crashes in sight: a catalog that a registration extends or     *)
(* overrides at one id and nothing ever shrinks, and a custody store that  *)
(* holds a secret only for a capability the catalog knows.  Each operation *)
(* is one step.  Broker.tla is shown to implement this module.             *)
(***************************************************************************)

CONSTANTS
  Caps,     \* capability ids
  Specs,    \* validated capability descriptions
  Keys,     \* secret values
  NoSpec,   \* "no such id in the catalog"
  NoKey     \* "no secret file for the id"

VARIABLES
  catalog,  \* capability id -> description, or NoSpec
  custody   \* capability id -> secret, or NoKey

vars == <<catalog, custody>>

Init ==
  /\ catalog = [c \in Caps |-> NoSpec]
  /\ custody = [c \in Caps |-> NoKey]

\* The owner publishes or replaces the description of one capability.
Register(c, s) ==
  /\ catalog' = [catalog EXCEPT ![c] = s]
  /\ UNCHANGED custody

\* The owner hands over the secret of a capability that is in the catalog.
Enroll(c, k) ==
  /\ catalog[c] # NoSpec
  /\ custody' = [custody EXCEPT ![c] = k]
  /\ UNCHANGED catalog

Next ==
  \E c \in Caps :
    \/ \E s \in Specs : Register(c, s)
    \/ \E k \in Keys : Enroll(c, k)

Spec == Init /\ [][Next]_vars
=============================================================================
