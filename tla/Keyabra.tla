------------------------------- MODULE Keyabra -------------------------------
(***************************************************************************)
(* The keyabra command: main in keyabra/cli.py hands "env set" and "copy"  *)
(* to the vault and the clipboard, "discord gcp-store" and "cursor         *)
(* gcp-store" to the rites.  The rites touch neither the vault nor the     *)
(* clipboard, so a behaviour is a session of one of the two.               *)
(***************************************************************************)
EXTENDS ClipboardCopy, SecretRite

VARIABLE gcp_store   \* is it a session of rites?

\* What the other of the two would start from is of no interest.
KeyabraInit ==
  /\ Init /\ RiteInit
  /\ \/ /\ gcp_store = TRUE
        /\ ~vault.exists /\ ~vault.private
        /\ contents = [p \in Pointers |-> {}]
     \/ /\ gcp_store = FALSE
        /\ live = {} /\ ~exists
        /\ candidate = [r \in Rites |-> CHOOSE k \in Keys : TRUE] /\ stored = candidate

KeyabraNext ==
  /\ \/ gcp_store /\ RiteNext /\ UNCHANGED vars
     \/ ~gcp_store /\ Next /\ UNCHANGED riteVars
  /\ UNCHANGED gcp_store

\* The fairness is the watchers'.
KeyabraSpec ==
  /\ KeyabraInit /\ [][KeyabraNext]_<<vars, riteVars, gcp_store>>
  /\ \A c \in Copies : WF_vars(Watcher(c))
=============================================================================
