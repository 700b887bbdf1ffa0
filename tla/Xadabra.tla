------------------------------- MODULE Xadabra -------------------------------
(***************************************************************************)
(* The xadabra command: main in xadabra/cli.py hands "noldorian ..." to    *)
(* the monorepo commands and everything else to the paste runner.  The two *)
(* share no state, so a behaviour is a session of one of them.             *)
(***************************************************************************)
EXTENDS PasteRunner, Monorepo

VARIABLE noldorian   \* argv[0] == "noldorian"

\* What the other of the two would start from is of no interest.
XadabraInit ==
  /\ Init /\ RepoInit
  /\ \/ /\ noldorian = TRUE
        /\ overrides = <<>> /\ environ = <<>> /\ \A o \in DOMAIN options : ~options[o]
     \/ /\ noldorian = FALSE
        /\ command.from = "dest" /\ \A p \in Pkgs : tree["projects"][p] = "none"
        /\ here = TRUE

XadabraNext ==
  /\ \/ noldorian /\ RepoNext /\ UNCHANGED vars
     \/ ~noldorian /\ Next /\ UNCHANGED repo
  /\ UNCHANGED noldorian

XadabraSpec == XadabraInit /\ [][XadabraNext]_<<vars, repo, noldorian>>
=============================================================================
