---------------------------- MODULE MCAppInstall ----------------------------
(***************************************************************************)
(* AppInstall with ProtocolRepoint for model checking: the invocations are *)
(* interchangeable.                                                        *)
(***************************************************************************)
EXTENDS AppInstall, TLC

Symmetry == Permutations(Invocations)

\* Bound: two invocations that have overlapped are not followed into the
\* protocol, of which nothing is claimed then.
Bound == overlap => \A i \in Invocations : pc[i] # "protocol"

MCSpec == Init /\ [][Next /\ Bound']_vars
=============================================================================
