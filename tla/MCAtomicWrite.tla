--------------------------- MODULE MCAtomicWrite ---------------------------
(***************************************************************************)
(* Two threads that write two payloads to one path.                        *)
(***************************************************************************)
EXTENDS AtomicWrite, TLC

CONSTANTS w1, w2, p1, p2

Sym == Permutations({w1, w2}) \cup Permutations({p1, p2})
=============================================================================
