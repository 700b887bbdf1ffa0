------------------------------ MODULE MCKeyabra ------------------------------
(***************************************************************************)
(* Keyabra for model checking: two names with every kind of line, also     *)
(* twice, and vaults with a line that does not parse.  Only is compared    *)
(* with SelectSeq, which it stands for.                                    *)
(***************************************************************************)
EXTENDS Keyabra

CONSTANTS A, B, v, w, p

ASSUME OnlyIsSelectSeq ==
  \A n \in 0..3, S \in SUBSET {A, B, v} : \A s \in [1..n -> {A, B, v}] :
    Only(s, S) = SelectSeq(s, LAMBDA x : x \in S)

MCVaults ==
  {<<Line(A, "value", v)>>, <<Line(A, "__FILE", p), Line(B, "value", v)>>,
   <<Line(B, "value", v), Junk>>, <<Line(A, "value", w), Line(A, "__CMD", p)>>}
=============================================================================
