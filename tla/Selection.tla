----------------------------- MODULE Selection -----------------------------
(***************************************************************************)
(* The part of a sequence that is in a set, what filter does in the        *)
(* sources.  It is SelectSeq with a set in place of the test: a recursive  *)
(* function, about which something can be proved.                          *)
(***************************************************************************)
EXTENDS Integers, Sequences

Only(s, S) ==
  LET kept[n \in 0..Len(s)] ==
        IF n = 0 THEN <<>>
        ELSE IF s[n] \in S THEN Append(kept[n - 1], s[n]) ELSE kept[n - 1]
  IN  kept[Len(s)]
=============================================================================
