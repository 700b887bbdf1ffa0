----------------------------- MODULE MCXadabra ------------------------------
(***************************************************************************)
(* Xadabra for model checking.  Blocks with a name that is secret in one   *)
(* place only, first or second, with a typed and with a defaulted hole,    *)
(* and with a spell; values that are spells or look like holes.  Two       *)
(* packages and one tag.                                                   *)
(***************************************************************************)
EXTENDS Xadabra, TLC

CONSTANTS keyabra, binabra

MCPackages == <<binabra, keyabra>>
Sources == Permutations(Contents)

A == Hole(<<"A">>)
SecretA == Hole(<<"!", "A", ":", "Paste", "the", "key">>)
B == Hole(<<"B">>)
DefaultB == Hole(<<"B", ":", "Which", ":", "one", ":", "main">>)
PathB == Hole(<<"B", "|", "path", ":", "Where">>)

MCScripts ==
  {<<Word("echo")>>, <<Spell, A>>, <<SecretA, Word("echo"), A>>, <<A, SecretA, B>>,
   <<A, DefaultB>>, <<PathB, SecretA>>, <<B, B, A>>}

Values == {Word("x"), Spell, A, B, Quoted(Word("dir")), Word("dir")}

Partial(names) == UNION {[D -> Values] : D \in SUBSET names}
MCOverrides == Partial({<<"A">>, <<"B">>})
MCEnvironments ==
  {<<>>} \cup [{<<"XADABRA", "A">>, <<"A">>} -> {Word("x"), Spell}] \cup [{<<"B">>} -> Values]
MCPaths == {Word("dir"), Word("main")}
=============================================================================
