----------------------------- MODULE PasteRunner -----------------------------
(***************************************************************************)
(* xadabra: a shell block with placeholders is loaded, its placeholders    *)
(* are filled from --set, the environment, defaults or prompts, a masked   *)
(* preview is shown and approved, the run is written to the history and    *)
(* the block is executed (main and run_pipeline in xadabra/cli.py, with    *)
(* parser.py, fills.py, prompts.py, policy.py, history.py and runner.py).  *)
(*                                                                         *)
(* A script is a sequence of tokens, each followed by white space: a word, *)
(* or a hole, {{...}}, whose inside is a sequence of words and of the      *)
(* signs "!", "|" and ":".  A value is a token as well, so that a value    *)
(* may look like a hole.  Shell, terminal and environment are external.    *)
(***************************************************************************)
EXTENDS Integers, Sequences, FiniteSetsExt

CONSTANTS
  Scripts,       \* blocks that may be loaded
  Overrides,     \* what --set may give: functions from names to values
  Environments,  \* what the environment may hold: the same, for variables
  Answers,       \* what may be typed at a prompt
  Paths          \* values that name something that exists

Word(w) == [word |-> w]
Hole(inner) == [hole |-> inner]
IsHole(t) == "hole" \in DOMAIN t

Mask == Word("*****")
Spell == Word("snx")
Quoted(t) == [quoted |-> t]

VARIABLES
  options,     \* cloud, dry_run, yes, allow_spells; tty: is stdin a terminal?
  overrides,   \* the parsed --set arguments
  environ,     \* the environment
  pc,          \* what run_pipeline does next
  script,      \* the block
  todo,        \* where the placeholders stand that are not filled yet
  values,      \* the value of each name so far
  secrets,     \* names that are secret
  preview,     \* what was shown: none or one
  history,     \* what this invocation wrote to the history: none or one
  ran          \* what the shell was given: none or one

inputs == <<options, overrides, environ>>
effects == <<preview, history, ran>>
vars == <<inputs, pc, script, todo, values, secrets, effects>>

Init ==
  /\ options \in [cloud : BOOLEAN, dry_run : BOOLEAN, yes : BOOLEAN,
                  allow_spells : BOOLEAN, tty : BOOLEAN]
  /\ overrides \in Overrides
  /\ environ \in Environments
  /\ pc = "load"
  /\ script = <<>> /\ todo = {} /\ values = <<>> /\ secrets = {}
  /\ preview = {} /\ history = {} /\ ran = {}

-----------------------------------------------------------------------------
(* parser.py *)

\* str.split(sign, 1) and str.rsplit(sign, 1): <<before, after>>.
At(s, sign) == {i \in DOMAIN s : s[i] = sign}
SplitAt(s, i) == <<SubSeq(s, 1, i - 1), SubSeq(s, i + 1, Len(s))>>
Split(s, sign) == IF At(s, sign) = {} THEN <<s, <<>>>> ELSE SplitAt(s, Min(At(s, sign)))
RSplit(s, sign) == IF At(s, sign) = {} THEN <<s, <<>>>> ELSE SplitAt(s, Max(At(s, sign)))

\* {{!NAME|type:Question:default}}; <<>> stands for None.
parse_placeholder_inner(inner) ==
  LET secret == inner # <<>> /\ Head(inner) = "!"
      parts == Split(IF secret THEN Tail(inner) ELSE inner, ":")
      named == Split(parts[1], "|")
  IN  [name |-> named[1], ptype |-> named[2], secret |-> secret,
       default |-> RSplit(parts[2], ":")[2]]

Placeholder(t) == parse_placeholder_inner(t.hole)

Name(t) == Placeholder(t).name

\* Each name once: the places where it is first seen, as it is written there.
find_placeholders(s) ==
  {i \in DOMAIN s : IsHole(s[i]) /\ \A j \in 1..i - 1 : IsHole(s[j]) => Name(s[j]) # Name(s[i])}

\* Mutant: only what is marked in its place is masked.
substitute_MarkedOnly(s, mask) ==
  [i \in DOMAIN s |->
     IF ~IsHole(s[i]) \/ Name(s[i]) \notin DOMAIN values THEN s[i]
     ELSE IF Placeholder(s[i]).secret THEN Mask
     ELSE values[Name(s[i])]]

\* For the eye: secrets are masked, wherever their name stands.
substitute(s, mask) ==
  [i \in DOMAIN s |->
     IF ~IsHole(s[i]) \/ Name(s[i]) \notin DOMAIN values THEN s[i]
     ELSE IF Placeholder(s[i]).secret \/ Name(s[i]) \in mask THEN Mask
     ELSE values[Name(s[i])]]

Filled(t) ==
  IF IsHole(t) /\ Name(t) \in DOMAIN values
  THEN values[Name(t)] ELSE t

\* Mutant: what a value brings with it is filled as well.
substitute_for_run_Again(s) == [i \in DOMAIN s |-> Filled(Filled(s[i]))]

\* For the shell: one pass over the script as it was written.
substitute_for_run(s) == [i \in DOMAIN s |-> Filled(s[i])]

\* policy.py, on a block that ends with its line: snx (or python -m snax) as a
\* word of its own is a spell; what has it inside a word, (snx or $(snx, is not.
script_uses_spells(s) == \E i \in DOMAIN s : s[i] = Spell

-----------------------------------------------------------------------------
(* fills.py and prompts.py *)

env_var_name(name) == <<"XADABRA">> \o name

\* --set, XADABRA_NAME, NAME, the default, in this order: none or one value.
prefill_placeholder(ph) ==
  IF ph.name \in DOMAIN overrides THEN {overrides[ph.name]}
  ELSE IF env_var_name(ph.name) \in DOMAIN environ THEN {environ[env_var_name(ph.name)]}
  ELSE IF ph.name \in DOMAIN environ THEN {environ[ph.name]}
  ELSE IF ph.default # <<>> THEN {Word(ph.default[1])}
  ELSE {}

\* Quotes go.
normalize_path_input(t) == IF "quoted" \in DOMAIN t THEN t.quoted ELSE t

IsPath(ph) == ph.ptype = <<"path">>
Valid(ph, t) == IsPath(ph) => normalize_path_input(t) \in Paths
Taken(ph, t) == IF IsPath(ph) THEN normalize_path_input(t) ELSE t

-----------------------------------------------------------------------------
(* The pipeline *)

Exit ==
  /\ pc' = "exit"
  /\ UNCHANGED <<inputs, script, todo, values, secrets, effects>>

\* A --set without a name, no file, no clipboard, cloud without a source, an
\* empty block.
LoadFails == pc = "load" /\ Exit

load_script ==
  /\ pc = "load"
  /\ script' \in Scripts
  /\ todo' = find_placeholders(script')
  /\ pc' = "fill"
  /\ UNCHANGED <<inputs, values, secrets, effects>>

\* The place that is due, in the order of the block, and what it gets unasked.
Due == {i \in todo : pc = "fill" /\ \A j \in todo : i <= j}
Given(i) == prefill_placeholder(Placeholder(script[i]))

\* The name is noted as secret before its value is known.
Fill(i, t) ==
  LET ph == Placeholder(script[i]) IN
    /\ Valid(ph, t)
    /\ values' = [n \in DOMAIN values \cup {ph.name} |->
                    IF n = ph.name THEN Taken(ph, t) ELSE values[n]]
    /\ secrets' = IF ph.secret THEN secrets \cup {ph.name} ELSE secrets
    /\ todo' = todo \ {i}
    /\ UNCHANGED <<inputs, pc, script, effects>>

\* collect_values.
Prefill == \E i \in Due : \E t \in Given(i) : Fill(i, t)

\* A value that is given and is no path ends the run.
PrefillFails ==
  /\ \E i \in Due : \E t \in Given(i) : ~Valid(Placeholder(script[i]), t)
  /\ Exit

\* In the cloud nobody is asked; elsewhere the input may end at the prompt.
Missing == (\E i \in Due : Given(i) = {}) /\ Exit

\* At the prompt, what is no path is asked again.
prompt_for_placeholder ==
  /\ ~options.cloud
  /\ \E i \in Due, t \in Answers : Given(i) = {} /\ Fill(i, t)

Preview ==
  /\ pc = "fill" /\ todo = {}
  /\ preview' = {substitute(script, secrets)}
  /\ pc' = IF options.dry_run THEN "exit" ELSE "confirm"
  /\ UNCHANGED <<inputs, script, todo, values, secrets, history, ran>>

\* Nobody is asked with --yes, in the cloud, or without a terminal.
Asked == options.tty /\ ~options.yes /\ ~options.cloud

confirm_run ==
  /\ pc = "confirm"
  /\ pc' = "policy"
  /\ UNCHANGED <<inputs, script, todo, values, secrets, effects>>

Decline == pc = "confirm" /\ Asked /\ Exit

Blocked ==
  /\ options.cloud /\ ~options.allow_spells
  /\ script_uses_spells(substitute_for_run(script))

PolicyBlocks == pc = "policy" /\ Blocked /\ Exit

\* Mutant: what is run is written, secret or not.
append_run_AsRun ==
  /\ pc = "policy" /\ ~Blocked
  /\ history' = {substitute_for_run(script)}
  /\ pc' = "execute"
  /\ UNCHANGED <<inputs, script, todo, values, secrets, preview, ran>>

\* The history has the masked block if any name is secret, else what is run.
append_run ==
  /\ pc = "policy" /\ ~Blocked
  /\ history' = {IF secrets = {} THEN substitute_for_run(script)
                                 ELSE substitute(script, secrets)}
  /\ pc' = "execute"
  /\ UNCHANGED <<inputs, script, todo, values, secrets, preview, ran>>

execute_script ==
  /\ pc = "execute"
  /\ ran' = {substitute_for_run(script)}
  /\ pc' = "exit"
  /\ UNCHANGED <<inputs, script, todo, values, secrets, preview, history>>

Next ==
  \/ LoadFails \/ load_script
  \/ Prefill \/ PrefillFails \/ Missing \/ prompt_for_placeholder
  \/ Preview \/ confirm_run \/ Decline \/ PolicyBlocks
  \/ append_run \/ execute_script

Spec == Init /\ [][Next]_vars

-----------------------------------------------------------------------------
(* Properties *)

MarkedFirst(name) ==
  \E i \in DOMAIN script :
    /\ IsHole(script[i]) /\ Name(script[i]) = name /\ Placeholder(script[i]).secret
    /\ \A j \in 1..i - 1 : IsHole(script[j]) => Name(script[j]) # name

MarkedSomewhere(name) ==
  \E i \in DOMAIN script :
    IsHole(script[i]) /\ Name(script[i]) = name /\ Placeholder(script[i]).secret

\* The shell is given, token for token, what the preview showed; the preview
\* hides nothing but names that are secret.  Values are filled in once: one
\* that looks like a hole stays as it is.
PreviewIsRun ==
  \A shown \in preview, run \in ran :
    /\ DOMAIN shown = DOMAIN run
    /\ \A i \in DOMAIN run :
         \/ shown[i] = run[i]
         \/ /\ shown[i] = Mask /\ IsHole(script[i])
            /\ MarkedSomewhere(Name(script[i]))

\* "Secrets masked as ***** in previews and history": a name that is marked
\* secret where it is first seen shows its value in no place, marked or not.
SecretsStayHidden ==
  \A text \in preview \cup history, i \in DOMAIN script :
    IsHole(script[i]) /\ MarkedFirst(Name(script[i])) => text[i] = Mask
=============================================================================
