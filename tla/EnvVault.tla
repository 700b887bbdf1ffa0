------------------------------ MODULE EnvVault ------------------------------
(***************************************************************************)
(* keyabra's env vault: one file of NAME=value lines with two kinds of     *)
(* pointers, NAME__FILE and NAME__CMD, read as a whole or for one name     *)
(* (keyabra/__init__.py) and rewritten in place by `keyabra env` (_cmd_env *)
(* in keyabra/cli.py).                                                     *)
(*                                                                         *)
(* A line is [name, kind, rhs] or Junk, a line without "="; the kind is    *)
(* "value" or the suffix of a pointer.  Files and commands that pointers   *)
(* name are external: they give a value or fail.                           *)
(***************************************************************************)
EXTENDS Selection, FiniteSetsExt, Functions

CONSTANTS
  Names, Values,   \* of secrets
  Pointers,        \* paths and commands
  InitialVaults,   \* what the owner may have written by hand
  Owners           \* invocations of keyabra env set or set-file

Junk == [junk |-> TRUE]
Line(name, kind, rhs) == [name |-> name, kind |-> kind, rhs |-> rhs]
Quoted(v) == <<"quoted", v>>

\* set: a value, as it is typed; set-file: a pointer to a file.
Typed == Values \cup {Quoted(v) : v \in Values}
Entries ==
  {Line(n, "value", t) : n \in Names, t \in Typed}
    \cup {Line(n, "__FILE", p) : n \in Names, p \in Pointers}

\* What a line of the vault may be.
Lines == Entries \cup {Line(n, "__CMD", p) : n \in Names, p \in Pointers} \cup {Junk}

ASSUME VaultAssumption == InitialVaults \subseteq Seq(Lines)

VARIABLES
  vault,     \* [exists, private, lines]
  contents,  \* what each pointer gives: none or one value
  opc,       \* the next call of each invocation
  entry,     \* the line it sets
  snap,      \* the lines it read
  before,    \* auxiliary: what the vault gave for each name when it began
  overlap    \* auxiliary: another invocation was at work, or was killed at it

ownervars == <<opc, entry, snap, before, overlap>>
vaultvars == <<vault, contents, ownervars>>

-----------------------------------------------------------------------------
(* Reading *)

\* _parse_vault_line: one pair of quotes goes.
Unquoted(v) == IF v \in {Quoted(w) : w \in Values} THEN v[2] ELSE v

resolve_vault_entry(line) ==
  IF line.kind = "value" THEN {Unquoted(line.rhs)} ELSE contents[line.rhs]

\* _vault_lines and _parse_vault_line: every line must parse, whatever is
\* asked for.
Readable ==
  /\ vault.exists /\ vault.private
  /\ \A i \in DOMAIN vault.lines : vault.lines[i] # Junk

At(n) == {i \in DOMAIN vault.lines : vault.lines[i].name = n}

\* All entries, none if any fails; the last line for a name wins: the set of
\* values, none or one, of each name.
load_env_file ==
  IF Readable /\ \A i \in DOMAIN vault.lines : resolve_vault_entry(vault.lines[i]) # {}
  THEN [n \in Names |-> IF At(n) = {} THEN {} ELSE resolve_vault_entry(vault.lines[Max(At(n))])]
  ELSE [n \in Names |-> {}]

-----------------------------------------------------------------------------
(* keyabra env set, set-file *)

VaultInit ==
  /\ vault \in {[exists |-> e, private |-> p, lines |-> l] :
                  e, p \in BOOLEAN, l \in InitialVaults \cup {<<>>}}
  /\ ~vault.exists => vault.lines = <<>>
  /\ contents \in [Pointers -> {{v} : v \in Values} \cup {{}}]
  /\ opc = [o \in Owners |-> "idle"]
  /\ entry = [o \in Owners |-> Junk]
  /\ snap = [o \in Owners |-> <<>>]
  /\ before = [o \in Owners |-> load_env_file]
  /\ overlap = FALSE

AtWork(o) == opc[o] \notin {"idle", "done"}

\* set-file takes the path of a file that is there.
SetStarts(o) ==
  /\ opc[o] = "idle"
  /\ \E l \in Entries :
       /\ l.kind = "__FILE" => contents[l.rhs] # {}
       /\ entry' = [entry EXCEPT ![o] = l]
  /\ overlap' = (overlap \/ \E p \in Owners : AtWork(p))
  /\ opc' = [opc EXCEPT ![o] = "ensure"]
  /\ UNCHANGED <<vault, contents, snap, before>>

ensure_vault(o) ==
  /\ opc[o] = "ensure"
  /\ vault' = [vault EXCEPT !.exists = TRUE, !.private = TRUE]
  /\ opc' = [opc EXCEPT ![o] = "read"]
  /\ UNCHANGED <<contents, entry, snap, before, overlap>>

UpsertReads(o) ==
  /\ opc[o] = "read"
  /\ snap' = [snap EXCEPT ![o] = vault.lines]
  /\ before' = [before EXCEPT ![o] = load_env_file]
  /\ opc' = [opc EXCEPT ![o] = "open"]
  /\ UNCHANGED <<vault, contents, entry, overlap>>

\* write_text opens the file, which empties it, ...
UpsertOpens(o) ==
  /\ opc[o] = "open"
  /\ vault' = [vault EXCEPT !.lines = <<>>]
  /\ opc' = [opc EXCEPT ![o] = "write"]
  /\ UNCHANGED <<contents, entry, snap, before, overlap>>

SameKey(l, m) == l # Junk /\ l.name = m.name /\ l.kind = m.kind

\* Mutant: a line that is there is changed where it stands.
upsert_InPlace(lines, l) ==
  IF \E i \in DOMAIN lines : SameKey(lines[i], l)
  THEN [i \in DOMAIN lines |-> IF SameKey(lines[i], l) THEN l ELSE lines[i]]
  ELSE Append(lines, l)

\* Lines with the key go, the new one comes last.
upsert(lines, l) ==
  Append(Only(lines, {m \in Range(lines) : ~SameKey(m, l)}), l)

\* ... and writes it.
UpsertWrites(o) ==
  /\ opc[o] = "write"
  /\ vault' = [vault EXCEPT !.lines = upsert(snap[o], entry[o])]
  /\ opc' = [opc EXCEPT ![o] = "done"]
  /\ UNCHANGED <<contents, entry, snap, before, overlap>>

\* A kill between the two leaves an empty vault.
SetKilled(o) ==
  /\ AtWork(o)
  /\ opc' = [opc EXCEPT ![o] = "done"]
  /\ overlap' = (overlap \/ opc[o] = "write")
  /\ UNCHANGED <<vault, contents, entry, snap, before>>

VaultNext ==
  \E o \in Owners :
    \/ SetStarts(o) \/ ensure_vault(o) \/ UpsertReads(o)
    \/ UpsertOpens(o) \/ UpsertWrites(o) \/ SetKilled(o)

-----------------------------------------------------------------------------
(* Properties *)

\* What env set wrote is what a run gets from then on, although pointers of
\* the same name stay in the file; what it gets for other names stays as it
\* was.  One invocation at a time; a vault that fails as a whole gives nothing,
\* before or after.
LatestSetWins ==
  [][\A o \in Owners : opc[o] = "write" /\ vault'.lines # <<>> /\ ~overlap =>
       \/ \A n \in Names : load_env_file'[n] = {}
       \/ /\ load_env_file'[entry[o].name] = resolve_vault_entry(entry[o])
          /\ \/ \A n \in Names : before[o][n] = {}
             \/ \A n \in Names \ {entry[o].name} : load_env_file'[n] = before[o][n]]_vaultvars
=============================================================================
