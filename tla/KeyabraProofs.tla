--------------------------- MODULE KeyabraProofs ----------------------------
(***************************************************************************)
(* keyabra's commands: env set and what a reading of the vault             *)
(* gives afterwards, copy and its watcher, and the secret rites.  For any  *)
(* vault, any number of invocations and any other copies.                  *)
(***************************************************************************)
EXTENDS Keyabra, SelectionProofs, TLAPS

(* EnvVault *)

\* What a reading of the lines s gives when the pointers give c.
Resolved(c, l) == IF l.kind = "value" THEN {Unquoted(l.rhs)} ELSE c[l.rhs]
Loads(c, s) == \A i \in DOMAIN s : s[i] # Junk /\ Resolved(c, s[i]) # {}
Where(s, n) == {i \in DOMAIN s : s[i].name = n}
Given(c, s, n) == IF Where(s, n) = {} THEN {} ELSE Resolved(c, s[Max(Where(s, n))])
Gives(c, s) == IF Loads(c, s) THEN [n \in Names |-> Given(c, s, n)] ELSE [n \in Names |-> {}]

LEMMA Reading ==
  ASSUME vault.exists, vault.private
  PROVE  load_env_file = Gives(contents, vault.lines)
BY DEF load_env_file, Readable, resolve_vault_entry, At,
       Gives, Loads, Given, Where, Resolved

LEMMA ReadingNext ==
  ASSUME vault'.exists, vault'.private, contents' = contents
  PROVE  load_env_file' = Gives(contents, vault'.lines)
BY DEF load_env_file, Readable, resolve_vault_entry, At,
       Gives, Loads, Given, Where, Resolved

\* The greatest element, where there is one.
LEMMA MaxIs ==
  ASSUME NEW S \in SUBSET Nat, NEW k \in S, \A y \in S : y <= k
  PROVE  Max(S) = k
<1> DEFINE P(x) == x \in S /\ \A y \in S : x >= y
<1>1. P(k)
  OBVIOUS
<1>2. Max(S) = CHOOSE x : P(x)
  BY DEF Max
<1>3. P(CHOOSE x : P(x))
  <2> HIDE DEF P
  <2> QED BY <1>1
<1>4. PICK x \in S : x = Max(S) /\ x >= k
  BY <1>2, <1>3
<1>5. x <= k /\ x \in Nat /\ k \in Nat
  OBVIOUS
<1>6. x = k
  BY <1>4, <1>5
<1>7. QED
  BY <1>4, <1>6

\* The lines that upsert keeps of s.
Others(s, l) == Only(s, {m \in Range(s) : ~SameKey(m, l)})

LEMMA OthersType ==
  ASSUME NEW T, NEW s \in Seq(T), NEW l
  PROVE  Others(s, l) \in Seq(T)
<1>1. \A S : Seq(T \cap S) \subseteq Seq(T)
  OBVIOUS
<1>2. QED
  BY <1>1, OnlyFacts DEF Others

\* The new line is the last of its name.
LEMMA NewLineWins ==
  ASSUME NEW T, NEW s \in Seq(T), NEW l \in T, NEW c
  PROVE  Given(c, upsert(s, l), l.name) = Resolved(c, l)
<1>1. PICK t \in Seq(T) : t = Others(s, l)
  BY OthersType
<1>2. PICK m \in Nat : m = Len(t)
  OBVIOUS
<1> DEFINE new == Append(t, l)
<1>3. upsert(s, l) = new
  BY <1>1 DEF upsert, Others
<1>4. DOMAIN new = 1..(m + 1) /\ new[m + 1] = l
  BY <1>2
<1> HIDE DEF new
<1>5. m + 1 \in Where(new, l.name) /\ Where(new, l.name) \subseteq 1..(m + 1)
  BY <1>4 DEF Where
<1>6. Max(Where(new, l.name)) = m + 1
  BY <1>5, MaxIs
<1>7. QED
  BY <1>3, <1>4, <1>5, <1>6 DEF Given

\* A line of another name is not touched, and none of them passes another.
LEMMA OthersStay ==
  ASSUME NEW T, NEW s \in Seq(T), NEW l \in T, NEW c, NEW n,
         \A i \in DOMAIN s : s[i] # Junk, n # l.name
  PROVE  Given(c, upsert(s, l), n) = Given(c, s, n)
<1>1. PICK t \in Seq(T) : t = Others(s, l)
  BY OthersType
<1>2. PICK m \in Nat : m = Len(t)
  OBVIOUS
<1>3. PICK k \in Nat : k = Len(s)
  OBVIOUS
<1> DEFINE new == Append(t, l)
           S == {x \in Range(s) : ~SameKey(x, l)}
<1>4. upsert(s, l) = new
  BY <1>1 DEF upsert, Others
<1>5. /\ DOMAIN new = 1..(m + 1) /\ new[m + 1] = l
      /\ \A i \in 1..m : new[i] = t[i]
  BY <1>2
<1>6. PICK h : Places(h, t, s, k, S)
  BY <1>1, <1>3, OnlyFacts DEF Others
<1>7. /\ h \in [1..m -> 1..k]
      /\ \A i, j \in 1..m : i < j => h[i] < h[j]
      /\ \A i \in 1..m : t[i] = s[h[i]]
      /\ \A i \in 1..k : s[i] \in S => \E j \in 1..m : h[j] = i
  BY <1>2, <1>6 DEF Places
<1>8. DOMAIN s = 1..k
  BY <1>3
<1>9. \A i \in 1..k : s[i].name = n => s[i] \in S
  BY <1>8 DEF SameKey, Range
<1> HIDE DEF new, S
<1>10. Where(s, n) \subseteq 1..k /\ Where(new, n) \subseteq 1..m
  <2>1. m + 1 \notin Where(new, n)
    BY <1>5 DEF Where
  <2>2. Where(new, n) \subseteq 1..(m + 1)
    BY <1>5 DEF Where
  <2>3. QED
    BY <1>8, <2>1, <2>2 DEF Where
<1>11. \A i \in Where(new, n) : h[i] \in Where(s, n)
  BY <1>5, <1>7, <1>8, <1>10 DEF Where
<1>12. \A i \in Where(s, n) : \E j \in Where(new, n) : h[j] = i
  <2> SUFFICES ASSUME NEW i \in Where(s, n) PROVE \E j \in Where(new, n) : h[j] = i
    OBVIOUS
  <2>1. i \in 1..k /\ s[i].name = n
    BY <1>10 DEF Where
  <2>2. PICK j \in 1..m : h[j] = i
    BY <1>7, <1>9, <2>1
  <2>3. j \in 1..(m + 1) /\ new[j] = s[i]
    BY <1>5, <1>7, <2>2
  <2>4. QED
    BY <1>5, <2>1, <2>2, <2>3 DEF Where
<1>13. CASE Where(s, n) = {}
  <2>1. Where(new, n) = {}
    BY <1>11, <1>13
  <2>2. QED
    BY <1>4, <1>13, <2>1 DEF Given
<1>14. CASE Where(s, n) # {}
  <2>1. PICK i \in Where(s, n) : \A y \in Where(s, n) : i >= y
    BY <1>10, <1>14, GreatestOf
  <2>2. PICK j \in Where(new, n) : h[j] = i
    BY <1>12
  <2>3. ASSUME NEW y \in Where(new, n) PROVE y <= j
    <3>1. y \in 1..m /\ j \in 1..m /\ h[y] \in 1..k /\ i \in 1..k
      BY <1>7, <1>10
    <3>2. h[y] <= h[j]
      BY <1>11, <2>1, <2>2, <3>1
    <3>3. QED
      BY <1>7, <2>2, <3>1, <3>2
  <2>4. Max(Where(s, n)) = i
    <3>1. Where(s, n) \in SUBSET Nat /\ \A y \in Where(s, n) : y <= i
      BY <1>10, <2>1
    <3>2. QED
      BY <3>1, MaxIs
  <2>5. Max(Where(new, n)) = j
    <3>1. Where(new, n) \in SUBSET Nat
      BY <1>10
    <3>2. QED
      BY <2>3, <3>1, MaxIs
  <2>6. new[j] = s[i]
    BY <1>5, <1>7, <1>10, <2>2
  <2>7. QED
    BY <1>4, <1>14, <2>2, <2>4, <2>5, <2>6 DEF Given
<1>15. QED
  BY <1>13, <1>14

\* What the lines give after l is set, if they gave before what they did.
LEMMA SetGives ==
  ASSUME NEW T, NEW s \in Seq(T), NEW l \in T, NEW c, l.name \in Names
  PROVE  \/ \A n \in Names : Gives(c, upsert(s, l))[n] = {}
         \/ /\ Gives(c, upsert(s, l))[l.name] = Resolved(c, l)
            /\ \/ \A n \in Names : Gives(c, s)[n] = {}
               \/ \A n \in Names \ {l.name} : Gives(c, upsert(s, l))[n] = Gives(c, s)[n]
<1> DEFINE new == upsert(s, l)
<1>1. CASE ~Loads(c, new)
  BY <1>1 DEF Gives
<1>2. CASE Loads(c, new)
  <2>1. \A n \in Names : Gives(c, new)[n] = Given(c, new, n)
    BY <1>2 DEF Gives
  <2>2. Gives(c, new)[l.name] = Resolved(c, l)
    BY <2>1, NewLineWins
  <2>3. CASE ~Loads(c, s)
    BY <2>2, <2>3 DEF Gives
  <2>4. CASE Loads(c, s)
    <3>1. \A n \in Names : Gives(c, s)[n] = Given(c, s, n)
      BY <2>4 DEF Gives
    <3>2. \A i \in DOMAIN s : s[i] # Junk
      BY <2>4 DEF Loads
    <3>3. \A n \in Names \ {l.name} : Given(c, new, n) = Given(c, s, n)
      BY <3>2, OthersStay
    <3>4. QED
      BY <2>1, <2>2, <3>1, <3>3
  <2>5. QED
    BY <2>3, <2>4
<1>3. QED
  BY <1>1, <1>2

-----------------------------------------------------------------------------

OwnerCalls == {"idle", "ensure", "read", "open", "write", "done"}

\* What the invocations of env set rely on: alone at work, the one that writes
\* finds the file as it left it, empty; no one takes the file or its mode back;
\* what the vault gave when the lines were read is what those lines give.
VaultShape ==
  /\ vault = [exists |-> vault.exists, private |-> vault.private, lines |-> vault.lines]
  /\ vault.lines \in Seq(Lines)
  /\ opc \in [Owners -> OwnerCalls]
  /\ DOMAIN before = Owners
  /\ overlap \in BOOLEAN
  /\ snap \in [Owners -> Seq(Lines)]
  /\ DOMAIN entry = Owners /\ \A o \in Owners : opc[o] # "idle" => entry[o] \in Entries

Alone == ~overlap => \A o, q \in Owners : AtWork(o) /\ AtWork(q) => o = q
Emptied == ~overlap => \A o \in Owners : opc[o] = "write" => vault.lines = <<>>
Ensured ==
  \A o \in Owners : opc[o] \in {"read", "open", "write"} => vault.exists /\ vault.private
Remembered ==
  \A o \in Owners : opc[o] \in {"open", "write"} => before[o] = Gives(contents, snap[o])

VaultInv == VaultShape /\ Alone /\ Emptied /\ Ensured /\ Remembered

LEMMA VaultInitial == VaultInit => VaultInv
<1> SUFFICES ASSUME VaultInit PROVE VaultInv
  OBVIOUS
<1>0. vault = [exists |-> vault.exists, private |-> vault.private, lines |-> vault.lines]
  BY DEF VaultInit
<1>1. vault.lines \in Seq(Lines)
  <2>1. vault.lines \in InitialVaults \cup {<<>>}
    BY DEF VaultInit
  <2>2. <<>> \in Seq(Lines)
    OBVIOUS
  <2>3. QED
    BY <2>1, <2>2, VaultAssumption
<1>2. snap \in [Owners -> Seq(Lines)]
  BY DEF VaultInit
<1>3. \A o \in Owners : opc[o] = "idle"
  BY DEF VaultInit
<1>4. opc \in [Owners -> OwnerCalls]
  BY DEF VaultInit, OwnerCalls
<1>5. DOMAIN before = Owners /\ overlap \in BOOLEAN /\ DOMAIN entry = Owners
  BY DEF VaultInit
<1>6. VaultShape
  BY <1>0, <1>1, <1>2, <1>3, <1>4, <1>5 DEF VaultShape
<1>7. QED
  BY <1>3, <1>6 DEF VaultInv, Alone, Emptied, Ensured, Remembered, AtWork

LEMMA EntryIsLine == Entries \subseteq Lines
BY DEF Lines

LEMMA LineName ==
  ASSUME NEW S, NEW kind, NEW l \in {Line(n, kind, x) : n \in Names, x \in S}
  PROVE  l.name \in Names
<1>1. PICK n \in Names : \E x \in S : l = Line(n, kind, x)
  OBVIOUS
<1>2. QED
  BY <1>1 DEF Line

LEMMA EntryName ==
  ASSUME NEW l \in Entries
  PROVE  l.name \in Names
<1>1. \/ l \in {Line(n, "value", t) : n \in Names, t \in Typed}
      \/ l \in {Line(n, "__FILE", p) : n \in Names, p \in Pointers}
  BY DEF Entries
<1>2. QED
  BY <1>1, LineName

LEMMA UpsertType ==
  ASSUME NEW T, NEW s \in Seq(T), NEW l \in T
  PROVE  upsert(s, l) \in Seq(T)
<1>1. Others(s, l) \in Seq(T)
  BY OthersType
<1>2. QED
  BY <1>1 DEF upsert, Others

LEMMA SetStartsStep ==
  ASSUME VaultInv, NEW o \in Owners, SetStarts(o)
  PROVE  VaultInv'
<1> USE DEF VaultInv, SetStarts
<1>1. PICK l \in Entries : entry' = [entry EXCEPT ![o] = l]
  OBVIOUS
<1>2. opc' = [opc EXCEPT ![o] = "ensure"] /\ opc[o] = "idle"
  OBVIOUS
<1>3. VaultShape'
  BY <1>1, <1>2 DEF VaultShape, OwnerCalls
<1>4. Alone'
  BY <1>2 DEF Alone, AtWork, VaultShape
<1>5. Emptied' /\ Ensured'
  BY <1>2 DEF Emptied, Ensured, VaultShape
<1>6. Remembered'
  BY <1>2 DEF Remembered, VaultShape
<1>7. QED
  BY <1>3, <1>4, <1>5, <1>6

LEMMA EnsureStep ==
  ASSUME VaultInv, NEW o \in Owners, ensure_vault(o)
  PROVE  VaultInv'
<1> USE DEF VaultInv, ensure_vault
<1>1. vault'.exists /\ vault'.private /\ vault'.lines = vault.lines
  BY DEF VaultShape
<1>2. VaultShape'
  BY <1>1 DEF VaultShape, OwnerCalls
<1>3. Alone'
  BY DEF Alone, AtWork, VaultShape
<1>4. Emptied' /\ Ensured'
  BY <1>1 DEF Emptied, Ensured, VaultShape
<1>5. Remembered'
  BY DEF Remembered, VaultShape
<1>6. QED
  BY <1>2, <1>3, <1>4, <1>5

LEMMA ReadStep ==
  ASSUME VaultInv, NEW o \in Owners, UpsertReads(o)
  PROVE  VaultInv'
<1> USE DEF VaultInv, UpsertReads
<1>1. VaultShape'
  BY DEF VaultShape, OwnerCalls
<1>2. Alone'
  BY DEF Alone, AtWork, VaultShape
<1>3. Emptied' /\ Ensured'
  BY DEF Emptied, Ensured, VaultShape
<1>4. before'[o] = Gives(contents, snap'[o])
  <2>1. vault.exists /\ vault.private
    BY DEF Ensured
  <2>2. before'[o] = load_env_file /\ snap'[o] = vault.lines
    BY DEF VaultShape
  <2>3. QED
    BY <2>1, <2>2, Reading
<1>5. \A q \in Owners \ {o} : before'[q] = before[q] /\ snap'[q] = snap[q] /\ opc'[q] = opc[q]
  BY DEF VaultShape
<1>6. Remembered'
  BY <1>4, <1>5 DEF Remembered
<1>7. QED
  BY <1>1, <1>2, <1>3, <1>6

LEMMA OpenStep ==
  ASSUME VaultInv, NEW o \in Owners, UpsertOpens(o)
  PROVE  VaultInv'
<1> USE DEF VaultInv, UpsertOpens
<1>1. vault'.exists = vault.exists /\ vault'.private = vault.private /\ vault'.lines = <<>>
  BY DEF VaultShape
<1>2. <<>> \in Seq(Lines)
  OBVIOUS
<1>3. VaultShape'
  BY <1>1, <1>2 DEF VaultShape, OwnerCalls
<1>4. Alone'
  BY DEF Alone, AtWork, VaultShape
<1>5. Emptied' /\ Ensured'
  BY <1>1 DEF Emptied, Ensured, VaultShape
<1>6. Remembered'
  BY DEF Remembered, VaultShape
<1>7. QED
  BY <1>3, <1>4, <1>5, <1>6

LEMMA WriteStep ==
  ASSUME VaultInv, NEW o \in Owners, UpsertWrites(o)
  PROVE  VaultInv'
<1> USE DEF VaultInv, UpsertWrites
<1>1. /\ vault'.exists = vault.exists /\ vault'.private = vault.private
      /\ vault'.lines = upsert(snap[o], entry[o])
  BY DEF VaultShape
<1>2. vault'.lines \in Seq(Lines)
  <2>1. snap[o] \in Seq(Lines) /\ entry[o] \in Lines
    BY EntryIsLine DEF VaultShape
  <2>2. QED
    BY <1>1, <2>1, UpsertType
<1>3. VaultShape'
  BY <1>1, <1>2 DEF VaultShape, OwnerCalls
<1>4. Alone'
  BY DEF Alone, AtWork, VaultShape
<1>5. Emptied'
  <2> SUFFICES ASSUME ~overlap, NEW q \in Owners, opc'[q] = "write" PROVE FALSE
    BY DEF Emptied
  <2>1. q # o /\ opc[q] = "write"
    BY DEF VaultShape
  <2>2. QED
    BY <2>1 DEF Alone, AtWork
<1>6. Ensured'
  BY <1>1 DEF Ensured, VaultShape
<1>7. Remembered'
  BY DEF Remembered, VaultShape
<1>8. QED
  BY <1>3, <1>4, <1>5, <1>6, <1>7

LEMMA KilledStep ==
  ASSUME VaultInv, NEW o \in Owners, SetKilled(o)
  PROVE  VaultInv'
<1> USE DEF VaultInv, SetKilled
<1>1. VaultShape'
  BY DEF VaultShape, OwnerCalls, AtWork
<1>2. Alone'
  BY DEF Alone, AtWork, VaultShape
<1>3. Emptied' /\ Ensured'
  BY DEF Emptied, Ensured, VaultShape
<1>4. Remembered'
  BY DEF Remembered, VaultShape
<1>5. QED
  BY <1>1, <1>2, <1>3, <1>4

\* Nothing but an invocation of env set changes the vault.
LEMMA VaultOrElse == [Next]_vars => VaultNext \/ UNCHANGED vaultvars
BY DEF Next, vars, Copying, Watcher, Load, LoadFails, ClearContents, SetType,
       ConcealFails, ConcealEnds, CopyPlainly, Spawn, CopyEnds, Look,
       ClearClipboard, ToolFails, UserCopies, Poll

LEMMA VaultInductive == VaultInv /\ [Next]_vars => VaultInv'
<1> SUFFICES ASSUME VaultInv, VaultNext \/ UNCHANGED vaultvars PROVE VaultInv'
  BY VaultOrElse
<1>1. CASE UNCHANGED vaultvars
  BY <1>1 DEF vaultvars, ownervars, VaultInv, VaultShape, Alone, AtWork, Emptied,
              Ensured, Remembered
<1>2. CASE VaultNext
  BY <1>2, SetStartsStep, EnsureStep, ReadStep, OpenStep, WriteStep, KilledStep
     DEF VaultNext
<1>3. QED
  BY <1>1, <1>2

LEMMA VaultInvariance == Spec => []VaultInv
<1>1. Init => VaultInv
  BY VaultInitial DEF Init
<1>2. QED
  BY <1>1, VaultInductive, PTL DEF Spec

\* What a step of LatestSetWins may do.
SetWon(o) ==
  \/ \A n \in Names : load_env_file'[n] = {}
  \/ /\ load_env_file'[entry[o].name] = resolve_vault_entry(entry[o])
     /\ \/ \A n \in Names : before[o][n] = {}
        \/ \A n \in Names \ {entry[o].name} : load_env_file'[n] = before[o][n]

LEMMA WriteWins ==
  ASSUME VaultInv, NEW o \in Owners, UpsertWrites(o)
  PROVE  SetWon(o)
<1> DEFINE s == snap[o]
           l == entry[o]
<1>1. /\ s \in Seq(Lines) /\ l \in Lines /\ l.name \in Names
      /\ vault.exists /\ vault.private /\ contents' = contents
      /\ vault'.exists = vault.exists /\ vault'.private = vault.private
      /\ vault'.lines = upsert(s, l)
  <2>1. l \in Entries
    BY DEF VaultInv, VaultShape, UpsertWrites
  <2>2. l.name \in Names
    BY <2>1, EntryName
  <2>3. QED
    BY <2>1, <2>2, EntryIsLine DEF VaultInv, VaultShape, Ensured, UpsertWrites
<1>2. load_env_file' = Gives(contents, upsert(s, l))
  BY <1>1, ReadingNext
<1>3. before[o] = Gives(contents, s)
  BY DEF VaultInv, Remembered, UpsertWrites
<1>4. resolve_vault_entry(l) = Resolved(contents, l)
  BY DEF resolve_vault_entry, Resolved
<1> HIDE DEF s, l
<1>5. \/ \A n \in Names : Gives(contents, upsert(s, l))[n] = {}
      \/ /\ Gives(contents, upsert(s, l))[l.name] = Resolved(contents, l)
         /\ \/ \A n \in Names : Gives(contents, s)[n] = {}
            \/ \A n \in Names \ {l.name} :
                 Gives(contents, upsert(s, l))[n] = Gives(contents, s)[n]
  BY <1>1, SetGives
<1>6. QED
  BY <1>2, <1>3, <1>4, <1>5 DEF SetWon, l

\* A step that writes to a vault which one invocation has emptied is its own.
LEMMA WriterWrites ==
  ASSUME VaultInv, VaultNext \/ UNCHANGED vaultvars, NEW o \in Owners,
         opc[o] = "write", vault'.lines # <<>>, ~overlap
  PROVE  UpsertWrites(o)
<1>1. vault.lines = <<>>
  BY DEF VaultInv, Emptied
<1>2. vault' # vault
  BY <1>1
<1>3. PICK q \in Owners : ensure_vault(q) \/ UpsertOpens(q) \/ UpsertWrites(q)
  BY <1>2 DEF VaultNext, SetStarts, UpsertReads, SetKilled, vaultvars
<1>4. AtWork(q) /\ AtWork(o)
  BY <1>3 DEF ensure_vault, UpsertOpens, UpsertWrites, AtWork
<1>5. q = o
  BY <1>4 DEF VaultInv, Alone
<1>6. QED
  BY <1>3, <1>5 DEF ensure_vault, UpsertOpens

\* What env set wrote is what a run gets from then on, and it gets for other
\* names what it got, for any vault, any names and any pointers.
THEOREM SetWins == Spec => LatestSetWins
<1>1. ASSUME VaultInv, [Next]_vars, ~UNCHANGED vaultvars,
             NEW o \in Owners, opc[o] = "write", vault'.lines # <<>>, ~overlap
      PROVE  SetWon(o)
  BY <1>1, VaultOrElse, WriterWrites, WriteWins
<1>2. VaultInv /\ [Next]_vars =>
        [\A o \in Owners : opc[o] = "write" /\ vault'.lines # <<>> /\ ~overlap =>
           \/ \A n \in Names : load_env_file'[n] = {}
           \/ /\ load_env_file'[entry[o].name] = resolve_vault_entry(entry[o])
              /\ \/ \A n \in Names : before[o][n] = {}
                 \/ \A n \in Names \ {entry[o].name} : load_env_file'[n] = before[o][n]]_vaultvars
  BY <1>1 DEF SetWon
<1>3. QED
  BY <1>2, VaultInvariance, PTL DEF Spec, LatestSetWins

-----------------------------------------------------------------------------
(* ClipboardCopy *)

Calls == {"load", "clear", "conceal", "plain", "ends", "pbcopy", "spawn",
          "sleep", "clearing", "failed", "gone"}

\* The variables have the shape that the steps change them in.
Shape ==
  /\ cpc \in [Copies -> Calls]
  /\ pasteboard = [owner |-> pasteboard.owner, concealed |-> pasteboard.concealed,
                   text |-> pasteboard.text, fresh |-> pasteboard.fresh]
  /\ DOMAIN since = Copies

\* What poll may take for an ordinary text was copied without concealing it:
\* between the two types, the one who is to set the string has set the other,
\* and the types in hand are those of the pasteboard until it changes.
ConcealInv ==
  /\ ~pasteboard.concealed => pasteboard.text \subseteq exposed
  /\ \A c \in Copies : pasteboard.owner = {c} /\ cpc[c] = "plain" => pasteboard.concealed
  /\ recorded \subseteq exposed
  /\ polling = "string" /\ ~moved /\ types = {} => ~pasteboard.concealed

\* What is on the clipboard of one who is about to clear it.
ClearInv ==
  \A c \in Copies : cpc[c] = "clearing" => pasteboard.text \subseteq watched[c] \cup since[c]

IInv == Shape /\ ConcealInv /\ ClearInv

LEMMA Initial == Init => IInv
BY DEF Init, IInv, Shape, ConcealInv, ClearInv, Calls

\* Each step of an invocation keeps the invariant.
LEMMA CopyingStep ==
  ASSUME IInv, NEW c \in Copies, Copying(c)
  PROVE  IInv'
<1> USE DEF IInv, Shape, ConcealInv, ClearInv, Calls, Goto, auxiliary, reads
<1>1. CASE Load(c)
  BY <1>1 DEF Load
<1>2. CASE LoadFails(c)
  BY <1>2 DEF LoadFails
<1>3. CASE ClearContents(c)
  BY <1>3 DEF ClearContents, Take
<1>4. CASE SetType(c)
  <2>1. CASE cpc[c] = "conceal"
    BY <1>4, <2>1 DEF SetType, Added
  <2>2. CASE cpc[c] = "plain"
    BY <1>4, <2>2 DEF SetType, Added
  <2> QED BY <1>4, <2>1, <2>2 DEF SetType
<1>5. CASE ConcealFails(c)
  BY <1>5 DEF ConcealFails
<1>6. CASE ConcealEnds(c)
  BY <1>6 DEF ConcealEnds
<1>7. CASE CopyPlainly(c)
  BY <1>7 DEF CopyPlainly, Take
<1>8. CASE Spawn(c)
  BY <1>8 DEF Spawn
<1>9. CASE CopyEnds(c)
  BY <1>9 DEF CopyEnds
<1> QED
  BY <1>1, <1>2, <1>3, <1>4, <1>5, <1>6, <1>7, <1>8, <1>9 DEF Copying

LEMMA Inductive == IInv /\ [Next]_vars => IInv'
<1> SUFFICES ASSUME IInv, [Next]_vars PROVE IInv'
  OBVIOUS
<1>1. CASE VaultNext /\ UNCHANGED <<pasteboard, cpc, line, watched, auxiliary>>
  BY <1>1 DEF IInv, Shape, ConcealInv, ClearInv, auxiliary, reads
<1>2. ASSUME NEW c \in Copies, Copying(c) PROVE IInv'
  BY <1>2, CopyingStep
<1>3. ASSUME NEW c \in Copies, Look(c) PROVE IInv'
  BY <1>3 DEF Look, StillThere, Goto, IInv, Shape, ConcealInv, ClearInv, Calls, auxiliary, reads
<1>4. ASSUME NEW c \in Copies, ClearClipboard(c) PROVE IInv'
  BY <1>4 DEF ClearClipboard, Take, reads, Goto, IInv, Shape, ConcealInv, ClearInv, Calls
<1>8. ASSUME NEW c \in Copies, ToolFails(c) PROVE IInv'
  BY <1>8 DEF ToolFails, Goto, IInv, Shape, ConcealInv, ClearInv, Calls, auxiliary, reads
<1>5. CASE UserCopies
  BY <1>5 DEF UserCopies, Take, reads, IInv, Shape, ConcealInv, ClearInv, Calls
<1>6. CASE Poll
  <2>1. CASE PollSees
    BY <1>6, <2>1 DEF Poll, PollSees, IInv, Shape, ConcealInv, ClearInv
  <2>2. CASE PollReadsTypes
    BY <1>6, <2>2 DEF Poll, PollReadsTypes, IInv, Shape, ConcealInv, ClearInv
  <2>3. CASE PollReadsString
    BY <1>6, <2>3 DEF Poll, PollReadsString, IInv, Shape, ConcealInv, ClearInv
  <2> QED BY <1>6, <2>1, <2>2, <2>3 DEF Poll
<1>7. CASE UNCHANGED vars
  BY <1>7 DEF vars, auxiliary, reads, IInv, Shape, ConcealInv, ClearInv
<1> QED
  BY <1>1, <1>2, <1>3, <1>4, <1>5, <1>6, <1>7, <1>8 DEF Next, Watcher

LEMMA Invariance == Spec => []IInv
BY Initial, Inductive, PTL DEF Spec

\* clipabra takes no text for an ordinary one that was only ever copied with
\* the concealed type, for any number of copies, failures and polls, but for
\* one that comes between the types and the string.
THEOREM ConcealedSafe == Spec => []ConcealedIsNotRecorded
<1>1. IInv => ConcealedIsNotRecorded
  BY DEF IInv, ConcealInv, ConcealedIsNotRecorded
<1> QED BY <1>1, Invariance, PTL

\* A watcher clears its own text or what was copied since it looked, nothing
\* else.
THEOREM NewerSafe == Spec => NewerIsNotClobbered
<1>1. IInv /\ [Next]_vars =>
        [\A c \in Copies : cpc[c] = "clearing" /\ cpc'[c] = "gone" =>
           pasteboard.text \subseteq watched[c] \cup since[c]]_vars
  BY DEF IInv, ClearInv
<1> QED BY <1>1, Invariance, PTL DEF Spec, NewerIsNotClobbered

-----------------------------------------------------------------------------
(* SecretRite *)

\* What the store holds of a rite that has added its version, ...
Kept(r) ==
  /\ versions # <<>>
  /\ version[r] > 0 => version[r] \in DOMAIN versions /\ versions[version[r]] = candidate[r]

\* ... and of one that has read back a version, which was the last one then.
Readback(r) == readAt[r] \in DOMAIN versions /\ versions[readAt[r]] = stored[r]

\* The inductive invariant: between the preflight and "add" the key is one
\* that was validated, from "add" on the store has it where "add" said, what
\* was read back stays where it was read, and after the comparison the key
\* read back is the one that was given.
RiteInv ==
  \A r \in Rites :
    /\ pc[r] \in {"describe", "create", "add"} => candidate[r] \in validated
    /\ pc[r] \in {"access", "compare", "postflight", "verified"} => Kept(r)
    /\ pc[r] \in {"compare", "postflight", "verified"} => Readback(r)
    /\ pc[r] \in {"postflight", "verified"} => stored[r] = candidate[r]

RiteIInv == TypeOK /\ OnlyValidatedStored /\ RiteInv

LEMMA RiteInitial == RiteInit => RiteIInv
  BY DEF RiteInit, RiteIInv, TypeOK, OnlyValidatedStored, RiteInv, RiteCalls

\* Adding a version at the end keeps what was there.
LEMMA AppendKeeps ==
  ASSUME NEW S, NEW s \in Seq(S), NEW e \in S
  PROVE  /\ Append(s, e) \in Seq(S)
         /\ Len(Append(s, e)) = Len(s) + 1
         /\ Append(s, e)[Len(s) + 1] = e
         /\ \A i \in DOMAIN s : i \in DOMAIN Append(s, e) /\ Append(s, e)[i] = s[i]
         /\ \A i \in DOMAIN Append(s, e) : i \in DOMAIN s \/ i = Len(s) + 1
  OBVIOUS

\* A step that appends the key of a rite that may do so, to the versions.
LEMMA Appended ==
  ASSUME TypeOK, OnlyValidatedStored, RiteInv,
         NEW r \in Rites, pc[r] = "add",
         versions' = Append(versions, candidate[r]),
         UNCHANGED <<candidate, validated, stored, readAt>>
  PROVE  /\ versions' \in Seq(Keys)
         /\ OnlyValidatedStored'
         /\ Len(versions') = Len(versions) + 1
         /\ versions'[Len(versions) + 1] = candidate[r]
         /\ \A q \in Rites : Kept(q) /\ version'[q] = version[q] => Kept(q)'
         /\ \A q \in Rites : Readback(q) => Readback(q)'
  <1>1. candidate[r] \in Keys /\ versions \in Seq(Keys) /\ candidate[r] \in validated
    BY DEF TypeOK, RiteInv
  <1>2. /\ Append(versions, candidate[r]) \in Seq(Keys)
        /\ Len(Append(versions, candidate[r])) = Len(versions) + 1
        /\ Append(versions, candidate[r])[Len(versions) + 1] = candidate[r]
        /\ \A i \in DOMAIN versions :
             i \in DOMAIN Append(versions, candidate[r])
             /\ Append(versions, candidate[r])[i] = versions[i]
        /\ \A i \in DOMAIN Append(versions, candidate[r]) :
             i \in DOMAIN versions \/ i = Len(versions) + 1
    BY <1>1, AppendKeeps
  <1>3. OnlyValidatedStored'
    BY <1>1, <1>2 DEF OnlyValidatedStored
  <1>4. ASSUME NEW q \in Rites, Kept(q), version'[q] = version[q]
        PROVE  Kept(q)'
    <2>1. versions' # <<>>
      BY <1>2
    <2> QED BY <1>2, <1>4, <2>1 DEF Kept
  <1>5. ASSUME NEW q \in Rites, Readback(q)
        PROVE  Readback(q)'
    BY <1>2, <1>5 DEF Readback
  <1> QED BY <1>2, <1>3, <1>4, <1>5

\* Every step of a rite, and every revocation, preserves the invariant: only
\* Add and a TimeOut that took effect change the versions, by Appended.
LEMMA NextIInv == RiteIInv /\ [RiteNext]_riteVars => RiteIInv'
  <1> SUFFICES ASSUME RiteIInv, [RiteNext]_riteVars PROVE RiteIInv'
    OBVIOUS
  <1> USE DEF RiteIInv
  <1>1. ASSUME NEW r \in Rites, Preflight(r) PROVE RiteIInv'
    BY <1>1 DEF Preflight, Accepted, GoOn, store, TypeOK, OnlyValidatedStored, RiteInv, Kept, Readback, RiteCalls
  <1>2. ASSUME NEW r \in Rites, Postflight(r) PROVE RiteIInv'
    BY <1>2 DEF Postflight, Accepted, GoOn, store, TypeOK, OnlyValidatedStored, RiteInv, Kept, Readback, RiteCalls
  <1>3. ASSUME NEW r \in Rites, Describe(r) PROVE RiteIInv'
    BY <1>3 DEF Describe, GoOn, store, TypeOK, OnlyValidatedStored, RiteInv, Kept, Readback, RiteCalls
  <1>4. ASSUME NEW r \in Rites, Create(r) PROVE RiteIInv'
    BY <1>4 DEF Create, GoOn, TypeOK, OnlyValidatedStored, RiteInv, Kept, Readback, RiteCalls
  <1>5. ASSUME NEW r \in Rites, Add(r) PROVE RiteIInv'
    <2>1. /\ versions' \in Seq(Keys)
          /\ OnlyValidatedStored'
          /\ Len(versions') = Len(versions) + 1
          /\ versions'[Len(versions) + 1] = candidate[r]
          /\ \A q \in Rites : Kept(q) /\ version'[q] = version[q] => Kept(q)'
          /\ \A q \in Rites : Readback(q) => Readback(q)'
      BY <1>5, Appended DEF Add
    <2>2. Len(versions) \in Nat /\ DOMAIN versions' = 1..Len(versions')
      BY <2>1 DEF TypeOK
    <2>3. TypeOK'
      <3>1. PICK n \in {0, Len(versions) + 1} : version' = [version EXCEPT ![r] = n]
        BY <1>5 DEF Add
      <3>2. Len(versions) \in Nat
        BY DEF TypeOK
      <3>3. version' \in [Rites -> Nat]
        BY <3>1, <3>2 DEF TypeOK
      <3> QED BY <1>5, <2>1, <3>3 DEF Add, GoOn, TypeOK, RiteCalls
    <2>4. Kept(r)'
      BY <1>5, <2>1, <2>2 DEF Add, Kept, TypeOK
    <2>5. \A q \in Rites \ {r} : version'[q] = version[q] /\ pc'[q] = pc[q]
      BY <1>5 DEF Add, GoOn, TypeOK
    <2>6. RiteInv'
      BY <1>5, <2>1, <2>4, <2>5 DEF Add, GoOn, RiteInv, TypeOK
    <2> QED BY <2>1, <2>3, <2>6
  <1>6. ASSUME NEW r \in Rites, Access(r) PROVE RiteIInv'
    <2>1. versions # <<>>
      BY <1>6 DEF Access, RiteInv, Kept, TypeOK
    <2>2. versions[Len(versions)] \in Keys
      BY <2>1 DEF TypeOK
    <2> QED
      BY <1>6, <2>2 DEF Access, GoOn, store, TypeOK, OnlyValidatedStored, RiteInv, Kept, Readback, RiteCalls
  <1>7. ASSUME NEW r \in Rites, Compare(r) PROVE RiteIInv'
    BY <1>7 DEF Compare, GoOn, store, TypeOK, OnlyValidatedStored, RiteInv, Kept, Readback, RiteCalls
  <1>8. ASSUME NEW r \in Rites, TimeOut(r) PROVE RiteIInv'
    <2>1. CASE pc[r] = "create" /\ UNCHANGED versions
      BY <1>8, <2>1 DEF TimeOut, GoOn, TypeOK, OnlyValidatedStored, RiteInv, Kept, Readback, RiteCalls
    <2>2. CASE pc[r] = "add" /\ versions' = Append(versions, candidate[r]) /\ UNCHANGED exists
      <3>1. /\ versions' \in Seq(Keys) /\ OnlyValidatedStored'
            /\ \A q \in Rites : Kept(q) => Kept(q)'
            /\ \A q \in Rites : Readback(q) => Readback(q)'
        BY <1>8, <2>2, Appended DEF TimeOut
      <3>2. TypeOK'
        BY <1>8, <2>2, <3>1 DEF TimeOut, GoOn, TypeOK, RiteCalls
      <3>3. RiteInv'
        BY <1>8, <3>1 DEF TimeOut, GoOn, RiteInv, TypeOK
      <3> QED BY <3>1, <3>2, <3>3
    <2> QED BY <1>8, <2>1, <2>2 DEF TimeOut
  <1>9. ASSUME NEW r \in Rites, Fail(r) PROVE RiteIInv'
    BY <1>9 DEF Fail, GoOn, store, TypeOK, OnlyValidatedStored, RiteInv, Kept, Readback, RiteCalls
  <1>10. CASE Revoke
    BY <1>10 DEF Revoke, store, TypeOK, OnlyValidatedStored, RiteInv, Kept, Readback
  <1>11. CASE UNCHANGED riteVars
    BY <1>11 DEF riteVars, TypeOK, OnlyValidatedStored, RiteInv, Kept, Readback
  <1> QED
    BY <1>1, <1>2, <1>3, <1>4, <1>5, <1>6, <1>7, <1>8, <1>9, <1>10, <1>11 DEF RiteNext, Rite

\* The invariant holds of every behaviour.
THEOREM RiteInvariance == RiteSpec => []RiteIInv
  BY RiteInitial, NextIInv, PTL DEF RiteSpec

\* Nothing is stored that the provider did not accept first, whatever the
\* number of rites on one secret.
THEOREM ValidatedSafe == RiteSpec => []OnlyValidatedStored
  BY RiteInvariance, PTL DEF RiteIInv

\* A receipt tells the truth about the store: for good when it names a
\* version, and until the next version when it says "latest".
THEOREM ReceiptSafe == RiteSpec => []ReceiptIsTrue
  <1>1. RiteIInv => ReceiptIsTrue
    <2> SUFFICES ASSUME RiteIInv, NEW r \in Rites, pc[r] = "verified",
                        version[r] = 0 => Len(versions) = readAt[r]
                 PROVE  Denoted(r) \in DOMAIN versions /\ versions[Denoted(r)] = candidate[r]
      BY DEF ReceiptIsTrue
    <2>1. Kept(r) /\ Readback(r) /\ stored[r] = candidate[r] /\ version[r] \in Nat
      BY DEF RiteIInv, RiteInv, TypeOK
    <2> QED BY <2>1 DEF Kept, Readback, Denoted
  <1> QED BY <1>1, RiteInvariance, PTL

\* A rite reports stored-and-verified only while its key is live.
THEOREM VerifiedLive == RiteSpec => StoredIsValidatedAgain
  <1>1. RiteIInv /\ [RiteNext]_riteVars =>
          [\A r \in Rites : pc[r] # "verified" /\ pc'[r] = "verified" => candidate[r] \in live]_riteVars
    <2> SUFFICES ASSUME RiteIInv, RiteNext, NEW r \in Rites,
                        pc[r] # "verified", pc'[r] = "verified"
                 PROVE  candidate[r] \in live
      OBVIOUS
    <2>1. PICK q \in Rites : Rite(q) \/ Revoke
      BY DEF RiteNext
    <2>2. Postflight(r)
      BY <2>1 DEF RiteIInv, TypeOK, Rite, Revoke, Preflight, Describe, Create, Add, Access, Compare,
                  Postflight, TimeOut, Fail, GoOn
    <2> QED BY <2>2 DEF Postflight, Accepted, RiteIInv, RiteInv
  <1> QED BY <1>1, RiteInvariance, PTL DEF RiteSpec, StoredIsValidatedAgain
=============================================================================
