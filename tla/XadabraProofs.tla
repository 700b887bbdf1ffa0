---------------------------- MODULE XadabraProofs ----------------------------
(***************************************************************************)
(* Proofs about the xadabra command: first the monorepo commands, then the *)
(* paste runner, and in the end a session, which is one or the other.      *)
(***************************************************************************)
EXTENDS Xadabra, TLAPS

Calls == {"idle", "check", "rmtree", "copy", "fill", "commit", "tag", "main", "push_tag"}
Packing == {"check", "rmtree", "copy", "fill"}
Pushing == {"commit", "tag", "main", "push_tag"}

RepoTypeOK ==
  /\ tree \in [Places -> [Pkgs -> Copies]]
  /\ command \in Commands /\ at \in Calls /\ k \in Nat
  /\ log \in Seq(BOOLEAN) /\ here \in BOOLEAN /\ head \in Nat /\ local \in Nat
  /\ tags \in [Tags -> Nat] /\ main \in Int /\ rtags \in [Tags -> Int]
  /\ edited \subseteq Pkgs /\ reused \in BOOLEAN
  /\ at \in Packing => command.name = "pack" /\ k \in DOMAIN Packages
  /\ at \in Pushing => command.name = "push"

\* What has been packed so far is whole or was edited meanwhile, and what is
\* being copied comes from the projects directory: pack has removed the
\* package when it copies dest onto itself.
PackInv ==
  /\ \A p \in Pkgs : tree["projects"][p] \in Contents \cup {"none"}
  /\ at \in Packing => \A i \in 1..(k - 1) : Packages[i] \in edited
                                             \/ tree["dest"][Packages[i]] \in Contents
  /\ at = "copy" => Target = "none"
  /\ at = "fill" => command.from = "projects" /\ Source \in Contents
  /\ PackedIsWhole

\* Nothing that is named is ahead of the clone, no commit made on main is
\* ahead of its branch, and a tag is pushed when the remote's main is no
\* longer behind that.
PushInv ==
  /\ head <= Len(log) /\ local <= Len(log) /\ main <= local
  /\ here => head = local
  /\ \A i \in 1..Len(log) : log[i] => i <= local
  /\ \A t \in Tags : tags[t] <= Len(log) /\ rtags[t] <= Len(log)
  /\ at \in {"main", "push_tag"} /\ ~reused => tags[command.tag] \in {0, head}
  /\ at = "push_tag" => main \in {local, Foreign}
  /\ Ended("push", "ok") => rtags[command.tag] > 0
  /\ TagsAreOnMain /\ AnnouncedIsPublished

RepoInv == RepoTypeOK /\ PackInv /\ PushInv

LEMMA PackageFacts ==
  /\ DOMAIN Packages = 1..Len(Packages) /\ Len(Packages) \in Nat /\ Len(Packages) > 0
  /\ \A i \in 1..Len(Packages) : Packages[i] \in Pkgs
  /\ \A p \in Pkgs : \E i \in 1..Len(Packages) : p = Packages[i]
BY PackagesAssumption DEF Pkgs

LEMMA CommandFacts ==
  ASSUME NEW c \in Commands
  PROVE  \/ c.name = "pack" /\ c.from \in Places /\ c.force \in BOOLEAN
         \/ c.name = "push" /\ c.tag \in Tags /\ c.dry \in BOOLEAN
BY DEF Commands

-----------------------------------------------------------------------------

\* A call on one package leaves the others, and the projects, as they are.
LEMMA OtherPackages ==
  ASSUME RepoTypeOK, at \in Packing, NEW c, Put(c)
  PROVE  /\ k \in 1..Len(Packages) /\ Package \in Pkgs
         /\ tree'["projects"] = tree["projects"]
         /\ tree'["dest"][Package] = c
         /\ \A i \in 1..Len(Packages) :
              i # k => tree'["dest"][Packages[i]] = tree["dest"][Packages[i]]
<1>1. k \in 1..Len(Packages) /\ Package \in Pkgs
  BY PackageFacts DEF RepoTypeOK, Package
<1>2. tree' = [tree EXCEPT !["dest"][Package] = c] /\ tree \in [Places -> [Pkgs -> Copies]]
  BY DEF Put, RepoTypeOK
<1>3. /\ tree'["projects"] = tree["projects"] /\ tree'["dest"][Package] = c
      /\ \A p \in Pkgs : p # Package => tree'["dest"][p] = tree["dest"][p]
  BY <1>1, <1>2 DEF Places
<1>4. \A i \in 1..Len(Packages) : i # k => Packages[i] # Package /\ Packages[i] \in Pkgs
  BY <1>1, PackageFacts, PackagesAssumption DEF Package
<1>5. QED
  BY <1>1, <1>3, <1>4

LEMMA SeqFacts ==
  ASSUME NEW S
  PROVE  <<>> \in Seq(S) /\ \A s \in Seq(S), e \in S : Append(s, e) \in Seq(S)
OBVIOUS

LEMMA RepoInvInit == RepoInit => RepoInv
<1> SUFFICES ASSUME RepoInit PROVE RepoInv
  OBVIOUS
<1>1. tree \in [Places -> [Pkgs -> Copies]]
  BY DEF RepoInit, Copies
<1>2. RepoTypeOK
  <2>1. command \in Commands /\ at \in Calls /\ at \notin Packing \cup Pushing /\ k \in Nat
    BY DEF RepoInit, Calls, Packing, Pushing
  <2>2. /\ log \in Seq(BOOLEAN) /\ reused \in BOOLEAN /\ edited \subseteq Pkgs
        /\ here \in BOOLEAN /\ head \in Nat /\ local \in Nat
    BY SeqFacts DEF RepoInit
  <2>3. tags \in [Tags -> Nat] /\ main \in Int /\ rtags \in [Tags -> Int]
    BY DEF RepoInit
  <2>4. QED
    BY <1>1, <2>1, <2>2, <2>3 DEF RepoTypeOK
<1>3. PackInv
  BY DEF RepoInit, PackInv, PackedIsWhole, Ended, Packing, Places
<1>4. PushInv
  BY DEF RepoInit, PushInv, TagsAreOnMain, AnnouncedIsPublished, Ended, Foreign
<1>5. QED
  BY <1>2, <1>3, <1>4 DEF RepoInv

LEMMA TypeStep == RepoInv /\ [RepoNext]_repo => RepoTypeOK'
<1> SUFFICES ASSUME RepoInv, [RepoNext]_repo
             PROVE  RepoTypeOK'
  OBVIOUS
<1> USE DEF RepoTypeOK, Calls, Packing, Pushing, Copies, Places, Fails, EndWith, GoTo,
            running, clone, remote, branches, noted
<1>0. /\ RepoTypeOK
      /\ at \in Packing => Package \in Pkgs
  BY PackageFacts DEF RepoInv, Package
<1>1. ASSUME NEW c \in Commands, Run(c)
      PROVE  RepoTypeOK'
  <2>1. c.name = "pack" \/ c.name = "push"
    BY <1>1, CommandFacts
  <2>3. at' = IF c.name = "pack" THEN "check" ELSE "commit"
    BY <1>1 DEF Run
  <2>2. k' = 1 /\ 1 \in DOMAIN Packages
    BY <1>1, PackageFacts DEF Run
  <2>4. UNCHANGED <<log, local, tags, main, rtags>> /\ command' = c /\ reused' = FALSE
          /\ edited' = {}
    BY <1>1 DEF Run
  <2>7. tree' \in [Places -> [Pkgs -> Copies]] /\ here' \in BOOLEAN /\ head' \in Nat
    BY <1>0, <1>1 DEF Run, Checkout
  <2>5. at' \in Calls /\ (at' \in Packing => command'.name = "pack")
          /\ (at' \in Pushing => command'.name = "push")
    BY <2>1, <2>3, <2>4
  <2>6. QED
    BY <1>0, <2>2, <2>4, <2>5, <2>7
<1>2. CASE Kill
  BY <1>0, <1>2 DEF Kill
<1>3. CASE CheckPackage
  BY <1>0, <1>3 DEF CheckPackage
<1>4. CASE PackRefuses
  BY <1>0, <1>4 DEF PackRefuses
<1>5. CASE RemoveSome
  BY <1>0, <1>5 DEF RemoveSome, Put
<1>6. CASE RemoveRest
  BY <1>0, <1>6 DEF RemoveRest, Put
<1>7. CASE CopySome
  <2>1. CASE Source = "none"
    BY <1>0, <1>7, <2>1 DEF CopySome
  <2>2. CASE Source # "none"
    BY <1>0, <1>7, <2>2 DEF CopySome, Put
  <2>3. QED
    BY <2>1, <2>2
<1>8. CASE CopyRest
  <2>1. Source \in Copies
    BY <1>0, <1>8, CommandFacts DEF CopyRest, Source
  <2>4. PICK c \in Copies : Put(c)
    BY <1>8, <2>1 DEF CopyRest
  <2>2. tree' \in [Places -> [Pkgs -> Copies]]
    BY <1>0, <2>4 DEF Put
  <2>3. QED
    BY <1>0, <1>8, <2>2, PackageFacts DEF CopyRest
<1>9. CASE Commit
  <2>1. log' \in Seq(BOOLEAN)
    <3>1. log' = log \/ log' = Append(log, here)
      BY <1>9 DEF Commit
    <3>2. \A s \in Seq(BOOLEAN), e \in BOOLEAN : Append(s, e) \in Seq(BOOLEAN)
      BY SeqFacts, Zenon
    <3>3. log \in Seq(BOOLEAN) /\ here \in BOOLEAN
      BY <1>0
    <3>4. QED
      BY <3>1, <3>2, <3>3, Zenon
  <2>2. /\ Len(log') \in Nat
        /\ head' \in {head, Len(log')} /\ local' \in {local, head'}
    BY <1>9, <2>1 DEF Commit
  <2>3. QED
    BY <1>0, <1>9, <2>1, <2>2 DEF Commit
<1>10. CASE TagHead
  <2>2. tags' \in [Tags -> Nat]
    BY <1>0, <1>10 DEF TagHead
  <2>3. QED
    BY <1>0, <1>10, <2>2 DEF TagHead
<1>11. CASE PushMain
  BY <1>0, <1>11 DEF PushMain
<1>12. CASE PushTag
  BY <1>0, <1>12, CommandFacts DEF PushTag
<1>13. CASE Edit
  BY <1>0, <1>13 DEF Edit
<1>14. ASSUME NEW t \in Tags, Publish(t)
       PROVE  RepoTypeOK'
  BY <1>0, <1>14 DEF Publish, Foreign
<1>15. CASE UNCHANGED repo
  BY <1>0, <1>15 DEF repo
<1>16. QED
  BY <1>1, <1>2, <1>3, <1>4, <1>5, <1>6, <1>7, <1>8, <1>9, <1>10, <1>11, <1>12,
     <1>13, <1>14, <1>15 DEF RepoNext, Pack, Push

-----------------------------------------------------------------------------

LEMMA PackStep == RepoInv /\ [RepoNext]_repo => PackInv'
<1> SUFFICES ASSUME RepoInv, [RepoNext]_repo
             PROVE  PackInv'
  OBVIOUS
<1> USE DEF PackInv, PackedIsWhole, Ended, Packing, Pushing, Places, Package, Source, Target,
            Fails, EndWith, GoTo, running, clone, remote, branches, noted
<1>0. RepoTypeOK /\ PackInv
  BY DEF RepoInv
<1>1. ASSUME NEW c \in Commands, Run(c)
      PROVE  PackInv'
  <2>1. at' \in {"check", "commit"} /\ k' = 1 /\ status' = "none"
        /\ tree'["projects"] = tree["projects"]
    BY <1>0, <1>1 DEF Run, Checkout, RepoTypeOK
  <2>2. QED
    BY <1>0, <2>1
<1>2. CASE Kill
  BY <1>0, <1>2 DEF Kill
<1>3. CASE CheckPackage
  BY <1>0, <1>3 DEF CheckPackage
<1>4. CASE PackRefuses
  BY <1>0, <1>4 DEF PackRefuses
<1>5. CASE RemoveSome
  <2>1. at = "rmtree" /\ UNCHANGED <<at, k, command, status, edited>> /\ Put("part")
    BY <1>5 DEF RemoveSome
  <2>2. /\ k \in 1..Len(Packages) /\ tree'["projects"] = tree["projects"]
        /\ \A i \in 1..Len(Packages) :
             i # k => tree'["dest"][Packages[i]] = tree["dest"][Packages[i]]
    <3>1. at \in Packing
      BY <2>1
    <3>2. QED
      BY <1>0, <2>1, <3>1, OtherPackages
  <2>3. QED
    BY <1>0, <2>1, <2>2, PackageFacts
<1>6. CASE RemoveRest
  BY <1>0, <1>6, OtherPackages DEF RemoveRest
<1>7. CASE CopySome
  <2>1. CASE Source = "none"
    BY <1>0, <1>7, <2>1 DEF CopySome
  <2>2. CASE Source # "none"
    <3>1. /\ at = "copy" /\ at' = "fill" /\ Put("part")
          /\ UNCHANGED <<command, k, status, edited>>
      BY <1>7, <2>2 DEF CopySome
    <3>2. at \in Packing /\ command.name = "pack"
      BY <1>0, <3>1 DEF RepoTypeOK
    <3>3. command.from \in Places
      BY <1>0, <3>2, CommandFacts DEF RepoTypeOK
    <3>4. /\ k \in 1..Len(Packages) /\ Packages[k] \in Pkgs
          /\ tree'["projects"] = tree["projects"]
          /\ \A i \in 1..Len(Packages) :
               i # k => tree'["dest"][Packages[i]] = tree["dest"][Packages[i]]
      BY <1>0, <3>1, <3>2, OtherPackages
    <3>5. command.from = "projects" /\ Source \in Contents
      BY <1>0, <2>2, <3>1, <3>3, <3>4
    <3>6. QED
      BY <1>0, <3>1, <3>4, <3>5, PackageFacts
  <2>3. QED
    BY <2>1, <2>2
<1>8. CASE CopyRest
  <2>0. PICK c : Put(c) /\ (c \in Contents \/ Packages[k] \in edited)
    BY <1>0, <1>8 DEF CopyRest
  <2>1. at = "fill" /\ at \in Packing /\ UNCHANGED <<command, edited>>
    BY <1>8 DEF CopyRest
  <2>2. /\ k \in 1..Len(Packages)
        /\ tree'["projects"] = tree["projects"]
        /\ tree'["dest"][Packages[k]] = c
        /\ \A i \in 1..Len(Packages) :
             i # k => tree'["dest"][Packages[i]] = tree["dest"][Packages[i]]
    BY <1>0, <2>0, <2>1, OtherPackages
  <2>3. \A i \in 1..k : Packages[i] \in edited \/ tree'["dest"][Packages[i]] \in Contents
    BY <1>0, <2>0, <2>1, <2>2, PackageFacts
  <2>4. \/ k' = k + 1 /\ at' = "check" /\ UNCHANGED status
        \/ k >= Len(Packages) /\ at' = "idle" /\ status' = "ok"
    BY <1>8, <2>2, PackageFacts DEF CopyRest
  <2>5. QED
    BY <1>0, <2>1, <2>2, <2>3, <2>4, PackageFacts
<1>9. CASE Push
  <2>1. /\ at \in Pushing /\ at' \in Pushing \cup {"idle"}
        /\ UNCHANGED <<tree, command, edited>>
    BY <1>9 DEF Push, Commit, TagHead, PushMain, PushTag
  <2>2. command.name = "push"
    BY <1>0, <2>1 DEF RepoTypeOK
  <2>3. QED
    BY <1>0, <2>1, <2>2
<1>10. CASE Edit
  BY <1>0, <1>10 DEF Edit, RepoTypeOK
<1>11. ASSUME NEW t \in Tags, Publish(t)
       PROVE  PackInv'
  BY <1>0, <1>11 DEF Publish
<1>12. CASE UNCHANGED repo
  BY <1>0, <1>12 DEF repo
<1>13. QED
  BY <1>1, <1>2, <1>3, <1>4, <1>5, <1>6, <1>7, <1>8, <1>9, <1>10, <1>11, <1>12
     DEF RepoNext, Pack

-----------------------------------------------------------------------------

LEMMA PushStep == RepoInv /\ [RepoNext]_repo => PushInv'
<1> SUFFICES ASSUME RepoInv, [RepoNext]_repo
             PROVE  PushInv'
  OBVIOUS
<1> USE DEF PushInv, TagsAreOnMain, AnnouncedIsPublished, Ended, Foreign,
            Fails, EndWith, GoTo, running, clone, remote, branches, noted
<1>0. /\ RepoTypeOK /\ RepoTypeOK' /\ PushInv /\ Len(log) \in Nat
      /\ at \in Pushing => command.name = "push" /\ command.tag \in Tags
  <2>1. RepoTypeOK'
    BY TypeStep
  <2>2. QED
    BY <2>1, CommandFacts DEF RepoInv, RepoTypeOK
<1>1. ASSUME NEW c \in Commands, Run(c)
      PROVE  PushInv'
  <2>1. at' \in {"check", "commit"} /\ status' = "none"
        /\ UNCHANGED <<log, local, tags, main, rtags>>
    BY <1>1 DEF Run
  <2>2. head' <= Len(log) /\ (here' => head' = local)
    BY <1>0, <1>1 DEF Run, Checkout
  <2>3. QED
    BY <1>0, <2>1, <2>2
<1>2. CASE Kill
  BY <1>0, <1>2 DEF Kill
<1>3. CASE Pack
  BY <1>0, <1>3 DEF Pack, CheckPackage, PackRefuses, RemoveSome, RemoveRest, CopySome,
     CopyRest, RepoTypeOK, Packing
<1>4. CASE Commit
  <2>1. /\ at' \in {"tag", "idle"} /\ (at' = "idle" => status' # "ok")
        /\ UNCHANGED <<tags, main, rtags, here>>
    BY <1>0, <1>4 DEF Commit, RepoTypeOK
  <2>2. CASE UNCHANGED <<log, head, local>>
    BY <1>0, <2>1, <2>2 DEF RepoTypeOK
  <2>3. CASE /\ log' = Append(log, here) /\ head' = Len(log')
             /\ local' = IF here THEN head' ELSE local
    <3>1. /\ Len(log') = Len(log) + 1 /\ log'[Len(log) + 1] = here
          /\ \A i \in 1..Len(log) : log'[i] = log[i]
      BY <1>0, <2>3 DEF RepoTypeOK
    <3>2. /\ head' = Len(log) + 1 /\ local <= local'
          /\ IF here THEN local' = Len(log) + 1 ELSE local' = local
      BY <1>0, <2>3, <3>1 DEF RepoTypeOK
    <3>3. \A i \in 1..Len(log') : log'[i] => i <= local'
      <4>1. ASSUME NEW i \in 1..Len(log), log'[i] PROVE i <= local'
        <5>1. log[i]
          BY <3>1, <4>1, Zenon
        <5>2. i <= local
          BY <1>0, <5>1, Zenon
        <5>3. QED
          BY <1>0, <3>2, <5>2 DEF RepoTypeOK
      <4>2. log'[Len(log) + 1] => local' = Len(log) + 1
        BY <3>1, <3>2
      <4>3. QED
        BY <1>0, <3>1, <4>1, <4>2
    <3>4. \A t \in Tags : tags'[t] <= Len(log') /\ rtags'[t] <= Len(log')
      BY <1>0, <2>1, <3>1 DEF RepoTypeOK
    <3>5. TagsAreOnMain'
      <4>1. ASSUME NEW t \in Tags, rtags[t] > 0, main # Foreign, ~(rtags[t] <= main)
            PROVE  ~log'[rtags[t]]
        <5>1. rtags[t] \in 1..Len(log)
          BY <1>0, <4>1 DEF RepoTypeOK
        <5>2. ~log[rtags[t]]
          BY <1>0, <4>1, Zenon
        <5>3. QED
          BY <3>1, <5>1, <5>2, Zenon
      <4>2. QED
        BY <2>1, <4>1, Zenon
    <3>6. QED
      BY <1>0, <2>1, <3>1, <3>2, <3>3, <3>4, <3>5 DEF RepoTypeOK
  <2>4. QED
    BY <1>4, <2>2, <2>3 DEF Commit
<1>5. CASE TagHead
  <2>1. /\ at = "tag" /\ command.tag \in Tags /\ at' \in {"main", "idle"}
        /\ at' = "idle" => status' # "ok"
        /\ UNCHANGED <<command, log, here, head, local, main, rtags>>
    BY <1>0, <1>5 DEF TagHead, Pushing
  <2>2. /\ \A t \in Tags : tags'[t] <= Len(log)
        /\ tags[command.tag] = 0 => tags'[command.tag] \in {0, head}
    <3>1. CASE UNCHANGED tags
      BY <1>0, <2>1, <3>1
    <3>2. CASE tags' = [tags EXCEPT ![command.tag] = head]
      BY <1>0, <2>1, <3>2 DEF RepoTypeOK
    <3>3. QED
      BY <1>5, <3>1, <3>2 DEF TagHead
  <2>3. reused' = (tags[command.tag] # 0)
    BY <1>5 DEF TagHead
  <2>4. QED
    BY <1>0, <2>1, <2>2, <2>3
<1>6. CASE PushMain
  BY <1>0, <1>6 DEF PushMain, RepoTypeOK, Pushing
<1>7. CASE PushTag
  <2>1. /\ at = "push_tag" /\ command.tag \in Tags /\ at' = "idle"
        /\ UNCHANGED <<command, log, here, head, local, tags, main, edited, reused>>
    BY <1>0, <1>7 DEF PushTag, Pushing
  <2>2. CASE UNCHANGED rtags /\ status' = "failed"
    BY <1>0, <2>1, <2>2
  <2>3. CASE /\ tags[command.tag] > 0
             /\ rtags' = [rtags EXCEPT ![command.tag] = tags[command.tag]]
    <3>1. /\ rtags'[command.tag] = tags[command.tag] /\ tags[command.tag] \in 1..Len(log)
          /\ \A t \in Tags : t # command.tag => rtags'[t] = rtags[t]
      BY <1>0, <2>1, <2>3 DEF RepoTypeOK
    <3>2. TagsAreOnMain'
      BY <1>0, <2>1, <3>1 DEF RepoTypeOK
    <3>3. AnnouncedIsPublished'
      BY <1>0, <2>1, <3>1 DEF RepoTypeOK
    <3>4. \A t \in Tags : rtags'[t] <= Len(log)
      BY <1>0, <2>1, <3>1 DEF RepoTypeOK
    <3>5. QED
      BY <1>0, <2>1, <3>1, <3>2, <3>3, <3>4 DEF RepoTypeOK
  <2>4. QED
    BY <1>7, <2>2, <2>3 DEF PushTag
<1>8. CASE Edit
  BY <1>0, <1>8 DEF Edit
<1>9. ASSUME NEW t \in Tags, Publish(t)
      PROVE  PushInv'
  BY <1>0, <1>9 DEF Publish, RepoTypeOK
<1>10. CASE UNCHANGED repo
  BY <1>0, <1>10 DEF repo
<1>11. QED
  BY <1>1, <1>2, <1>3, <1>4, <1>5, <1>6, <1>7, <1>8, <1>9, <1>10 DEF RepoNext, Push

LEMMA RepoInvariance == RepoSpec => []RepoInv
<1>1. RepoInv /\ [RepoNext]_repo => RepoInv'
  BY TypeStep, PackStep, PushStep DEF RepoInv
<1>2. QED
  BY <1>1, RepoInvInit, PTL DEF RepoSpec

\* What pack reports done is whole, whatever packs were killed before it and
\* also where it was asked to copy a directory onto itself.
THEOREM PackedSafe == RepoSpec => []PackedIsWhole
<1>1. RepoInv => PackedIsWhole
  BY DEF RepoInv, PackInv
<1>2. QED
  BY <1>1, RepoInvariance, PTL

\* What push announces is on GitHub, for any number of commits and tags.
THEOREM AnnouncedSafe == RepoSpec => []AnnouncedIsPublished
<1>1. RepoInv => AnnouncedIsPublished
  BY DEF RepoInv, PushInv
<1>2. QED
  BY <1>1, RepoInvariance, PTL

\* No tag is on GitHub before the commits below it.
THEOREM TagsSafe == RepoSpec => []TagsAreOnMain
<1>1. RepoInv => TagsAreOnMain
  BY DEF RepoInv, PushInv
<1>2. QED
  BY <1>1, RepoInvariance, PTL

-----------------------------------------------------------------------------
(* The paste runner, for every block, every value and every environment *)

\* A name has a value, and is noted as secret if it is, once its place is done.
FillInv ==
  /\ \A i \in find_placeholders(script) \ todo :
       /\ Name(script[i]) \in DOMAIN values
       /\ Placeholder(script[i]).secret => Name(script[i]) \in secrets
  /\ todo \subseteq find_placeholders(script)
  /\ \A n \in secrets : MarkedSomewhere(n)

\* What was shown, stored and run was made from the block as it was filled,
\* and nothing is filled after it was shown.
EffectInv ==
  /\ pc \in {"load", "fill"} => effects = <<{}, {}, {}>>
  /\ pc \in {"confirm", "policy", "execute"} => todo = {} /\ ran = {}
  /\ preview # {} => todo = {}
  /\ preview \subseteq {substitute(script, secrets)}
  /\ history # {} => todo = {}
  /\ history \subseteq {IF secrets = {} THEN substitute_for_run(script)
                                        ELSE substitute(script, secrets)}
  /\ ran \subseteq {substitute_for_run(script)}

LoadInv == pc = "load" => script = <<>>

PasteInv == FillInv /\ EffectInv /\ LoadInv

\* It holds at first.
LEMMA PasteInvInit == Init => PasteInv
  BY DEF Init, PasteInv, FillInv, EffectInv, LoadInv, effects, find_placeholders, MarkedSomewhere

\* Filling a place extends values and secrets by the name that stands there.
LEMMA FillStep ==
  ASSUME PasteInv, NEW i \in Due, NEW t, Fill(i, t)
  PROVE  PasteInv'
  <1>1. i \in find_placeholders(script) /\ i \in DOMAIN script /\ IsHole(script[i])
    BY DEF Due, PasteInv, FillInv, find_placeholders
  <1>2. /\ Name(script[i]) \in DOMAIN values' /\ DOMAIN values \subseteq DOMAIN values'
        /\ Placeholder(script[i]).secret => Name(script[i]) \in secrets'
        /\ secrets \subseteq secrets'
        /\ \A n \in secrets' \ secrets : n = Name(script[i]) /\ Placeholder(script[i]).secret
        /\ todo' = todo \ {i} /\ script' = script /\ pc' = pc /\ effects' = effects
    BY DEF Fill, Name
  <1>3. FillInv'
    <2>1. find_placeholders(script)' = find_placeholders(script)
      BY <1>2 DEF find_placeholders
    <2>2. \A n : MarkedSomewhere(n)' <=> MarkedSomewhere(n)
      BY <1>2 DEF MarkedSomewhere
    <2>3. \A n \in secrets' : MarkedSomewhere(n)
      BY <1>1, <1>2 DEF MarkedSomewhere, PasteInv, FillInv
    <2> QED BY <1>1, <1>2, <2>1, <2>2, <2>3 DEF FillInv, PasteInv
  <1>4. pc = "fill"
    BY DEF Due
  <1> QED BY <1>2, <1>3, <1>4 DEF PasteInv, EffectInv, LoadInv, effects

\* Leaving the pipeline changes nothing but where it stands.
LEMMA ExitStep == PasteInv /\ Exit => PasteInv'
  BY DEF Exit, PasteInv, FillInv, EffectInv, LoadInv, effects, inputs, find_placeholders,
         MarkedSomewhere, substitute, substitute_for_run, Filled

\* Every step of the pipeline preserves it.
LEMMA PasteInvStep == PasteInv /\ [Next]_vars => PasteInv'
  <1> SUFFICES ASSUME PasteInv, [Next]_vars PROVE PasteInv'
    OBVIOUS
  <1>1. CASE Exit
    BY <1>1, ExitStep
  <1>2. CASE load_script
    <2>1. FillInv'
      BY <1>2 DEF load_script, FillInv, PasteInv, LoadInv, find_placeholders, MarkedSomewhere
    <2> QED BY <1>2, <2>1 DEF load_script, PasteInv, EffectInv, LoadInv, effects
  <1>3. CASE Prefill
    BY <1>3, FillStep DEF Prefill
  <1>4. CASE prompt_for_placeholder
    BY <1>4, FillStep DEF prompt_for_placeholder
  <1>5. ASSUME UNCHANGED <<inputs, script, todo, values, secrets>>
        PROVE  /\ FillInv'
               /\ substitute(script, secrets)' = substitute(script, secrets)
               /\ substitute_for_run(script)' = substitute_for_run(script)
    BY <1>5 DEF PasteInv, FillInv, inputs, find_placeholders, MarkedSomewhere, substitute,
                substitute_for_run, Filled
  <1>6. CASE Preview
    BY <1>5, <1>6 DEF Preview, PasteInv, EffectInv, LoadInv, effects
  <1>7. CASE confirm_run
    BY <1>5, <1>7 DEF confirm_run, PasteInv, EffectInv, LoadInv, effects
  <1>8. CASE append_run
    BY <1>5, <1>8 DEF append_run, PasteInv, EffectInv, LoadInv, effects
  <1>9. CASE execute_script
    BY <1>5, <1>9 DEF execute_script, PasteInv, EffectInv, LoadInv, effects
  <1>10. CASE UNCHANGED vars
    BY <1>5, <1>10 DEF vars, inputs, effects, PasteInv, EffectInv, LoadInv
  <1> QED
    BY <1>1, <1>2, <1>3, <1>4, <1>6, <1>7, <1>8, <1>9, <1>10
       DEF Next, LoadFails, PrefillFails, Missing, Decline, PolicyBlocks

\* The invariant holds of every behaviour.
LEMMA PasteInvariance == Spec => []PasteInv
  BY PasteInvInit, PasteInvStep, PTL DEF Spec

\* What is run is, token for token, what was shown: it was made from the same
\* block and values in one pass, and only secret names were masked.
THEOREM ShownIsRun == Spec => []PreviewIsRun
  <1>1. PasteInv => PreviewIsRun
    <2> SUFFICES ASSUME PasteInv, NEW shown \in preview, NEW run \in ran
                 PROVE  /\ DOMAIN shown = DOMAIN run
                        /\ \A i \in DOMAIN run :
                             \/ shown[i] = run[i]
                             \/ /\ shown[i] = Mask /\ IsHole(script[i])
                                /\ MarkedSomewhere(Name(script[i]))
      BY DEF PreviewIsRun
    <2>1. shown = substitute(script, secrets) /\ run = substitute_for_run(script)
      BY DEF PasteInv, EffectInv
    <2>2. \A n \in secrets : MarkedSomewhere(n)
      BY DEF PasteInv, FillInv
    <2>3. ASSUME NEW i \in DOMAIN script, IsHole(script[i]), Placeholder(script[i]).secret
          PROVE  MarkedSomewhere(Name(script[i]))
      BY <2>3 DEF MarkedSomewhere
    <2> QED BY <2>1, <2>2, <2>3 DEF substitute, substitute_for_run, Filled
  <1> QED BY <1>1, PasteInvariance, PTL

\* A name that is marked secret where it is first seen is masked in every
\* place of the preview and of the history, for it was noted as secret before
\* either was made.
THEOREM SecretsHidden == Spec => []SecretsStayHidden
  <1>1. PasteInv => SecretsStayHidden
    <2> SUFFICES ASSUME PasteInv, NEW text \in preview \cup history, NEW i \in DOMAIN script,
                        IsHole(script[i]), MarkedFirst(Name(script[i]))
                 PROVE  text[i] = Mask
      BY DEF SecretsStayHidden
    <2>1. PICK first \in DOMAIN script :
            /\ IsHole(script[first]) /\ Name(script[first]) = Name(script[i])
            /\ Placeholder(script[first]).secret
            /\ \A j \in 1..first - 1 : IsHole(script[j]) => Name(script[j]) # Name(script[i])
      BY DEF MarkedFirst
    <2>2. first \in find_placeholders(script) \ todo
      BY <2>1 DEF find_placeholders, PasteInv, EffectInv
    <2>3. Name(script[i]) \in secrets /\ Name(script[i]) \in DOMAIN values
      BY <2>1, <2>2 DEF PasteInv, FillInv
    <2>4. text = substitute(script, secrets)
      BY <2>3 DEF PasteInv, EffectInv
    <2> QED BY <2>3, <2>4 DEF substitute
  <1> QED BY <1>1, PasteInvariance, PTL

-----------------------------------------------------------------------------
(* The command *)

\* The xadabra command is one of its two halves at a time, so that what is
\* proved of each half is true of the command.
LEMMA Sessions == XadabraSpec => RepoSpec /\ Spec
<1>1. XadabraInit => RepoInit /\ Init
  BY DEF XadabraInit
<1>2. [XadabraNext]_<<vars, repo, noldorian>> => [RepoNext]_repo /\ [Next]_vars
  BY DEF XadabraNext
<1>3. QED
  BY <1>1, <1>2, PTL DEF XadabraSpec, RepoSpec, Spec
=============================================================================
