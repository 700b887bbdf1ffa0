------------------------------ MODULE Monorepo ------------------------------
(***************************************************************************)
(* xadabra noldorian (xadabra/noldorian.py): pack copies the packages from *)
(* a projects directory into a monorepo, push commits, tags and publishes  *)
(* it.  One operator runs one command at a time, with any branch checked   *)
(* out; any command may be killed between two of its calls, sources are    *)
(* edited meanwhile, and another clone publishes to the same GitHub        *)
(* repository.                                                             *)
(*                                                                         *)
(* git and GitHub are external: a commit is its place in the log, a branch *)
(* moves forward only, branches are not merged, a tag that exists is not   *)
(* moved, and a push that fails may have arrived.  What a commit contains, *)
(* and whether there is something to commit, is left open.                 *)
(***************************************************************************)
EXTENDS Integers, Sequences

CONSTANTS
  Packages,    \* PACKAGES, in their order
  Contents,    \* what the source of a package may be
  Tags,        \* tag names
  MaxCommits   \* bound on the commits made here

\* Where packages are: --projects-dir and --dest.  Both default to
\* ~/noldorian, so that pack may be asked to copy dest onto itself.
Places == {"projects", "dest"}
Pkgs == {Packages[i] : i \in DOMAIN Packages}
\* What is there of a package: a content, nothing, or what is no content -
\* a part of one, or files of several.
Copies == Contents \cup {"none", "part"}

ASSUME PackagesAssumption ==
  /\ Packages \in Seq(Pkgs) /\ Packages # <<>>
  /\ \A i, j \in DOMAIN Packages : Packages[i] = Packages[j] => i = j

\* What the other clone has published.
Foreign == -1

Commands ==
  [name : {"pack"}, from : Places, force : BOOLEAN]
    \cup [name : {"push"}, tag : Tags, dry : BOOLEAN]

VARIABLES
  tree,     \* the copy of each package at each place
  command,  \* the command that runs, or ran last
  at,       \* its next call, "idle" when it has ended
  k,        \* the package it is at
  status,   \* how it ended
  log,      \* commits of the clone in dest: was it made on the branch main?
  here,     \* is the branch main checked out?
  head,     \* the commit at HEAD, 0 if there is none
  local,    \* the commit at main, 0 if there is no such branch yet
  tags,     \* its tags: 0 or a commit
  main,     \* the remote's main: 0, a commit or Foreign
  rtags,    \* the remote's tags: the same
  edited,   \* auxiliary: packages whose source this command's copy was overtaken
            \* by an edit of
  reused    \* auxiliary: the tag of this push was there before it

running == <<command, at, k, status>>
branches == <<log, here, head, local>>
clone == <<branches, tags>>
remote == <<main, rtags>>
noted == <<edited, reused>>
repo == <<tree, running, clone, remote, noted>>

RepoInit ==
  /\ \E has \in SUBSET Places \ {{}}, c \in Contents :
       tree = [pl \in Places |-> [p \in Pkgs |-> IF pl \in has THEN c ELSE "none"]]
  /\ command \in {c \in Commands : c.name = "pack" /\ ~c.force}
  /\ at = "idle" /\ k = 1 /\ status = "none"
  /\ log = <<>> /\ head = 0 /\ local = 0
  /\ here \in BOOLEAN   \* that git branch -M main fails is passed over
  /\ tags = [t \in Tags |-> 0]
  /\ main = 0 /\ rtags = [t \in Tags |-> 0]
  /\ edited = {} /\ reused = FALSE

-----------------------------------------------------------------------------
(* Commands *)

\* The operator leaves main for a new branch, or comes back to what it has.
Checkout ==
  \/ /\ here /\ here' = FALSE
     /\ UNCHANGED <<tree, head>>
  \/ /\ ~here /\ local > 0
     /\ here' = TRUE /\ head' = local
     /\ \E has \in [Pkgs -> Copies] : tree' = [tree EXCEPT !["dest"] = has]

\* A command, on what was checked out before it.
Run(c) ==
  /\ at = "idle"
  /\ command' = c
  /\ at' = IF c.name = "pack" THEN "check" ELSE "commit"
  /\ k' = 1 /\ status' = "none" /\ edited' = {} /\ reused' = FALSE
  /\ Checkout \/ UNCHANGED <<tree, here, head>>
  /\ UNCHANGED <<log, local, tags, remote>>

\* The command returns 0 ("ok", or "dry" for a dry run), returns 1 or raises,
\* or is killed; a copy that raises half way counts as killed.
EndWith(s) == at' = "idle" /\ status' = s /\ k' = 1 /\ UNCHANGED command

Fails == EndWith("failed") /\ UNCHANGED <<tree, clone, remote, noted>>

Kill ==
  /\ at # "idle"
  /\ EndWith("killed")
  /\ UNCHANGED <<tree, clone, remote, noted>>

GoTo(call) == at' = call /\ UNCHANGED <<command, k, status>>

-----------------------------------------------------------------------------
(* cmd_pack: one package after the other *)

Package == Packages[k]
Source == tree[command.from][Package]
Target == tree["dest"][Package]
Put(c) == tree' = [tree EXCEPT !["dest"][Package] = c]

\* Mutant: what is there already is taken for done.
CheckPackage_Skips ==
  /\ at = "check"
  /\ Source # "none"
  /\ \/ /\ Target # "none" /\ ~command.force
        /\ IF k < Len(Packages)
           THEN /\ k' = k + 1
                /\ UNCHANGED <<command, at, status>>
           ELSE EndWith("ok")
     \/ /\ Target = "none" \/ command.force
        /\ GoTo(IF Target = "none" THEN "copy" ELSE "rmtree")
  /\ UNCHANGED <<tree, clone, remote, noted>>

CheckPackage ==
  /\ at = "check"
  /\ Source # "none"
  /\ Target = "none" \/ command.force
  /\ GoTo(IF Target = "none" THEN "copy" ELSE "rmtree")
  /\ UNCHANGED <<tree, clone, remote, noted>>

\* The source is missing, or the package is in dest and there is no --force.
PackRefuses ==
  /\ at = "check"
  /\ Source = "none" \/ (Target # "none" /\ ~command.force)
  /\ Fails

\* shutil.rmtree takes the package apart.
RemoveSome ==
  /\ at = "rmtree" /\ Target # "part"
  /\ Put("part")
  /\ UNCHANGED <<running, clone, remote, noted>>

RemoveRest ==
  /\ at = "rmtree" /\ Target = "part"
  /\ Put("none")
  /\ GoTo("copy")
  /\ UNCHANGED <<clone, remote, noted>>

\* shutil.copytree: no source any more raises.
CopySome ==
  /\ at = "copy"
  /\ IF Source = "none" THEN Fails
     ELSE /\ Put("part")
          /\ GoTo("fill")
          /\ UNCHANGED <<clone, remote, noted>>

\* It copies file by file: of a source that is edited meanwhile it may copy
\* some files as they were and some as they are.  (One that finds a file
\* gone raises.)  After the last package the texts are written, and pack is
\* done.
CopyRest ==
  /\ at = "fill"
  /\ \E c \in IF Package \in edited THEN Contents \cup {"part"} ELSE {Source} : Put(c)
  /\ IF k < Len(Packages)
     THEN /\ k' = k + 1 /\ at' = "check"
          /\ UNCHANGED <<command, status>>
     ELSE EndWith("ok")
  /\ UNCHANGED <<clone, remote, noted>>

Pack == CheckPackage \/ PackRefuses \/ RemoveSome \/ RemoveRest \/ CopySome \/ CopyRest

-----------------------------------------------------------------------------
(* cmd_push *)

\* git init, the identity, git add -A, git status and git commit: a commit
\* on what is checked out, if something changed.  Any of them may fail, or
\* the operator gives up.
Commit ==
  /\ at = "commit"
  /\ \/ /\ Len(log) < MaxCommits
        /\ log' = Append(log, here)
        /\ head' = Len(log')
        /\ local' = IF here THEN head' ELSE local
        /\ GoTo("tag")
        /\ UNCHANGED <<tree, here, tags, remote, noted>>
     \/ /\ GoTo("tag")
        /\ UNCHANGED <<tree, clone, remote, noted>>
     \/ Fails

\* git tag -a: that it fails, for a tag that exists, a clone without a commit
\* or any other reason, is passed over.  The remote is set before a dry run
\* ends.
TagHead ==
  /\ at = "tag"
  /\ \/ tags[command.tag] = 0 /\ tags' = [tags EXCEPT ![command.tag] = head]
     \/ UNCHANGED tags
  /\ reused' = (tags[command.tag] # 0)
  /\ IF command.dry THEN EndWith("dry") \/ EndWith("failed") ELSE GoTo("main")
  /\ UNCHANGED <<tree, branches, remote, edited>>

\* Mutant: the result of the push is passed over (check=False).
PushMain_Unchecked ==
  /\ at = "main"
  /\ \/ /\ local > 0 /\ main # Foreign /\ main' = local /\ UNCHANGED rtags
     \/ UNCHANGED remote
  /\ GoTo("push_tag")
  /\ UNCHANGED <<tree, clone, noted>>

\* git push -u origin main: the branch main, whatever is checked out; refused
\* if the remote has what this clone lacks, or there is no such branch.
PushMain ==
  /\ at = "main"
  /\ \/ /\ local > 0 /\ main # Foreign
        /\ main' = local
        /\ GoTo("push_tag") \/ EndWith("failed")
        /\ UNCHANGED <<tree, clone, rtags, noted>>
     \/ Fails

\* git push origin tag: the tag may be there with another commit.
PushTag ==
  /\ at = "push_tag"
  /\ \/ /\ tags[command.tag] > 0 /\ rtags[command.tag] \in {0, tags[command.tag]}
        /\ rtags' = [rtags EXCEPT ![command.tag] = tags[command.tag]]
        /\ EndWith("ok") \/ EndWith("failed")
        /\ UNCHANGED <<tree, clone, main, noted>>
     \/ Fails

Push == Commit \/ TagHead \/ PushMain \/ PushTag

-----------------------------------------------------------------------------
(* Everybody else *)

\* A developer edits a source.
Edit ==
  /\ \E p \in Pkgs, c \in Contents :
       /\ tree["projects"][p] \notin {"none", c}
       /\ tree' = [tree EXCEPT !["projects"][p] = c]
       /\ edited' = IF at = "fill" /\ command.from = "projects" /\ p = Package
                    THEN edited \cup {p} ELSE edited
  /\ UNCHANGED <<running, clone, remote, reused>>

\* Another clone publishes: main moves past it, and a free tag is taken.
Publish(t) ==
  /\ main' = Foreign
  /\ rtags' = [rtags EXCEPT ![t] = IF @ = 0 THEN Foreign ELSE @]
  /\ UNCHANGED <<tree, running, clone, noted>>

RepoNext ==
  \/ (\E c \in Commands : Run(c)) \/ Kill
  \/ Pack \/ Push
  \/ Edit \/ \E t \in Tags : Publish(t)

RepoSpec == RepoInit /\ [][RepoNext]_repo

-----------------------------------------------------------------------------
(* Properties *)

Ended(name, s) == at = "idle" /\ command.name = name /\ status = s

\* A pack that returns 0 has copied every package whole, also over what an
\* earlier pack left that was killed inside a copy - but for a package whose
\* source was edited while it was copied.
PackedIsWhole ==
  Ended("pack", "ok") => \A p \in Pkgs \ edited : tree["dest"][p] \in Contents

\* "pushed ... @ tag": the tag is there and names the commit that was made,
\* and so does main if it was checked out, whatever was killed, rejected or
\* published before - unless the tag was in the clone already: then its old
\* commit is published.
AnnouncedIsPublished ==
  Ended("push", "ok") /\ ~reused =>
    /\ rtags[command.tag] = head
    /\ here => main \in {head, Foreign}

\* What can be installed by a tag, and was made on main, is on main: nobody can
\* see the tag before the commits below it, and a push that fails half way
\* leaves main ahead.
TagsAreOnMain ==
  \A t \in Tags : rtags[t] > 0 =>
    \/ main = Foreign \/ rtags[t] <= main
    \/ ~log[rtags[t]]
=============================================================================
