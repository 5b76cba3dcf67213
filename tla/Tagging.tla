------------------------------ MODULE Tagging -------------------------------
(***************************************************************************)
(* `tag create` (cmd_tag.go) for one tag name: a maintainer's repository,  *)
(* whose checkout moves under the running commands, and the remote.        *)
(***************************************************************************)
EXTENDS ReleaseTag, Naturals

CONSTANTS
  Creates,     \* the invocations of `tag create`
  NoTag,
  MaxFaults    \* commands that fail, are lost or killed

ASSUME TaggingAssumption ==
  /\ NoTag \notin [commit : Commits, listed : BOOLEAN, by : Creates]
  /\ MaxFaults \in Nat

VARIABLES
  head,    \* the commit that is checked out
  dirty,   \* tracked files were changed
  local,   \* the tag object refs/tags/<tag> of the repository, or NoTag
  remote,  \* the one of the remote, or NoTag
  create,  \* invocation -> [pc, branch, tag]
  faults   \* faults so far

tagVars == <<head, dirty, local, remote, create, faults>>

\* A tag object: the commit it points at, whether allowed_signers lists the key
\* that signed it, and the invocation that made it, which tells objects apart.
TagObject == [commit : Commits, listed : BOOLEAN, by : Creates]

\* The places of an invocation, in order: before the changelog of the working copy
\* is read, before git status, git tag, verifyTag, git tag --delete and git push.
Busy == {"changelog", "status", "tag", "verify", "delete", "push"}
Creation == [pc : {"idle", "ended"} \union Busy, branch : BOOLEAN, tag : TagObject \union {NoTag}]

TagTypeOK ==
  /\ head \in Commits /\ dirty \in BOOLEAN
  /\ local \in TagObject \union {NoTag} /\ remote \in TagObject \union {NoTag}
  /\ create \in [Creates -> Creation]
  /\ faults \in 0 .. MaxFaults

TagInit ==
  /\ head \in Commits /\ dirty \in BOOLEAN
  /\ local = NoTag /\ remote = NoTag
  /\ create = [c \in Creates |-> [pc |-> "idle", branch |-> FALSE, tag |-> NoTag]]
  /\ faults = 0

Goto(c, pc) == create' = [create EXCEPT ![c].pc = pc]

\* The options: --branch is empty unless it is given.
Begin(c) ==
  /\ create[c].pc = "idle"
  /\ \E b \in BOOLEAN : create' = [create EXCEPT ![c].pc = "changelog", ![c].branch = b]
  /\ UNCHANGED <<head, dirty, local, remote, faults>>

\* The changelog in the working copy, which may hold anything if it was changed.
ReadChangelog(c) ==
  /\ create[c].pc = "changelog"
  /\ \/ (dirty \/ head \in Ready) /\ Goto(c, "status")
     \/ (dirty \/ head \notin Ready) /\ Goto(c, "ended")
  /\ UNCHANGED <<head, dirty, local, remote, faults>>

CheckClean(c) ==
  /\ create[c].pc = "status"
  /\ Goto(c, IF dirty THEN "ended" ELSE "tag")
  /\ UNCHANGED <<head, dirty, local, remote, faults>>

\* Mutant: git tag --force.
GitTagForce(c) ==
  /\ create[c].pc = "tag"
  /\ \E l \in BOOLEAN : local' = [commit |-> head, listed |-> l, by |-> c]
  /\ Goto(c, "verify")
  /\ UNCHANGED <<head, dirty, remote, faults>>

\* git tag --sign at HEAD, with whatever key git is configured for; an existing tag
\* is not replaced.
GitTag(c) ==
  /\ create[c].pc = "tag"
  /\ IF local = NoTag
     THEN /\ \E l \in BOOLEAN : local' = [commit |-> head, listed |-> l, by |-> c]
          /\ Goto(c, "verify")
     ELSE /\ UNCHANGED local
          /\ Goto(c, "ended")
  /\ UNCHANGED <<head, dirty, remote, faults>>

\* Repo.Read by name, then the predicate.  A git command that fails on the way is a
\* tag that does not pass.
VerifyTag(c) ==
  /\ create[c].pc = "verify"
  /\ \/ /\ local # NoTag /\ ValidTag(local, create[c].branch)
        /\ create' = [create EXCEPT ![c].pc = "push", ![c].tag = local]
        /\ UNCHANGED faults
     \/ /\ local = NoTag \/ ~ValidTag(local, create[c].branch)
        /\ Goto(c, "delete") /\ UNCHANGED faults
     \/ /\ faults < MaxFaults /\ faults' = faults + 1
        /\ Goto(c, "delete")
  /\ UNCHANGED <<head, dirty, local, remote>>

\* git tag --delete by name; its result is ignored.
DeleteTag(c) ==
  /\ create[c].pc = "delete"
  /\ \/ local' = NoTag /\ UNCHANGED faults
     \/ faults < MaxFaults /\ faults' = faults + 1 /\ UNCHANGED local
  /\ Goto(c, "ended")
  /\ UNCHANGED <<head, dirty, remote>>

\* git push by name.  The remote accepts a new tag and refuses to move one; an
\* answer that is lost leaves the tag there or not.
PushTag(c) ==
  /\ create[c].pc = "push"
  /\ \/ remote = NoTag /\ remote' = local /\ UNCHANGED faults
     \/ remote # NoTag /\ UNCHANGED <<remote, faults>>
     \/ faults < MaxFaults /\ faults' = faults + 1 /\ UNCHANGED remote
  /\ Goto(c, "ended")
  /\ UNCHANGED <<head, dirty, local>>

\* A command fails or the process is killed.
Killed(c) ==
  /\ create[c].pc \in Busy
  /\ faults < MaxFaults /\ faults' = faults + 1
  /\ Goto(c, "ended")
  /\ UNCHANGED <<head, dirty, local, remote>>

\* Somebody works in the repository while the commands run.
Work ==
  /\ head' \in Commits /\ dirty' \in BOOLEAN
  /\ UNCHANGED <<local, remote, create, faults>>

\* The maintainer removes a tag that a broken invocation left, once none runs.
CleanUp ==
  /\ \A c \in Creates : create[c].pc \notin Busy
  /\ local # NoTag /\ local' = NoTag
  /\ UNCHANGED <<head, dirty, remote, create, faults>>

TagStep ==
  \/ Work
  \/ CleanUp
  \/ \E c \in Creates :
       \/ Begin(c)
       \/ ReadChangelog(c)
       \/ CheckClean(c)
       \/ GitTag(c)
       \/ VerifyTag(c)
       \/ DeleteTag(c)
       \/ PushTag(c)
       \/ Killed(c)

TagSpec == TagInit /\ [][TagStep]_tagVars

\* Type invariant, and who holds the tag name: from git tag to git push or git tag
\* --delete the local tag is the invocation's own, and it is valid before the push;
\* nothing else that runs replaces or removes it (cmd_tag.go, tagCreate).
TagInv ==
  /\ TagTypeOK
  /\ \A c \in Creates :
       /\ create[c].pc \in {"verify", "delete", "push"} => local # NoTag /\ local.by = c
       /\ create[c].pc = "push" => ValidTag(local, create[c].branch)
  /\ remote # NoTag =>
       create[remote.by].pc # "idle" /\ ValidTag(remote, create[remote.by].branch)

\* A tag that has reached the remote passed verifyTag, with the options of the
\* invocation that made it, although the checkout moves between the checks and git
\* tag, a rejected tag may survive its delete, invocations overlap, and git push names
\* the tag and not the object that was verified (cmd_tag.go).
PushedIsVerified == remote # NoTag => ValidTag(remote, create[remote.by].branch)
=============================================================================
