----------------------------- MODULE ReleaseTag -----------------------------
(***************************************************************************)
(* What makes a tag a release tag: verifyTag of cmd_tag.go, with           *)
(* internal/gittag, the predicate `tag create` and `tag verify` share.     *)
(***************************************************************************)
CONSTANTS
  Commits,     \* the commits of the repository
  OnBranch,    \* those reachable from the release branch
  Ready        \* those whose changelog is in order for the version of the tag

ASSUME TagAssumption == OnBranch \subseteq Commits /\ Ready \subseteq Commits

\* t is an annotated tag of commit t.commit; t.listed: allowed_signers lists the key
\* that signed it, at the time of the tagger.  The tag, the commit and its changelog
\* are objects that do not change.  Two things the code reads can: the allowed_signers
\* file of the working copy and the ref of the release branch.  Here they stay as they
\* are, for all invocations and all attempts of the job; --changelog is not "none".
ValidTag(t, branch) ==
  /\ t.listed
  /\ branch => t.commit \in OnBranch
  /\ t.commit \in Ready
=============================================================================
