----------------------------- MODULE MCPublish -----------------------------
(***************************************************************************)
(* Values for the constants of Publish: one job, two or three files, and   *)
(* the stores earlier attempts may have left.                              *)
(***************************************************************************)
EXTENDS PublishRefinement, PublishInvariant, PublishProgress, TLC

CONSTANTS job, job2, tag, later, rc, a, b, c, a1, b1, c1, x, commit, other

MCSize == a1 :> 2 @@ x :> 2 @@ b1 :> 1 @@ c1 :> 1 @@ Partial :> 1

AB  == a :> a1 @@ b :> b1
XB  == a :> x @@ b :> b1
ABC == AB @@ c :> c1

Rel(t, draft)          == [tag |-> t, draft |-> draft, latest |-> FALSE]
Ass(r, n, bytes, st)   == [rel |-> r, name |-> n, content |-> bytes, state |-> st]
Store(R, A, n)         == [rels |-> R, assets |-> A, nextId |-> n]

Empty == Store(<<>>, <<>>, 1)

\* GitHub, earlier attempts of the tag: two drafts, one with a wrong file, a stale
\* file and half a file.
Leftovers == Store(<<Rel(tag, TRUE), Rel(tag, TRUE)>>,
                   3 :> Ass(1, a, x, "uploaded") @@ 4 :> Ass(1, c, c1, "uploaded")
                     @@ 5 :> Ass(1, b, Partial, "starter"), 6)

\* Forgejo: one draft, a file stored twice, a stale one and a wrong one.
Doubles == Store(<<Rel(tag, TRUE)>>,
                 2 :> Ass(1, a, a1, "uploaded") @@ 3 :> Ass(1, a, a1, "uploaded")
                   @@ 4 :> Ass(1, c, c1, "uploaded") @@ 5 :> Ass(1, b, c1, "uploaded"), 6)

\* A later version is public already.
Outranked == Store(<<Rel(later, FALSE)>>, <<>>, 2)

\* So is a release candidate of a still later one.
Candidate == Store(<<Rel(rc, FALSE)>>, <<>>, 2)

\* The tag itself is public, with exactly the files AB and a forgotten draft.
Public == Store(<<Rel(tag, FALSE), Rel(later, TRUE)>>,
                3 :> Ass(1, a, a1, "uploaded") @@ 4 :> Ass(1, b, b1, "uploaded"), 5)

GitHubStores  == {Empty, Leftovers, Outranked, Candidate, Public}
ForgejoStores == {Empty, Doubles, Outranked, Public}

TwoLocalSets == [p \in Publishers |-> IF p = job THEN {AB} ELSE {XB}]
TwoTags     == [p \in Publishers |-> IF p = job THEN tag ELSE later]
\* Every run of the job signs anew: the evidence file differs from run to run.
ResignedSets == [p \in Publishers |-> {AB, XB}]
OnlyEmpty   == {Empty}
MCTagOf     == [p \in Publishers |-> tag]
MCLocalSets == [p \in Publishers |-> {AB, XB, ABC}]
OneLocalSet == [p \in Publishers |-> {AB}]
MCRemoteTag == [t \in Tags |-> commit]
MCLatest    == [p \in Publishers |-> "auto"]
MCRank      == tag :> 1 @@ later :> 2 @@ rc :> 3
=============================================================================
