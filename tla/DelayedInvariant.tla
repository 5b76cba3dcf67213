-------------------------- MODULE DelayedInvariant --------------------------
(***************************************************************************)
(* What stays true of a job's releases however its runs overlap and        *)
(* however late its requests arrive.  PublishInvariant says that a run     *)
(* knows its release; with a second job on the tag, or with a request of   *)
(* an earlier run still on its way, it does not: the release may be gone,  *)
(* or public, and other releases may have appeared.  What remains is what  *)
(* no request takes back.  Ids are given out once, an asset never changes, *)
(* what is public stays public for as long as it exists, and on GitHub a   *)
(* release that has all its names takes no further asset.                  *)
(***************************************************************************)
EXTENDS PublishInvariant, PublishDelayed

\* All runs for a tag bring the same files.
OneFileSet ==
  \A p, q \in Publishers : TagOf[p] = TagOf[q] =>
    LocalSets[p] = LocalSets[q] /\ \A l, m \in LocalSets[p] : l = m

\* The release a run works on is of its tag, and public if the run has seen that.
ReleaseOK(t, me) ==
  /\ me.rel < nextId
  /\ me.rel \in DOMAIN rels =>
       /\ rels[me.rel].tag = t
       /\ me.pc \in OnPublic \cup {"succeeded"} => ~rels[me.rel].draft

\* What is left to drop is of the tag.
DroppedOK(t, me) ==
  \A o \in me.others : o.id < nextId /\ (o.id \in DOMAIN rels => rels[o.id].tag = t)

\* What every run knows, whoever else works on its tag, on either host.
Basic(t, me) ==
  ReleaseOK(t, me) /\ DroppedOK(t, me) /\ ListedOK(me) /\ WorkOK(me) /\ MemoOK(me)

\* A comparison under way: what it has found is so, unless an asset it has still to
\* download, or the release itself, has been deleted.
ComparedOK(me) ==
  me.rel \in DOMAIN rels /\ (\A s \in me.todo : s.id \in DOMAIN assets) => ShapeOK(me)

\* Nothing is set aside for deletion but what is wrong.
WrongOK(me) == \A s \in me.doomed : s.id \in DOMAIN assets => ~Right(s.id, me.local)

\* What was compared is still equal, if it is still there.
StillReady(me) == me.rel \in DOMAIN rels => ReadyOK(me)

RunOK(p, me) ==
  /\ Basic(TagOf[p], me)
  /\ me.pc # "idle" => me.local \in LocalSets[p]
  /\ ComparedOK(me) /\ WrongOK(me) /\ StillReady(me)

\* Release r is the whole set of files of the jobs of its tag.
Complete(r) ==
  \A p \in Publishers : TagOf[p] = rels[r].tag => \E l \in LocalSets[p] : Exact(r, l)

\* The requests that can be on their way.
LateRequest ==
  [kind : {"create"}, tag : Tags]
    \cup [kind : {"upload"}, rel : Nat, name : Names, content : Contents]
    \cup [kind : {"publish"}, rel : Nat, latest : BOOLEAN]
    \cup [kind : {"drop"}, rel : Nat]
    \cup [kind : {"delete"}, asset : Nat]

DTypeOK == TypeOK /\ late \subseteq LateRequest /\ delays \in 0 .. MaxLate

\* Asset a is not a file the jobs of its release's tag bring.
Surplus(a) ==
  \A p \in Publishers : TagOf[p] = rels[assets[a].rel].tag =>
    \A l \in LocalSets[p] : ~Right(a, l)

\* Release r is of the tag of a job.
OfJob(r) == \E p \in Publishers : rels[r].tag = TagOf[p]

\* A request on its way names a release or an asset that had its id when it was sent.
\* An upload brings a file of the tag's set, what is to be published has been compared,
\* and an asset to be deleted is wrong.
LateOK(q) ==
  /\ q.kind \in {"upload", "publish", "drop"} => q.rel < nextId
  /\ q.kind = "upload" /\ q.rel \in DOMAIN rels =>
       /\ OfJob(q.rel)
       /\ \A p \in Publishers : TagOf[p] = rels[q.rel].tag =>
            \A l \in LocalSets[p] : q.name \in DOMAIN l
  /\ q.kind = "publish" /\ q.rel \in DOMAIN rels => Complete(q.rel)
  /\ q.kind = "delete" =>
       /\ q.asset < nextId
       /\ q.asset \in DOMAIN assets => Surplus(q.asset)

(* The inductive invariant behind PublicComplete on GitHub: what a run, or *)
(* a request on its way, will still do to a release of a tag completes it  *)
(* or removes what is surplus (publish.go:285-400 and 468-501).            *)
DelayedInv ==
  /\ DTypeOK
  /\ \A p \in Publishers : RunOK(p, run[p])
  /\ \A q \in late : LateOK(q)
  /\ PublicComplete
=============================================================================
