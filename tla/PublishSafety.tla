--------------------------- MODULE PublishSafety ---------------------------
(***************************************************************************)
(* What publish promises of every job that has its tag to itself, proved   *)
(* for every value of the constants: IInv is an invariant, the promises    *)
(* follow from it, and it implements the abstract publication; and what it *)
(* promises of any jobs.                                                   *)
(*                                                                         *)
(* The argument.  What a run has read stays true as long as nobody touches *)
(* the releases of its tag (UntouchedKeeps).  A request of another job     *)
(* touches only releases of that job's tag (second part).  A read turns    *)
(* true knowledge into true knowledge (third part), and so does a write of *)
(* the run itself (fourth part).                                           *)
(***************************************************************************)
EXTENDS PublishProofs, PublishRefinement

\* A step that leaves the releases of t, their assets and all old ids alone.
Untouched(t) ==
  /\ nextId \in Nat /\ nextId' \in Nat /\ nextId <= nextId'
  /\ ReleasesOf(t)' = ReleasesOf(t)
  /\ \A r \in ReleasesOf(t) : rels'[r] = rels[r] /\ AssetsOf(r)' = AssetsOf(r)
  /\ \A r \in DOMAIN rels' : r < nextId => r \in DOMAIN rels /\ rels'[r].tag = rels[r].tag
  /\ \A a \in DOMAIN assets' : a < nextId => a \in DOMAIN assets /\ assets'[a] = assets[a]

\* The ids of a store are natural numbers below the next one.
LEMMA IdFacts ==
  ASSUME HostOK
  PROVE  /\ nextId \in Nat \ {0}
         /\ \A r \in DOMAIN rels : r \in Nat /\ r < nextId
         /\ \A a \in DOMAIN assets :
              a \in Nat /\ a < nextId /\ assets[a].rel \in DOMAIN rels
BY DEF HostOK, WellFormedStore

\* Nothing is touched when the store stays as it is.
LEMMA NothingTouched ==
  ASSUME HostOK, UNCHANGED hostVars, NEW t
  PROVE  Untouched(t)
BY IdFacts DEF hostVars, Untouched, ReleasesOf, AssetsOf

\* Knowledge of the tag's releases survives a step that does not touch them.
LEMMA UntouchedKeeps ==
  ASSUME HostOK, NEW t, NEW me \in RunRecord, Own(t, me), Untouched(t)
  PROVE  Own(t, me)'
<1>1. me.pc \in Holding \cup {"succeeded"} => me.rel \in ReleasesOf(t)
  BY DEF Own, OwnRelease, SuccessOK, ReleasesOf
<1>2. \A r \in ReleasesOf(t) :
        /\ r \in DOMAIN rels' /\ rels'[r] = rels[r]
        /\ \A a \in AssetsOf(r) : a \in DOMAIN assets' /\ assets'[a] = assets[a]
  <2>1. \A r \in ReleasesOf(t) : \A a \in AssetsOf(r) :
          r \in ReleasesOf(t)' /\ a \in AssetsOf(r)' /\ a < nextId
    BY IdFacts DEF Untouched, AssetsOf
  <2>2. QED
    BY <2>1 DEF Untouched, ReleasesOf, AssetsOf
<1>3. OwnRelease(t, me)'
  BY <1>1, <1>2 DEF Own, OwnRelease, Holding, ReleasesOf
<1>4. OthersOK(t, me)'
  <2> SUFFICES ASSUME NEW o \in me.others
               PROVE  /\ o.id # me.rel
                      /\ o.id < nextId'
                      /\ o.id \in DOMAIN rels' => rels'[o.id].tag = t /\ rels'[o.id].draft = o.draft
    BY DEF Own, OthersOK
  <2>1. o.id # me.rel /\ o.id < nextId
        /\ (o.id \in DOMAIN rels => rels[o.id].tag = t /\ rels[o.id].draft = o.draft)
    BY DEF Own, OthersOK
  <2>2. o.id \in Nat
    BY DEF RunRecord
  <2>3. QED
    BY <2>1, <2>2, <1>2 DEF Untouched, ReleasesOf
<1>5. AloneOK(t, me)'
  BY DEF Own, AloneOK, Untouched
<1>6. CheckedOK(t, me)'
  BY DEF Own, CheckedOK, WithinLimits
<1>7. ListedOK(me)'
  <2> SUFFICES ASSUME NEW s \in me.doomed \cup me.todo
               PROVE  /\ s.id < nextId'
                      /\ s.id \in DOMAIN assets' => s = View(s.id)' /\ assets'[s.id].rel = me.rel
    BY DEF ListedOK
  <2>1. s.id \in Nat
    BY DEF RunRecord, AssetView
  <2>2. s.id < nextId /\ (s.id \in DOMAIN assets => s = View(s.id) /\ assets[s.id].rel = me.rel)
    BY DEF Own, ListedOK
  <2>3. QED
    BY <2>1, <2>2 DEF Untouched, View
<1>8. WorkOK(me)'
  BY DEF Own, WorkOK
<1>9. MemoOK(me)'
  <2>1. \A m \in me.memo : m[1] \in Nat
    BY DEF RunRecord
  <2>2. QED
    BY <2>1 DEF Own, MemoOK, Untouched
<1>10. ASSUME NEW l, me.rel \in ReleasesOf(t), Exact(me.rel, l)
       PROVE  Exact(me.rel, l)'
  BY <1>2, <1>10 DEF Untouched, Exact
<1>11. ReadyOK(me)'
  BY <1>1, <1>10 DEF Own, ReadyOK, Holding, OnDraft
<1>12. SuccessOK(t, me)'
  BY <1>1, <1>2, <1>10 DEF Own, SuccessOK, ReleasesOf
<1>13. ShapeOK(me)'
  <2> SUFFICES ASSUME me.listed PROVE ShapeOK(me)'
    BY DEF ShapeOK
  <2>1. me.rel \in ReleasesOf(t)
    BY <1>1 DEF Own, WorkOK, Holding, OnDraft, OnPublic, CompareAt
  <2>2. AssetsOf(me.rel)' = AssetsOf(me.rel)
        /\ \A a \in AssetsOf(me.rel) : assets'[a] = assets[a] /\ View(a)' = View(a)
    BY <2>1, <1>2 DEF Untouched, View
  <2>3. QED
    BY <2>2 DEF Own, ShapeOK
<1>14. QED
  BY <1>3, <1>4, <1>5, <1>6, <1>7, <1>8, <1>9, <1>11, <1>12, <1>13 DEF Own
-----------------------------------------------------------------------------
(***************************************************************************)
(* What each request leaves alone.                                         *)
(***************************************************************************)
\* A new draft touches its own tag only.
LEMMA CreateTouches ==
  ASSUME HostOK, NEW u, CreateRelease(u), NEW t, t # u
  PROVE  Untouched(t)
<1>1. /\ DOMAIN rels' = DOMAIN rels \cup {nextId}
      /\ \A r \in DOMAIN rels : rels'[r] = rels[r]
      /\ rels'[nextId].tag = u
      /\ nextId' = nextId + 1
      /\ assets' = assets
  BY IdFacts DEF CreateRelease
<1>2. QED
  BY <1>1, IdFacts DEF Untouched, ReleasesOf, AssetsOf

\* Deleting a release touches its own tag only.
LEMMA RemoveReleaseTouches ==
  ASSUME HostOK, NEW r, RemoveRelease(r), NEW t, r \in DOMAIN rels => rels[r].tag # t
  PROVE  Untouched(t)
<1>1. /\ DOMAIN rels' = DOMAIN rels \ {r}
      /\ \A q \in DOMAIN rels' : rels'[q] = rels[q]
      /\ DOMAIN assets' = DOMAIN assets \ AssetsOf(r)
      /\ \A a \in DOMAIN assets' : assets'[a] = assets[a]
      /\ nextId' = nextId
  BY DEF RemoveRelease, Restrict
<1>2. QED
  BY <1>1, IdFacts DEF Untouched, ReleasesOf, AssetsOf

\* An upload touches the release it goes to.
LEMMA StoreTouches ==
  ASSUME HostOK, NEW r, NEW n, NEW c, NEW st, StoreAsset(r, n, c, st),
         NEW t, r \notin ReleasesOf(t)
  PROVE  Untouched(t)
<1>1. /\ DOMAIN assets' = DOMAIN assets \cup {nextId}
      /\ \A a \in DOMAIN assets : assets'[a] = assets[a]
      /\ assets'[nextId].rel = r
      /\ nextId' = nextId + 1
      /\ rels' = rels
  BY IdFacts DEF StoreAsset
<1>2. QED
  BY <1>1, IdFacts DEF Untouched, ReleasesOf, AssetsOf

\* Deleting an asset touches the release it belongs to.
LEMMA RemoveAssetTouches ==
  ASSUME HostOK, NEW a, RemoveAsset(a), NEW t,
         a \in DOMAIN assets => assets[a].rel \notin ReleasesOf(t)
  PROVE  Untouched(t)
<1>1. /\ DOMAIN assets' = DOMAIN assets \ {a}
      /\ \A b \in DOMAIN assets' : assets'[b] = assets[b]
      /\ nextId' = nextId
      /\ rels' = rels
  BY DEF RemoveAsset, Restrict
<1>2. QED
  BY <1>1, IdFacts DEF Untouched, ReleasesOf, AssetsOf

\* Publishing touches the release that is published.
LEMMA PublishTouches ==
  ASSUME HostOK, NEW r, NEW l, PublishRelease(r, l), NEW t, r \notin ReleasesOf(t)
  PROVE  Untouched(t)
<1>1. /\ DOMAIN rels' = DOMAIN rels
      /\ \A q \in DOMAIN rels : q # r => rels'[q] = rels[q]
      /\ r \in DOMAIN rels => rels'[r].tag = rels[r].tag
      /\ nextId' = nextId
      /\ assets' = assets
  <2>1. r \in DOMAIN rels => rels[r] \in ReleaseRecord
    BY DEF HostOK, WellFormedStore
  <2>2. QED
    BY <2>1 DEF PublishRelease, ReleaseRecord
<1>2. QED
  BY <1>1, IdFacts DEF Untouched, ReleasesOf, AssetsOf

\* A step of a job leaves the other tags alone.
LEMMA StepTouchesOwnTag ==
  ASSUME TypeOK, NEW p \in Publishers, OwnInv(p), Start(p) \/ Progress(p) \/ Trouble(p),
         NEW t, t # TagOf[p]
  PROVE  Untouched(t)
<1> DEFINE me == run[p]
<1>1. HostOK /\ Own(TagOf[p], me)
  BY DEF TypeOK, OwnInv
<1> HIDE DEF me
<1>2. CASE UNCHANGED hostVars
  BY <1>1, <1>2, NothingTouched
<1>3. CASE DropOther(p)
  <2>1. PICK o \in me.others : RemoveRelease(o.id) \/ UNCHANGED hostVars
    BY <1>3 DEF DropOther, me
  <2>2. o.id \in DOMAIN rels => rels[o.id].tag = TagOf[p]
    BY <1>1 DEF Own, OthersOK
  <2>3. QED
    BY <1>1, <2>1, <2>2, NothingTouched, RemoveReleaseTouches
<1>4. CASE CreateDraft(p) \/ CreateLost(p)
  BY <1>1, <1>4, NothingTouched, CreateTouches DEF CreateDraft, CreateLost
<1>5. ASSUME me.pc \in {"reconcile", "publish"} PROVE me.rel \notin ReleasesOf(t)
  BY <1>1, <1>5 DEF Own, OwnRelease, Holding, OnDraft, ReleasesOf
<1>6. CASE DeleteDoomed(p)
  <2>1. PICK s \in me.doomed : RemoveAsset(s.id) \/ UNCHANGED hostVars
    BY <1>6 DEF DeleteDoomed, me
  <2>2. me.pc = "reconcile"
    BY <1>6 DEF DeleteDoomed, me
  <2>3. s.id \in DOMAIN assets => assets[s.id].rel = me.rel
    BY <1>1 DEF Own, ListedOK
  <2>4. QED
    BY <1>1, <1>5, <2>1, <2>2, <2>3, NothingTouched, RemoveAssetTouches
<1>7. CASE Upload(p) \/ UploadLost(p)
  <2>1. me.pc = "reconcile"
    BY <1>7 DEF Upload, UploadLost, Uploading, me
  <2>2. UNCHANGED hostVars \/ \E n, c, st : StoreAsset(me.rel, n, c, st)
    BY <1>7 DEF Upload, UploadLost, me
  <2>3. QED
    BY <1>1, <1>5, <2>1, <2>2, NothingTouched, StoreTouches
<1>8. CASE SendPublish(p) \/ PublishLost(p)
  <2>1. me.pc = "publish"
    BY <1>8 DEF SendPublish, PublishLost, me
  <2>2. UNCHANGED hostVars \/ \E l : PublishRelease(me.rel, l)
    BY <1>8 DEF SendPublish, PublishLost, me
  <2>3. QED
    BY <1>1, <1>5, <2>1, <2>2, NothingTouched, PublishTouches
<1>9. QED
  BY <1>2, <1>3, <1>4, <1>6, <1>7, <1>8
     DEF Progress, Trouble, Start, CheckLimits, CheckTag, FindByTag, FindInList, ListOthers,
         ReconcileList, CheckStored, EndRound, CompareList, CompareDownload, CompareDone,
         DecideLatest, Abort, ReadOnly, hostVars
-----------------------------------------------------------------------------
(***************************************************************************)
(* What a run makes of an answer is true of the store.  The step of a run  *)
(* that only reads has the form Knows.                                     *)
(***************************************************************************)
Knows(p) == \E x : Continue(p, x) /\ Own(TagOf[p], x)

\* A run that has not looked yet, or has failed, claims nothing.
LEMMA FreshKnows ==
  ASSUME NEW t, NEW pc \in {"idle", "limits", "failed"}, NEW l, NEW c, NEW n, NEW r
  PROVE  Own(t, Blank(pc, l, c, n)) /\ Own(t, [Blank(pc, l, c, n) EXCEPT !.rel = r])
BY DEF Blank, Own, OwnRelease, OthersOK, AloneOK, CheckedOK, ListedOK, WorkOK, MemoOK,
       ShapeOK, ReadyOK, SuccessOK, Holding, OnDraft, OnPublic, Settled, Working, FindAt,
       CompareAt

\* Failing is always allowed.
LEMMA FailKnows ==
  ASSUME NEW p, Fail(p)
  PROVE  Knows(p)
BY FreshKnows DEF Fail, Knows, Ended

\* The steps before the first look at the release.
LEMMA ChecksKnow ==
  ASSUME TypeOK, NEW p \in Publishers, OwnInv(p), Start(p) \/ CheckLimits(p) \/ CheckTag(p)
  PROVE  Knows(p)
<1> DEFINE me == run[p]
           t == TagOf[p]
<1>1. me \in RunRecord /\ Own(t, me)
  BY DEF TypeOK, OwnInv
<1> HIDE DEF me, t
<1>2. CASE Start(p)
  BY <1>2, FreshKnows DEF Start, Knows
<1>3. ASSUME me.pc = "limits", WithinLimits(me.local)
      PROVE  Own(t, [me EXCEPT !.pc = "tag"])
  BY <1>1, <1>3
     DEF RunRecord, Own, OwnRelease, OthersOK, AloneOK, CheckedOK, ListedOK, WorkOK, MemoOK,
         ShapeOK, ReadyOK, SuccessOK, Holding, OnDraft, OnPublic, Settled, CompareAt
<1>4. ASSUME me.pc = "tag", RemoteTag[t] = me.commit
      PROVE  Own(t, [me EXCEPT !.pc = "find"])
  BY <1>1, <1>4
     DEF RunRecord, Own, OwnRelease, OthersOK, AloneOK, CheckedOK, ListedOK, WorkOK, MemoOK,
         ShapeOK, ReadyOK, SuccessOK, Holding, OnDraft, OnPublic, Settled, Working, CompareAt
<1>5. QED
  BY <1>2, <1>3, <1>4, FailKnows DEF CheckLimits, CheckTag, Goto, Knows, me, t

\* What FindRelease answers is a release of the tag.
LEMMA FoundKnows ==
  ASSUME TypeOK, NEW t, NEW me \in RunRecord, Own(t, me), me.pc \in FindAt,
         NEW r \in ReleasesOf(t)
  PROVE  Own(t, AfterFind(me, r))
<1>1. r \in DOMAIN rels /\ rels[r].tag = t /\ rels[r].draft \in BOOLEAN
  BY DEF ReleasesOf, TypeOK, HostOK, WellFormedStore, ReleaseRecord
<1>2. Own(t, Ended(me, "failed"))
  BY FreshKnows DEF Ended
<1>3. me.others = {} /\ me.doomed = {} /\ me.todo = {} /\ ~me.listed
  BY DEF Own, OthersOK, WorkOK, FindAt, CompareAt, RunRecord
<1> DEFINE to(q, pc) == [me EXCEPT !.scan = FALSE, !.rel = q, !.pc = pc]
<1>4. ASSUME NEW q, NEW pc \in {"already", "others", "list", "publish", "confirm", "recheck"}
      PROVE  /\ to(q, pc).rel = q /\ to(q, pc).pc = pc
             /\ to(q, pc).others = {} /\ to(q, pc).doomed = {} /\ to(q, pc).todo = {}
             /\ ~to(q, pc).listed /\ to(q, pc).local = me.local
             /\ to(q, pc).commit = me.commit /\ to(q, pc).memo = me.memo
             /\ to(q, pc).missing = me.missing
  BY <1>3 DEF RunRecord
<1> HIDE DEF to
<1>5. ASSUME NEW q \in ReleasesOf(t),
             NEW pc \in {"already", "others", "list", "publish", "confirm", "recheck"},
             pc \in OnDraft => rels[q].draft,
             pc \in OnPublic => ~rels[q].draft,
             pc \in Settled => \A z \in ReleasesOf(t) : z = q,
             pc = "publish" => Exact(q, me.local)
      PROVE  Own(t, to(q, pc))
  <2>1. OwnRelease(t, to(q, pc))
    BY <1>4, <1>5 DEF OwnRelease, ReleasesOf, OnDraft, OnPublic
  <2>2. OthersOK(t, to(q, pc)) /\ ListedOK(to(q, pc)) /\ ShapeOK(to(q, pc))
        /\ SuccessOK(t, to(q, pc))
    BY <1>4, <1>5 DEF OthersOK, ListedOK, ShapeOK, SuccessOK
  <2>3. AloneOK(t, to(q, pc))
    BY <1>4, <1>5 DEF AloneOK
  <2>4. CheckedOK(t, to(q, pc))
    BY <1>4, <1>5 DEF Own, CheckedOK, FindAt, Working
  <2>5. WorkOK(to(q, pc)) /\ MemoOK(to(q, pc))
    BY <1>4, <1>5 DEF Own, WorkOK, MemoOK
  <2>6. ReadyOK(to(q, pc))
    BY <1>4, <1>5 DEF ReadyOK
  <2>7. QED
    BY <2>1, <2>2, <2>3, <2>4, <2>5, <2>6 DEF Own
<1>6. CASE me.pc = "find"
  <2>1. AfterFind(me, r) = to(r, IF rels[r].draft THEN "others" ELSE "already")
    BY <1>1, <1>6 DEF AfterFind, to, RunRecord
  <2>2. QED
    BY <1>1, <1>5, <2>1 DEF OnDraft, OnPublic, Settled
<1>7. CASE me.pc = "refind"
  <2>1. \A z \in ReleasesOf(t) : z = r
    BY <1>7 DEF Own, AloneOK
  <2>2. rels[r].draft => AfterFind(me, r) = to(r, "list")
    BY <1>1, <1>7 DEF AfterFind, to, RunRecord
  <2>3. ~rels[r].draft => AfterFind(me, r) = Ended(me, "failed")
    BY <1>7 DEF AfterFind
  <2>4. QED
    BY <1>1, <1>2, <1>5, <2>1, <2>2, <2>3 DEF OnDraft, OnPublic, Settled
<1>8. CASE me.pc = "guard"
  <2>1. /\ rels[me.rel].draft /\ me.rel \in ReleasesOf(t)
        /\ \A z \in ReleasesOf(t) : z = me.rel
        /\ Exact(me.rel, me.local)
    BY <1>8 DEF Own, OwnRelease, AloneOK, ReadyOK, Holding, OnDraft, Settled, ReleasesOf
  <2>2. r = me.rel /\ AfterFind(me, r) = to(r, "publish")
    BY <1>8, <2>1 DEF AfterFind, to, RunRecord
  <2>3. QED
    BY <1>5, <2>1, <2>2 DEF OnDraft, OnPublic, Settled
<1>9. CASE me.pc \in {"reread", "confirm"}
  <2>1. \/ AfterFind(me, r) = Ended(me, "failed")
        \/ /\ r = me.rel /\ ~rels[r].draft
           /\ \E pc \in {"confirm", "recheck"} : AfterFind(me, r) = to(r, pc)
    BY <1>1, <1>9 DEF AfterFind, to, RunRecord
  <2>2. QED
    BY <1>2, <1>5, <2>1 DEF OnDraft, OnPublic, Settled
<1>10. QED
  BY <1>6, <1>7, <1>8, <1>9 DEF FindAt

\* No answer of FindRelease means that the tag has no release.
LEMMA MissingKnows ==
  ASSUME NEW t, NEW me \in RunRecord, Own(t, me), me.pc \in FindAt, ReleasesOf(t) = {}
  PROVE  Own(t, AfterMissing(me))
<1>1. Own(t, Ended(me, "failed"))
  BY FreshKnows DEF Ended
<1>2. CASE me.pc = "find"
  <2> DEFINE x == [me EXCEPT !.scan = FALSE, !.pc = "create"]
  <2>1. /\ x.pc = "create" /\ x.others = {} /\ x.doomed = {} /\ x.todo = {} /\ ~x.listed
        /\ x.local = me.local /\ x.commit = me.commit /\ x.memo = me.memo
        /\ x.missing = me.missing
    BY <1>2 DEF Own, OthersOK, WorkOK, CompareAt, RunRecord
  <2> HIDE DEF x
  <2>2. OwnRelease(t, x) /\ OthersOK(t, x) /\ AloneOK(t, x) /\ ListedOK(x) /\ ShapeOK(x)
        /\ ReadyOK(x) /\ SuccessOK(t, x)
    BY <2>1 DEF OwnRelease, OthersOK, AloneOK, ListedOK, ShapeOK, ReadyOK, SuccessOK,
                Holding, OnDraft, OnPublic, Settled
  <2>3. CheckedOK(t, x) /\ WorkOK(x) /\ MemoOK(x)
    BY <1>2, <2>1 DEF Own, CheckedOK, WorkOK, MemoOK, Working, FindAt
  <2>4. QED
    BY <1>2, <2>2, <2>3 DEF Own, AfterMissing, x
<1>3. QED
  BY <1>1, <1>2 DEF AfterMissing

\* The two requests of FindRelease.
LEMMA FindKnows ==
  ASSUME TypeOK, NEW p \in Publishers, OwnInv(p), FindByTag(p) \/ FindInList(p)
  PROVE  Knows(p)
<1> DEFINE me == run[p]
           t == TagOf[p]
<1>1. me \in RunRecord /\ Own(t, me) /\ me.pc \in FindAt
  BY DEF TypeOK, OwnInv, FindByTag, FindInList
<1>2. Own(t, [me EXCEPT !.scan = TRUE])
  <2> DEFINE x == [me EXCEPT !.scan = TRUE]
  <2>1. /\ x.pc = me.pc /\ x.others = me.others /\ x.doomed = me.doomed /\ x.todo = me.todo
        /\ x.listed = me.listed /\ x.local = me.local /\ x.commit = me.commit
        /\ x.memo = me.memo /\ x.missing = me.missing /\ x.rel = me.rel
    BY <1>1 DEF RunRecord
  <2> HIDE DEF x, me
  <2>2. QED
    BY <1>1, <2>1 DEF Own, OwnRelease, OthersOK, AloneOK, CheckedOK, ListedOK, WorkOK, MemoOK,
         ShapeOK, ReadyOK, SuccessOK
<1>3. \A r \in ReleasesOf(t) : Own(t, AfterFind(me, r))
  BY <1>1, FoundKnows
<1>4. ReleasesOf(t) = {} => Own(t, AfterMissing(me))
  BY <1>1, MissingKnows
<1>5. PublishedOf(t) \subseteq ReleasesOf(t)
  BY DEF PublishedOf
<1>6. \E x : Continue(p, x) /\ Own(t, x)
  <2>1. CASE FindByTag(p)
    BY <2>1, <1>2, <1>3, <1>4, <1>5 DEF FindByTag
  <2>2. CASE FindInList(p)
    BY <2>2, <1>3, <1>4 DEF FindInList
  <2>3. QED
    BY <2>1, <2>2
<1>7. QED
  BY <1>6 DEF Knows

\* The record fields that a run's knowledge is about.
Same(x, me) ==
  /\ x.local = me.local /\ x.commit = me.commit /\ x.rel = me.rel /\ x.memo = me.memo

\* What the list says of the other releases of the tag.
LEMMA OthersKnow ==
  ASSUME TypeOK, NEW p \in Publishers, OwnInv(p), ListOthers(p)
  PROVE  Knows(p)
<1> DEFINE me == run[p]
           t == TagOf[p]
           o == {z \in ListReleases : z.tag = t /\ z.id # me.rel}
           x == AfterDrop(me, o)
<1>1. me \in RunRecord /\ Own(t, me) /\ me.pc = "others" /\ Continue(p, x)
  BY DEF TypeOK, OwnInv, ListOthers
<1>2. \A z \in o : z.id \in ReleasesOf(t) /\ z.id # me.rel /\ z.draft = rels[z.id].draft
  BY DEF ListReleases, ReleasesOf
<1>3. \A r \in ReleasesOf(t) : r = me.rel \/ \E z \in o : z.id = r
  <2> SUFFICES ASSUME NEW r \in ReleasesOf(t), r # me.rel
               PROVE  \E z \in o : z.id = r
    OBVIOUS
  <2>1. [id |-> r, tag |-> rels[r].tag, draft |-> rels[r].draft] \in o
    BY DEF ListReleases, ReleasesOf
  <2>2. QED
    BY <2>1
<1> HIDE DEF o
<1>4. /\ x.pc = IF o = {} THEN "list" ELSE "drop"
      /\ x.others = o /\ x.doomed = {} /\ x.todo = {} /\ ~x.listed
      /\ x.missing = me.missing /\ Same(x, me)
  BY <1>1 DEF AfterDrop, Own, WorkOK, CompareAt, RunRecord, Same
<1> HIDE DEF x, me, t
<1>5. OwnRelease(t, x)
  BY <1>1, <1>4 DEF Own, OwnRelease, Same, Holding, OnDraft, OnPublic
<1>6. OthersOK(t, x)
  BY <1>2, <1>4, IdFacts DEF OthersOK, Same, ReleasesOf, TypeOK
<1>7. AloneOK(t, x)
  BY <1>3, <1>4 DEF AloneOK, Same, Settled
<1>8. CheckedOK(t, x) /\ WorkOK(x) /\ MemoOK(x)
  BY <1>1, <1>4 DEF Own, CheckedOK, WorkOK, MemoOK, Same, Working
<1>9. ListedOK(x) /\ ShapeOK(x) /\ ReadyOK(x) /\ SuccessOK(t, x)
  BY <1>4 DEF ListedOK, ShapeOK, ReadyOK, SuccessOK
<1>10. QED
  BY <1>1, <1>5, <1>6, <1>7, <1>8, <1>9 DEF Knows, Own, t

\* A listing shows each asset of the release as it is.
LEMMA ListingFacts ==
  ASSUME HostOK, NEW r, NEW s \in ListAssets(r)
  PROVE  /\ s.id \in AssetsOf(r) /\ s.id \in DOMAIN assets /\ s.id < nextId
         /\ assets[s.id].rel = r /\ s = View(s.id)
         /\ s.name = assets[s.id].name
BY IdFacts DEF ListAssets, AssetsOf, View

\* A verdict of "ok" means the stored bytes are the local file's.
LEMMA VerdictSound ==
  ASSUME HostOK, NEW me, MemoOK(me), NEW s, s.id \in DOMAIN assets, s = View(s.id),
         NEW d \in BOOLEAN, Verdict(me, s, d) = "ok"
  PROVE  assets[s.id].content = me.local[s.name]
<1> DEFINE want == me.local[s.name]
<1>1. s.digest = NoDigest \/ s.digest = assets[s.id].content
  BY DEF View
<1>2. \/ s.digest # NoDigest /\ s.digest = want
      \/ <<s.id, want>> \in me.memo
  BY DEF Verdict
<1>3. CASE <<s.id, want>> \in me.memo
  BY <1>3 DEF MemoOK
<1>4. QED
  BY <1>1, <1>2, <1>3

\* A verdict other than "mismatch" means the asset is completely stored.
LEMMA VerdictComplete ==
  ASSUME NEW me, NEW s, NEW d \in BOOLEAN, Verdict(me, s, d) # "mismatch"
  PROVE  s.state = "uploaded"
BY DEF Verdict

\* The plan of a round.
LEMMA RoundKnows ==
  ASSUME TypeOK, NEW p \in Publishers, OwnInv(p), ReconcileList(p)
  PROVE  Knows(p)
<1> DEFINE me == run[p]
           t == TagOf[p]
           listing == ListAssets(me.rel)
<1>1. me \in RunRecord /\ Own(t, me) /\ me.pc = "list"
  BY DEF TypeOK, OwnInv, ReconcileList
<1>2. CASE Fail(p)
  BY <1>2, FailKnows
<1>3. CASE ~Fail(p)
  <2> DEFINE d == {s \in listing : \/ s.name \notin DOMAIN me.local
                                   \/ ~Alone(s, listing)
                                   \/ Verdict(me, s, ~TrustServerDigest) = "mismatch"}
             g == {s \in listing \ d : Verdict(me, s, ~TrustServerDigest) = "ok"}
             w == (listing \ d) \ g
             m == DOMAIN me.local \ {s.name : s \in g}
             x == [me EXCEPT !.pc = "reconcile", !.doomed = d, !.todo = w, !.missing = m,
                             !.changed = FALSE]
  <2>1. /\ Continue(p, x)
        /\ d \subseteq listing /\ w \subseteq listing
        /\ \A s \in w : s.name \in DOMAIN me.local
        /\ m \subseteq DOMAIN me.local
    <3>1. Continue(p, x)
      BY <1>3 DEF ReconcileList
    <3>2. QED
      BY <3>1
  <2> HIDE DEF d, g, w, m
  <2>2. /\ x.pc = "reconcile" /\ x.others = me.others /\ x.doomed = d /\ x.todo = w
        /\ x.missing = m /\ x.listed = me.listed /\ Same(x, me)
    BY <1>1, <2>1 DEF RunRecord, Same
  <2>3. \A s \in d \cup w : s.id < nextId /\ s = View(s.id) /\ assets[s.id].rel = me.rel
    BY <2>1, ListingFacts DEF TypeOK
  <2>4. me.others = {} /\ ~me.listed
    BY <1>1 DEF Own, OthersOK, WorkOK, CompareAt, RunRecord
  <2> HIDE DEF me, t, listing, x
  <2>5. OwnRelease(t, x) /\ AloneOK(t, x)
    BY <1>1, <2>2 DEF Own, OwnRelease, AloneOK, Same, Holding, OnDraft, OnPublic, Settled
  <2>6. OthersOK(t, x) /\ ShapeOK(x) /\ ReadyOK(x) /\ SuccessOK(t, x)
    BY <2>2, <2>4 DEF OthersOK, ShapeOK, ReadyOK, SuccessOK
  <2>7. CheckedOK(t, x) /\ MemoOK(x)
    BY <1>1, <2>2 DEF Own, CheckedOK, MemoOK, Same, Working
  <2>8. WorkOK(x) /\ ListedOK(x)
    BY <2>1, <2>2, <2>3, <2>4 DEF WorkOK, ListedOK, Same
  <2>9. QED
    BY <2>1, <2>5, <2>6, <2>7, <2>8 DEF Knows, Own, t
<1>4. QED
  BY <1>2, <1>3

\* A download during a round.
LEMMA CheckStoredKnows ==
  ASSUME TypeOK, NEW p \in Publishers, OwnInv(p), CheckStored(p)
  PROVE  Knows(p)
<1> DEFINE me == run[p]
           t == TagOf[p]
<1>1. me \in RunRecord /\ Own(t, me) /\ me.pc = "reconcile"
  BY DEF TypeOK, OwnInv, CheckStored
<1>2. CASE Fail(p)
  BY <1>2, FailKnows
<1>3. CASE ~Fail(p)
  <2>1. ASSUME NEW x, NEW s \in me.todo,
               x.pc = "reconcile", x.others = me.others, x.todo = me.todo \ {s},
               x.doomed \subseteq me.doomed \cup {s}, x.missing \subseteq me.missing,
               x.listed = me.listed, x.local = me.local, x.commit = me.commit,
               x.rel = me.rel,
               \/ x.memo = me.memo
               \/ /\ s.id \in DOMAIN assets
                  /\ x.memo = me.memo \cup {<<s.id, assets[s.id].content>>}
        PROVE  Own(t, x)
    <3>1. me.others = {} /\ ~me.listed
      BY <1>1 DEF Own, OthersOK, WorkOK, CompareAt, RunRecord
    <3> HIDE DEF me, t
    <3>2. OwnRelease(t, x) /\ AloneOK(t, x)
      BY <1>1, <2>1 DEF Own, OwnRelease, AloneOK, Holding, OnDraft, OnPublic, Settled
    <3>3. OthersOK(t, x) /\ ShapeOK(x) /\ ReadyOK(x) /\ SuccessOK(t, x)
      BY <2>1, <3>1 DEF OthersOK, ShapeOK, ReadyOK, SuccessOK
    <3>4. CheckedOK(t, x)
      BY <1>1, <2>1 DEF Own, CheckedOK, Working
    <3>5. MemoOK(x)
      BY <1>1, <2>1, IdFacts DEF Own, MemoOK, TypeOK
    <3>6. WorkOK(x) /\ ListedOK(x)
      BY <1>1, <2>1, <3>1 DEF Own, WorkOK, ListedOK
    <3>7. QED
      BY <3>2, <3>3, <3>4, <3>5, <3>6 DEF Own
  <2>2. PICK s \in me.todo :
          /\ s.id \in DOMAIN assets
          /\ \/ Continue(p, [me EXCEPT !.todo    = me.todo \ {s},
                                       !.missing = me.missing \ {s.name},
                                       !.memo    = me.memo \cup {<<s.id, assets[s.id].content>>}])
             \/ Continue(p, [me EXCEPT !.todo   = me.todo \ {s},
                                       !.doomed = me.doomed \cup {s},
                                       !.cur    = s.name])
    BY <1>3 DEF CheckStored
  <2> HIDE DEF me, t
  <2>3. Own(t, [me EXCEPT !.todo    = me.todo \ {s},
                          !.missing = me.missing \ {s.name},
                          !.memo    = me.memo \cup {<<s.id, assets[s.id].content>>}])
    <3> DEFINE n == me.memo \cup {<<s.id, assets[s.id].content>>}
               x == [me EXCEPT !.todo = me.todo \ {s}, !.missing = me.missing \ {s.name},
                               !.memo = n]
    <3> HIDE DEF n
    <3>1. /\ x.pc = "reconcile" /\ x.others = me.others /\ x.todo = me.todo \ {s}
          /\ x.doomed = me.doomed /\ x.missing = me.missing \ {s.name}
          /\ x.listed = me.listed /\ x.local = me.local /\ x.commit = me.commit
          /\ x.rel = me.rel /\ x.memo = n
      BY <1>1 DEF RunRecord
    <3> HIDE DEF x
    <3>2. Own(t, x)
      BY <2>1, <2>2, <3>1 DEF n
    <3>3. QED
      BY <3>2 DEF x, n
  <2>4. Own(t, [me EXCEPT !.todo = me.todo \ {s}, !.doomed = me.doomed \cup {s}, !.cur = s.name])
    <3> DEFINE x == [me EXCEPT !.todo = me.todo \ {s}, !.doomed = me.doomed \cup {s},
                               !.cur = s.name]
    <3>1. /\ x.pc = "reconcile" /\ x.others = me.others /\ x.todo = me.todo \ {s}
          /\ x.doomed = me.doomed \cup {s} /\ x.missing = me.missing
          /\ x.listed = me.listed /\ x.local = me.local /\ x.commit = me.commit
          /\ x.rel = me.rel /\ x.memo = me.memo
      BY <1>1 DEF RunRecord
    <3> HIDE DEF x
    <3>2. Own(t, x)
      BY <2>1, <2>2, <3>1
    <3>3. QED
      BY <3>2 DEF x
  <2>5. QED
    BY <2>2, <2>3, <2>4 DEF Knows, t
<1>4. QED
  BY <1>2, <1>3

\* The end of a round, and the decision about "latest".
LEMMA EndRoundKnows ==
  ASSUME TypeOK, NEW p \in Publishers, OwnInv(p), EndRound(p) \/ DecideLatest(p)
  PROVE  Knows(p)
<1> DEFINE me == run[p]
           t == TagOf[p]
<1>1. me \in RunRecord /\ Own(t, me) /\ me.todo = {} /\ me.doomed = {}
  BY DEF TypeOK, OwnInv, EndRound, DecideLatest, Uploading, Own, WorkOK, CompareAt
<1>2. CASE Fail(p)
  BY <1>2, FailKnows
<1>3. CASE ~Fail(p)
  <2>1. PICK x :
          /\ Continue(p, x)
          /\ \/ me.pc = "reconcile" /\ x = [me EXCEPT !.pc = "final"]
             \/ me.pc = "reconcile" /\ x = [me EXCEPT !.pc = "list", !.round = @ + 1]
             \/ me.pc = "latest" /\ \E l : x = [me EXCEPT !.pc = "guard", !.latest = l]
    BY <1>3 DEF EndRound, Uploading, DecideLatest, Goto
  <2>2. /\ \/ me.pc = "reconcile" /\ x.pc \in {"list", "final"}
           \/ me.pc = "latest" /\ x.pc = "guard"
        /\ x.others = me.others /\ x.doomed = me.doomed /\ x.todo = me.todo
        /\ x.missing = me.missing /\ x.listed = me.listed /\ Same(x, me)
    BY <1>1, <2>1 DEF RunRecord, Same
  <2>3. me.others = {} /\ ~me.listed
    BY <1>1, <2>2 DEF Own, OthersOK, WorkOK, CompareAt, RunRecord
  <2> HIDE DEF me, t
  <2>4. OwnRelease(t, x) /\ AloneOK(t, x)
    BY <1>1, <2>2 DEF Own, OwnRelease, AloneOK, Same, Holding, OnDraft, OnPublic, Settled
  <2>5. OthersOK(t, x) /\ ListedOK(x) /\ ShapeOK(x) /\ SuccessOK(t, x)
    BY <1>1, <2>2, <2>3 DEF OthersOK, ListedOK, ShapeOK, SuccessOK
  <2>6. CheckedOK(t, x) /\ MemoOK(x) /\ ReadyOK(x)
    BY <1>1, <2>2 DEF Own, CheckedOK, MemoOK, ReadyOK, Same, Working, CompareAt
  <2>7. WorkOK(x)
    BY <1>1, <2>2, <2>3 DEF Own, WorkOK, Same
  <2>8. QED
    BY <2>1, <2>4, <2>5, <2>6, <2>7 DEF Knows, Own, t
<1>4. QED
  BY <1>2, <1>3

\* The listing of a comparison: what is not to be downloaded is right already.
LEMMA ListingCompared ==
  ASSUME TypeOK, NEW p \in Publishers, MemoOK(run[p]), CompareList(p), ~Fail(p)
  PROVE  \E w \in SUBSET ListAssets(run[p].rel) :
           /\ Continue(p, [run[p] EXCEPT !.listed = TRUE, !.todo = w])
           /\ \A s \in w : s.name \in DOMAIN run[p].local
           /\ ShapeOK([run[p] EXCEPT !.listed = TRUE, !.todo = w])
<1> DEFINE me == run[p]
           listing == ListAssets(me.rel)
           verdict == [s \in listing |-> Verdict(me, s, FullDownload(me.pc))]
           w == {s \in listing : verdict[s] = "download"}
           x == [me EXCEPT !.listed = TRUE, !.todo = w]
<1>1. me \in RunRecord
  BY DEF TypeOK
<1>2. /\ Continue(p, x)
      /\ SameShape(me, listing)
      /\ \A s \in listing : verdict[s] # "mismatch"
  BY DEF CompareList
<1>3. x.listed /\ x.todo = w /\ x.local = me.local /\ x.rel = me.rel
  BY <1>1 DEF RunRecord
<1>4. FullDownload(me.pc) \in BOOLEAN
  BY PublishAssumption DEF FullDownload
<1>5. ASSUME NEW s \in listing
      PROVE  /\ s.name \in DOMAIN me.local
             /\ s.state = "uploaded"
             /\ s \notin w => assets[s.id].content = me.local[s.name]
  <2>1. s.id \in DOMAIN assets /\ s = View(s.id)
    BY ListingFacts DEF TypeOK
  <2>2. s.name \in DOMAIN me.local
    BY <1>2 DEF SameShape
  <2>3. verdict[s] # "mismatch" /\ verdict[s] = Verdict(me, s, FullDownload(me.pc))
    BY <1>2
  <2>4. s \notin w => Verdict(me, s, FullDownload(me.pc)) = "ok"
    BY <2>3 DEF Verdict
  <2> HIDE DEF verdict, w, listing, x
  <2>5. s.state = "uploaded"
    BY <1>4, <2>3, VerdictComplete
  <2>6. s \notin w => assets[s.id].content = me.local[s.name]
    BY <1>4, <2>1, <2>4, VerdictSound DEF TypeOK
  <2> QED
    BY <2>2, <2>5, <2>6
<1>6. \A n \in DOMAIN me.local : \E a \in AssetsOf(me.rel) : assets[a].name = n
  BY <1>2 DEF SameShape, ListAssets, View
<1>7. \A a \in AssetsOf(me.rel) :
        /\ View(a) \in listing /\ View(a).id = a /\ View(a).name = assets[a].name
        /\ View(a).state = assets[a].state
  BY DEF ListAssets, View
<1>8. \A a, b \in AssetsOf(me.rel) : assets[a].name = assets[b].name => a = b
  <2>1. \A s, z \in listing : z.name = s.name => z = s
    BY <1>2 DEF SameShape, Alone
  <2> HIDE DEF listing, me
  <2> QED
    BY <2>1, <1>7
<1>9. w \subseteq listing
  OBVIOUS
<1>10. ShapeOK(x)
  <2> HIDE DEF me, listing, verdict, w, x
  <2> QED
    BY <1>3, <1>5, <1>6, <1>7, <1>8 DEF ShapeOK
<1> QED
  <2> HIDE DEF w
  <2> QED
    BY <1>2, <1>5, <1>9, <1>10

\* So a run that goes on comparing knows its release.
LEMMA CompareListKnows ==
  ASSUME TypeOK, NEW p \in Publishers, OwnInv(p), CompareList(p)
  PROVE  Knows(p)
<1> DEFINE me == run[p]
           t == TagOf[p]
<1>1. me \in RunRecord /\ Own(t, me) /\ me.pc \in CompareAt /\ ~me.listed
  BY DEF TypeOK, OwnInv, CompareList
<1>2. CASE Fail(p)
  BY <1>2, FailKnows
<1>3. CASE ~Fail(p)
  <2> DEFINE to(w) == [me EXCEPT !.listed = TRUE, !.todo = w]
  <2>1. PICK w \in SUBSET ListAssets(me.rel) :
          Continue(p, to(w)) /\ ShapeOK(to(w)) /\ \A s \in w : s.name \in DOMAIN me.local
    BY <1>1, <1>3, ListingCompared DEF Own
  <2>2. /\ to(w).pc = me.pc /\ to(w).others = me.others /\ to(w).doomed = me.doomed
        /\ to(w).todo = w /\ to(w).missing = me.missing /\ to(w).listed /\ Same(to(w), me)
    BY <1>1 DEF RunRecord, Same
  <2>3. \A s \in w : s.id < nextId /\ s = View(s.id) /\ assets[s.id].rel = me.rel
    BY <2>1, ListingFacts DEF TypeOK
  <2>4. me.others = {} /\ me.doomed = {}
    BY <1>1 DEF Own, OthersOK, WorkOK, CompareAt
  <2> HIDE DEF me, t, to
  <2> DEFINE x == to(w)
  <2>5. OwnRelease(t, x) /\ AloneOK(t, x)
    BY <1>1, <2>2 DEF Own, OwnRelease, AloneOK, Same
  <2>6. OthersOK(t, x) /\ ReadyOK(x) /\ SuccessOK(t, x)
    BY <1>1, <2>2, <2>4 DEF OthersOK, ReadyOK, SuccessOK, CompareAt
  <2>7. CheckedOK(t, x) /\ MemoOK(x)
    BY <1>1, <2>2 DEF Own, CheckedOK, MemoOK, Same
  <2>8. WorkOK(x) /\ ListedOK(x)
    BY <1>1, <2>1, <2>2, <2>3, <2>4 DEF Own, WorkOK, ListedOK, Same
  <2> QED
    BY <2>1, <2>5, <2>6, <2>7, <2>8 DEF Knows, Own, t
<1> QED
  BY <1>2, <1>3

\* A download of a comparison: one more asset is known to be right.
LEMMA DownloadCompared ==
  ASSUME TypeOK, NEW p \in Publishers, ListedOK(run[p]), CompareDownload(p), ~Fail(p)
  PROVE  \E s \in run[p].todo : \E n :
           LET x == [run[p] EXCEPT !.todo = run[p].todo \ {s}, !.memo = n] IN
           /\ s.id \in DOMAIN assets /\ s.id < nextId
           /\ n = run[p].memo \cup {<<s.id, assets[s.id].content>>}
           /\ Continue(p, x)
           /\ ShapeOK(run[p]) => ShapeOK(x)
<1> DEFINE me == run[p]
           to(s, n) == [me EXCEPT !.todo = me.todo \ {s}, !.memo = n]
<1>1. me \in RunRecord /\ me.listed
  BY DEF TypeOK, CompareDownload
<1>2. PICK s, n :
        /\ s \in me.todo
        /\ s.id \in DOMAIN assets /\ assets[s.id].content = me.local[s.name]
        /\ n = me.memo \cup {<<s.id, assets[s.id].content>>}
        /\ Continue(p, to(s, n))
  BY DEF CompareDownload
<1>3. /\ to(s, n).todo = me.todo \ {s} /\ to(s, n).listed
      /\ to(s, n).local = me.local /\ to(s, n).rel = me.rel
  BY <1>1 DEF RunRecord
<1>4. s = View(s.id) /\ s.id < nextId
  BY <1>2 DEF ListedOK
<1>5. ShapeOK(me) => ShapeOK(to(s, n))
  <2> HIDE DEF me, to
  <2>1. s.name = assets[s.id].name /\ \A a : View(a).id = a
    BY <1>4 DEF View
  <2>2. \A a : View(a) = s => a = s.id /\ assets[a].content = me.local[assets[a].name]
    BY <1>2, <2>1
  <2> QED
    BY <1>1, <1>3, <2>2 DEF ShapeOK
<1> QED
  BY <1>2, <1>4, <1>5

\* So a run that goes on downloading knows its release.
LEMMA CompareDownloadKnows ==
  ASSUME TypeOK, NEW p \in Publishers, OwnInv(p), CompareDownload(p)
  PROVE  Knows(p)
<1> DEFINE me == run[p]
           t == TagOf[p]
<1>1. me \in RunRecord /\ Own(t, me) /\ me.pc \in CompareAt /\ me.listed
  BY DEF TypeOK, OwnInv, CompareDownload
<1>2. CASE Fail(p)
  BY <1>2, FailKnows
<1>3. CASE ~Fail(p)
  <2> DEFINE to(s, n) == [me EXCEPT !.todo = me.todo \ {s}, !.memo = n]
  <2>1. PICK s, n :
          /\ s \in me.todo
          /\ s.id \in DOMAIN assets /\ s.id < nextId
          /\ n = me.memo \cup {<<s.id, assets[s.id].content>>}
          /\ Continue(p, to(s, n))
          /\ ShapeOK(to(s, n))
    BY <1>1, <1>3, DownloadCompared DEF Own
  <2>2. /\ to(s, n).pc = me.pc /\ to(s, n).others = me.others /\ to(s, n).doomed = me.doomed
        /\ to(s, n).todo = me.todo \ {s} /\ to(s, n).missing = me.missing /\ to(s, n).listed
        /\ to(s, n).local = me.local /\ to(s, n).commit = me.commit
        /\ to(s, n).rel = me.rel /\ to(s, n).memo = n
    BY <1>1 DEF RunRecord
  <2>3. me.others = {} /\ me.doomed = {}
    BY <1>1 DEF Own, OthersOK, WorkOK, CompareAt
  <2> HIDE DEF me, t, to
  <2> DEFINE x == to(s, n)
  <2>4. OwnRelease(t, x) /\ AloneOK(t, x)
    BY <1>1, <2>2 DEF Own, OwnRelease, AloneOK
  <2>5. OthersOK(t, x) /\ ReadyOK(x) /\ SuccessOK(t, x)
    BY <1>1, <2>2, <2>3 DEF OthersOK, ReadyOK, SuccessOK, CompareAt
  <2>6. CheckedOK(t, x)
    BY <1>1, <2>2 DEF Own, CheckedOK
  <2>7. MemoOK(x)
    <3>1. \A m \in n : m \in me.memo \/ m = <<s.id, assets[s.id].content>>
      BY <2>1
    <3>2. x.memo = n
      BY <2>2
    <3> HIDE DEF x
    <3> QED
      BY <1>1, <2>1, <3>1, <3>2 DEF Own, MemoOK
  <2>8. WorkOK(x) /\ ListedOK(x)
    BY <1>1, <2>2, <2>3 DEF Own, WorkOK, ListedOK
  <2> QED
    BY <2>1, <2>4, <2>5, <2>6, <2>7, <2>8 DEF Knows, Own, t
<1> QED
  BY <1>2, <1>3

\* A comparison that is through: the release holds exactly the local set.
LEMMA CompareDoneKnows ==
  ASSUME TypeOK, NEW p \in Publishers, OwnInv(p), CompareDone(p)
  PROVE  Knows(p)
<1> DEFINE me == run[p]
           t == TagOf[p]
<1>1. /\ me \in RunRecord /\ Own(t, me) /\ me.pc \in CompareAt /\ me.listed /\ me.todo = {}
      /\ IF me.pc = "final" THEN Continue(p, [me EXCEPT !.pc = "latest", !.listed = FALSE])
                            ELSE Continue(p, Ended(me, "succeeded"))
  BY DEF TypeOK, OwnInv, CompareDone
<1> HIDE DEF me, t
<1>2. Exact(me.rel, me.local)
  BY <1>1 DEF Own, ShapeOK, Exact
<1>3. me.others = {} /\ me.doomed = {}
  BY <1>1 DEF Own, OthersOK, WorkOK, CompareAt
<1>4. CASE me.pc = "final"
  <2> DEFINE x == [me EXCEPT !.pc = "latest", !.listed = FALSE]
  <2>1. /\ x.pc = "latest" /\ x.others = {} /\ x.doomed = {} /\ x.todo = {}
        /\ x.missing = me.missing /\ ~x.listed /\ Same(x, me)
    BY <1>1, <1>3 DEF RunRecord, Same
  <2> HIDE DEF x
  <2>2. OwnRelease(t, x) /\ AloneOK(t, x)
    BY <1>1, <1>4, <2>1 DEF Own, OwnRelease, AloneOK, Same, Holding, OnDraft, OnPublic, Settled
  <2>3. OthersOK(t, x) /\ ListedOK(x) /\ ShapeOK(x) /\ SuccessOK(t, x)
    BY <2>1 DEF OthersOK, ListedOK, ShapeOK, SuccessOK
  <2>4. CheckedOK(t, x) /\ MemoOK(x) /\ WorkOK(x)
    BY <1>1, <1>4, <2>1 DEF Own, CheckedOK, MemoOK, WorkOK, Same, Working, CompareAt
  <2>5. ReadyOK(x)
    BY <1>2, <2>1 DEF ReadyOK, Same
  <2>6. QED
    BY <1>1, <1>4, <2>2, <2>3, <2>4, <2>5 DEF Knows, Own, t, x
<1>5. CASE me.pc # "final"
  <2> DEFINE x == Ended(me, "succeeded")
  <2>1. /\ x.pc = "succeeded" /\ x.others = {} /\ x.doomed = {} /\ x.todo = {}
        /\ x.missing = {} /\ ~x.listed /\ x.memo = {}
        /\ x.rel = me.rel /\ x.local = me.local
    BY DEF Ended, Blank
  <2>2. me.rel \in DOMAIN rels /\ rels[me.rel].tag = t /\ ~rels[me.rel].draft
    BY <1>1, <1>5 DEF Own, OwnRelease, CompareAt, Holding, OnPublic
  <2> HIDE DEF x
  <2>3. Own(t, x)
    BY <1>2, <2>1, <2>2
       DEF Own, OwnRelease, OthersOK, AloneOK, CheckedOK, ListedOK, WorkOK, MemoOK, ShapeOK,
           ReadyOK, SuccessOK, Holding, OnDraft, OnPublic, Settled, Working, FindAt, CompareAt
  <2>4. QED
    BY <1>1, <1>5, <2>3 DEF Knows, t, x
<1>6. QED
  BY <1>4, <1>5

\* Every step that leaves the store alone.
LEMMA ReadsKnow ==
  ASSUME TypeOK, TypeOK', NEW p \in Publishers, OwnInv(p),
         \/ Start(p) \/ CheckLimits(p) \/ CheckTag(p)
         \/ FindByTag(p) \/ FindInList(p) \/ ListOthers(p)
         \/ ReconcileList(p) \/ CheckStored(p) \/ EndRound(p)
         \/ CompareList(p) \/ CompareDownload(p) \/ CompareDone(p) \/ DecideLatest(p)
         \/ Abort(p)
  PROVE  OwnInv(p)'
<1>1. Knows(p)
  BY ChecksKnow, FindKnows, OthersKnow, RoundKnows, CheckStoredKnows, EndRoundKnows,
     CompareListKnows, CompareDownloadKnows, CompareDoneKnows, FailKnows DEF Abort
<1>2. UNCHANGED hostVars
  BY DEF Start, CheckLimits, CheckTag, FindByTag, FindInList, ListOthers, ReconcileList,
         CheckStored, EndRound, CompareList, CompareDownload, CompareDone, DecideLatest,
         Abort, ReadOnly, hostVars
<1>3. PICK x : run'[p] = x /\ Own(TagOf[p], x)
  BY <1>1 DEF Knows, Continue, TypeOK
<1>4. x \in RunRecord
  BY <1>3 DEF TypeOK
<1>5. Untouched(TagOf[p])
  BY <1>2, NothingTouched DEF TypeOK
<1>6. Own(TagOf[p], x)'
  BY <1>3, <1>4, <1>5, UntouchedKeeps DEF TypeOK
<1>7. QED
  BY <1>3, <1>6 DEF OwnInv
-----------------------------------------------------------------------------
(***************************************************************************)
(* The run's own writes.  Each lemma speaks of the store after the write.  *)
(***************************************************************************)
\* A write whose run goes on knowing x.
LEMMA WroteKnows ==
  ASSUME NEW p \in Publishers, run \in [Publishers -> RunRecord], NEW x, Continue(p, x),
         Own(TagOf[p], x)'
  PROVE  OwnInv(p)'
BY DEF OwnInv, Continue

\* A run that fails while something is written claims nothing.
LEMMA FailedKnows ==
  ASSUME NEW p \in Publishers, run \in [Publishers -> RunRecord], Fail(p)
  PROVE  OwnInv(p)'
<1>1. PICK x : Continue(p, x) /\ x = Ended(run[p], "failed")
  BY DEF Fail
<1>2. Own(TagOf[p], x)'
  BY <1>1
     DEF Ended, Blank, Own, OwnRelease, OthersOK, AloneOK, CheckedOK, ListedOK, WorkOK, MemoOK,
         ShapeOK, ReadyOK, SuccessOK, Holding, OnDraft, OnPublic, Settled, Working, FindAt,
         CompareAt
<1>3. QED
  BY <1>1, <1>2, WroteKnows

\* Another draft of the tag is gone.
LEMMA DropKnows ==
  ASSUME TypeOK, NEW p \in Publishers, OwnInv(p), DropOther(p)
  PROVE  OwnInv(p)'
<1> DEFINE me == run[p]
           t == TagOf[p]
<1>1. me \in RunRecord /\ Own(t, me) /\ me.pc = "drop"
  BY DEF TypeOK, OwnInv, DropOther
<1>2. CASE Fail(p)
  BY <1>2, FailedKnows DEF TypeOK
<1>3. CASE ~Fail(p)
  <2>1. PICK o \in me.others :
          RemoveRelease(o.id) /\ Continue(p, AfterDrop(me, me.others \ {o}))
    BY <1>3 DEF DropOther
  <2>2. PICK rest, x : /\ rest = me.others \ {o} /\ x = AfterDrop(me, rest)
                       /\ Continue(p, x)
    BY <2>1
  <2>3. /\ x.pc = IF rest = {} THEN "list" ELSE "drop"
        /\ x.others = rest /\ x.doomed = {} /\ x.todo = {} /\ ~x.listed
        /\ x.missing = me.missing /\ Same(x, me)
    BY <1>1, <2>2 DEF AfterDrop, Own, WorkOK, CompareAt, RunRecord, Same
  <2>4. /\ DOMAIN rels' = DOMAIN rels \ {o.id}
        /\ \A r \in DOMAIN rels' : rels'[r] = rels[r]
        /\ \A a \in DOMAIN assets' : a \in DOMAIN assets /\ assets'[a] = assets[a]
        /\ nextId' = nextId
    BY <2>1 DEF RemoveRelease, Restrict
  <2>5. o.id # me.rel
    BY <1>1 DEF Own, OthersOK
  <2> HIDE DEF me, t
  <2>6. OwnRelease(t, x)'
    BY <1>1, <2>3, <2>4, <2>5 DEF Own, OwnRelease, Same, Holding, OnDraft, OnPublic
  <2>7. OthersOK(t, x)'
    BY <1>1, <2>2, <2>3, <2>4 DEF Own, OthersOK, Same
  <2>8. AloneOK(t, x)'
    <3>1. \A r \in ReleasesOf(t) : r = me.rel \/ \E z \in me.others : z.id = r
      BY <1>1 DEF Own, AloneOK
    <3>2. \A r \in ReleasesOf(t)' : r \in ReleasesOf(t) /\ r # o.id
      BY <2>4 DEF ReleasesOf
    <3>3. \A r \in ReleasesOf(t)' : r = x.rel \/ \E z \in x.others : z.id = r
      BY <2>2, <2>3, <3>1, <3>2 DEF Same
    <3>4. QED
      BY <2>3, <3>3 DEF AloneOK, Settled
  <2>9. CheckedOK(t, x)'
    BY <1>1, <2>3 DEF Own, CheckedOK, Same, Working, WithinLimits
  <2>10. WorkOK(x)'
    BY <1>1, <2>3 DEF Own, WorkOK, Same
  <2>11. MemoOK(x)'
    BY <1>1, <2>3, <2>4 DEF Own, MemoOK, Same
  <2>12. ListedOK(x)' /\ ShapeOK(x)' /\ ReadyOK(x)' /\ SuccessOK(t, x)'
    BY <2>3 DEF ListedOK, ShapeOK, ReadyOK, SuccessOK
  <2>13. Own(t, x)'
    BY <2>6, <2>7, <2>8, <2>9, <2>10, <2>11, <2>12 DEF Own
  <2>14. QED
    BY <2>2, <2>13, WroteKnows DEF TypeOK, t
<1>4. QED
  BY <1>2, <1>3

\* A draft was created, or refused, or nobody knows.
LEMMA CreateKnows ==
  ASSUME TypeOK, NEW p \in Publishers, OwnInv(p), CreateDraft(p) \/ CreateLost(p)
  PROVE  OwnInv(p)'
<1> DEFINE me == run[p]
           t == TagOf[p]
<1>1. me \in RunRecord /\ Own(t, me) /\ me.pc = "create"
  BY DEF TypeOK, OwnInv, CreateDraft, CreateLost
<1>2. PICK x :
        /\ Continue(p, x)
        /\ \/ x = [me EXCEPT !.rel = nextId, !.pc = "list"] /\ CreateRelease(t)
           \/ x = [me EXCEPT !.pc = "refind"] /\ (CreateRelease(t) \/ UNCHANGED hostVars)
  BY DEF CreateDraft, CreateLost, Goto
<1>3. /\ x.others = {} /\ x.doomed = {} /\ x.todo = {} /\ ~x.listed
      /\ x.missing = me.missing /\ x.local = me.local /\ x.commit = me.commit
      /\ x.memo = me.memo
      /\ (x.pc = "list" /\ x.rel = nextId) \/ x.pc = "refind"
  BY <1>1, <1>2 DEF Own, OthersOK, WorkOK, CompareAt, RunRecord
<1>4. ReleasesOf(t) = {}
  BY <1>1 DEF Own, AloneOK
<1>5. /\ assets' = assets
      /\ nextId \in Nat /\ nextId' \in Nat /\ nextId <= nextId'
      /\ \A r \in ReleasesOf(t)' : r = nextId
      /\ x.pc = "list" => nextId \in DOMAIN rels' /\ rels'[nextId].tag = t /\ rels'[nextId].draft
  <2>1. x.pc = "list" => CreateRelease(t)
    BY <1>1, <1>2 DEF RunRecord
  <2>2. CreateRelease(t) \/ UNCHANGED hostVars
    BY <1>2
  <2> HIDE DEF t, me
  <2>3. CASE CreateRelease(t)
    BY <1>4, <2>3, IdFacts DEF CreateRelease, ReleasesOf, TypeOK
  <2>4. CASE UNCHANGED hostVars
    <3>1. x.pc # "list" \/ CreateRelease(t)
      BY <2>1
    <3>2. QED
      BY <1>4, <2>3, <2>4, <3>1, IdFacts DEF hostVars, ReleasesOf, TypeOK
  <2>5. QED
    BY <2>2, <2>3, <2>4
<1>6. \A m \in me.memo : m[1] \in Nat
  BY <1>1 DEF RunRecord
<1> HIDE DEF me, t
<1>7. OwnRelease(t, x)'
  BY <1>3, <1>5 DEF OwnRelease, Holding, OnDraft, OnPublic
<1>8. OthersOK(t, x)' /\ ListedOK(x)' /\ ShapeOK(x)' /\ ReadyOK(x)' /\ SuccessOK(t, x)'
  BY <1>3 DEF OthersOK, ListedOK, ShapeOK, ReadyOK, SuccessOK
<1>9. AloneOK(t, x)'
  BY <1>3, <1>5 DEF AloneOK, Settled
<1>10. CheckedOK(t, x)'
  BY <1>1, <1>3 DEF Own, CheckedOK, Working, FindAt, WithinLimits
<1>11. WorkOK(x)'
  BY <1>1, <1>3 DEF Own, WorkOK
<1>12. MemoOK(x)'
  BY <1>1, <1>3, <1>5, <1>6 DEF Own, MemoOK
<1>13. Own(t, x)'
  BY <1>7, <1>8, <1>9, <1>10, <1>11, <1>12 DEF Own
<1>14. QED
  BY <1>2, <1>13, WroteKnows DEF TypeOK, t

\* An asset of the draft is gone.
LEMMA DeleteKnows ==
  ASSUME TypeOK, NEW p \in Publishers, OwnInv(p), DeleteDoomed(p)
  PROVE  OwnInv(p)'
<1> DEFINE me == run[p]
           t == TagOf[p]
<1>1. me \in RunRecord /\ Own(t, me) /\ me.pc = "reconcile"
  BY DEF TypeOK, OwnInv, DeleteDoomed
<1>2. CASE Fail(p)
  BY <1>2, FailedKnows DEF TypeOK
<1>3. CASE ~Fail(p)
  <2>1. PICK s, n :
          /\ s \in me.doomed
          /\ RemoveAsset(s.id)
          /\ Continue(p, [me EXCEPT !.doomed = me.doomed \ {s}, !.changed = TRUE, !.cur = n])
    BY <1>3 DEF DeleteDoomed
  <2>2. PICK x :
          /\ Continue(p, x)
          /\ x = [me EXCEPT !.doomed = me.doomed \ {s}, !.changed = TRUE, !.cur = n]
    BY <2>1
  <2>3. /\ x.pc = "reconcile" /\ x.others = {} /\ x.doomed = me.doomed \ {s}
        /\ x.todo = me.todo /\ ~x.listed /\ x.missing = me.missing /\ Same(x, me)
    BY <1>1, <2>2 DEF Own, OthersOK, WorkOK, CompareAt, RunRecord, Same
  <2>4. /\ rels' = rels /\ nextId' = nextId
        /\ \A a \in DOMAIN assets' : a \in DOMAIN assets /\ assets'[a] = assets[a]
    BY <2>1 DEF RemoveAsset, Restrict
  <2> HIDE DEF me, t
  <2>5. OwnRelease(t, x)' /\ AloneOK(t, x)'
    BY <1>1, <2>3, <2>4
       DEF Own, OwnRelease, AloneOK, Same, Holding, OnDraft, OnPublic, Settled, ReleasesOf
  <2>6. OthersOK(t, x)' /\ ShapeOK(x)' /\ ReadyOK(x)' /\ SuccessOK(t, x)'
    BY <2>3 DEF OthersOK, ShapeOK, ReadyOK, SuccessOK
  <2>7. ListedOK(x)'
    BY <1>1, <2>3, <2>4 DEF Own, ListedOK, Same, View
  <2>8. CheckedOK(t, x)' /\ WorkOK(x)'
    BY <1>1, <2>3 DEF Own, CheckedOK, WorkOK, Same, Working, WithinLimits
  <2>9. MemoOK(x)'
    BY <1>1, <2>3, <2>4 DEF Own, MemoOK, Same
  <2>10. Own(t, x)'
    BY <2>5, <2>6, <2>7, <2>8, <2>9 DEF Own
  <2>11. QED
    BY <2>2, <2>10, WroteKnows DEF TypeOK, t
<1>4. QED
  BY <1>2, <1>3

\* A file was stored, in part or whole, or not at all.
LEMMA UploadKnows ==
  ASSUME TypeOK, NEW p \in Publishers, OwnInv(p), Upload(p) \/ UploadLost(p)
  PROVE  OwnInv(p)'
<1> DEFINE me == run[p]
           t == TagOf[p]
<1>1. /\ me \in RunRecord /\ Own(t, me)
      /\ me.pc = "reconcile" /\ me.doomed = {} /\ me.todo = {}
  BY DEF TypeOK, OwnInv, Upload, UploadLost, Uploading
<1>2. PICK x, n :
        /\ Continue(p, x)
        /\ x = Attempted(me, n)
        /\ UNCHANGED hostVars \/ \E c, st : StoreAsset(me.rel, n, c, st)
  BY DEF Upload, UploadLost
<1>3. /\ x.pc = "reconcile" /\ x.others = {} /\ x.doomed = {} /\ x.todo = {} /\ ~x.listed
      /\ x.missing \subseteq me.missing /\ Same(x, me)
  BY <1>1, <1>2 DEF Attempted, Own, OthersOK, WorkOK, CompareAt, RunRecord, Same
<1>4. /\ rels' = rels
      /\ nextId \in Nat /\ nextId' \in Nat /\ nextId <= nextId'
      /\ \A a \in DOMAIN assets' : a # nextId => a \in DOMAIN assets /\ assets'[a] = assets[a]
  BY <1>2, IdFacts DEF StoreAsset, hostVars, TypeOK
<1>5. \A m \in me.memo : m[1] \in Nat
  BY <1>1 DEF RunRecord
<1> HIDE DEF me, t
<1>6. OwnRelease(t, x)' /\ AloneOK(t, x)'
  BY <1>1, <1>3, <1>4
     DEF Own, OwnRelease, AloneOK, Same, Holding, OnDraft, OnPublic, Settled, ReleasesOf
<1>7. OthersOK(t, x)' /\ ListedOK(x)' /\ ShapeOK(x)' /\ ReadyOK(x)' /\ SuccessOK(t, x)'
  BY <1>3 DEF OthersOK, ListedOK, ShapeOK, ReadyOK, SuccessOK
<1>8. CheckedOK(t, x)' /\ WorkOK(x)'
  BY <1>1, <1>3 DEF Own, CheckedOK, WorkOK, Same, Working, WithinLimits
<1>9. MemoOK(x)'
  BY <1>1, <1>3, <1>4, <1>5 DEF Own, MemoOK, Same
<1>10. Own(t, x)'
  BY <1>6, <1>7, <1>8, <1>9 DEF Own
<1>11. QED
  BY <1>2, <1>10, WroteKnows DEF TypeOK, t

\* The release was made public, or not, or nobody knows.
LEMMA PublishKnows ==
  ASSUME TypeOK, NEW p \in Publishers, OwnInv(p), SendPublish(p) \/ PublishLost(p)
  PROVE  OwnInv(p)'
<1> DEFINE me == run[p]
           t == TagOf[p]
<1>1. me \in RunRecord /\ Own(t, me) /\ me.pc = "publish"
  BY DEF TypeOK, OwnInv, SendPublish, PublishLost
<1>2. PICK x :
        /\ Continue(p, x)
        /\ \E pc \in {"publish", "reread", "confirm"} :
             /\ x = [me EXCEPT !.pc = pc]
             /\ \/ pc # "confirm" /\ UNCHANGED hostVars
                \/ PublishRelease(me.rel, me.latest)
  BY DEF SendPublish, PublishLost, Goto
<1>3. /\ x.pc \in {"publish", "reread", "confirm"} /\ x.others = {} /\ x.doomed = {}
      /\ x.todo = {} /\ ~x.listed /\ x.missing = me.missing /\ Same(x, me)
  BY <1>1, <1>2 DEF Own, OthersOK, WorkOK, CompareAt, RunRecord, Same
<1>4. /\ assets' = assets /\ nextId' = nextId /\ DOMAIN rels' = DOMAIN rels
      /\ \A r \in DOMAIN rels : rels'[r].tag = rels[r].tag
      /\ x.pc = "confirm" => ~rels'[me.rel].draft
  <2>1. \A r \in DOMAIN rels : rels[r] \in ReleaseRecord
    BY DEF TypeOK, HostOK, WellFormedStore
  <2>2. me.rel \in DOMAIN rels
    BY <1>1 DEF Own, OwnRelease, Holding
  <2>3. UNCHANGED hostVars \/ PublishRelease(me.rel, me.latest)
    BY <1>2
  <2>4. x.pc = "confirm" => PublishRelease(me.rel, me.latest)
    BY <1>1, <1>2 DEF RunRecord
  <2> HIDE DEF me
  <2>5. QED
    BY <2>1, <2>2, <2>3, <2>4 DEF PublishRelease, ReleaseRecord, hostVars
<1> HIDE DEF me, t
<1>5. OwnRelease(t, x)'
  BY <1>1, <1>3, <1>4 DEF Own, OwnRelease, Same, Holding, OnDraft, OnPublic
<1>6. AloneOK(t, x)'
  BY <1>1, <1>3, <1>4 DEF Own, AloneOK, Same, Settled, ReleasesOf
<1>7. OthersOK(t, x)' /\ ListedOK(x)' /\ ShapeOK(x)' /\ SuccessOK(t, x)'
  BY <1>3 DEF OthersOK, ListedOK, ShapeOK, SuccessOK
<1>8. CheckedOK(t, x)' /\ WorkOK(x)'
  BY <1>1, <1>3 DEF Own, CheckedOK, WorkOK, Same, Working, FindAt, WithinLimits
<1>9. MemoOK(x)'
  BY <1>1, <1>3, <1>4 DEF Own, MemoOK, Same
<1>10. ReadyOK(x)'
  BY <1>1, <1>3, <1>4 DEF Own, ReadyOK, Same, Exact, AssetsOf
<1>11. Own(t, x)'
  BY <1>5, <1>6, <1>7, <1>8, <1>9, <1>10 DEF Own
<1>12. QED
  BY <1>2, <1>11, WroteKnows DEF TypeOK, t
-----------------------------------------------------------------------------
(***************************************************************************)
(* The invariant and the promises.                                         *)
(***************************************************************************)
\* At the start no run claims anything.
LEMMA InitKnows == Init => IInv
<1> SUFFICES ASSUME Init PROVE IInv
  OBVIOUS
<1>1. TypeOK
  BY InitTyped
<1>2. ASSUME NEW p \in Publishers PROVE OwnInv(p)
  BY FreshKnows DEF Init, OwnInv
<1>3. QED
  BY <1>1, <1>2 DEF IInv

\* Every step keeps what every run knows: its own by the lemmas above, the others' because
\* they work on other tags.
LEMMA StepKnows ==
  ASSUME OneJobPerTag, IInv, [Next]_vars
  PROVE  IInv'
<1>1. TypeOK /\ \A p \in Publishers : OwnInv(p)
  BY DEF IInv
<1>2. TypeOK'
  <2>1. \A p \in Publishers : run[p].missing \subseteq DOMAIN run[p].local
    BY <1>1 DEF OwnInv, Own, WorkOK
  <2>2. CASE UNCHANGED vars
    BY <1>1, <2>2, HostUnchanged DEF vars, hostVars, TypeOK
  <2>3. CASE Next
    BY <1>1, <2>1, <2>3, ReadsTyped, WritesTyped DEF Next, Progress, Trouble
  <2>4. QED
    BY <2>2, <2>3
<1>3. ASSUME NEW q \in Publishers, run'[q] = run[q], Untouched(TagOf[q])
      PROVE  OwnInv(q)'
  <2>1. PICK x : x = run[q]
    OBVIOUS
  <2>2. x \in RunRecord /\ Own(TagOf[q], x)
    BY <1>1, <2>1 DEF TypeOK, OwnInv
  <2>3. Own(TagOf[q], x)'
    BY <1>1, <1>3, <2>2, UntouchedKeeps DEF TypeOK
  <2>4. QED
    BY <1>3, <2>1, <2>3 DEF OwnInv
<1>4. CASE UNCHANGED vars
  <2>1. \A q \in Publishers : run'[q] = run[q] /\ Untouched(TagOf[q])
    BY <1>1, <1>4, NothingTouched DEF vars, hostVars, TypeOK
  <2>2. QED
    BY <1>2, <1>3, <2>1 DEF IInv
<1>5. ASSUME NEW p \in Publishers, Start(p) \/ Progress(p) \/ Trouble(p)
      PROVE  IInv'
  <2>1. OwnInv(p)'
    BY <1>1, <1>2, <1>5, ReadsKnow, DropKnows, CreateKnows, DeleteKnows, UploadKnows, PublishKnows
       DEF Progress, Trouble
  <2>2. ASSUME NEW q \in Publishers, q # p PROVE OwnInv(q)'
    <3>1. run'[q] = run[q]
      BY <1>1, <1>5, <2>2, ChangesOnlyOwnRun DEF TypeOK
    <3>2. TagOf[q] # TagOf[p]
      BY <2>2 DEF OneJobPerTag
    <3>3. Untouched(TagOf[q])
      BY <1>1, <1>5, <3>2, StepTouchesOwnTag
    <3>4. QED
      BY <1>3, <3>1, <3>3
  <2>3. QED
    BY <1>2, <2>1, <2>2 DEF IInv
<1>6. QED
  BY <1>4, <1>5 DEF Next

(* What a run has read and still relies on is true of the store in every   *)
(* reachable state, whatever is lost or killed, as long as every job has a *)
(* tag of its own (publish.go:140-266).                                    *)
THEOREM KnowledgeInvariant == ASSUME OneJobPerTag PROVE Spec => []IInv
<1>1. IInv /\ [Next]_vars => IInv'
  BY StepKnows
<1>2. QED
  BY InitKnows, <1>1, PTL DEF Spec

(* A run that reports success leaves the tag's public release with exactly *)
(* its files (publish.go:140-266).                                         *)
THEOREM SuccessSafe == ASSUME OneJobPerTag PROVE Spec => []SuccessIsPublished
<1>1. IInv => SuccessIsPublished
  <2> SUFFICES ASSUME IInv, NEW p \in Publishers, run[p].pc = "succeeded"
               PROVE  \E r \in PublishedOf(TagOf[p]) : r = run[p].rel /\ Exact(r, run[p].local)
    BY DEF SuccessIsPublished
  <2>1. SuccessOK(TagOf[p], run[p])
    BY DEF IInv, OwnInv, Own
  <2>2. QED
    BY <2>1 DEF SuccessOK, PublishedOf, ReleasesOf
<1>2. QED
  BY KnowledgeInvariant, <1>1, PTL

\* The request of a step that writes, with the answer of the platform that let it.
Sends(p) ==
  \/ UNCHANGED hostVars
  \/ run[p].pc = "create" /\ CanCreate(TagOf[p]) /\ CreateRelease(TagOf[p])
  \/ run[p].pc = "drop" /\ \E o \in run[p].others : o.draft /\ RemoveRelease(o.id)
  \/ /\ run[p].pc = "reconcile"
     /\ \E n \in run[p].missing : \E c, st :
          CanStore(run[p].rel, n) /\ StoreAsset(run[p].rel, n, c, st)
  \/ /\ run[p].pc = "reconcile"
     /\ \E s \in run[p].doomed : CanRemove(s.id) /\ RemoveAsset(s.id)
  \/ /\ run[p].pc = "publish" /\ CanPublish(run[p].rel)
     /\ PublishRelease(run[p].rel, run[p].latest)

\* A step sends one request at most.
LEMMA RequestOfStep ==
  ASSUME NEW p, Start(p) \/ Progress(p) \/ Trouble(p)
  PROVE  Sends(p)
<1>1. CASE UNCHANGED hostVars
  BY <1>1 DEF Sends
<1>2. CASE CreateDraft(p) \/ CreateLost(p)
  BY <1>2 DEF CreateDraft, CreateLost, Sends
<1>3. CASE DropOther(p)
  BY <1>3 DEF DropOther, Sends
<1>4. CASE DeleteDoomed(p)
  BY <1>4 DEF DeleteDoomed, Sends
<1>5. CASE Upload(p) \/ UploadLost(p)
  BY <1>5 DEF Upload, UploadLost, Uploading, Sends
<1>6. CASE SendPublish(p) \/ PublishLost(p)
  BY <1>6 DEF SendPublish, PublishLost, Sends
<1> QED
  BY <1>1, <1>2, <1>3, <1>4, <1>5, <1>6
     DEF Progress, Trouble, Start, CheckLimits, CheckTag, FindByTag, FindInList, ListOthers,
         ReconcileList, CheckStored, EndRound, CompareList, CompareDownload, CompareDone,
         DecideLatest, Abort, ReadOnly, hostVars

\* What a request does to the store when the run knows its release.
LEMMA WritesOfStep ==
  ASSUME IInv, NEW p \in Publishers, Start(p) \/ Progress(p) \/ Trouble(p)
  PROVE  \/ UNCHANGED hostVars
         \/ /\ run[p].pc = "create"
            /\ ReleasesOf(TagOf[p]) = {} /\ CreateRelease(TagOf[p])
         \/ \E r : /\ run[p].pc = "drop" /\ RemoveRelease(r)
                   /\ r \in DOMAIN rels => rels[r].draft
         \/ \E n, c, st : /\ run[p].pc = "reconcile" /\ rels[run[p].rel].draft
                          /\ StoreAsset(run[p].rel, n, c, st)
         \/ \E a : /\ run[p].pc = "reconcile" /\ RemoveAsset(a)
                   /\ a \in DOMAIN assets => rels[assets[a].rel].draft
         \/ run[p].pc = "publish" /\ PublishRelease(run[p].rel, run[p].latest)
<1>1. Own(TagOf[p], run[p])
  BY DEF IInv, OwnInv
<1>2. run[p].pc = "create" => ReleasesOf(TagOf[p]) = {}
  BY <1>1 DEF Own, AloneOK
<1>3. \A o \in run[p].others : o.id \in DOMAIN rels => rels[o.id].draft = o.draft
  BY <1>1 DEF Own, OthersOK
<1>4. run[p].pc = "reconcile" => rels[run[p].rel].draft
  BY <1>1 DEF Own, OwnRelease, Holding, OnDraft
<1>5. \A s \in run[p].doomed : s.id \in DOMAIN assets => assets[s.id].rel = run[p].rel
  BY <1>1 DEF Own, ListedOK
<1> QED
  BY <1>2, <1>3, <1>4, <1>5, RequestOfStep DEF Sends

\* Only the Publish call of a run whose comparison is through makes a release visible.
LEMMA WhoGoesPublic ==
  ASSUME IInv, NEW p \in Publishers, Start(p) \/ Progress(p) \/ Trouble(p),
         NEW r \in DOMAIN rels', GoesPublic(r)
  PROVE  /\ run[p].pc = "publish" /\ run[p].rel = r
         /\ Exact(r, run[p].local)
         /\ ReleasesOf(rels'[r].tag) = {r}
<1>1. HostOK
  BY DEF IInv, TypeOK
<1>2. run[p].pc = "publish" /\ PublishRelease(run[p].rel, run[p].latest)
  <2>1. CASE UNCHANGED hostVars
    BY <2>1 DEF hostVars, GoesPublic
  <2>2. CASE CreateRelease(TagOf[p])
    BY <2>2 DEF CreateRelease, GoesPublic
  <2>3. CASE \E q : RemoveRelease(q)
    BY <2>3 DEF RemoveRelease, Restrict, GoesPublic
  <2>4. CASE \E n, c, st : StoreAsset(run[p].rel, n, c, st)
    BY <2>4 DEF StoreAsset, GoesPublic
  <2>5. CASE \E a : RemoveAsset(a)
    BY <2>5 DEF RemoveAsset, GoesPublic
  <2>6. QED
    BY <2>1, <2>2, <2>3, <2>4, <2>5, WritesOfStep
<1>3. Own(TagOf[p], run[p])
  BY DEF IInv, OwnInv
<1>4. run[p].rel = r /\ r \in DOMAIN rels /\ rels'[r].tag = rels[r].tag
  <2>1. r \in DOMAIN rels /\ rels[r] \in ReleaseRecord
    BY <1>1, <1>2 DEF PublishRelease, HostOK, WellFormedStore
  <2>2. QED
    BY <1>2, <2>1 DEF PublishRelease, GoesPublic, ReleaseRecord
<1>5. rels[r].tag = TagOf[p] /\ \A q \in ReleasesOf(TagOf[p]) : q = r
  BY <1>2, <1>3, <1>4 DEF Own, OwnRelease, AloneOK, Holding, Settled
<1>6. Exact(r, run[p].local)
  BY <1>2, <1>3, <1>4 DEF Own, ReadyOK
<1>7. ReleasesOf(rels'[r].tag) = {r}
  BY <1>4, <1>5 DEF ReleasesOf
<1>8. QED
  BY <1>2, <1>4, <1>6, <1>7

(* CONTRACT 4.2: nothing visible before it is complete (publish.go:216-232). *)
THEOREM AllOrNothingHolds == ASSUME OneJobPerTag PROVE Spec => AllOrNothing
<1>1. IInv /\ [Next]_vars =>
        [\A r \in DOMAIN rels' : GoesPublic(r) =>
           \E p \in Publishers : /\ run[p].pc = "publish"
                                 /\ run[p].rel = r
                                 /\ Exact(r, run[p].local)]_vars
  BY WhoGoesPublic DEF Next
<1>2. QED
  BY KnowledgeInvariant, <1>1, PTL DEF Spec, AllOrNothing

(* When a release becomes public no other release of its tag is left       *)
(* (publish.go:286-306).                                                   *)
THEOREM PublishedAloneHolds == ASSUME OneJobPerTag PROVE Spec => PublishedAlone
<1>1. IInv /\ [Next]_vars =>
        [\A r \in DOMAIN rels' : GoesPublic(r) => ReleasesOf(rels'[r].tag) = {r}]_vars
  BY WhoGoesPublic DEF Next
<1>2. QED
  BY KnowledgeInvariant, <1>1, PTL DEF Spec, PublishedAlone

\* No request of any job touches a public release.
LEMMA PublicKept ==
  ASSUME IInv, NEW p \in Publishers, Start(p) \/ Progress(p) \/ Trouble(p),
         NEW r \in DOMAIN rels, ~rels[r].draft
  PROVE  /\ r \in DOMAIN rels'
         /\ rels'[r].tag = rels[r].tag
         /\ ~rels'[r].draft
         /\ AssetsOf(r)' = AssetsOf(r)
         /\ \A a \in AssetsOf(r) : assets'[a] = assets[a]
<1> DEFINE Kept == /\ r \in DOMAIN rels'
                   /\ rels'[r].tag = rels[r].tag
                   /\ ~rels'[r].draft
                   /\ AssetsOf(r)' = AssetsOf(r)
                   /\ \A a \in AssetsOf(r) : assets'[a] = assets[a]
<1>1. HostOK /\ rels[r] \in ReleaseRecord /\ r # nextId
  BY IdFacts DEF IInv, TypeOK, HostOK, WellFormedStore
<1>2. nextId \notin DOMAIN assets
  BY <1>1, IdFacts
<1>3. CASE UNCHANGED hostVars
  BY <1>3 DEF hostVars, AssetsOf
<1>4. CASE CreateRelease(TagOf[p])
  BY <1>1, <1>4 DEF CreateRelease, AssetsOf
<1>5. ASSUME NEW q, RemoveRelease(q), q \in DOMAIN rels => rels[q].draft
      PROVE  Kept
  BY <1>1, <1>5 DEF RemoveRelease, Restrict, AssetsOf
<1>6. ASSUME NEW n, NEW c, NEW st, rels[run[p].rel].draft, StoreAsset(run[p].rel, n, c, st)
      PROVE  Kept
  BY <1>2, <1>6 DEF StoreAsset, AssetsOf
<1>7. ASSUME NEW a, RemoveAsset(a), a \in DOMAIN assets => rels[assets[a].rel].draft
      PROVE  Kept
  BY <1>7 DEF RemoveAsset, Restrict, AssetsOf
<1>8. CASE PublishRelease(run[p].rel, run[p].latest)
  BY <1>1, <1>8 DEF PublishRelease, AssetsOf, ReleaseRecord
<1> HIDE DEF Kept
<1>9. Kept
  BY <1>3, <1>4, <1>5, <1>6, <1>7, <1>8, WritesOfStep DEF Kept
<1> QED
  BY <1>9 DEF Kept

(* CONTRACT 4.3: published releases are never modified, by any request,    *)
(* lost, repeated or served, of any job (publish.go:184-191, 330-391).     *)
THEOREM PublishedFrozenHolds == ASSUME OneJobPerTag PROVE Spec => PublishedFrozen
<1>1. IInv /\ [Next]_vars =>
        [\A r \in DOMAIN rels : ~rels[r].draft =>
           /\ r \in DOMAIN rels'
           /\ ~rels'[r].draft
           /\ AssetsOf(r)' = AssetsOf(r)
           /\ \A a \in AssetsOf(r) : assets'[a] = assets[a]]_vars
  BY PublicKept DEF Next
<1>2. QED
  BY KnowledgeInvariant, <1>1, PTL DEF Spec, PublishedFrozen

(* A draft is created only for a tag without any release: a POST that was  *)
(* lost is never repeated blindly (publish.go:268-284).                    *)
THEOREM NoSecondDraftHolds == ASSUME OneJobPerTag PROVE Spec => NoSecondDraft
<1>1. ASSUME IInv, NEW p \in Publishers, Start(p) \/ Progress(p) \/ Trouble(p),
             NEW r \in DOMAIN rels' \ DOMAIN rels
      PROVE  ReleasesOf(rels'[r].tag) = {}
  <2>1. ReleasesOf(TagOf[p]) = {} /\ CreateRelease(TagOf[p])
    BY <1>1, WritesOfStep
       DEF hostVars, RemoveRelease, Restrict, StoreAsset, RemoveAsset, PublishRelease
  <2>2. rels'[r].tag = TagOf[p]
    BY <1>1, <2>1 DEF CreateRelease
  <2>3. QED
    BY <2>1, <2>2
<1>2. IInv /\ [Next]_vars =>
        [\A r \in DOMAIN rels' \ DOMAIN rels : ReleasesOf(rels'[r].tag) = {}]_vars
  BY <1>1 DEF Next, vars
<1>3. QED
  BY KnowledgeInvariant, <1>2, PTL DEF Spec, NoSecondDraft

\* An asset of the right bytes that is the only one of its name is not a mismatch.
LEMMA RightBytesMatch ==
  ASSUME NEW me, NEW s, s.id \in DOMAIN assets, s = View(s.id), NEW d \in BOOLEAN,
         assets[s.id].content = me.local[s.name], assets[s.id].state = "uploaded"
  PROVE  Verdict(me, s, d) # "mismatch"
<1>1. /\ s.state = "uploaded" /\ s.size = Size[me.local[s.name]]
      /\ s.digest \in {NoDigest, me.local[s.name]}
  <2>1. /\ View(s.id).state = assets[s.id].state
        /\ View(s.id).size = Size[assets[s.id].content]
        /\ View(s.id).digest \in {NoDigest, assets[s.id].content}
    BY DEF View
  <2>2. QED
    BY <2>1
<1>2. QED
  BY <1>1 DEF Verdict

\* Only the plan of a round and its downloads set assets aside for deletion.
LEMMA OnlyRoundsDoom ==
  ASSUME TypeOK, NEW p \in Publishers, Start(p) \/ Progress(p) \/ Trouble(p),
         ~ReconcileList(p), ~CheckStored(p)
  PROVE  run'[p].doomed \subseteq run[p].doomed
<1> DEFINE me == run[p]
           fits(x) == x.doomed \subseteq me.doomed
<1>1. run \in [Publishers -> RunRecord] /\ me \in RunRecord
  BY DEF TypeOK
<1>2. SUFFICES \E x : Continue(p, x) /\ fits(x)
  BY <1>1, <1>2 DEF Continue
<1>3. \A v : fits(Ended(me, v))
  BY DEF Ended, Blank
<1>4. \A pc : fits([me EXCEPT !.pc = pc])
  BY <1>1 DEF RunRecord
<1>5. CASE Start(p)
  BY <1>5 DEF Start, Blank
<1> HIDE DEF me
<1>6. CASE CheckLimits(p) \/ CheckTag(p) \/ CreateLost(p) \/ SendPublish(p)
           \/ PublishLost(p) \/ Abort(p)
  <2> HIDE DEF fits
  <2>1. QED
    BY <1>3, <1>4, <1>6 DEF CheckLimits, CheckTag, CreateLost, SendPublish, PublishLost,
                            Abort, Goto, Fail, me
<1>7. CASE FindByTag(p) \/ FindInList(p)
  <2>1. \A r : fits(AfterFind(me, r)) \/ me.pc \notin FindAt
    BY <1>1, <1>3 DEF AfterFind, FindAt, RunRecord
  <2>2. fits(AfterMissing(me)) /\ fits([me EXCEPT !.scan = TRUE])
    BY <1>1, <1>3 DEF AfterMissing, RunRecord
  <2> HIDE DEF fits
  <2>3. QED
    BY <1>7, <2>1, <2>2 DEF FindByTag, FindInList, me
<1>8. CASE ListOthers(p) \/ DropOther(p) \/ CreateDraft(p)
  <2>1. \A o : fits(AfterDrop(me, o))
    BY <1>1 DEF AfterDrop, RunRecord
  <2>2. \A r, pc : fits([me EXCEPT !.rel = r, !.pc = pc])
    BY <1>1 DEF RunRecord
  <2> HIDE DEF fits
  <2>3. QED
    BY <1>3, <1>4, <1>8, <2>1, <2>2 DEF ListOthers, DropOther, CreateDraft, Goto, Fail, me
<1>9. CASE DeleteDoomed(p)
  <2>1. \A s, n : fits([me EXCEPT !.doomed = me.doomed \ {s}, !.changed = TRUE, !.cur = n])
    BY <1>1 DEF RunRecord
  <2> HIDE DEF fits
  <2>2. QED
    BY <1>3, <1>9, <2>1 DEF DeleteDoomed, Fail, me
<1>10. CASE Upload(p) \/ UploadLost(p)
  <2>1. \A n : fits(Attempted(me, n))
    BY <1>1 DEF Attempted, RunRecord
  <2> HIDE DEF fits
  <2>2. QED
    BY <1>10, <2>1 DEF Upload, UploadLost, me
<1>11. CASE EndRound(p) \/ DecideLatest(p)
  <2>1. /\ \A n : fits([me EXCEPT !.pc = "list", !.round = n])
        /\ \A l : fits([me EXCEPT !.pc = "guard", !.latest = l])
    BY <1>1 DEF RunRecord
  <2> HIDE DEF fits
  <2>2. QED
    BY <1>3, <1>4, <1>11, <2>1 DEF EndRound, DecideLatest, Goto, Fail, me
<1>12. CASE CompareList(p) \/ CompareDownload(p) \/ CompareDone(p)
  <2>1. /\ \A w : fits([me EXCEPT !.listed = TRUE, !.todo = w])
        /\ \A w, m : fits([me EXCEPT !.todo = w, !.memo = m])
        /\ fits([me EXCEPT !.pc = "latest", !.listed = FALSE])
    BY <1>1 DEF RunRecord
  <2> HIDE DEF fits
  <2>2. QED
    BY <1>3, <1>12, <2>1 DEF CompareList, CompareDownload, CompareDone, Fail, me
<1>13. QED
  BY <1>5, <1>6, <1>7, <1>8, <1>9, <1>10, <1>11, <1>12 DEF Progress, Trouble

\* An asset that is the complete local file of its name, and the only one of that name.
Matching(p, s) ==
  /\ s.name \in DOMAIN run[p].local
  /\ assets[s.id].content = run[p].local[s.name]
  /\ assets[s.id].state = "uploaded"
  /\ \A b \in AssetsOf(run[p].rel) : assets[b].name = s.name => b = s.id

\* No run sets such an asset aside for deletion.
LEMMA DoomedNotMatching ==
  ASSUME TypeOK, NEW p \in Publishers, Start(p) \/ Progress(p) \/ Trouble(p),
         NEW s \in run'[p].doomed \ run[p].doomed
  PROVE  /\ ~Matching(p, s)
         /\ s \in run[p].todo \cup ListAssets(run[p].rel)
<1> DEFINE me == run[p]
           listing == ListAssets(me.rel)
<1>1. me \in RunRecord /\ HostOK /\ run \in [Publishers -> RunRecord]
  BY DEF TypeOK
<1>2. ~Fail(p)
  BY <1>1 DEF Fail, Continue, Ended, Blank
<1>3. ReconcileList(p) \/ CheckStored(p)
  BY OnlyRoundsDoom
<1>4. CASE CheckStored(p)
  <2>1. PICK z \in me.todo :
          \/ /\ assets[z.id].content = me.local[z.name]
             /\ run'[p] = [me EXCEPT !.todo    = me.todo \ {z},
                                     !.missing = me.missing \ {z.name},
                                     !.memo    = me.memo \cup {<<z.id, assets[z.id].content>>}]
          \/ /\ assets[z.id].content # me.local[z.name]
             /\ run'[p] = [me EXCEPT !.todo   = me.todo \ {z},
                                     !.doomed = me.doomed \cup {z},
                                     !.cur    = z.name]
    BY <1>1, <1>2, <1>4 DEF CheckStored, Continue
  <2> HIDE DEF me
  <2>2. \/ run'[p].doomed \subseteq me.doomed
        \/ /\ assets[z.id].content # me.local[z.name]
           /\ run'[p].doomed = me.doomed \cup {z}
    <3> DEFINE w == me.todo \ {z}
               m == me.missing \ {z.name}
               n == me.memo \cup {<<z.id, assets[z.id].content>>}
               x == [me EXCEPT !.todo = w, !.missing = m, !.memo = n]
               y == [me EXCEPT !.todo = w, !.doomed = me.doomed \cup {z}, !.cur = z.name]
    <3>1. \/ run'[p] = x
          \/ assets[z.id].content # me.local[z.name] /\ run'[p] = y
      BY <2>1
    <3> HIDE DEF w, m, n
    <3>2. x.doomed = me.doomed /\ y.doomed = me.doomed \cup {z}
      BY <1>1 DEF RunRecord
    <3> HIDE DEF x, y
    <3>3. QED
      BY <3>1, <3>2
  <2>3. s \in run'[p].doomed /\ s \notin me.doomed
    BY DEF me
  <2>4. QED
    BY <2>2, <2>3 DEF Matching, me
<1>5. CASE ReconcileList(p)
  <2> DEFINE d == {z \in listing : \/ z.name \notin DOMAIN me.local
                                   \/ ~Alone(z, listing)
                                   \/ Verdict(me, z, ~TrustServerDigest) = "mismatch"}
         g == {z \in listing \ d : Verdict(me, z, ~TrustServerDigest) = "ok"}
         w == (listing \ d) \ g
         m == DOMAIN me.local \ {z.name : z \in g}
         x == [me EXCEPT !.pc = "reconcile", !.doomed = d, !.todo = w, !.missing = m,
                         !.changed = FALSE]
  <2>1. run'[p] = x
    <3>1. Continue(p, x)
      BY <1>2, <1>5 DEF ReconcileList
    <3> HIDE DEF x
    <3>2. QED
      BY <1>1, <3>1 DEF Continue
  <2>2. /\ s \in listing
        /\ \/ s.name \notin DOMAIN me.local
           \/ ~Alone(s, listing)
           \/ Verdict(me, s, ~TrustServerDigest) = "mismatch"
    <3>1. s \in run'[p].doomed
      OBVIOUS
    <3>2. run'[p].doomed = d
      <4> HIDE DEF d, me, w, m
      <4>1. QED
        BY <1>1, <2>1 DEF RunRecord
    <3>3. QED
      BY <3>1, <3>2
  <2>3. /\ s.id \in DOMAIN assets /\ s = View(s.id)
    BY <1>1, <2>2, ListingFacts
  <2>4. ASSUME Matching(p, s) PROVE Alone(s, listing)
    BY <2>2, <2>3, <2>4 DEF Matching, Alone, ListAssets, View
  <2>5. ASSUME Matching(p, s) PROVE Verdict(me, s, ~TrustServerDigest) # "mismatch"
    BY <2>3, <2>5, RightBytesMatch, PublishAssumption DEF Matching
  <2>6. QED
    BY <2>2, <2>4, <2>5 DEF Matching
<1>6. QED
  BY <1>3, <1>4, <1>5

(* CONTRACT 4.4: a run keeps every asset whose bytes match, whatever left  *)
(* it there and whoever else works on the tag (publish.go:330-375).        *)
THEOREM MatchingBytesKeptHolds == Spec => MatchingBytesKept
<1> DEFINE Kept(p, s) == /\ s.name \in DOMAIN run[p].local
                         /\ assets[s.id].content = run[p].local[s.name]
                         /\ assets[s.id].state = "uploaded"
                         /\ \A b \in AssetsOf(run[p].rel) : assets[b].name = s.name => b = s.id
<1>1. TypeOK /\ [Next]_vars =>
        [\A p \in Publishers : \A s \in run'[p].doomed \ run[p].doomed : ~Kept(p, s)]_vars
  <2> SUFFICES ASSUME TypeOK, NEW q \in Publishers, Start(q) \/ Progress(q) \/ Trouble(q),
                      NEW p \in Publishers, NEW s \in run'[p].doomed \ run[p].doomed
               PROVE  ~Matching(p, s)
    BY DEF Next, Matching
  <2>1. p = q
    BY ChangesOnlyOwnRun DEF TypeOK
  <2> QED
    BY <2>1, DoomedNotMatching
<1> QED
  BY TypeCorrect, <1>1, PTL DEF Spec, MatchingBytesKept
-----------------------------------------------------------------------------
\* What a request does to the record of its run: files, commit and count stay, "latest"
\* is decided once, and the run ends or goes on.
LEMMA RunStep ==
  ASSUME TypeOK, NEW p \in Publishers, Progress(p) \/ Trouble(p)
  PROVE  /\ run'[p].local = run[p].local /\ run'[p].commit = run[p].commit
         /\ run'[p].runs = run[p].runs
         /\ run'[p].pc \in Working \cup {"failed", "succeeded"}
         /\ run'[p].pc = "succeeded" => CompareDone(p)
         /\ run'[p].latest => run[p].latest \/ DecideLatest(p)
<1> DEFINE me == run[p]
           going(x) == /\ x.local = me.local /\ x.commit = me.commit /\ x.runs = me.runs
                       /\ x.pc \in Working \cup {"failed"}
                       /\ x.latest => me.latest
           fits(x) == /\ x.local = me.local /\ x.commit = me.commit /\ x.runs = me.runs
                      /\ x.pc \in Working \cup {"failed", "succeeded"}
                      /\ x.pc = "succeeded" => CompareDone(p)
                      /\ x.latest => me.latest \/ DecideLatest(p)
<1>1. run \in [Publishers -> RunRecord] /\ me \in RunRecord
  BY DEF TypeOK
<1>2. SUFFICES \E x : Continue(p, x) /\ fits(x)
  <2> HIDE DEF fits
  <2>1. PICK x : Continue(p, x) /\ fits(x)
    BY <1>2
  <2>2. run'[p] = x
    BY <1>1, <2>1 DEF Continue
  <2>3. fits(run'[p])
    BY <2>1, <2>2
  <2> QED
    BY <2>2, <2>3 DEF fits
<1>3. \A x : going(x) => fits(x)
  BY DEF Working, FindAt, CompareAt
<1>4. going(Ended(me, "failed"))
  BY DEF Ended, Blank
<1>5. \A pc \in Working : going([me EXCEPT !.pc = pc])
  BY <1>1 DEF RunRecord
<1>6. /\ \A pc \in {"tag", "find", "refind", "list", "final", "confirm", "reread", "publish"} :
           pc \in Working
      /\ me.pc \in FindAt => me.pc \in Working
      /\ me.pc \in CompareAt => me.pc \in Working
  BY DEF Working, FindAt, CompareAt
<1> SUFFICES \/ \E x : Continue(p, x) /\ going(x)
             \/ \E x : Continue(p, x) /\ fits(x)
  <2> HIDE DEF fits, going
  <2> QED
    BY <1>3
<1> HIDE DEF fits, me
<1>7. CASE CheckLimits(p) \/ CheckTag(p) \/ CreateLost(p) \/ SendPublish(p)
           \/ PublishLost(p) \/ Abort(p)
  <2> HIDE DEF going
  <2> QED
    BY <1>4, <1>5, <1>6, <1>7 DEF CheckLimits, CheckTag, CreateLost, SendPublish, PublishLost,
                                  Abort, Goto, Fail, me
<1>8. CASE FindByTag(p) \/ FindInList(p)
  <2>0. me.pc \in FindAt
    BY <1>8 DEF FindByTag, FindInList, me
  <2>1. \A r : going(AfterFind(me, r))
    <3> SUFFICES ASSUME NEW r PROVE going(AfterFind(me, r))
      OBVIOUS
    <3>1. CASE me.pc = "find"
      BY <1>1, <3>1 DEF AfterFind, RunRecord, Working, CompareAt, FindAt
    <3>2. CASE me.pc = "refind"
      BY <1>1, <1>4, <3>2 DEF AfterFind, RunRecord, Working
    <3>3. CASE me.pc = "guard"
      BY <1>1, <1>4, <3>3 DEF AfterFind, RunRecord, Working
    <3>4. CASE me.pc = "reread"
      BY <1>1, <1>4, <3>4 DEF AfterFind, RunRecord, Working, FindAt
    <3>5. CASE me.pc = "confirm"
      BY <1>1, <1>4, <3>5 DEF AfterFind, RunRecord, Working, CompareAt
    <3> QED
      BY <2>0, <3>1, <3>2, <3>3, <3>4, <3>5 DEF FindAt
  <2>2. going(AfterMissing(me))
    BY <1>1, <1>4 DEF AfterMissing, RunRecord, Working
  <2>3. going([me EXCEPT !.scan = TRUE])
    BY <1>1, <1>6, <2>0 DEF RunRecord
  <2> HIDE DEF going
  <2> QED
    BY <1>8, <2>1, <2>2, <2>3 DEF FindByTag, FindInList, me
<1>9. CASE ListOthers(p) \/ DropOther(p) \/ CreateDraft(p)
  <2>1. \A o : going(AfterDrop(me, o))
    BY <1>1 DEF AfterDrop, RunRecord, Working
  <2>2. \A r : going([me EXCEPT !.rel = r, !.pc = "list"])
    BY <1>1, <1>6 DEF RunRecord
  <2> HIDE DEF going
  <2> QED
    BY <1>4, <1>5, <1>6, <1>9, <2>1, <2>2 DEF ListOthers, DropOther, CreateDraft, Goto, Fail, me
<1>10. CASE ReconcileList(p)
  <2>1. \A d, w, m : going([me EXCEPT !.pc = "reconcile", !.doomed = d, !.todo = w,
                                      !.missing = m, !.changed = FALSE])
    BY <1>1 DEF RunRecord, Working
  <2> HIDE DEF going
  <2> QED
    BY <1>4, <1>10, <2>1 DEF ReconcileList, Fail, me
<1>11. CASE DeleteDoomed(p)
  <2>0. me.pc \in Working
    BY <1>11 DEF DeleteDoomed, Working, me
  <2>1. \A d, n : going([me EXCEPT !.doomed = d, !.changed = TRUE, !.cur = n])
    BY <1>1, <2>0 DEF RunRecord
  <2> HIDE DEF going
  <2> QED
    BY <1>4, <1>11, <2>1 DEF DeleteDoomed, Fail, me
<1>12. CASE CheckStored(p)
  <2> DEFINE right(s) == [me EXCEPT !.todo = me.todo \ {s}, !.missing = me.missing \ {s.name},
                                    !.memo = me.memo \cup {<<s.id, assets[s.id].content>>}]
             wrong(s) == [me EXCEPT !.todo = me.todo \ {s}, !.doomed = me.doomed \cup {s},
                                    !.cur = s.name]
  <2>1. me.pc \in Working
    BY <1>12 DEF CheckStored, Working, me
  <2>2. \A s : going(right(s)) /\ going(wrong(s))
    BY <1>1, <2>1 DEF RunRecord
  <2>3. \E s \in me.todo : Fail(p) \/ Continue(p, right(s)) \/ Continue(p, wrong(s))
    BY <1>12 DEF CheckStored, me
  <2> HIDE DEF going, right, wrong
  <2> QED
    BY <1>4, <2>2, <2>3 DEF Fail, me
<1>13. CASE Upload(p) \/ UploadLost(p)
  <2>0. me.pc \in Working
    BY <1>13 DEF Upload, UploadLost, Uploading, Working, me
  <2>1. \A n : going(Attempted(me, n))
    BY <1>1, <2>0 DEF Attempted, RunRecord
  <2> HIDE DEF going
  <2> QED
    BY <1>13, <2>1 DEF Upload, UploadLost, me
<1>14. CASE EndRound(p) \/ DecideLatest(p)
  <2>1. \A n : going([me EXCEPT !.pc = "list", !.round = n])
    BY <1>1, <1>6 DEF RunRecord
  <2>2. DecideLatest(p) => \A l : fits([me EXCEPT !.pc = "guard", !.latest = l])
    BY <1>1 DEF fits, RunRecord, Working, FindAt
  <2> HIDE DEF going
  <2> QED
    BY <1>4, <1>5, <1>6, <1>14, <2>1, <2>2 DEF EndRound, DecideLatest, Goto, Fail, me
<1>15. CASE CompareList(p) \/ CompareDownload(p)
  <2>0. me.pc \in Working
    BY <1>6, <1>15 DEF CompareList, CompareDownload, me
  <2>1. /\ \A w : going([me EXCEPT !.listed = TRUE, !.todo = w])
        /\ \A w, m : going([me EXCEPT !.todo = w, !.memo = m])
    BY <1>1, <2>0 DEF RunRecord
  <2> HIDE DEF going
  <2> QED
    BY <1>4, <1>15, <2>1 DEF CompareList, CompareDownload, Fail, me
<1>16. CASE CompareDone(p)
  <2>1. fits([me EXCEPT !.pc = "latest", !.listed = FALSE])
    BY <1>1 DEF fits, RunRecord, Working
  <2>2. fits(Ended(me, "succeeded"))
    BY <1>16 DEF fits, Ended, Blank
  <2> HIDE DEF going
  <2> QED
    BY <1>16, <2>1, <2>2 DEF CompareDone, me
<1> QED
  BY <1>7, <1>8, <1>9, <1>10, <1>11, <1>12, <1>13, <1>14, <1>15, <1>16 DEF Progress, Trouble

\* A run that has passed its checks has passed them for the files and the commit it has.
LEMMA CheckedStep ==
  ASSUME TypeOK, NEW p \in Publishers, CheckedOK(TagOf[p], run[p]),
         Start(p) \/ Progress(p) \/ Trouble(p)
  PROVE  CheckedOK(TagOf[p], run[p])'
<1> DEFINE me == run[p]
<1>1. run \in [Publishers -> RunRecord]
  BY DEF TypeOK
<1>2. CASE Fail(p)
  BY <1>1, <1>2 DEF Fail, Continue, Ended, Blank, CheckedOK, Working, FindAt, CompareAt
<1>3. CASE Start(p)
  BY <1>1, <1>3 DEF Start, Continue, Blank, CheckedOK
<1>4. CASE CheckLimits(p) /\ ~Fail(p)
  BY <1>1, <1>4 DEF CheckLimits, Goto, Continue, CheckedOK, RunRecord, WithinLimits
<1>5. CASE CheckTag(p) /\ ~Fail(p)
  BY <1>1, <1>5 DEF CheckTag, Goto, Continue, CheckedOK, RunRecord, WithinLimits, Working
<1>6. CASE me.pc \in Working \ {"limits", "tag"} /\ ~Start(p)
  <2>1. run'[p].local = me.local /\ run'[p].commit = me.commit
    BY <1>6, RunStep
  <2> QED
    BY <1>6, <2>1 DEF CheckedOK, WithinLimits
<1>7. Progress(p) \/ Trouble(p) =>
        me.pc \in Working \ {"limits", "tag"} \/ CheckLimits(p) \/ CheckTag(p) \/ Fail(p)
  BY DEF Progress, Trouble, FindByTag, FindInList, ListOthers, DropOther, CreateDraft, CreateLost,
         ReconcileList, DeleteDoomed, CheckStored, Upload, UploadLost, EndRound, CompareList,
         CompareDownload, CompareDone, DecideLatest, SendPublish, PublishLost, Abort, Uploading,
         Working, FindAt, CompareAt
<1> QED
  BY <1>2, <1>3, <1>4, <1>5, <1>6, <1>7

(* CONTRACT 4.1 and 4.6: only runs whose checks passed write, whatever     *)
(* other jobs do (publish.go:155-175).                                     *)
THEOREM OnlyVerifiedRunsWriteHolds == Spec => OnlyVerifiedRunsWrite
<1> DEFINE Checked == \A p \in Publishers : CheckedOK(TagOf[p], run[p])
<1>1. ASSUME TypeOK, Checked, NEW p \in Publishers, Start(p) \/ Progress(p) \/ Trouble(p)
      PROVE  /\ Checked'
             /\ <<rels, assets>>' # <<rels, assets>> =>
                  /\ run[p].pc \in Working
                  /\ RemoteTag[TagOf[p]] = run[p].commit
                  /\ WithinLimits(run[p].local)
  <2>1. ASSUME NEW q \in Publishers PROVE CheckedOK(TagOf[q], run[q])'
    <3>1. CASE q = p
      BY <1>1, <3>1, CheckedStep
    <3>2. CASE q # p
      <4>1. run'[q] = run[q]
        BY <1>1, <3>2, ChangesOnlyOwnRun DEF TypeOK
      <4> QED
        BY <1>1, <4>1 DEF CheckedOK, WithinLimits
    <3> QED
      BY <3>1, <3>2
  <2>2. ASSUME <<rels, assets>>' # <<rels, assets>>
        PROVE  run[p].pc \in {"create", "drop", "reconcile", "publish"}
    BY <1>1, <2>2, RequestOfStep DEF Sends, hostVars
  <2> QED
    BY <1>1, <2>1, <2>2 DEF CheckedOK, Working
<1>2. Init => Checked
  BY DEF Init, Blank, CheckedOK, Working, FindAt, CompareAt
<1>3. TypeOK /\ Checked /\ [Next]_vars => Checked'
  <2>1. CASE UNCHANGED vars
    BY <2>1 DEF vars, CheckedOK, WithinLimits
  <2> QED
    BY <1>1, <2>1 DEF Next
<1>4. TypeOK /\ Checked /\ [Next]_vars =>
        [<<rels, assets>>' # <<rels, assets>> =>
           \E p \in Publishers :
             /\ run[p].pc \in Working
             /\ RemoteTag[TagOf[p]] = run[p].commit
             /\ AssetLimit > 0 => Cardinality(DOMAIN run[p].local) <= AssetLimit
             /\ SizeLimit > 0 => \A n \in DOMAIN run[p].local : Size[run[p].local[n]] <= SizeLimit]_vars
  BY <1>1 DEF Next, WithinLimits
<1> HIDE DEF Checked
<1> QED
  BY TypeCorrect, <1>2, <1>3, <1>4, PTL DEF Spec, OnlyVerifiedRunsWrite

\* The release that goes public is the only one of its tag, published as the run decided.
LEMMA HowItGoesPublic ==
  ASSUME IInv, NEW p \in Publishers, Start(p) \/ Progress(p) \/ Trouble(p),
         NEW r \in DOMAIN rels', GoesPublic(r)
  PROVE  /\ r \in DOMAIN rels
         /\ rels[r].tag = TagOf[p] /\ rels'[r].tag = TagOf[p]
         /\ ReleasesOf(TagOf[p]) = {r}
         /\ PublishRelease(r, run[p].latest)
<1>1. /\ run[p].pc = "publish" /\ run[p].rel = r
      /\ ReleasesOf(rels'[r].tag) = {r}
  BY WhoGoesPublic
<1>2. rels[r].tag = TagOf[p]
  BY <1>1 DEF IInv, OwnInv, Own, OwnRelease, Holding
<1>3. r \in DOMAIN rels /\ rels[r].tag = rels'[r].tag
  BY <1>1 DEF ReleasesOf
<1>4. PublishRelease(r, run[p].latest)
  BY <1>1, WritesOfStep DEF hostVars, GoesPublic
<1> QED
  BY <1>1, <1>2, <1>3, <1>4

\* A run that will publish as the latest one has a version above every other public one.
LatestKnown(p) == run[p].latest => NewerThanPublished(TagOf[p])

\* It stays so as long as no other job publishes.
LEMMA LatestKept ==
  ASSUME IInv, NEW p \in Publishers, LatestOption[p] # "true", LatestKnown(p),
         Start(p) \/ Progress(p) \/ Trouble(p)
  PROVE  LatestKnown(p)'
<1> DEFINE t == TagOf[p]
<1>1. NewerThanPublished(t) => NewerThanPublished(t)'
  <2> SUFFICES ASSUME NewerThanPublished(t),
                      NEW r \in DOMAIN rels', ~rels'[r].draft,
                      rels'[r].tag \notin PreTags, rels'[r].tag # t
               PROVE  Rank[rels'[r].tag] < Rank[t]
    BY DEF NewerThanPublished
  <2> PICK u : u = rels'[r].tag
    OBVIOUS
  <2>1. Untouched(u)
    BY StepTouchesOwnTag DEF IInv
  <2>2. r \in DOMAIN rels /\ rels'[r] = rels[r]
    BY <2>1 DEF Untouched, ReleasesOf
  <2> QED
    BY <2>2 DEF NewerThanPublished
<1>2. run \in [Publishers -> RunRecord]
  BY DEF IInv, TypeOK
<1>3. CASE Start(p)
  <2>1. PICK l \in LocalSets[p], c \in Commits :
          Continue(p, Blank("limits", l, c, run[p].runs + 1))
    BY <1>3 DEF Start
  <2>2. \A n : ~Blank("limits", l, c, n).latest
    BY DEF Blank
  <2>3. ~run'[p].latest
    BY <1>2, <2>1, <2>2 DEF Continue
  <2> QED
    BY <2>3 DEF LatestKnown
<1>4. CASE DecideLatest(p)
  <2>1. PICK l : /\ l => NewerThanPublished(t)
                 /\ Continue(p, [run[p] EXCEPT !.pc = "guard", !.latest = l])
    BY <1>4, PublishAssumption DEF DecideLatest
  <2>2. run'[p].latest = l
    BY <1>2, <2>1 DEF Continue, RunRecord
  <2> QED
    BY <1>1, <2>1, <2>2 DEF LatestKnown
<1>5. CASE (Progress(p) \/ Trouble(p)) /\ ~DecideLatest(p)
  <2>1. run'[p].latest => run[p].latest
    BY <1>5, RunStep DEF IInv
  <2> QED
    BY <1>1, <2>1 DEF LatestKnown
<1> QED
  BY <1>3, <1>4, <1>5

(* CONTRACT 4.5, for one job that is not told what is latest: a release    *)
(* goes public as the latest one only above every other public version     *)
(* (publish.go:506-534).  Jobs of two tags may race: the run latest_race.  *)
THEOREM LatestOrderedHolds ==
  ASSUME \A p, q \in Publishers : p = q, \A p \in Publishers : LatestOption[p] # "true"
  PROVE  Spec => LatestOrdered
<1> DEFINE LInv == \A p \in Publishers : LatestKnown(p)
           Ordered(r) == \A q \in DOMAIN rels' \ {r} :
                           ~rels'[q].draft /\ rels'[q].tag \notin PreTags
                             => Rank[rels'[q].tag] < Rank[rels'[r].tag]
<1>1. OneJobPerTag
  BY DEF OneJobPerTag
<1>2. Init => LInv
  BY DEF Init, Blank, LatestKnown
<1>3. IInv /\ LInv /\ [Next]_vars => LInv'
  <2>1. CASE UNCHANGED vars
    BY <2>1 DEF vars, LatestKnown, NewerThanPublished
  <2>2. ASSUME IInv, LInv, NEW p \in Publishers, Start(p) \/ Progress(p) \/ Trouble(p)
        PROVE  LInv'
    <3>1. LatestKnown(p)'
      BY <2>2, LatestKept
    <3> QED
      BY <3>1
  <2> QED
    BY <2>1, <2>2 DEF Next
<1>4. IInv /\ LInv /\ [Next]_vars =>
        [\A r \in DOMAIN rels' : GoesPublic(r) /\ rels'[r].latest => Ordered(r)]_vars
  <2> SUFFICES ASSUME IInv, LInv, NEW p \in Publishers, Start(p) \/ Progress(p) \/ Trouble(p),
                      NEW r \in DOMAIN rels', GoesPublic(r), rels'[r].latest,
                      NEW q \in DOMAIN rels' \ {r}, ~rels'[q].draft, rels'[q].tag \notin PreTags
               PROVE  Rank[rels'[q].tag] < Rank[rels'[r].tag]
    BY DEF Next
  <2>1. /\ r \in DOMAIN rels /\ rels'[r].tag = TagOf[p] /\ ReleasesOf(TagOf[p]) = {r}
        /\ PublishRelease(r, run[p].latest)
    BY HowItGoesPublic
  <2>2. run[p].latest
    <3>1. rels[r] \in ReleaseRecord
      BY <2>1 DEF IInv, TypeOK, HostOK, WellFormedStore
    <3> QED
      BY <2>1, <3>1 DEF PublishRelease, ReleaseRecord
  <2>3. q \in DOMAIN rels /\ rels'[q] = rels[q]
    BY <2>1 DEF PublishRelease
  <2>4. rels[q].tag # TagOf[p]
    BY <2>1, <2>3 DEF ReleasesOf
  <2>5. NewerThanPublished(TagOf[p])
    BY <2>2 DEF LatestKnown
  <2> QED
    BY <2>1, <2>3, <2>4, <2>5 DEF NewerThanPublished
<1> QED
  BY <1>1, <1>2, <1>3, <1>4, KnowledgeInvariant, PTL DEF Spec, LatestOrdered
-----------------------------------------------------------------------------
(***************************************************************************)
(* Publish implements Publication, for every value of the constants and    *)
(* jobs with a tag each.  A release that goes public is Reveal, a reported *)
(* success is Succeed; every other request is invisible, because it leaves *)
(* the public releases alone.                                              *)
(***************************************************************************)
\* The files of a release that holds exactly l are l.
LEMMA FilesExact ==
  ASSUME NEW r, NEW l \in LocalSet, Exact(r, l)
  PROVE  FilesOf(r) = l
<1> DEFINE the(n) == CHOOSE a \in AssetsOf(r) : assets[a].name = n
<1>1. {assets[a].name : a \in AssetsOf(r)} = DOMAIN l
  BY DEF Exact
<1>2. \A a, b \in AssetsOf(r) :
        assets[a].state = "uploaded" /\ (assets[a].name = assets[b].name => a = b)
  BY DEF Exact
<1>3. ASSUME NEW n \in DOMAIN l PROVE assets[the(n)].content = l[n]
  <2>1. the(n) \in AssetsOf(r) /\ assets[the(n)].name = n
    BY DEF Exact
  <2> QED
    BY <2>1 DEF Exact
<1>4. FilesOf(r) = [n \in DOMAIN l |-> assets[the(n)].content]
  BY <1>1, <1>2 DEF FilesOf
<1> HIDE DEF the
<1>5. l = [n \in DOMAIN l |-> l[n]]
  BY DEF LocalSet
<1> QED
  BY <1>3, <1>4, <1>5

\* The files of a release stay what they are when its assets do.
LEMMA FilesOfKept ==
  ASSUME NEW r, AssetsOf(r)' = AssetsOf(r), \A a \in AssetsOf(r) : assets'[a] = assets[a]
  PROVE  FilesOf(r)' = FilesOf(r)
<1> DEFINE whole == \A a, b \in AssetsOf(r) :
                      assets[a].state = "uploaded" /\ (assets[a].name = assets[b].name => a = b)
           the(n) == CHOOSE a \in AssetsOf(r) : assets[a].name = n
           then(n) == CHOOSE a \in AssetsOf(r)' : assets'[a].name = n
           names == {assets[a].name : a \in AssetsOf(r)}
<1>1. whole' <=> whole
  OBVIOUS
<1>2. names' = names
  OBVIOUS
<1>3. CASE ~whole
  BY <1>1, <1>3 DEF FilesOf
<1>4. CASE whole
  <2>1. FilesOf(r) = [n \in names |-> assets[the(n)].content]
    BY <1>4 DEF FilesOf
  <2>2. FilesOf(r)' = [n \in names' |-> assets'[then(n)].content]
    BY <1>1, <1>4 DEF FilesOf
  <2>3. ASSUME NEW n \in names PROVE assets'[then(n)].content = assets[the(n)].content
    <3>1. the(n) \in AssetsOf(r) /\ assets[the(n)].name = n
      OBVIOUS
    <3>2. then(n) \in AssetsOf(r)' /\ assets'[then(n)].name = n
      OBVIOUS
    <3> HIDE DEF the, then
    <3>3. the(n) = then(n)
      BY <1>4, <3>1, <3>2
    <3> QED
      BY <3>1, <3>3
  <2> HIDE DEF the, then, names, whole
  <2> QED
    BY <1>2, <2>1, <2>2, <2>3
<1> QED
  BY <1>3, <1>4

\* A tag has one public release at most.
LEMMA OnePublic ==
  ASSUME HostOK, NEW t, NEW r \in PublishedOf(t)
  PROVE  PublishedOf(t) = {r} /\ Visible(t) = FilesOf(r)
<1>1. PublishedOf(t) = {r}
  BY DEF HostOK, WellFormedStore, PublishedOf, ReleasesOf
<1> QED
  BY <1>1 DEF Visible

\* What is visible of a tag stays so in a step in which no release of it goes public.
LEMMA VisibleKept ==
  ASSUME IInv, IInv', NEW p \in Publishers, Start(p) \/ Progress(p) \/ Trouble(p), NEW t,
         \A r \in DOMAIN rels' : GoesPublic(r) => rels'[r].tag # t
  PROVE  Visible(t)' = Visible(t)
<1>1. HostOK /\ HostOK'
  BY DEF IInv, TypeOK
<1>2. \A r \in PublishedOf(t) :
        r \in PublishedOf(t)' /\ FilesOf(r)' = FilesOf(r)
  BY PublicKept, FilesOfKept DEF PublishedOf, ReleasesOf
<1>3. \A r \in PublishedOf(t)' : r \in PublishedOf(t)
  <2> SUFFICES ASSUME NEW r \in PublishedOf(t)' PROVE r \in PublishedOf(t)
    OBVIOUS
  <2>1. r \in DOMAIN rels' /\ rels'[r].tag = t /\ ~rels'[r].draft
    BY DEF PublishedOf, ReleasesOf
  <2>2. r \in DOMAIN rels /\ ~rels[r].draft
    BY <2>1 DEF GoesPublic
  <2> QED
    BY <2>1, <2>2, PublicKept DEF PublishedOf, ReleasesOf
<1>4. CASE PublishedOf(t) = {}
  <2>1. PublishedOf(t)' = {}
    BY <1>3, <1>4
  <2> QED
    BY <1>4, <2>1 DEF Visible
<1>5. ASSUME NEW r \in PublishedOf(t) PROVE Visible(t)' = Visible(t)
  <2>1. PublishedOf(t) = {r} /\ Visible(t) = FilesOf(r)
    BY <1>1, <1>5, OnePublic
  <2>2. PublishedOf(t)' = {r}
    BY <1>2, <1>3, <2>1
  <2>3. Visible(t)' = FilesOf(r)'
    BY <2>2 DEF Visible
  <2> QED
    BY <1>2, <1>5, <2>1, <2>3
<1> QED
  BY <1>4, <1>5

\* A run that sends requests is working on something.
LEMMA AtWork ==
  ASSUME NEW p \in Publishers, Progress(p) \/ Trouble(p)
  PROVE  run[p].pc \in Working
BY DEF Progress, Trouble, CheckLimits, CheckTag, FindByTag, FindInList, ListOthers, DropOther,
       CreateDraft, CreateLost, ReconcileList, DeleteDoomed, CheckStored, Upload, UploadLost,
       Uploading, EndRound, CompareList, CompareDownload, CompareDone, DecideLatest,
       SendPublish, PublishLost, Abort, Working, FindAt, CompareAt

\* A request to publish that makes a release public leaves its run at work.
LEMMA PublishGoesOn ==
  ASSUME TypeOK, NEW p \in Publishers, Progress(p) \/ Trouble(p), run[p].pc = "publish",
         NEW r \in DOMAIN rels', GoesPublic(r)
  PROVE  run'[p].pc \in Working
<1>1. rels' # rels
  BY DEF GoesPublic
<1>2. SendPublish(p) \/ PublishLost(p)
  BY <1>1 DEF Progress, Trouble, CheckLimits, CheckTag, FindByTag, FindInList, ListOthers,
       DropOther, CreateDraft, CreateLost, ReconcileList, DeleteDoomed, CheckStored, Upload,
       UploadLost, Uploading, EndRound, CompareList, CompareDownload, CompareDone,
       DecideLatest, Abort, FindAt, CompareAt, ReadOnly, hostVars
<1>3. \E pc \in {"confirm", "reread", "publish"} : Goto(p, pc)
  BY <1>2 DEF SendPublish, PublishLost
<1>4. run'[p].pc \in {"confirm", "reread", "publish"}
  BY <1>3 DEF TypeOK, Goto, Continue, RunRecord
<1> QED
  BY <1>4 DEF Working, FindAt
-----------------------------------------------------------------------------
\* The initial states are initial states of the promise.
LEMMA InitPromise == Init => Promise!PInit
<1>1. StateOf("idle") = "resting"
  BY DEF StateOf
<1>2. \A n : Blank("idle", NoFiles, NoCommit, n).pc = "idle"
             /\ Blank("idle", NoFiles, NoCommit, n).local = NoFiles
  BY DEF Blank
<1> QED
  BY <1>1, <1>2 DEF Init, Promise!PInit

\* The state of a run in the promise.
LEMMA StateFacts ==
  /\ \A pc \in Working : StateOf(pc) = "working"
  /\ StateOf("failed") = "resting" /\ StateOf("idle") = "resting"
  /\ StateOf("succeeded") = "succeeded"
BY DEF StateOf, Working, FindAt, CompareAt

\* Starting a run is Begin.
LEMMA StartPromise ==
  ASSUME IInv, IInv', NEW p \in Publishers, Start(p)
  PROVE  Promise!Begin(p)
<1>1. PICK l \in LocalSets[p], c \in Commits :
        Continue(p, Blank("limits", l, c, run[p].runs + 1))
  BY DEF Start
<1> DEFINE x == Blank("limits", l, c, run[p].runs + 1)
<1>2. x.pc = "limits" /\ x.local = l
  BY DEF Blank
<1> HIDE DEF x
<1>3. run \in [Publishers -> RunRecord] /\ run' = [run EXCEPT ![p] = x]
  BY <1>1 DEF x, Continue, IInv, TypeOK
<1>4. \A q \in Publishers : run'[q] = IF q = p THEN x ELSE run[q]
  BY <1>3
<1>5. \A t \in Tags : Visible(t)' = Visible(t)
  <2>1. \A r \in DOMAIN rels' : ~GoesPublic(r)
    BY DEF Start, ReadOnly, GoesPublic
  <2> QED
    BY <2>1, VisibleKept
<1>6. StateOf(run[p].pc) # "working"
  BY StateFacts DEF Start, Resting
<1>7. StateOf(x.pc) = "working"
  BY <1>2, StateFacts DEF Working
<1>8. [q \in Publishers |-> StateOf(run'[q].pc)]
        = [[q \in Publishers |-> StateOf(run[q].pc)] EXCEPT ![p] = "working"]
  BY <1>4, <1>7
<1>9. [q \in Publishers |-> run'[q].local]
        = [[q \in Publishers |-> run[q].local] EXCEPT ![p] = l]
  BY <1>2, <1>4
<1>10. [t \in Tags |-> Visible(t)]' = [t \in Tags |-> Visible(t)]
  BY <1>5
<1> QED
  BY <1>6, <1>8, <1>9, <1>10 DEF Promise!Begin

\* A run that goes on working, fails or succeeds, as the promise sees it.
LEMMA RunPromise ==
  ASSUME TypeOK, NEW p \in Publishers, Progress(p) \/ Trouble(p)
  PROVE  /\ StateOf(run[p].pc) = "working"
         /\ [q \in Publishers |-> StateOf(run'[q].pc)]
              = [[q \in Publishers |-> StateOf(run[q].pc)] EXCEPT ![p] = StateOf(run'[p].pc)]
         /\ [q \in Publishers |-> run'[q].local] = [q \in Publishers |-> run[q].local]
         /\ StateOf(run'[p].pc) = "working"
              => [q \in Publishers |-> StateOf(run'[q].pc)]
                   = [q \in Publishers |-> StateOf(run[q].pc)]
<1>1. StateOf(run[p].pc) = "working"
  BY AtWork, StateFacts
<1>2. \A q \in Publishers : q # p => run'[q] = run[q]
  BY ChangesOnlyOwnRun DEF TypeOK
<1>3. run'[p].local = run[p].local
  BY RunStep
<1> QED
  BY <1>1, <1>2, <1>3

\* Making a release public is Reveal.
LEMMA RevealPromise ==
  ASSUME IInv, IInv', NEW p \in Publishers, Progress(p) \/ Trouble(p),
         NEW r \in DOMAIN rels', GoesPublic(r)
  PROVE  Promise!Reveal(p)
<1> DEFINE t == TagOf[p]
<1>1. run[p].pc = "publish" /\ run[p].rel = r /\ Exact(r, run[p].local)
  BY WhoGoesPublic
<1>2. /\ r \in DOMAIN rels /\ rels[r].tag = t /\ rels'[r].tag = t /\ t \in Tags
      /\ ReleasesOf(t) = {r}
      /\ PublishRelease(r, run[p].latest)
  BY HowItGoesPublic, PublishAssumption
<1>3. StateOf(run'[p].pc) = "working"
  BY <1>1, PublishGoesOn, StateFacts DEF IInv
<1>5. Visible(t) = Nothing
  <2>1. rels[r].draft
    BY <1>2 DEF GoesPublic
  <2>2. PublishedOf(t) = {}
    BY <1>2, <2>1 DEF PublishedOf
  <2> QED
    BY <2>2 DEF Visible
<1>6. Visible(t)' = run[p].local
  <2>1. PublishedOf(t)' = {r}
    <3>1. DOMAIN rels' = DOMAIN rels /\ \A z \in DOMAIN rels : z # r => rels'[z] = rels[z]
      BY <1>2 DEF PublishRelease
    <3>2. \A z \in PublishedOf(t)' : z = r
      BY <1>2, <3>1 DEF PublishedOf, ReleasesOf
    <3>3. r \in PublishedOf(t)'
      BY <1>2 DEF GoesPublic, PublishedOf, ReleasesOf
    <3> QED
      BY <3>2, <3>3
  <2>2. FilesOf(r)' = FilesOf(r)
    BY <1>2, FilesOfKept DEF PublishRelease, AssetsOf
  <2>3. run[p].local \in LocalSet
    BY DEF IInv, TypeOK, RunRecord
  <2>4. Visible(t)' = FilesOf(r)'
    BY <2>1 DEF Visible
  <2> QED
    BY <1>1, <2>2, <2>3, <2>4, FilesExact
<1>7. \A u \in Tags \ {t} : Visible(u)' = Visible(u)
  <2> SUFFICES ASSUME NEW u \in Tags \ {t} PROVE Visible(u)' = Visible(u)
    OBVIOUS
  <2>1. \A q \in DOMAIN rels' : GoesPublic(q) => rels'[q].tag # u
    BY <1>1, <1>2, WhoGoesPublic
  <2> QED
    BY <2>1, VisibleKept
<1> HIDE DEF t
<1>8. [u \in Tags |-> Visible(u)]'
        = [[u \in Tags |-> Visible(u)] EXCEPT ![t] = run[p].local]
  BY <1>6, <1>7
<1>9. /\ StateOf(run[p].pc) = "working"
      /\ [q \in Publishers |-> run'[q].local] = [q \in Publishers |-> run[q].local]
      /\ [q \in Publishers |-> StateOf(run'[q].pc)] = [q \in Publishers |-> StateOf(run[q].pc)]
  BY <1>3, RunPromise DEF IInv
<1> QED
  BY <1>2, <1>5, <1>8, <1>9 DEF t, Promise!Reveal

\* Every other request is invisible, or ends its run.
LEMMA QuietPromise ==
  ASSUME IInv, IInv', NEW p \in Publishers, Progress(p) \/ Trouble(p),
         \A r \in DOMAIN rels' : ~GoesPublic(r)
  PROVE  [Promise!PNext]_(Promise!vars)
<1>1. [u \in Tags |-> Visible(u)]' = [u \in Tags |-> Visible(u)]
  BY VisibleKept
<1>2. /\ StateOf(run[p].pc) = "working"
      /\ [q \in Publishers |-> StateOf(run'[q].pc)]
           = [[q \in Publishers |-> StateOf(run[q].pc)] EXCEPT ![p] = StateOf(run'[p].pc)]
      /\ [q \in Publishers |-> run'[q].local] = [q \in Publishers |-> run[q].local]
      /\ StateOf(run'[p].pc) = "working"
           => [q \in Publishers |-> StateOf(run'[q].pc)]
                = [q \in Publishers |-> StateOf(run[q].pc)]
  BY RunPromise DEF IInv
<1>3. CASE run'[p].pc \in Working
  BY <1>1, <1>2, <1>3, StateFacts DEF Promise!vars
<1>4. CASE run'[p].pc = "failed"
  <2>1. Promise!GiveUp(p)
    BY <1>1, <1>2, <1>4, StateFacts DEF Promise!GiveUp
  <2> QED
    BY <2>1 DEF Promise!PNext
<1>5. CASE run'[p].pc = "succeeded"
  <2> DEFINE r == run'[p].rel
             t == TagOf[p]
  <2>1. CompareDone(p) /\ run'[p].local = run[p].local
    BY <1>5, RunStep DEF IInv
  <2>2. UNCHANGED hostVars
    BY <2>1 DEF CompareDone, ReadOnly, hostVars
  <2>3. SuccessOK(t, run[p])'
    BY <1>5 DEF IInv, OwnInv, Own
  <2>4. r \in PublishedOf(t) /\ Exact(r, run[p].local)
    <3>1. r \in DOMAIN rels' /\ rels'[r].tag = t /\ ~rels'[r].draft
      BY <1>5, <2>3 DEF SuccessOK
    <3>2. Exact(r, run[p].local)
      BY <1>5, <2>1, <2>2, <2>3 DEF SuccessOK, Exact, AssetsOf, hostVars
    <3> QED
      BY <2>2, <3>1, <3>2 DEF PublishedOf, ReleasesOf, hostVars
  <2> HIDE DEF r
  <2>5. Visible(t) = run[p].local
    BY <2>4, OnePublic, FilesExact DEF IInv, TypeOK, RunRecord
  <2>6. t \in Tags
    BY PublishAssumption
  <2>7. Promise!Succeed(p)
    BY <1>1, <1>2, <1>5, <2>5, <2>6, StateFacts DEF Promise!Succeed
  <2> QED
    BY <2>7 DEF Promise!PNext
<1> QED
  BY <1>3, <1>4, <1>5, RunStep DEF IInv

(* CONTRACT 4.2 and 4.3 as one statement: of a tag nothing is visible, and *)
(* then, from one moment on and for ever, the files of one run; only runs  *)
(* that brought these files report success.  Drafts, rounds, lost requests *)
(* and killed processes of publish.go are invisible from outside.          *)
THEOREM PublicationImplemented ==
  ASSUME OneJobPerTag PROVE Spec => ImplementsPublication
<1>1. IInv /\ IInv' /\ [Next]_vars => [Promise!PNext]_(Promise!vars)
  <2> SUFFICES ASSUME IInv, IInv', [Next]_vars PROVE [Promise!PNext]_(Promise!vars)
    OBVIOUS
  <2>1. CASE UNCHANGED vars
    <3>1. \A t : Visible(t)' = Visible(t)
      BY <2>1 DEF vars, Visible, PublishedOf, ReleasesOf, FilesOf, AssetsOf
    <3> QED
      BY <2>1, <3>1 DEF vars, Promise!vars
  <2>2. ASSUME NEW p \in Publishers, Start(p) PROVE [Promise!PNext]_(Promise!vars)
    BY <2>2, StartPromise DEF Promise!PNext
  <2>3. ASSUME NEW p \in Publishers, Progress(p) \/ Trouble(p)
        PROVE  [Promise!PNext]_(Promise!vars)
    <3>1. CASE \E r \in DOMAIN rels' : GoesPublic(r)
      BY <2>3, <3>1, RevealPromise DEF Promise!PNext
    <3> QED
      BY <2>3, <3>1, QuietPromise
  <2> QED
    BY <2>1, <2>2, <2>3 DEF Next
<1> QED
  BY <1>1, InitPromise, KnowledgeInvariant, PTL DEF Spec, ImplementsPublication, Promise!PSpec
=============================================================================
