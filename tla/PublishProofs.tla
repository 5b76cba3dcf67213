--------------------------- MODULE PublishProofs ---------------------------
(***************************************************************************)
(* Type correctness of Publish, for every value of the constants: every    *)
(* request, served, lost or repeated, turns a store a platform can hold    *)
(* into one it can hold, and gives its run a record of the right type.     *)
(* First what each request does to the store, then what each step does to  *)
(* the record of its run, then the two together.                           *)
(***************************************************************************)
EXTENDS PublishInvariant, TLAPS

\* A local file set maps some of the names to complete files.
LEMMA LocalSetFacts ==
  ASSUME NEW l \in LocalSet
  PROVE  /\ DOMAIN l \subseteq Names
         /\ \A n \in DOMAIN l : l[n] \in Contents
BY DEF LocalSet

\* A created draft gets a fresh id, and on Forgejo it is the only release of its tag.
LEMMA CreateKeepsStore ==
  ASSUME HostOK, NEW t \in Tags, CanCreate(t), CreateRelease(t)
  PROVE  HostOK'
<1> DEFINE new == [tag |-> t, draft |-> TRUE, latest |-> FALSE]
           grown == DOMAIN rels \cup {nextId}
<1>1. /\ DOMAIN rels' = grown
      /\ \A r \in DOMAIN rels : rels'[r] = rels[r]
      /\ rels'[nextId] = new
      /\ nextId \notin DOMAIN rels
      /\ nextId' = nextId + 1
      /\ assets' = assets
  BY DEF HostOK, WellFormedStore, CreateRelease
<1>2. nextId \in Nat /\ nextId > 0
  BY <1>1 DEF HostOK, WellFormedStore
<1>3. rels' \in [DOMAIN rels' -> ReleaseRecord]
  BY <1>1 DEF HostOK, WellFormedStore, ReleaseRecord, CreateRelease
<1>4. DOMAIN rels' \subseteq 1 .. (nextId' - 1) /\ DOMAIN assets' \subseteq 1 .. (nextId' - 1)
  BY <1>1, <1>2 DEF HostOK, WellFormedStore
<1>5. QED
  BY <1>1, <1>2, <1>3, <1>4, HostAssumption DEF HostOK, WellFormedStore, CanCreate, ReleasesOf

\* Deleting a release deletes its assets, so none is left without a release.
LEMMA RemoveReleaseKeepsStore ==
  ASSUME HostOK, NEW r, RemoveRelease(r)
  PROVE  HostOK'
BY HostAssumption DEF HostOK, WellFormedStore, RemoveRelease, AssetsOf, Restrict

\* An upload never gives GitHub two assets of one name on a release.
LEMMA StoreKeepsStore ==
  ASSUME HostOK, NEW r, NEW n \in Names, NEW c \in Bytes, NEW st \in {"uploaded", "starter"},
         CanStore(r, n), StoreAsset(r, n, c, st), Kind = "forgejo" => st = "uploaded"
  PROVE  HostOK'
BY HostAssumption DEF HostOK, WellFormedStore, CanStore, StoreAsset, AssetsOf, AssetRecord

\* Deleting an asset leaves a store a platform can hold.
LEMMA RemoveAssetKeepsStore ==
  ASSUME HostOK, NEW a, RemoveAsset(a)
  PROVE  HostOK'
BY HostAssumption DEF HostOK, WellFormedStore, RemoveAsset, Restrict

\* Publishing never gives GitHub two public releases of one tag.
LEMMA PublishKeepsStore ==
  ASSUME HostOK, NEW r, NEW l \in BOOLEAN, CanPublish(r), PublishRelease(r, l)
  PROVE  HostOK'
<1>1. r \in DOMAIN rels /\ rels[r] \in ReleaseRecord
  BY DEF HostOK, WellFormedStore, CanPublish
<1>2. DOMAIN rels' = DOMAIN rels /\ \A q \in DOMAIN rels : q # r => rels'[q] = rels[q]
  BY DEF PublishRelease
<1>3. rels'[r] \in ReleaseRecord /\ rels'[r].tag = rels[r].tag
  BY <1>1 DEF PublishRelease, ReleaseRecord
<1>4. rels' \in [DOMAIN rels' -> ReleaseRecord]
  BY <1>2, <1>3 DEF HostOK, WellFormedStore, PublishRelease
<1>5. assets' = assets /\ nextId' = nextId
  BY DEF PublishRelease
<1>6. \A q \in DOMAIN rels' : rels'[q].tag = rels[q].tag
  BY <1>2, <1>3
<1>7. ASSUME NEW q \in DOMAIN rels', NEW s \in DOMAIN rels', rels'[q].tag = rels'[s].tag,
             Kind = "forgejo" \/ (~rels'[q].draft /\ ~rels'[s].draft)
      PROVE  q = s
  BY <1>1, <1>2, <1>6, <1>7, HostAssumption
     DEF HostOK, WellFormedStore, CanPublish, PublishedOf, ReleasesOf
<1>8. QED
  BY <1>2, <1>4, <1>5, <1>7 DEF HostOK, WellFormedStore
-----------------------------------------------------------------------------
\* A run that starts has a well-typed record.
LEMMA BlankTyped ==
  ASSUME NEW pc \in Resting \cup Working, NEW l \in LocalSet,
         NEW c \in Commits \cup {NoCommit}, NEW n \in Nat
  PROVE  Blank(pc, l, c, n) \in RunRecord
BY DEF Blank, RunRecord

\* So has a run that ended.
LEMMA EndedTyped ==
  ASSUME NEW me \in RunRecord, NEW v \in {"failed", "succeeded"}
  PROVE  Ended(me, v) \in RunRecord
BY DEF Ended, Blank, RunRecord, Resting

\* A step that gives its run a well-typed record keeps the types of all runs.
LEMMA ContinueTyped ==
  ASSUME run \in [Publishers -> RunRecord], NEW p \in Publishers, NEW me \in RunRecord,
         Continue(p, me)
  PROVE  run' \in [Publishers -> RunRecord]
BY DEF Continue

\* Moving on to the next request keeps the types.
LEMMA GotoTyped ==
  ASSUME run \in [Publishers -> RunRecord], NEW p \in Publishers, NEW pc \in Working,
         Goto(p, pc)
  PROVE  run' \in [Publishers -> RunRecord]
BY DEF Goto, Continue, RunRecord

\* Failing keeps the types.
LEMMA FailTyped ==
  ASSUME run \in [Publishers -> RunRecord], NEW p \in Publishers, Fail(p)
  PROVE  run' \in [Publishers -> RunRecord]
BY EndedTyped DEF Fail, Continue

\* What a listing says of the assets of a release has the type of a listing.
LEMMA ListAssetsTyped ==
  ASSUME HostOK, NEW r
  PROVE  ListAssets(r) \subseteq AssetView
<1> SUFFICES ASSUME NEW a \in AssetsOf(r) PROVE View(a) \in AssetView
  BY DEF ListAssets
<1>1. a \in DOMAIN assets /\ a \in Nat /\ assets[a] \in AssetRecord
  BY DEF AssetsOf, HostOK, WellFormedStore
<1>2. assets[a].content \in Bytes /\ Size[assets[a].content] \in Nat
  BY <1>1, HostAssumption DEF AssetRecord
<1>3. QED
  BY <1>1, <1>2 DEF View, AssetView, AssetRecord

\* What a run makes of a release that FindRelease found is well typed.
LEMMA AfterFindTyped ==
  ASSUME HostOK, NEW me \in RunRecord, me.pc \in FindAt, NEW r \in DOMAIN rels
  PROVE  AfterFind(me, r) \in RunRecord
<1>1. r \in Nat
  BY DEF HostOK, WellFormedStore
<1>2. Ended(me, "failed") \in RunRecord
  BY EndedTyped
<1> USE DEF RunRecord, AfterFind, Working, CompareAt, FindAt
<1>3. CASE me.pc = "find" BY <1>1, <1>3
<1>4. CASE me.pc = "refind" BY <1>1, <1>2, <1>4
<1>5. CASE me.pc = "guard" BY <1>1, <1>2, <1>5
<1>6. CASE me.pc = "reread" BY <1>1, <1>2, <1>6
<1>7. CASE me.pc = "confirm" BY <1>1, <1>2, <1>7
<1>8. QED
  BY <1>3, <1>4, <1>5, <1>6, <1>7

\* What a run makes of a release that is not there is well typed.
LEMMA AfterMissingTyped ==
  ASSUME NEW me \in RunRecord
  PROVE  AfterMissing(me) \in RunRecord
<1>1. Ended(me, "failed") \in RunRecord
  BY EndedTyped
<1>2. "create" \in Working
  BY DEF Working
<1>3. [me EXCEPT !.scan = FALSE, !.pc = "create"] \in RunRecord
  BY <1>2 DEF RunRecord
<1>4. QED
  BY <1>1, <1>3 DEF AfterMissing
-----------------------------------------------------------------------------
\* The initial states have the types.
LEMMA InitTyped == Init => TypeOK
<1> SUFFICES ASSUME Init PROVE TypeOK
  OBVIOUS
<1>1. HostOK
  BY PublishAssumption DEF Init, HostOK
<1>2. NoFiles \in LocalSet
  BY DEF NoFiles, LocalSet
<1>3. Blank("idle", NoFiles, NoCommit, 0) \in RunRecord
  BY <1>2, BlankTyped DEF Resting
<1>4. QED
  BY <1>1, <1>3, PublishAssumption DEF Init, TypeOK

\* A request that only reads leaves the store well formed.
LEMMA HostUnchanged ==
  ASSUME HostOK, UNCHANGED hostVars
  PROVE  HostOK'
BY DEF HostOK, WellFormedStore, hostVars

\* The requests that read, and the steps without a request.
LEMMA ReadsTyped ==
  ASSUME TypeOK, NEW p \in Publishers,
         \/ Start(p) \/ CheckLimits(p) \/ CheckTag(p)
         \/ FindByTag(p) \/ FindInList(p) \/ ListOthers(p)
         \/ ReconcileList(p) \/ CheckStored(p) \/ EndRound(p)
         \/ CompareList(p) \/ CompareDownload(p) \/ CompareDone(p) \/ DecideLatest(p)
  PROVE  TypeOK'
<1> DEFINE me == run[p]
<1>0. /\ HostOK
      /\ run \in [Publishers -> RunRecord]
      /\ me \in RunRecord
      /\ faults \in 0 .. MaxFaults
  BY DEF TypeOK
<1> SUFFICES run' \in [Publishers -> RunRecord]
  <2>1. UNCHANGED hostVars /\ faults' = faults
    BY DEF Start, CheckLimits, CheckTag, FindByTag, FindInList, ListOthers, ReconcileList,
           CheckStored, EndRound, CompareList, CompareDownload, CompareDone, DecideLatest,
           ReadOnly, hostVars
  <2>2. QED
    BY <1>0, <2>1, HostUnchanged DEF TypeOK
<1> HIDE DEF me
<1>1. CASE Start(p)
  <2>1. PICK l \in LocalSets[p], c \in Commits :
          Continue(p, Blank("limits", l, c, run[p].runs + 1))
    BY <1>1 DEF Start
  <2>2. l \in LocalSet /\ run[p].runs + 1 \in Nat
    BY <1>0, PublishAssumption DEF RunRecord, me
  <2>3. Blank("limits", l, c, run[p].runs + 1) \in RunRecord
    BY <2>2, BlankTyped DEF Working
  <2>4. QED
    BY <1>0, <2>1, <2>3, ContinueTyped
<1>2. CASE CheckLimits(p)
  BY <1>0, <1>2, GotoTyped, FailTyped DEF CheckLimits, Working
<1>3. CASE CheckTag(p)
  BY <1>0, <1>3, GotoTyped, FailTyped DEF CheckTag, Working, FindAt
<1>4. CASE FindByTag(p)
  <2>1. [me EXCEPT !.scan = TRUE] \in RunRecord
    BY <1>0 DEF RunRecord
  <2>2. AfterMissing(me) \in RunRecord
    BY <1>0, AfterMissingTyped
  <2>3. \A r \in DOMAIN rels : AfterFind(me, r) \in RunRecord
    BY <1>0, <1>4, AfterFindTyped DEF FindByTag, me
  <2>4. PICK x \in RunRecord : Continue(p, x)
    BY <1>4, <2>1, <2>2, <2>3 DEF FindByTag, PublishedOf, ReleasesOf, me
  <2>5. QED
    BY <1>0, <2>4, ContinueTyped
<1>5. CASE FindInList(p)
  <2>1. AfterMissing(me) \in RunRecord
    BY <1>0, AfterMissingTyped
  <2>2. \A r \in DOMAIN rels : AfterFind(me, r) \in RunRecord
    BY <1>0, <1>5, AfterFindTyped DEF FindInList, me
  <2>3. PICK x \in RunRecord : Continue(p, x)
    BY <1>5, <2>1, <2>2 DEF FindInList, ReleasesOf, me
  <2>4. QED
    BY <1>0, <2>3, ContinueTyped
<1>6. CASE ListOthers(p)
  <2> DEFINE o == {x \in ListReleases : x.tag = TagOf[p] /\ x.id # me.rel}
  <2>1. o \in SUBSET [id : Nat, tag : Tags, draft : BOOLEAN]
    BY <1>0 DEF ListReleases, HostOK, WellFormedStore, ReleaseRecord
  <2> HIDE DEF o
  <2>2. \A pc \in Working : [me EXCEPT !.others = o, !.pc = pc] \in RunRecord
    BY <1>0, <2>1 DEF RunRecord
  <2>3. AfterDrop(me, o) \in RunRecord
    BY <2>2 DEF AfterDrop, Working
  <2>4. QED
    BY <1>0, <1>6, <2>3, ContinueTyped DEF ListOthers, me, o
<1>7. CASE ReconcileList(p)
  <2>1. ListAssets(me.rel) \subseteq AssetView
    BY <1>0, ListAssetsTyped
  <2>2. \A d, t \in SUBSET AssetView, m \in SUBSET Names :
          [me EXCEPT !.pc = "reconcile", !.doomed = d, !.todo = t,
                     !.missing = m, !.changed = FALSE] \in RunRecord
    BY <1>0 DEF RunRecord, Working
  <2>3. DOMAIN me.local \subseteq Names
    BY <1>0, LocalSetFacts DEF RunRecord
  <2>4. Fail(p) \/ \E x \in RunRecord : Continue(p, x)
    BY <1>7, <2>1, <2>2, <2>3 DEF ReconcileList, me
  <2>5. QED
    BY <1>0, <2>4, FailTyped, ContinueTyped
<1>8. CASE CheckStored(p)
  <2>1. PICK s \in me.todo :
          IF s.id \notin DOMAIN assets THEN Fail(p)
          ELSE IF assets[s.id].content = me.local[s.name]
            THEN Continue(p, [me EXCEPT !.todo    = @ \ {s},
                                        !.missing = @ \ {s.name},
                                        !.memo    = @ \cup {<<s.id, assets[s.id].content>>}])
            ELSE Continue(p, [me EXCEPT !.todo   = @ \ {s},
                                        !.doomed = @ \cup {s},
                                        !.cur    = s.name])
    BY <1>8 DEF CheckStored, me
  <2>2. s \in AssetView /\ s.id \in Nat /\ s.name \in Names
    BY <1>0 DEF RunRecord, AssetView
  <2>3. s.id \in DOMAIN assets => assets[s.id].content \in Bytes
    BY <1>0 DEF HostOK, WellFormedStore, AssetRecord
  <2>4. s.id \in DOMAIN assets =>
          [me EXCEPT !.todo    = @ \ {s},
                     !.missing = @ \ {s.name},
                     !.memo    = @ \cup {<<s.id, assets[s.id].content>>}] \in RunRecord
    <3>1. \A m \in Nat \X Bytes :
            [me EXCEPT !.todo = @ \ {s}, !.missing = @ \ {s.name},
                       !.memo = @ \cup {m}] \in RunRecord
      BY <1>0, <2>2 DEF RunRecord
    <3>2. QED
      BY <2>2, <2>3, <3>1
  <2>5. [me EXCEPT !.todo = @ \ {s}, !.doomed = @ \cup {s}, !.cur = s.name] \in RunRecord
    BY <1>0, <2>2 DEF RunRecord
  <2>6. QED
    BY <1>0, <2>1, <2>4, <2>5, FailTyped, ContinueTyped
<1>9. CASE EndRound(p)
  <2>1. [me EXCEPT !.pc = "list", !.round = @ + 1] \in RunRecord
    <3>1. \A pc \in Working, n \in Nat : [me EXCEPT !.pc = pc, !.round = n] \in RunRecord
      BY <1>0 DEF RunRecord
    <3>2. "list" \in Working /\ me.round + 1 \in Nat
      BY <1>0 DEF RunRecord, Working
    <3>3. QED
      BY <3>1, <3>2
  <2>2. QED
    BY <1>0, <1>9, <2>1, GotoTyped, FailTyped, ContinueTyped
       DEF EndRound, Working, CompareAt, me
<1>10. CASE CompareList(p)
  <2>1. ListAssets(me.rel) \subseteq AssetView
    BY <1>0, ListAssetsTyped
  <2>2. \A t \in SUBSET AssetView : [me EXCEPT !.listed = TRUE, !.todo = t] \in RunRecord
    BY <1>0 DEF RunRecord
  <2>3. Fail(p) \/ \E x \in RunRecord : Continue(p, x)
    BY <1>10, <2>1, <2>2 DEF CompareList, me
  <2>4. QED
    BY <1>0, <2>3, FailTyped, ContinueTyped
<1>11. CASE CompareDownload(p)
  <2>1. PICK s \in me.todo :
          IF s.id \in DOMAIN assets /\ assets[s.id].content = me.local[s.name]
            THEN Continue(p, [me EXCEPT !.todo = @ \ {s},
                                        !.memo = @ \cup {<<s.id, assets[s.id].content>>}])
            ELSE Fail(p)
    BY <1>11 DEF CompareDownload, me
  <2>2. s \in AssetView /\ s.id \in Nat
    BY <1>0 DEF RunRecord, AssetView
  <2>3. s.id \in DOMAIN assets => assets[s.id].content \in Bytes
    BY <1>0 DEF HostOK, WellFormedStore, AssetRecord
  <2>4. s.id \in DOMAIN assets =>
          [me EXCEPT !.todo = @ \ {s},
                     !.memo = @ \cup {<<s.id, assets[s.id].content>>}] \in RunRecord
    <3>1. \A m \in Nat \X Bytes :
            [me EXCEPT !.todo = @ \ {s}, !.memo = @ \cup {m}] \in RunRecord
      BY <1>0, <2>2 DEF RunRecord
    <3>2. QED
      BY <2>2, <2>3, <3>1
  <2>5. QED
    BY <1>0, <2>1, <2>4, FailTyped, ContinueTyped
<1>12. CASE CompareDone(p)
  <2>1. [me EXCEPT !.pc = "latest", !.listed = FALSE] \in RunRecord
    BY <1>0 DEF RunRecord, Working
  <2>2. QED
    BY <1>0, <1>12, <2>1, EndedTyped, ContinueTyped DEF CompareDone, me
<1>13. CASE DecideLatest(p)
  <2>1. \A l \in BOOLEAN : [me EXCEPT !.pc = "guard", !.latest = l] \in RunRecord
    BY <1>0 DEF RunRecord, Working, FindAt
  <2>2. LatestOption[p] \in {"auto", "true", "false"}
    BY PublishAssumption
  <2>3. \E l \in BOOLEAN : Continue(p, [me EXCEPT !.pc = "guard", !.latest = l])
    BY <1>13, <2>2 DEF DecideLatest, me, NewerThanPublished
  <2>4. QED
    BY <1>0, <2>1, <2>3, ContinueTyped
<1>14. QED
  BY <1>1, <1>2, <1>3, <1>4, <1>5, <1>6, <1>7, <1>8, <1>9, <1>10, <1>11, <1>12, <1>13

\* The requests that write.
LEMMA WritesTyped ==
  ASSUME TypeOK, NEW p \in Publishers, run[p].missing \subseteq DOMAIN run[p].local,
         \/ DropOther(p) \/ CreateDraft(p) \/ CreateLost(p)
         \/ DeleteDoomed(p) \/ Upload(p) \/ UploadLost(p)
         \/ SendPublish(p) \/ PublishLost(p) \/ Abort(p)
  PROVE  TypeOK'
<1> DEFINE me == run[p]
<1>0. /\ HostOK
      /\ run \in [Publishers -> RunRecord]
      /\ me \in RunRecord
      /\ faults \in 0 .. MaxFaults
      /\ TagOf[p] \in Tags
  BY PublishAssumption DEF TypeOK
<1>1. UNCHANGED faults \/ Fault => faults' \in 0 .. MaxFaults
  BY <1>0, PublishAssumption DEF Fault
<1>2. "list" \in Working /\ "drop" \in Working /\ "refind" \in Working
      /\ "confirm" \in Working /\ "reread" \in Working /\ "publish" \in Working
  BY DEF Working, FindAt
<1> HIDE DEF me
<1>3. CASE DropOther(p)
  <2>1. PICK o \in me.others :
          IF o.draft THEN RemoveRelease(o.id) /\ Continue(p, AfterDrop(me, me.others \ {o}))
                     ELSE Fail(p) /\ UNCHANGED hostVars
    BY <1>3 DEF DropOther, me
  <2>2. \A pc \in Working : [me EXCEPT !.others = me.others \ {o}, !.pc = pc] \in RunRecord
    BY <1>0 DEF RunRecord
  <2>3. AfterDrop(me, me.others \ {o}) \in RunRecord
    BY <1>2, <2>2 DEF AfterDrop
  <2>4. run' \in [Publishers -> RunRecord]
    BY <1>0, <2>1, <2>3, FailTyped, ContinueTyped
  <2>5. HostOK'
    BY <1>0, <2>1, HostUnchanged, RemoveReleaseKeepsStore
  <2>6. QED
    BY <1>1, <1>3, <2>4, <2>5 DEF DropOther, TypeOK
<1>4. CASE CreateDraft(p)
  <2>1. nextId \in Nat
    BY <1>0 DEF HostOK, WellFormedStore
  <2>2. [me EXCEPT !.rel = nextId, !.pc = "list"] \in RunRecord
    BY <1>0, <1>2, <2>1 DEF RunRecord
  <2>3. run' \in [Publishers -> RunRecord]
    BY <1>0, <1>2, <1>4, <2>2, GotoTyped, ContinueTyped DEF CreateDraft, me
  <2>4. HostOK'
    BY <1>0, <1>4, HostUnchanged, CreateKeepsStore DEF CreateDraft
  <2>5. QED
    BY <1>1, <1>4, <2>3, <2>4 DEF CreateDraft, TypeOK
<1>5. CASE CreateLost(p)
  <2>1. run' \in [Publishers -> RunRecord]
    BY <1>0, <1>2, <1>5, GotoTyped DEF CreateLost
  <2>2. HostOK'
    BY <1>0, <1>5, HostUnchanged, CreateKeepsStore DEF CreateLost
  <2>3. QED
    BY <1>1, <1>5, <2>1, <2>2 DEF CreateLost, TypeOK
<1>6. CASE DeleteDoomed(p)
  <2>1. PICK s \in me.doomed :
          \/ Fail(p) /\ UNCHANGED hostVars
          \/ /\ RemoveAsset(s.id)
             /\ \E n \in {s.name, NoName} :
                  Continue(p, [me EXCEPT !.doomed = me.doomed \ {s}, !.changed = TRUE, !.cur = n])
    BY <1>6 DEF DeleteDoomed, me
  <2>2. s.name \in Names
    BY <1>0 DEF RunRecord, AssetView
  <2>3. \A n \in {s.name, NoName} :
          [me EXCEPT !.doomed = me.doomed \ {s}, !.changed = TRUE, !.cur = n] \in RunRecord
    BY <1>0, <2>2 DEF RunRecord
  <2>4. run' \in [Publishers -> RunRecord]
    BY <1>0, <2>1, <2>3, FailTyped, ContinueTyped
  <2>5. HostOK'
    BY <1>0, <2>1, HostUnchanged, RemoveAssetKeepsStore
  <2>6. QED
    BY <1>1, <1>6, <2>4, <2>5 DEF DeleteDoomed, TypeOK
<1>7. CASE Upload(p) \/ UploadLost(p)
  <2>1. PICK n \in me.missing :
          /\ Continue(p, Attempted(me, n))
          /\ \/ UNCHANGED hostVars
             \/ /\ CanStore(me.rel, n)
                /\ StoreAsset(me.rel, n, me.local[n], "uploaded")
             \/ /\ CanStore(me.rel, n)
                /\ Kind = "github"
                /\ StoreAsset(me.rel, n, Partial, "starter")
    BY <1>7 DEF Upload, UploadLost, me
  <2>2. n \in Names /\ me.local[n] \in Bytes /\ Partial \in Bytes
    BY <1>0, LocalSetFacts DEF RunRecord, Bytes, me
  <2>3. Attempted(me, n) \in RunRecord
    BY <1>0 DEF RunRecord, Attempted
  <2>4. run' \in [Publishers -> RunRecord]
    BY <1>0, <2>1, <2>3, ContinueTyped
  <2>5. HostOK'
    BY <1>0, <2>1, <2>2, HostUnchanged, StoreKeepsStore
  <2>6. QED
    BY <1>1, <1>7, <2>4, <2>5 DEF Upload, UploadLost, TypeOK
<1>8. CASE SendPublish(p) \/ PublishLost(p)
  <2>1. run' \in [Publishers -> RunRecord]
    BY <1>0, <1>2, <1>8, GotoTyped DEF SendPublish, PublishLost
  <2>2. me.latest \in BOOLEAN
    BY <1>0 DEF RunRecord
  <2>3. HostOK'
    BY <1>0, <1>8, <2>2, HostUnchanged, PublishKeepsStore DEF SendPublish, PublishLost, me
  <2>4. QED
    BY <1>1, <1>8, <2>1, <2>3 DEF SendPublish, PublishLost, TypeOK
<1>9. CASE Abort(p)
  BY <1>0, <1>1, <1>9, FailTyped, HostUnchanged DEF Abort, TypeOK
<1>10. QED
  BY <1>3, <1>4, <1>5, <1>6, <1>7, <1>8, <1>9
-----------------------------------------------------------------------------
\* What a run still has to upload is among its local files.
MissingOK(p) == run[p].missing \subseteq DOMAIN run[p].local

\* A step of one job never touches the record of another job's run.
LEMMA ChangesOnlyOwnRun ==
  ASSUME run \in [Publishers -> RunRecord], NEW p \in Publishers, NEW q \in Publishers,
         p # q, Start(p) \/ Progress(p) \/ Trouble(p)
  PROVE  run'[q] = run[q]
<1>1. \E me : Continue(p, me)
  BY DEF Start, Progress, Trouble, CheckLimits, CheckTag, FindByTag, FindInList,
         ListOthers, DropOther, CreateDraft, CreateLost, ReconcileList, DeleteDoomed,
         CheckStored, Upload, UploadLost, EndRound, CompareList, CompareDownload,
         CompareDone, DecideLatest, SendPublish, PublishLost, Abort, Goto, Fail
<1>2. QED
  BY <1>1 DEF Continue

\* Every step keeps the names to upload among the local files.
LEMMA MissingKept ==
  ASSUME TypeOK, NEW p \in Publishers, MissingOK(p), Start(p) \/ Progress(p) \/ Trouble(p)
  PROVE  MissingOK(p)'
<1> DEFINE me == run[p]
           fits(x) == x.missing \subseteq DOMAIN x.local
<1>1. run \in [Publishers -> RunRecord] /\ me \in RunRecord /\ fits(me)
  BY DEF TypeOK, MissingOK
<1>2. SUFFICES \E x : Continue(p, x) /\ fits(x)
  BY <1>1, <1>2 DEF Continue, MissingOK
<1>3. \A v \in {"failed", "succeeded"} : fits(Ended(me, v))
  BY DEF Ended, Blank
<1>4. \A pc : fits([me EXCEPT !.pc = pc])
  BY <1>1 DEF RunRecord
<1> HIDE DEF me
<1>5. CASE Start(p)
  BY <1>5 DEF Start, Blank
<1>6. CASE CheckLimits(p) \/ CheckTag(p) \/ CreateLost(p) \/ SendPublish(p)
           \/ PublishLost(p) \/ Abort(p)
  BY <1>3, <1>4, <1>6 DEF CheckLimits, CheckTag, CreateLost, SendPublish, PublishLost,
                          Abort, Goto, Fail, me
<1>7. CASE FindByTag(p) \/ FindInList(p)
  <2>1. \A r : fits(AfterFind(me, r)) \/ me.pc \notin FindAt
    BY <1>1, <1>3 DEF AfterFind, FindAt, RunRecord
  <2>2. fits(AfterMissing(me)) /\ fits([me EXCEPT !.scan = TRUE])
    BY <1>1, <1>3 DEF AfterMissing, RunRecord
  <2>3. QED
    BY <1>7, <2>1, <2>2 DEF FindByTag, FindInList, me
<1>8. CASE ListOthers(p) \/ DropOther(p) \/ CreateDraft(p)
  <2>1. \A o : fits(AfterDrop(me, o))
    BY <1>1 DEF AfterDrop, RunRecord
  <2>2. \A r, pc : fits([me EXCEPT !.rel = r, !.pc = pc])
    BY <1>1 DEF RunRecord
  <2>3. QED
    BY <1>3, <1>4, <1>8, <2>1, <2>2 DEF ListOthers, DropOther, CreateDraft, Goto, Fail, me
<1>9. CASE ReconcileList(p)
  <2>1. \A d, t, g : fits([me EXCEPT !.pc = "reconcile", !.doomed = d, !.todo = t,
                             !.missing = DOMAIN me.local \ g, !.changed = FALSE])
    BY <1>1 DEF RunRecord
  <2>2. QED
    BY <1>3, <1>9, <2>1 DEF ReconcileList, Fail, me
<1>10. CASE DeleteDoomed(p)
  <2>1. \A d, n : fits([me EXCEPT !.doomed = d, !.changed = TRUE, !.cur = n])
    BY <1>1 DEF RunRecord
  <2>2. QED
    BY <1>3, <1>10, <2>1 DEF DeleteDoomed, Fail, me
<1>11. CASE CheckStored(p)
  <2>1. \A t, m, n : fits([me EXCEPT !.todo = t, !.missing = me.missing \ n, !.memo = m])
    BY <1>1 DEF RunRecord
  <2>2. \A t, d, n : fits([me EXCEPT !.todo = t, !.doomed = d, !.cur = n])
    BY <1>1 DEF RunRecord
  <2>3. QED
    BY <1>3, <1>11, <2>1, <2>2 DEF CheckStored, Fail, me
<1>12. CASE Upload(p) \/ UploadLost(p)
  <2>1. \A n : fits(Attempted(me, n))
    BY <1>1 DEF Attempted, RunRecord
  <2>2. QED
    BY <1>12, <2>1 DEF Upload, UploadLost, me
<1>13. CASE EndRound(p)
  <2>1. \A n : fits([me EXCEPT !.pc = "list", !.round = n])
    BY <1>1 DEF RunRecord
  <2>2. QED
    BY <1>3, <1>4, <1>13, <2>1 DEF EndRound, Goto, Fail, me
<1>14. CASE CompareList(p) \/ CompareDownload(p) \/ CompareDone(p)
  <2>1. /\ \A t : fits([me EXCEPT !.listed = TRUE, !.todo = t])
        /\ \A t, m : fits([me EXCEPT !.todo = t, !.memo = m])
        /\ fits([me EXCEPT !.pc = "latest", !.listed = FALSE])
    BY <1>1 DEF RunRecord
  <2>2. QED
    BY <1>3, <1>14, <2>1 DEF CompareList, CompareDownload, CompareDone, Fail, me
<1>15. CASE DecideLatest(p)
  <2>1. \A l : fits([me EXCEPT !.pc = "guard", !.latest = l])
    BY <1>1 DEF RunRecord
  <2>2. QED
    BY <1>15, <2>1 DEF DecideLatest, me
<1>16. QED
  BY <1>5, <1>6, <1>7, <1>8, <1>9, <1>10, <1>11, <1>12, <1>13, <1>14, <1>15
     DEF Progress, Trouble

(* Whatever is lost, killed or left over, the store stays one the platform *)
(* can hold, a run's record keeps its types, and the faults stay within    *)
(* their bound.                                                            *)
THEOREM TypeCorrect == Spec => []TypeOK
<1> DEFINE TInv == TypeOK /\ \A p \in Publishers : MissingOK(p)
<1>1. Init => TInv
  BY InitTyped DEF Init, MissingOK, Blank
<1>2. TInv /\ [Next]_vars => TInv'
  <2> SUFFICES ASSUME TInv, [Next]_vars PROVE TInv'
    OBVIOUS
  <2>1. CASE UNCHANGED vars
    BY <2>1, HostUnchanged DEF vars, hostVars, TypeOK, MissingOK
  <2>2. ASSUME NEW p \in Publishers, Start(p) \/ Progress(p) \/ Trouble(p)
        PROVE  TInv'
    <3>1. TypeOK'
      BY <2>2, ReadsTyped, WritesTyped DEF Progress, Trouble, MissingOK
    <3>2. MissingOK(p)'
      BY <2>2, MissingKept
    <3>3. \A q \in Publishers : q # p => MissingOK(q)'
      BY <2>2, ChangesOnlyOwnRun DEF TypeOK, MissingOK
    <3>4. QED
      BY <3>1, <3>2, <3>3
  <2>3. QED
    BY <2>1, <2>2 DEF Next
<1>3. QED
  BY <1>1, <1>2, PTL DEF Spec
=============================================================================
