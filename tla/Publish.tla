------------------------------ MODULE Publish ------------------------------
(***************************************************************************)
(* `release-me publish' (internal/publish/publish.go): any number of       *)
(* publisher runs against one release store.  One action is one request a  *)
(* run sends, together with everything the run computes from the answer    *)
(* before its next request; between two requests of one run the others may *)
(* send theirs, the run may be killed, and a request may be lost with or   *)
(* without its effect.  A run that ended can be started again, which       *)
(* forgets everything it knew.                                             *)
(*                                                                         *)
(* Abstractions.  A file is its content, a digest is the content itself    *)
(* (SHA-256 without collisions), a version is its rank in the precedence   *)
(* order.  Assets are uploaded, and listings walked, in any order; the     *)
(* code uploads by name and walks a Go map.  A listing is one answer.  The *)
(* client repeats failed idempotent requests (internal/host/client.go): a  *)
(* GET is one action however often it was repeated, a DELETE or PATCH may  *)
(* take effect and still be repeated or given up on.                       *)
(***************************************************************************)
EXTENDS ReleaseHost

CONSTANTS
  Publishers,         \* publishing jobs
  TagOf,              \* the tag a job publishes
  LocalSets,          \* the local file sets a job's runs may bring along
  Commits, NoCommit,
  RemoteTag,          \* tag -> the commit it names on the platform, or NoCommit
  TrustServerDigest,  \* the option of the same name
  LatestOption,       \* "auto", "true" or "false", per job
  Rank,               \* tag -> place of its version in the precedence order
  PreTags,            \* the tags whose version is a pre-release
  AssetLimit,         \* assets per release, 0 for no limit
  SizeLimit,          \* bytes per asset, 0 for no limit
  Rounds,             \* bound of the reconcile loop
  NoName,             \* no asset name
  InitStores,         \* what the store may hold before the first run
  MaxRuns,            \* bound: runs per job
  MaxFaults           \* bound: lost requests, failed reads and crashes in all

NoFiles  == [n \in {} |-> NoName]
LocalSet == UNION {[S -> Contents] : S \in SUBSET Names}

ASSUME PublishAssumption ==
  /\ TagOf \in [Publishers -> Tags]
  /\ LocalSets \in [Publishers -> SUBSET LocalSet]
  /\ NoCommit \notin Commits
  /\ RemoteTag \in [Tags -> Commits \cup {NoCommit}]
  /\ TrustServerDigest \in BOOLEAN
  /\ LatestOption \in [Publishers -> {"auto", "true", "false"}]
  /\ Rank \in [Tags -> Nat]
  /\ PreTags \subseteq Tags
  /\ AssetLimit \in Nat
  /\ SizeLimit \in Nat
  /\ Rounds \in Nat \ {0}
  /\ NoName \notin Names
  /\ \A s \in InitStores : WellFormedStore(s.rels, s.assets, s.nextId)
  /\ MaxRuns \in Nat
  /\ MaxFaults \in Nat

VARIABLES
  run,     \* what each job's current run knows
  faults   \* faults that happened so far

vars == <<rels, assets, nextId, run, faults>>
-----------------------------------------------------------------------------
(***************************************************************************)
(* The state of a run.  pc is the request it sends next:                   *)
(*   limits, tag      the checks before anything is created                *)
(*   find             the release of the tag, first look                   *)
(*   already          compare a release that was public at that look       *)
(*   others, drop     list and delete the other drafts of the tag          *)
(*   create, refind   create a draft; look again when that failed          *)
(*   list, reconcile  one round: list the assets, then delete and upload   *)
(*   final            compare the draft once more                          *)
(*   latest, guard    decide "latest"; look for a release that appeared    *)
(*   publish, reread  make it public; look again when that failed          *)
(*   confirm, recheck read the public release back and compare it          *)
(***************************************************************************)
FindAt    == {"find", "refind", "guard", "reread", "confirm"}
CompareAt == {"already", "final", "recheck"}
Resting   == {"idle", "failed", "succeeded"}
Working   == FindAt \cup CompareAt \cup
             {"limits", "tag", "others", "drop", "create", "list", "reconcile",
              "latest", "publish"}

Blank(pc, l, c, n) ==
  [pc      |-> pc,
   local   |-> l,       \* asset name -> content, the files to publish
   commit  |-> c,       \* the commit of the locally verified tag
   runs    |-> n,       \* runs started so far
   rel     |-> 0,       \* the release this run works on
   scan    |-> FALSE,   \* FindRelease: no public release, the list is next
   others  |-> {},      \* releases of the tag left to drop
   round   |-> 1,
   doomed  |-> {},      \* listed assets to delete
   todo    |-> {},      \* listed assets to download and hash
   cur     |-> NoName,  \* the name whose assets are being deleted
   missing |-> {},      \* names that still have to be uploaded
   changed |-> FALSE,   \* this round changed something
   listed  |-> FALSE,   \* compare: the listing was read and has the right shape
   memo    |-> {},      \* <<asset id, content>> downloaded and hashed by this run
   latest  |-> FALSE]

RunRecord ==
  [pc : Resting \cup Working, local : LocalSet, commit : Commits \cup {NoCommit},
   runs : Nat, rel : Nat, scan : BOOLEAN,
   others : SUBSET [id : Nat, tag : Tags, draft : BOOLEAN], round : Nat,
   doomed : SUBSET AssetView, todo : SUBSET AssetView, cur : Names \cup {NoName},
   missing : SUBSET Names, changed : BOOLEAN, listed : BOOLEAN,
   memo : SUBSET (Nat \X Bytes), latest : BOOLEAN]

(* The store is one the platform can hold (ids, names and visibility, see  *)
(* WellFormedStore), and every run's record has its type.                  *)
TypeOK ==
  /\ HostOK
  /\ run \in [Publishers -> RunRecord]
  /\ faults \in 0 .. MaxFaults

Init ==
  /\ \E s \in InitStores : rels = s.rels /\ assets = s.assets /\ nextId = s.nextId
  /\ run = [p \in Publishers |-> Blank("idle", NoFiles, NoCommit, 0)]
  /\ faults = 0

\* A run that returned: the process is gone and with it everything it had read.
Ended(me, verdict) == [Blank(verdict, me.local, me.commit, me.runs) EXCEPT !.rel = me.rel]

Continue(p, me) == run' = [run EXCEPT ![p] = me]
Goto(p, pc)     == Continue(p, [run[p] EXCEPT !.pc = pc])
Fail(p)         == Continue(p, Ended(run[p], "failed"))
Fault           == faults < MaxFaults /\ faults' = faults + 1
ReadOnly        == UNCHANGED <<rels, assets, nextId, faults>>
-----------------------------------------------------------------------------
(***************************************************************************)
(* Before anything is created.                                             *)
(***************************************************************************)
\* The job starts, or is started again after a run that ended.
Start(p) ==
  /\ run[p].pc \in Resting
  /\ run[p].runs < MaxRuns
  /\ \E l \in LocalSets[p], c \in Commits :
       Continue(p, Blank("limits", l, c, run[p].runs + 1))
  /\ ReadOnly

\* Mutant: one asset too many.
WithinLimitsLoosely(l) ==
  /\ AssetLimit > 0 => Cardinality(DOMAIN l) <= AssetLimit + 1
  /\ SizeLimit > 0 => \A n \in DOMAIN l : Size[l[n]] <= SizeLimit

WithinLimits(l) ==
  /\ AssetLimit > 0 => Cardinality(DOMAIN l) <= AssetLimit
  /\ SizeLimit > 0 => \A n \in DOMAIN l : Size[l[n]] <= SizeLimit

CheckLimits(p) ==
  /\ run[p].pc = "limits"
  /\ IF WithinLimits(run[p].local) THEN Goto(p, "tag") ELSE Fail(p)
  /\ ReadOnly

CheckTag(p) ==
  /\ run[p].pc = "tag"
  /\ IF RemoteTag[TagOf[p]] = run[p].commit THEN Goto(p, "find") ELSE Fail(p)
  /\ ReadOnly
-----------------------------------------------------------------------------
(***************************************************************************)
(* FindRelease and what each of its five callers does with the answer.     *)
(***************************************************************************)
\* Mutant: a public release is reused like a draft.
AfterFindReusing(me, r) ==
  IF me.pc = "find" THEN [me EXCEPT !.scan = FALSE, !.rel = r, !.pc = "others"]
  ELSE [me EXCEPT !.scan = FALSE,
                  !.pc = CASE me.pc = "refind" -> "list"
                           [] me.pc = "guard"  -> "publish"
                           [] me.pc = "reread" -> "confirm"
                           [] OTHER            -> "recheck"]

AfterFind(me, r) ==
  LET public == ~rels[r].draft
      here   == [me EXCEPT !.scan = FALSE]
  IN CASE me.pc = "find" ->
            [here EXCEPT !.rel = r, !.pc = IF public THEN "already" ELSE "others"]
       [] me.pc = "refind" ->
            IF public THEN Ended(me, "failed") ELSE [here EXCEPT !.rel = r, !.pc = "list"]
       [] me.pc = "guard" ->
            IF r = me.rel THEN [here EXCEPT !.pc = "publish"] ELSE Ended(me, "failed")
       [] me.pc = "reread" ->
            IF r = me.rel /\ public THEN [here EXCEPT !.pc = "confirm"] ELSE Ended(me, "failed")
       [] me.pc = "confirm" ->
            IF r = me.rel /\ public THEN [here EXCEPT !.pc = "recheck"] ELSE Ended(me, "failed")

AfterMissing(me) ==
  IF me.pc = "find" THEN [me EXCEPT !.scan = FALSE, !.pc = "create"] ELSE Ended(me, "failed")

\* GET /releases/tags/{tag}: GitHub shows only public releases there.
FindByTag(p) ==
  /\ run[p].pc \in FindAt
  /\ ~run[p].scan
  /\ LET seen == IF Kind = "github" THEN PublishedOf(TagOf[p]) ELSE ReleasesOf(TagOf[p])
     IN IF seen # {} THEN \E r \in seen : Continue(p, AfterFind(run[p], r))
        ELSE IF Kind = "github" THEN Continue(p, [run[p] EXCEPT !.scan = TRUE])
        ELSE Continue(p, AfterMissing(run[p]))
  /\ ReadOnly

\* GitHub: scan the list of all releases for the first one of the tag.
FindInList(p) ==
  /\ run[p].pc \in FindAt
  /\ run[p].scan
  /\ IF ReleasesOf(TagOf[p]) # {}
       THEN \E r \in ReleasesOf(TagOf[p]) : Continue(p, AfterFind(run[p], r))
       ELSE Continue(p, AfterMissing(run[p]))
  /\ ReadOnly
-----------------------------------------------------------------------------
(***************************************************************************)
(* The draft: an existing one without its twins, or a new one.             *)
(***************************************************************************)
\* Mutant: the other drafts stay.
AfterDropKeeping(me, rest) == [me EXCEPT !.others = {}, !.pc = "list"]

AfterDrop(me, rest) ==
  [me EXCEPT !.others = rest, !.pc = IF rest = {} THEN "list" ELSE "drop"]

ListOthers(p) ==
  /\ run[p].pc = "others"
  /\ Continue(p, AfterDrop(run[p],
       {o \in ListReleases : o.tag = TagOf[p] /\ o.id # run[p].rel}))
  /\ ReadOnly

\* Draft or not is what the list said, not what the release is by now.
DropOther(p) ==
  /\ run[p].pc = "drop"
  /\ \E o \in run[p].others :
       IF o.draft
         THEN /\ RemoveRelease(o.id)
              /\ Continue(p, AfterDrop(run[p], run[p].others \ {o}))
         ELSE Fail(p) /\ UNCHANGED hostVars
  /\ UNCHANGED faults

CreateDraft(p) ==
  /\ run[p].pc = "create"
  /\ IF CanCreate(TagOf[p])
       THEN /\ CreateRelease(TagOf[p])
            /\ Continue(p, [run[p] EXCEPT !.rel = nextId, !.pc = "list"])
       ELSE Goto(p, "refind") /\ UNCHANGED hostVars
  /\ UNCHANGED faults

\* Mutant: a lost POST is repeated blindly.
CreateLostRepeated(p) ==
  /\ run[p].pc = "create"
  /\ \/ CanCreate(TagOf[p]) /\ CreateRelease(TagOf[p])
     \/ UNCHANGED hostVars
  /\ Goto(p, "create")
  /\ Fault

\* The answer to the POST never came; the draft may exist.
CreateLost(p) ==
  /\ run[p].pc = "create"
  /\ \/ CanCreate(TagOf[p]) /\ CreateRelease(TagOf[p])
     \/ UNCHANGED hostVars
  /\ Goto(p, "refind")
  /\ Fault
-----------------------------------------------------------------------------
(***************************************************************************)
(* check: what the listing and the memo say of one stored asset.           *)
(***************************************************************************)
\* Mutant: an uploaded asset of the right size is not downloaded.
VerdictBySize(me, s, download) ==
  IF s.state # "uploaded" \/ s.size # Size[me.local[s.name]] THEN "mismatch" ELSE "ok"

Verdict(me, s, download) ==
  LET want == me.local[s.name]
  IN IF \/ s.state # "uploaded"
        \/ s.size # Size[want]
        \/ s.digest \notin {NoDigest, want}
       THEN "mismatch"
     ELSE IF \/ s.digest # NoDigest /\ ~download
             \/ <<s.id, want>> \in me.memo
       THEN "ok"
     ELSE "download"

\* Mutant: a release with several assets counts as one with duplicates.
AloneInRelease(s, listing) == listing = {s}

Alone(s, listing) == \A t \in listing : t.name = s.name => t = s

(***************************************************************************)
(* One round of reconcile.  The listing splits into the assets to delete,  *)
(* those that are known to be right and those to be downloaded first.      *)
(***************************************************************************)
ReconcileList(p) ==
  LET me       == run[p]
      listing  == ListAssets(me.rel)
      doomed   == {s \in listing : \/ s.name \notin DOMAIN me.local
                                   \/ ~Alone(s, listing)
                                   \/ Verdict(me, s, ~TrustServerDigest) = "mismatch"}
      good     == {s \in listing \ doomed : Verdict(me, s, ~TrustServerDigest) = "ok"}
  IN /\ me.pc = "list"
     /\ IF me.rel \in DOMAIN rels
          THEN Continue(p, [me EXCEPT
                 !.pc      = "reconcile",
                 !.doomed  = doomed,
                 !.todo    = (listing \ doomed) \ good,
                 !.missing = DOMAIN me.local \ {s.name : s \in good},
                 !.changed = FALSE])
          ELSE Fail(p)
     /\ ReadOnly

\* The assets of one name go one after the other, before any other name is looked at.
DeleteDoomed(p) ==
  LET me == run[p] IN
  /\ me.pc = "reconcile"
  /\ \E s \in me.doomed :
       /\ me.cur \in {NoName, s.name}
       /\ IF CanRemove(s.id)
            THEN /\ RemoveAsset(s.id)
                 /\ LET rest == me.doomed \ {s}
                        more == \E t \in rest : t.name = s.name
                    IN Continue(p, [me EXCEPT !.doomed  = rest,
                                              !.changed = TRUE,
                                              !.cur     = IF more THEN s.name ELSE NoName])
            ELSE Fail(p) /\ UNCHANGED hostVars
  /\ UNCHANGED faults

\* Mutant: the memo is written before the hashes are compared.
CheckStoredMemoFirst(p) ==
  LET me == run[p] IN
  /\ me.pc = "reconcile"
  /\ me.cur = NoName
  /\ \E s \in me.todo :
       LET noted == [me EXCEPT !.todo = @ \ {s},
                               !.memo = @ \cup {<<s.id, me.local[s.name]>>}]
       IN IF s.id \notin DOMAIN assets THEN Fail(p)
          ELSE IF assets[s.id].content = me.local[s.name]
            THEN Continue(p, [noted EXCEPT !.missing = @ \ {s.name}])
            ELSE Continue(p, [noted EXCEPT !.doomed = @ \cup {s}, !.cur = s.name])
  /\ ReadOnly

\* Download and hash; other bytes than the local file's are deleted at once.
CheckStored(p) ==
  LET me == run[p] IN
  /\ me.pc = "reconcile"
  /\ me.cur = NoName
  /\ \E s \in me.todo :
       IF s.id \notin DOMAIN assets THEN Fail(p)
       ELSE IF assets[s.id].content = me.local[s.name]
         THEN Continue(p, [me EXCEPT !.todo    = @ \ {s},
                                     !.missing = @ \ {s.name},
                                     !.memo    = @ \cup {<<s.id, assets[s.id].content>>}])
         ELSE Continue(p, [me EXCEPT !.todo   = @ \ {s},
                                     !.doomed = @ \cup {s},
                                     !.cur    = s.name])
  /\ ReadOnly

Uploading(me) == me.pc = "reconcile" /\ me.doomed = {} /\ me.todo = {}

Attempted(me, n) == [me EXCEPT !.missing = @ \ {n}, !.changed = TRUE]

\* A refused upload (422, 404) is looked at again in the next round.
Upload(p) ==
  /\ Uploading(run[p])
  /\ \E n \in run[p].missing :
       /\ IF CanStore(run[p].rel, n)
            THEN StoreAsset(run[p].rel, n, run[p].local[n], "uploaded")
            ELSE UNCHANGED hostVars
       /\ Continue(p, Attempted(run[p], n))
  /\ UNCHANGED faults

\* No answer: all of the file, none of it or, on GitHub, a "starter" is stored.
UploadLost(p) ==
  /\ Uploading(run[p])
  /\ \E n \in run[p].missing :
       /\ \/ /\ CanStore(run[p].rel, n)
             /\ StoreAsset(run[p].rel, n, run[p].local[n], "uploaded")
          \/ /\ CanStore(run[p].rel, n)
             /\ Kind = "github"
             /\ StoreAsset(run[p].rel, n, Partial, "starter")
          \/ UNCHANGED hostVars
       /\ Continue(p, Attempted(run[p], n))
  /\ Fault

\* Mutant: done is taken the wrong way round, and the rounds are not counted.
EndRoundInverted(p) ==
  /\ Uploading(run[p])
  /\ run[p].missing = {}
  /\ Goto(p, IF run[p].changed THEN "final" ELSE "list")
  /\ ReadOnly

\* Mutant: one round too few.
EndRoundShort(p) ==
  LET me == run[p] IN
  /\ Uploading(me)
  /\ me.missing = {}
  /\ IF ~me.changed THEN Goto(p, "final")
     ELSE IF me.round + 1 < Rounds THEN Continue(p, [me EXCEPT !.pc = "list", !.round = @ + 1])
     ELSE Fail(p)
  /\ ReadOnly

\* Mutant: what was uploaded is taken for stored; no further round, no last comparison.
EndRoundTrusting(p) ==
  /\ Uploading(run[p])
  /\ run[p].missing = {}
  /\ Goto(p, "latest")
  /\ ReadOnly

EndRound(p) ==
  LET me == run[p] IN
  /\ Uploading(me)
  /\ me.missing = {}
  /\ IF ~me.changed THEN Goto(p, "final")
     ELSE IF me.round < Rounds THEN Continue(p, [me EXCEPT !.pc = "list", !.round = @ + 1])
     ELSE Fail(p)
  /\ ReadOnly
-----------------------------------------------------------------------------
(***************************************************************************)
(* compare: the stored assets are exactly the local set.  The three        *)
(* callers differ in whether a matching platform digest is enough.         *)
(***************************************************************************)
FullDownload(pc) ==
  \/ pc = "already"
  \/ pc = "final" /\ ~TrustServerDigest

SameShape(me, listing) ==
  /\ DOMAIN me.local = {s.name : s \in listing}
  /\ \A s \in listing : Alone(s, listing)

CompareList(p) ==
  LET me      == run[p]
      listing == ListAssets(me.rel)
      verdict == [s \in listing |-> Verdict(me, s, FullDownload(me.pc))]
  IN /\ me.pc \in CompareAt
     /\ ~me.listed
     /\ IF /\ me.rel \in DOMAIN rels
           /\ SameShape(me, listing)
           /\ \A s \in listing : verdict[s] # "mismatch"
          THEN Continue(p, [me EXCEPT !.listed = TRUE,
                                      !.todo   = {s \in listing : verdict[s] = "download"}])
          ELSE Fail(p)
     /\ ReadOnly

CompareDownload(p) ==
  LET me == run[p] IN
  /\ me.pc \in CompareAt
  /\ me.listed
  /\ \E s \in me.todo :
       IF s.id \in DOMAIN assets /\ assets[s.id].content = me.local[s.name]
         THEN Continue(p, [me EXCEPT !.todo = @ \ {s},
                                     !.memo = @ \cup {<<s.id, assets[s.id].content>>}])
         ELSE Fail(p)
  /\ ReadOnly

CompareDone(p) ==
  LET me == run[p] IN
  /\ me.pc \in CompareAt
  /\ me.listed
  /\ me.todo = {}
  /\ IF me.pc = "final" THEN Continue(p, [me EXCEPT !.pc = "latest", !.listed = FALSE])
                        ELSE Continue(p, Ended(me, "succeeded"))
  /\ ReadOnly
-----------------------------------------------------------------------------
(***************************************************************************)
(* Making it public.                                                       *)
(***************************************************************************)
\* Mutant: the drafts are compared, the public releases skipped.
NewerThanDrafts(t) ==
  \A r \in DOMAIN rels :
    rels[r].draft /\ rels[r].tag \notin PreTags /\ rels[r].tag # t
      => Rank[rels[r].tag] < Rank[t]

NewerThanPublished(t) ==
  \A r \in DOMAIN rels :
    ~rels[r].draft /\ rels[r].tag \notin PreTags /\ rels[r].tag # t
      => Rank[rels[r].tag] < Rank[t]

DecideLatest(p) ==
  /\ run[p].pc = "latest"
  /\ LET t == TagOf[p]
         l == CASE LatestOption[p] = "true"  -> TRUE
                [] LatestOption[p] = "false" -> FALSE
                [] LatestOption[p] = "auto"  -> t \notin PreTags /\ NewerThanPublished(t)
     IN Continue(p, [run[p] EXCEPT !.pc = "guard", !.latest = l])
  /\ ReadOnly

\* A refusal (404, 422) is an error like a lost answer: the state is read again.
SendPublish(p) ==
  LET me == run[p] IN
  /\ me.pc = "publish"
  /\ IF CanPublish(me.rel)
       THEN PublishRelease(me.rel, me.latest) /\ Goto(p, "confirm")
       ELSE Goto(p, "reread") /\ UNCHANGED hostVars
  /\ UNCHANGED faults

\* No answer: the request, which may have taken effect, is repeated or given up on.
PublishLost(p) ==
  LET me == run[p] IN
  /\ me.pc = "publish"
  /\ \/ CanPublish(me.rel) /\ PublishRelease(me.rel, me.latest)
     \/ UNCHANGED hostVars
  /\ \E pc \in {"publish", "reread"} : Goto(p, pc)
  /\ Fault

(***************************************************************************)
(* The run ends where it is: a read or delete that failed for good, a file *)
(* that cannot be read, an upload refused for good, a cancelled or killed  *)
(* process.  A DELETE that took effect without an answer is a served       *)
(* DELETE followed by this.                                                *)
(***************************************************************************)
Abort(p) ==
  /\ run[p].pc \in Working
  /\ Fail(p)
  /\ Fault
  /\ UNCHANGED hostVars
-----------------------------------------------------------------------------
Progress(p) ==
  \/ CheckLimits(p) \/ CheckTag(p)
  \/ FindByTag(p) \/ FindInList(p)
  \/ ListOthers(p) \/ DropOther(p) \/ CreateDraft(p)
  \/ ReconcileList(p) \/ DeleteDoomed(p) \/ CheckStored(p) \/ Upload(p) \/ EndRound(p)
  \/ CompareList(p) \/ CompareDownload(p) \/ CompareDone(p)
  \/ DecideLatest(p) \/ SendPublish(p)

Trouble(p) == CreateLost(p) \/ UploadLost(p) \/ PublishLost(p) \/ Abort(p)

Next == \E p \in Publishers : Start(p) \/ Progress(p) \/ Trouble(p)

Spec == Init /\ [][Next]_vars

\* A running process goes on, and a job that failed is started again.
Fairness ==
  \A p \in Publishers :
    /\ WF_vars(Progress(p))
    /\ WF_vars(run[p].pc # "succeeded" /\ Start(p))

FairSpec == Spec /\ Fairness
-----------------------------------------------------------------------------
(***************************************************************************)
(* What publication promises.                                              *)
(***************************************************************************)
\* Release r holds the local set l: these names, once each, completely stored.
Exact(r, l) ==
  /\ \A n \in DOMAIN l : \E a \in AssetsOf(r) : assets[a].name = n
  /\ \A a \in AssetsOf(r) :
       /\ assets[a].name \in DOMAIN l
       /\ assets[a].content = l[assets[a].name]
       /\ assets[a].state = "uploaded"
       /\ \A b \in AssetsOf(r) : assets[a].name = assets[b].name => a = b

\* In this step release r becomes visible.
GoesPublic(r) == ~rels'[r].draft /\ (r \in DOMAIN rels => rels[r].draft)

(* CONTRACT 4.2, nothing visible before it is complete: the moment a       *)
(* release becomes public it holds exactly the file set of the run that    *)
(* makes it public, whatever was lost or left over before (publish.go's    *)
(* reconcile, compare and Publish call).                                   *)
AllOrNothing ==
  [][\A r \in DOMAIN rels' : GoesPublic(r) =>
       \E p \in Publishers : /\ run[p].pc = "publish"
                             /\ run[p].rel = r
                             /\ Exact(r, run[p].local)]_vars

(* CONTRACT 4.3, published releases are never modified: no step of any run *)
(* removes a public release, hides it again, or changes one of its assets. *)
PublishedFrozen ==
  [][\A r \in DOMAIN rels : ~rels[r].draft =>
       /\ r \in DOMAIN rels'
       /\ ~rels'[r].draft
       /\ AssetsOf(r)' = AssetsOf(r)
       /\ \A a \in AssetsOf(r) : assets'[a] = assets[a]]_vars

(* A run reports success only when the tag's public release holds the      *)
(* files the run was given, and this stays so (publish.go:140-266).        *)
SuccessIsPublished ==
  \A p \in Publishers : run[p].pc = "succeeded" =>
    \E r \in PublishedOf(TagOf[p]) : r = run[p].rel /\ Exact(r, run[p].local)

(* Where jobs overlap, too, a run succeeds only for what it has seen: the  *)
(* release it reported is public and holds exactly the files it was given, *)
(* for as long as nobody deletes it (publish.go:250-264).  On GitHub with  *)
(* immutable releases this needs no agreement between the jobs.            *)
ReportedStays ==
  \A p \in Publishers : run[p].pc = "succeeded" /\ run[p].rel \in DOMAIN rels =>
    run[p].rel \in PublishedOf(TagOf[p]) /\ Exact(run[p].rel, run[p].local)

(* "ids never change bytes" (publish.go:447): what a run remembers of an   *)
(* asset id is what the platform still stores under that id, so that a     *)
(* remembered id need not be downloaded again.                             *)
MemoSound ==
  \A p \in Publishers : \A m \in run[p].memo :
    m[1] \in DOMAIN assets => assets[m[1]].content = m[2]

(* A draft is created only when the tag has no release at all: a POST that *)
(* was lost after it took effect is found again, never repeated            *)
(* (publish.go:268-284 and the find, refind requests).                     *)
NoSecondDraft ==
  [][\A r \in DOMAIN rels' \ DOMAIN rels : ReleasesOf(rels'[r].tag) = {}]_vars

(* When a release becomes public no other release of its tag is left, not  *)
(* even a draft of an earlier attempt (publish.go:286-306).                *)
PublishedAlone ==
  [][\A r \in DOMAIN rels' : GoesPublic(r) => ReleasesOf(rels'[r].tag) = {r}]_vars

(* CONTRACT 4.1 and 4.6: the store changes only under a run whose verified *)
(* commit is the one the remote tag names, and whose files are no more and *)
(* no larger than the platform takes (publish.go:150-173): no upload is    *)
(* refused for the limits half way through a release.                      *)
OnlyVerifiedRunsWrite ==
  [][<<rels, assets>>' # <<rels, assets>> =>
       \E p \in Publishers :
         /\ run[p].pc \in Working
         /\ RemoteTag[TagOf[p]] = run[p].commit
         /\ AssetLimit > 0 => Cardinality(DOMAIN run[p].local) <= AssetLimit
         /\ SizeLimit > 0 => \A n \in DOMAIN run[p].local : Size[run[p].local[n]] <= SizeLimit]_vars

(* CONTRACT 4.4, a rerun keeps assets whose bytes match: a run sets an      *)
(* asset aside for deletion only if it is not the complete local file of   *)
(* its name, or not the only asset of that name (publish.go:330-375).      *)
MatchingBytesKept ==
  [][\A p \in Publishers : \A s \in run'[p].doomed \ run[p].doomed :
       ~ /\ s.name \in DOMAIN run[p].local
         /\ assets[s.id].content = run[p].local[s.name]
         /\ assets[s.id].state = "uploaded"
         /\ \A b \in AssetsOf(run[p].rel) : assets[b].name = s.name => b = s.id]_vars

(* CONTRACT 4.5: a release becomes public as the latest one only if its    *)
(* version orders above every other public version that is not a           *)
(* pre-release.                                                            *)
LatestOrdered ==
  [][\A r \in DOMAIN rels' : GoesPublic(r) /\ rels'[r].latest =>
       \A q \in DOMAIN rels' \ {r} :
         ~rels'[q].draft /\ rels'[q].tag \notin PreTags
           => Rank[rels'[q].tag] < Rank[rels'[r].tag]]_vars

(* Every run comes to an end: the rounds are bounded and no request is     *)
(* waited for twice without a fault.                                       *)
Terminates == \A p \in Publishers : run[p].pc \in Working ~> run[p].pc \in Resting

(* CONTRACT 4.4, interrupted runs converge: with more runs than faults the *)
(* job succeeds in the end.                                                *)
Converges == \A p \in Publishers : <>(run[p].pc = "succeeded")
=============================================================================
