--------------------------- MODULE DelayedProofs ---------------------------
(***************************************************************************)
(* What publish promises where jobs share a tag and requests arrive late,  *)
(* for every value of the constants.                                       *)
(*                                                                         *)
(* The argument.  Every request is Gentle: no id is used twice, no asset   *)
(* changes, nothing public is hidden.  So what a run knows whoever else is *)
(* at work (Basic) stays true on both platforms.  What it has compared     *)
(* stays true if its release Keeps the files: on GitHub a public release   *)
(* does where releases are immutable, and every release of a tag does      *)
(* where all jobs of the tag bring the same files (RunOK of the runs,      *)
(* LateOK of the requests on their way).                                   *)
(***************************************************************************)
EXTENDS PublishSafety, DelayedInvariant

\* A step that gives out new ids only, changes no asset and hides no public release.
Gentle ==
  /\ nextId \in Nat /\ nextId' \in Nat /\ nextId <= nextId'
  /\ \A r \in DOMAIN rels' : r < nextId =>
       /\ r \in DOMAIN rels /\ rels'[r].tag = rels[r].tag
       /\ ~rels[r].draft => ~rels'[r].draft
  /\ \A a \in DOMAIN assets' : a < nextId => a \in DOMAIN assets /\ assets'[a] = assets[a]

\* The requests of all jobs, on time or late.
Request ==
  \/ UNCHANGED hostVars
  \/ \E t : CanCreate(t) /\ CreateRelease(t)
  \/ \E r : RemoveRelease(r)
  \/ \E r, n, c, st : CanStore(r, n) /\ StoreAsset(r, n, c, st)
  \/ \E a : CanRemove(a) /\ RemoveAsset(a)
  \/ \E r, l : CanPublish(r) /\ PublishRelease(r, l)

\* Whatever is requested, the store changes gently.
LEMMA RequestGentle == ASSUME HostOK, Request PROVE Gentle
<1>1. CASE UNCHANGED hostVars
  BY <1>1, IdFacts DEF Gentle, hostVars
<1>2. ASSUME NEW t, CreateRelease(t) PROVE Gentle
  <2>1. /\ DOMAIN rels' = DOMAIN rels \cup {nextId}
        /\ \A r \in DOMAIN rels : r # nextId => rels'[r] = rels[r]
        /\ nextId' = nextId + 1 /\ assets' = assets
    BY <1>2 DEF CreateRelease
  <2> QED
    BY <2>1, IdFacts DEF Gentle
<1>3. ASSUME NEW r, RemoveRelease(r) PROVE Gentle
  BY <1>3, IdFacts DEF Gentle, RemoveRelease, Restrict
<1>4. ASSUME NEW r, NEW n, NEW c, NEW st, StoreAsset(r, n, c, st) PROVE Gentle
  <2>1. /\ DOMAIN assets' = DOMAIN assets \cup {nextId}
        /\ \A a \in DOMAIN assets : a # nextId => assets'[a] = assets[a]
        /\ nextId' = nextId + 1 /\ rels' = rels
    BY <1>4 DEF StoreAsset
  <2> QED
    BY <2>1, IdFacts DEF Gentle
<1>5. ASSUME NEW a, RemoveAsset(a) PROVE Gentle
  BY <1>5, IdFacts DEF Gentle, RemoveAsset, Restrict
<1>6. ASSUME NEW r, NEW l, PublishRelease(r, l) PROVE Gentle
  <2>1. \A q \in DOMAIN rels : rels[q] \in ReleaseRecord
    BY DEF HostOK, WellFormedStore
  <2>2. \A q \in DOMAIN rels :
          /\ rels'[q].tag = rels[q].tag
          /\ ~rels[q].draft => ~rels'[q].draft
    BY <1>6, <2>1 DEF PublishRelease, ReleaseRecord
  <2>3. DOMAIN rels' = DOMAIN rels /\ assets' = assets /\ nextId' = nextId
    BY <1>6 DEF PublishRelease
  <2> QED
    BY <2>2, <2>3, IdFacts DEF Gentle
<1> QED
  BY <1>1, <1>2, <1>3, <1>4, <1>5, <1>6 DEF Request

\* The request of a step is one of them.
LEMMA StepRequests ==
  ASSUME NEW p, Start(p) \/ Progress(p) \/ Trouble(p)
  PROVE  Request
BY RequestOfStep DEF Sends, Request
-----------------------------------------------------------------------------
(***************************************************************************)
(* What a step makes of the record me of its run, for a job of tag t.      *)
(***************************************************************************)
\* The release it works on from now on, and when it holds that to be public.
MovedRelease(t, me, x) ==
  /\ \/ x.rel = me.rel
     \/ x.rel \in ReleasesOf(t)
     \/ x.rel = nextId /\ CreateRelease(t)
  /\ x.pc \in OnPublic \cup {"succeeded"} =>
       \/ x.rel = me.rel /\ me.pc \in OnPublic
       \/ x.rel \in PublishedOf(t) /\ me.pc \in FindAt
       \/ /\ x.rel = me.rel /\ me.pc = "publish"
          /\ me.rel \in DOMAIN rels /\ \E l : PublishRelease(me.rel, l)

\* When it holds the release to be compared.
MovedCompared(me, x) ==
  /\ x.listed => UNCHANGED hostVars /\ x.pc = me.pc /\ (ComparedOK(me) => ComparedOK(x))
  /\ x.pc \in {"latest", "guard", "publish"} =>
       /\ x.rel = me.rel
       /\ \/ me.pc \in {"latest", "guard", "publish"}
          \/ me.pc = "final" /\ me.listed /\ me.todo = {}
  /\ x.pc = "succeeded" =>
       x.rel = me.rel /\ me.pc \in OnPublic /\ me.listed /\ me.todo = {}

\* What it has taken from the answers.
MovedLists(t, me, x) ==
  /\ x.others \subseteq me.others \cup {o \in ListReleases : o.tag = t}
  /\ \A s \in x.doomed \cup x.todo :
       x.rel = me.rel /\ s \in me.doomed \cup me.todo \cup ListAssets(me.rel)
  /\ \A m \in x.memo : m \in me.memo \/ \E a \in DOMAIN assets : m = <<a, assets[a].content>>

Moved(t, me, x) ==
  /\ x.local = me.local
  /\ WorkOK(x)
  /\ MovedRelease(t, me, x) /\ MovedCompared(me, x) /\ MovedLists(t, me, x)

\* A run that has no listing in hand has moved if it knows which release it works on.
LEMMA CleanMoved ==
  ASSUME NEW t, NEW me, WorkOK(me), NEW x,
         x.local = me.local, x.missing \subseteq DOMAIN me.local,
         x.doomed = {}, x.todo = {}, ~x.listed, x.memo \subseteq me.memo,
         x.others \subseteq me.others \cup {o \in ListReleases : o.tag = t},
         MovedRelease(t, me, x),
         x.pc \in {"latest", "guard", "publish"} =>
           /\ x.rel = me.rel
           /\ \/ me.pc \in {"latest", "guard", "publish"}
              \/ me.pc = "final" /\ me.listed /\ me.todo = {},
         x.pc = "succeeded" => x.rel = me.rel /\ me.pc \in OnPublic /\ me.listed /\ me.todo = {}
  PROVE  Moved(t, me, x)
BY DEF Moved, WorkOK, MovedCompared, MovedLists

\* Ending with an error is such a move.
LEMMA FailedMoved ==
  ASSUME NEW t, NEW me, WorkOK(me)
  PROVE  Moved(t, me, Ended(me, "failed"))
<1> DEFINE x == Ended(me, "failed")
<1>1. /\ x.local = me.local /\ x.rel = me.rel /\ x.pc = "failed" /\ x.missing = {}
      /\ x.doomed = {} /\ x.todo = {} /\ x.others = {} /\ ~x.listed /\ x.memo = {}
  BY DEF Ended, Blank
<1> HIDE DEF x
<1>2. MovedRelease(t, me, x)
  BY <1>1 DEF MovedRelease, OnPublic
<1>3. Moved(t, me, x)
  BY <1>1, <1>2, CleanMoved
<1> QED
  BY <1>3 DEF x
\* A run has no listing in hand.
Clean(me) == me.doomed = {} /\ me.todo = {} /\ ~me.listed

\* It has none where it neither reconciles nor compares.
LEMMA CleanAt ==
  ASSUME NEW me \in RunRecord, WorkOK(me), me.pc \notin {"reconcile"} \cup CompareAt
  PROVE  Clean(me)
BY DEF WorkOK, Clean, RunRecord

\* Going on to the next request, with no claim about the release.
LEMMA GotoMoved ==
  ASSUME NEW t, NEW me \in RunRecord, WorkOK(me), Clean(me), NEW pc,
         pc \notin OnPublic \cup {"latest", "guard", "publish", "succeeded"}
  PROVE  Moved(t, me, [me EXCEPT !.pc = pc])
<1> DEFINE x == [me EXCEPT !.pc = pc]
<1>1. /\ x.local = me.local /\ x.rel = me.rel /\ x.pc = pc /\ x.missing = me.missing
      /\ x.doomed = {} /\ x.todo = {} /\ x.others = me.others /\ ~x.listed
      /\ x.memo = me.memo
  BY DEF Clean, RunRecord
<1> HIDE DEF x
<1>2. MovedRelease(t, me, x)
  BY <1>1 DEF MovedRelease
<1>3. Moved(t, me, x)
  BY <1>1, <1>2, CleanMoved DEF WorkOK
<1> QED
  BY <1>3 DEF x

\* What FindRelease found.
LEMMA FoundMoved ==
  ASSUME HostOK, NEW t, NEW me \in RunRecord, WorkOK(me), me.pc \in FindAt,
         NEW r \in ReleasesOf(t)
  PROVE  Moved(t, me, AfterFind(me, r))
<1> DEFINE to(q, pc) == [me EXCEPT !.scan = FALSE, !.rel = q, !.pc = pc]
<1>1. Clean(me) /\ rels[r].draft \in BOOLEAN
  BY CleanAt DEF FindAt, CompareAt, ReleasesOf, HostOK, WellFormedStore, ReleaseRecord
<1>2. Moved(t, me, Ended(me, "failed"))
  BY FailedMoved
<1>3. ASSUME NEW q \in {r, me.rel},
             NEW pc \in {"already", "others", "list", "publish", "confirm", "recheck"},
             pc \in OnPublic => q = r /\ ~rels[r].draft,
             pc = "publish" => q = me.rel /\ me.pc = "guard"
      PROVE  Moved(t, me, to(q, pc))
  <2> DEFINE x == to(q, pc)
  <2>1. /\ x.local = me.local /\ x.rel = q /\ x.pc = pc /\ x.missing = me.missing
        /\ x.doomed = {} /\ x.todo = {} /\ x.others = me.others /\ ~x.listed
        /\ x.memo = me.memo
    BY <1>1 DEF Clean, RunRecord
  <2> HIDE DEF to
  <2> HIDE DEF x
  <2>2. MovedRelease(t, me, x)
    BY <1>3, <2>1 DEF MovedRelease, PublishedOf
  <2>3. Moved(t, me, x)
    BY <1>3, <2>1, <2>2, CleanMoved DEF WorkOK
  <2> QED
    BY <2>3 DEF x
<1>4. \A pc : /\ [me EXCEPT !.scan = FALSE, !.rel = r, !.pc = pc] = to(r, pc)
              /\ [me EXCEPT !.scan = FALSE, !.pc = pc] = to(me.rel, pc)
  BY DEF RunRecord
<1> HIDE DEF to
<1>5. CASE me.pc = "find"
  <2>1. AfterFind(me, r) = to(r, IF rels[r].draft THEN "others" ELSE "already")
    BY <1>1, <1>4, <1>5 DEF AfterFind, to, RunRecord
  <2> QED
    BY <1>1, <1>3, <2>1 DEF OnPublic
<1>6. CASE me.pc = "refind"
  <2>1. AfterFind(me, r) \in {to(r, "list"), Ended(me, "failed")}
    BY <1>4, <1>6 DEF AfterFind, to, RunRecord
  <2> QED
    BY <1>2, <1>3, <2>1 DEF OnPublic
<1>7. CASE me.pc = "guard"
  <2>1. AfterFind(me, r) \in {to(me.rel, "publish"), Ended(me, "failed")}
    BY <1>4, <1>7 DEF AfterFind, to, RunRecord
  <2> QED
    BY <1>2, <1>3, <1>7, <2>1 DEF OnPublic
<1>8. CASE me.pc \in {"reread", "confirm"}
  <2>1. \/ AfterFind(me, r) = Ended(me, "failed")
        \/ /\ ~rels[r].draft
           /\ AfterFind(me, r) \in {to(r, "confirm"), to(r, "recheck")}
    BY <1>1, <1>4, <1>8 DEF AfterFind, to, RunRecord
  <2> QED
    BY <1>2, <1>3, <2>1 DEF OnPublic
<1> QED
  BY <1>5, <1>6, <1>7, <1>8 DEF FindAt

\* What it did not find.
LEMMA MissingMoved ==
  ASSUME NEW t, NEW me \in RunRecord, WorkOK(me), me.pc \in FindAt
  PROVE  Moved(t, me, AfterMissing(me)) /\ Moved(t, me, [me EXCEPT !.scan = TRUE])
<1>1. Clean(me)
  BY CleanAt DEF FindAt, CompareAt
<1> DEFINE x == [me EXCEPT !.scan = FALSE, !.pc = "create"]
           y == [me EXCEPT !.scan = TRUE]
<1>2. /\ x.local = me.local /\ x.rel = me.rel /\ x.pc = "create" /\ x.missing = me.missing
      /\ x.doomed = {} /\ x.todo = {} /\ x.others = me.others /\ ~x.listed
      /\ x.memo = me.memo
      /\ y.local = me.local /\ y.rel = me.rel /\ y.pc = me.pc /\ y.missing = me.missing
      /\ y.doomed = {} /\ y.todo = {} /\ y.others = me.others /\ ~y.listed
      /\ y.memo = me.memo
  BY <1>1 DEF Clean, RunRecord
<1>3. Moved(t, me, Ended(me, "failed"))
  BY FailedMoved
<1> HIDE DEF x, y
<1>4. MovedRelease(t, me, x) /\ MovedRelease(t, me, y)
  BY <1>2 DEF MovedRelease, OnPublic, FindAt
<1>5. Moved(t, me, x) /\ Moved(t, me, y)
  BY <1>2, <1>4, CleanMoved DEF WorkOK, FindAt
<1> QED
  BY <1>3, <1>5 DEF AfterMissing, x, y
\* The listing of a round, and what becomes of it.
LEMMA RoundMoved ==
  ASSUME TypeOK, NEW p \in Publishers, WorkOK(run[p]),
         ReconcileList(p) \/ DeleteDoomed(p) \/ CheckStored(p)
  PROVE  \E x : Continue(p, x) /\ Moved(TagOf[p], run[p], x)
<1> DEFINE me == run[p]
           t == TagOf[p]
           listing == ListAssets(me.rel)
<1>1. me \in RunRecord /\ ~me.listed /\ me.pc \in {"list", "reconcile"}
  BY DEF TypeOK, WorkOK, RunRecord, CompareAt, ReconcileList, DeleteDoomed, CheckStored
<1>2. CASE Fail(p)
  BY <1>2, FailedMoved DEF Fail
\* All that the three steps have in common.
<1>3. ASSUME NEW x, x.pc = "reconcile", x.local = me.local, x.rel = me.rel,
             x.others = me.others, ~x.listed,
             x.doomed \subseteq me.doomed \cup me.todo \cup listing,
             x.todo \subseteq me.todo \cup {s \in listing : s.name \in DOMAIN me.local},
             x.missing \subseteq DOMAIN me.local,
             \A m \in x.memo : m \in me.memo \/ \E a \in DOMAIN assets : m = <<a, assets[a].content>>
      PROVE  Moved(t, me, x)
  <2> HIDE DEF me, t
  <2>1. MovedRelease(t, me, x) /\ MovedCompared(me, x)
    BY <1>3 DEF MovedRelease, MovedCompared, OnPublic
  <2>2. MovedLists(t, me, x)
    BY <1>3 DEF MovedLists
  <2>3. WorkOK(x)
    BY <1>3 DEF WorkOK, me
  <2> QED
    BY <1>3, <2>1, <2>2, <2>3 DEF Moved
<1>4. CASE ReconcileList(p) /\ ~Fail(p)
  <2> DEFINE d == {s \in listing : \/ s.name \notin DOMAIN me.local
                                   \/ ~Alone(s, listing)
                                   \/ Verdict(me, s, ~TrustServerDigest) = "mismatch"}
             g == {s \in listing \ d : Verdict(me, s, ~TrustServerDigest) = "ok"}
             w == (listing \ d) \ g
             m == DOMAIN me.local \ {s.name : s \in g}
             x == [me EXCEPT !.pc = "reconcile", !.doomed = d, !.todo = w, !.missing = m,
                             !.changed = FALSE]
  <2>1. /\ Continue(p, x)
        /\ d \subseteq listing /\ m \subseteq DOMAIN me.local
        /\ w \subseteq {s \in listing : s.name \in DOMAIN me.local}
    <3>1. Continue(p, x)
      BY <1>4 DEF ReconcileList
    <3> QED
      BY <3>1
  <2> HIDE DEF d, g, w, m
  <2>2. /\ x.pc = "reconcile" /\ x.local = me.local /\ x.rel = me.rel /\ x.others = me.others
        /\ ~x.listed /\ x.doomed = d /\ x.todo = w /\ x.missing = m /\ x.memo = me.memo
    BY <1>1 DEF RunRecord
  <2> HIDE DEF x, listing
  <2>3. Moved(t, me, x)
    BY <1>3, <2>1, <2>2
  <2> QED
    BY <2>1, <2>3
<1>5. CASE DeleteDoomed(p) /\ ~Fail(p)
  <2>1. PICK s, n : Continue(p, [me EXCEPT !.doomed = me.doomed \ {s}, !.changed = TRUE, !.cur = n])
    BY <1>5 DEF DeleteDoomed
  <2> DEFINE x == [me EXCEPT !.doomed = me.doomed \ {s}, !.changed = TRUE, !.cur = n]
  <2>2. /\ x.pc = "reconcile" /\ x.local = me.local /\ x.rel = me.rel /\ x.others = me.others
        /\ ~x.listed /\ x.doomed = me.doomed \ {s} /\ x.todo = me.todo
        /\ x.missing = me.missing /\ x.memo = me.memo
    BY <1>1, <1>5 DEF DeleteDoomed, RunRecord
  <2> HIDE DEF x
  <2>3. Moved(t, me, x)
    BY <1>3, <2>2 DEF WorkOK
  <2> QED
    BY <2>1, <2>3 DEF x
<1>6. CASE CheckStored(p) /\ ~Fail(p)
  <2> DEFINE n(s) == me.memo \cup {<<s.id, assets[s.id].content>>}
             right(s) == [me EXCEPT !.todo = me.todo \ {s}, !.missing = me.missing \ {s.name},
                                    !.memo = n(s)]
             wrong(s) == [me EXCEPT !.todo = me.todo \ {s}, !.doomed = me.doomed \cup {s},
                                    !.cur = s.name]
  <2>1. PICK s \in me.todo : /\ s.id \in DOMAIN assets
                             /\ Continue(p, right(s)) \/ Continue(p, wrong(s))
    BY <1>6 DEF CheckStored
  <2> HIDE DEF n
  <2>2. /\ right(s).pc = "reconcile" /\ right(s).local = me.local /\ right(s).rel = me.rel
        /\ right(s).others = me.others /\ ~right(s).listed /\ right(s).doomed = me.doomed
        /\ right(s).todo = me.todo \ {s} /\ right(s).missing = me.missing \ {s.name}
        /\ right(s).memo = n(s)
        /\ wrong(s).pc = "reconcile" /\ wrong(s).local = me.local /\ wrong(s).rel = me.rel
        /\ wrong(s).others = me.others /\ ~wrong(s).listed
        /\ wrong(s).doomed = me.doomed \cup {s}
        /\ wrong(s).todo = me.todo \ {s} /\ wrong(s).missing = me.missing
        /\ wrong(s).memo = me.memo
    BY <1>1, <1>6 DEF CheckStored, RunRecord
  <2>3. \A m \in n(s) : m \in me.memo \/ \E a \in DOMAIN assets : m = <<a, assets[a].content>>
    BY <2>1 DEF n
  <2> HIDE DEF right, wrong
  <2>4. Moved(t, me, right(s)) /\ Moved(t, me, wrong(s))
    BY <1>3, <2>1, <2>2, <2>3 DEF WorkOK
  <2> QED
    BY <2>1, <2>4
<1> QED
  BY <1>2, <1>4, <1>5, <1>6

\* The listing of a comparison, and its downloads.
LEMMA CompareMoved ==
  ASSUME TypeOK, NEW p \in Publishers, WorkOK(run[p]), ListedOK(run[p]), MemoOK(run[p]),
         CompareList(p) \/ CompareDownload(p)
  PROVE  \E x : Continue(p, x) /\ Moved(TagOf[p], run[p], x)
<1> DEFINE me == run[p]
           t == TagOf[p]
<1>1. /\ me \in RunRecord /\ me.pc \in CompareAt /\ me.doomed = {}
      /\ me.pc \notin {"latest", "guard", "publish", "succeeded"}
      /\ UNCHANGED hostVars
  BY DEF TypeOK, WorkOK, CompareAt, CompareList, CompareDownload, ReadOnly, hostVars
<1>2. CASE Fail(p)
  BY <1>2, FailedMoved DEF Fail
<1>3. ASSUME NEW x, x.pc = me.pc, x.local = me.local, x.rel = me.rel, x.others = me.others,
             x.listed, x.doomed = {}, x.missing = me.missing,
             x.todo \subseteq me.todo \cup {s \in ListAssets(me.rel) : s.name \in DOMAIN me.local},
             \A m \in x.memo : m \in me.memo \/ \E a \in DOMAIN assets : m = <<a, assets[a].content>>,
             ComparedOK(me) => ComparedOK(x)
      PROVE  Moved(t, me, x)
  <2> HIDE DEF me, t
  <2>1. MovedRelease(t, me, x) /\ MovedCompared(me, x)
    BY <1>1, <1>3 DEF MovedRelease, MovedCompared
  <2>2. MovedLists(t, me, x)
    BY <1>3 DEF MovedLists
  <2>3. WorkOK(x)
    BY <1>1, <1>3 DEF WorkOK, me
  <2> QED
    BY <1>3, <2>1, <2>2, <2>3 DEF Moved
<1>4. CASE CompareList(p) /\ ~Fail(p)
  <2> DEFINE to(w) == [me EXCEPT !.listed = TRUE, !.todo = w]
  <2>1. PICK w \in SUBSET ListAssets(me.rel) :
          Continue(p, to(w)) /\ ShapeOK(to(w)) /\ \A s \in w : s.name \in DOMAIN me.local
    BY <1>4, ListingCompared
  <2>2. /\ to(w).pc = me.pc /\ to(w).local = me.local /\ to(w).rel = me.rel
        /\ to(w).others = me.others /\ to(w).listed /\ to(w).doomed = {}
        /\ to(w).missing = me.missing /\ to(w).todo = w /\ to(w).memo = me.memo
    BY <1>1 DEF RunRecord
  <2> HIDE DEF to, me
  <2>3. Moved(t, me, to(w))
    BY <1>3, <2>1, <2>2 DEF ComparedOK
  <2> QED
    BY <2>1, <2>3 DEF me
<1>5. CASE CompareDownload(p) /\ ~Fail(p)
  <2> DEFINE to(s, n) == [me EXCEPT !.todo = me.todo \ {s}, !.memo = n]
  <2>1. PICK s, n :
          /\ s \in me.todo
          /\ s.id \in DOMAIN assets
          /\ n = me.memo \cup {<<s.id, assets[s.id].content>>}
          /\ Continue(p, to(s, n))
          /\ ShapeOK(me) => ShapeOK(to(s, n))
    BY <1>5, DownloadCompared
  <2>2. /\ to(s, n).pc = me.pc /\ to(s, n).local = me.local /\ to(s, n).rel = me.rel
        /\ to(s, n).others = me.others /\ to(s, n).listed /\ to(s, n).doomed = {}
        /\ to(s, n).missing = me.missing /\ to(s, n).todo = me.todo \ {s} /\ to(s, n).memo = n
    BY <1>1, <1>5 DEF CompareDownload, RunRecord
  <2>3. \A m \in n : m \in me.memo \/ \E a \in DOMAIN assets : m = <<a, assets[a].content>>
    BY <2>1
  <2> HIDE DEF to, me
  <2>4. ComparedOK(me) => ComparedOK(to(s, n))
    BY <2>1, <2>2 DEF ComparedOK
  <2>5. Moved(t, me, to(s, n))
    BY <1>3, <2>1, <2>2, <2>3, <2>4
  <2> QED
    BY <2>1, <2>5 DEF me
<1> QED
  BY <1>2, <1>4, <1>5
\* The other releases of the tag, and the draft.
LEMMA DraftMoved ==
  ASSUME TypeOK, NEW p \in Publishers, WorkOK(run[p]),
         \/ ListOthers(p) \/ DropOther(p) \/ CreateDraft(p) \/ CreateLost(p)
  PROVE  \E x : Continue(p, x) /\ Moved(TagOf[p], run[p], x)
<1> DEFINE me == run[p]
           t == TagOf[p]
<1>1. me \in RunRecord /\ me.pc \in {"others", "drop", "create"}
  BY DEF TypeOK, ListOthers, DropOther, CreateDraft, CreateLost
<1>2. Clean(me)
  BY <1>1, CleanAt DEF CompareAt
<1>3. Moved(t, me, Ended(me, "failed"))
  BY FailedMoved
<1>4. ASSUME NEW o, o \subseteq me.others \cup {z \in ListReleases : z.tag = t}
      PROVE  Moved(t, me, AfterDrop(me, o))
  <2> DEFINE x == AfterDrop(me, o)
  <2>1. /\ x.local = me.local /\ x.rel = me.rel /\ x.pc \in {"list", "drop"}
        /\ x.missing = me.missing /\ x.doomed = {} /\ x.todo = {} /\ x.others = o
        /\ ~x.listed /\ x.memo = me.memo
    BY <1>1, <1>2 DEF AfterDrop, Clean, RunRecord
  <2> HIDE DEF x, me, t
  <2>2. MovedRelease(t, me, x)
    BY <2>1 DEF MovedRelease, OnPublic
  <2>3. Moved(t, me, x)
    BY <1>4, <2>1, <2>2, CleanMoved DEF WorkOK, me
  <2> QED
    BY <2>3 DEF x
<1>5. CASE ListOthers(p)
  <2> DEFINE o == {z \in ListReleases : z.tag = TagOf[p] /\ z.id # run[p].rel}
  <2>1. Continue(p, AfterDrop(me, o)) /\ o \subseteq {z \in ListReleases : z.tag = t}
    BY <1>5 DEF ListOthers
  <2> HIDE DEF o
  <2> QED
    BY <1>4, <2>1
<1>6. CASE DropOther(p)
  <2>1. PICK o \in me.others : Fail(p) \/ Continue(p, AfterDrop(me, me.others \ {o}))
    BY <1>6 DEF DropOther
  <2>2. Moved(t, me, AfterDrop(me, me.others \ {o}))
    BY <1>4
  <2> QED
    BY <1>3, <2>1, <2>2 DEF Fail
<1>7. CASE CreateDraft(p) \/ CreateLost(p)
  <2> DEFINE x == [me EXCEPT !.rel = nextId, !.pc = "list"]
  <2>1. \/ Continue(p, x) /\ CreateRelease(t)
        \/ Continue(p, [me EXCEPT !.pc = "refind"])
    BY <1>7 DEF CreateDraft, CreateLost, Goto
  <2>2. Moved(t, me, [me EXCEPT !.pc = "refind"])
    BY <1>1, <1>2, GotoMoved DEF OnPublic
  <2>3. /\ x.local = me.local /\ x.rel = nextId /\ x.pc = "list"
        /\ x.missing = me.missing /\ x.doomed = {} /\ x.todo = {} /\ x.others = me.others
        /\ ~x.listed /\ x.memo = me.memo
    BY <1>1, <1>2 DEF Clean, RunRecord
  <2> HIDE DEF x, me, t
  <2>4. CreateRelease(t) => MovedRelease(t, me, x)
    BY <2>3 DEF MovedRelease, OnPublic
  <2>5. CreateRelease(t) => Moved(t, me, x)
    BY <2>3, <2>4, CleanMoved DEF WorkOK, me
  <2> QED
    BY <2>1, <2>2, <2>5 DEF me, t
<1> QED
  BY <1>5, <1>6, <1>7

\* An upload, and what follows the last one.
LEMMA UploadMoved ==
  ASSUME TypeOK, NEW p \in Publishers, WorkOK(run[p]), Upload(p) \/ UploadLost(p) \/ EndRound(p)
  PROVE  \E x : Continue(p, x) /\ Moved(TagOf[p], run[p], x)
<1> DEFINE me == run[p]
           t == TagOf[p]
<1>1. me \in RunRecord /\ me.pc = "reconcile" /\ Clean(me)
  BY DEF TypeOK, Upload, UploadLost, EndRound, Uploading, Clean, WorkOK, CompareAt, RunRecord
<1>2. Moved(t, me, Ended(me, "failed")) /\ Moved(t, me, [me EXCEPT !.pc = "final"])
  BY <1>1, FailedMoved, GotoMoved DEF OnPublic
<1>3. ASSUME NEW x, x.local = me.local, x.rel = me.rel, x.pc \in {"reconcile", "list"},
             x.missing \subseteq me.missing, x.doomed = {}, x.todo = {},
             x.others = me.others, ~x.listed, x.memo = me.memo
      PROVE  Moved(t, me, x)
  <2> HIDE DEF me, t
  <2>1. MovedRelease(t, me, x)
    BY <1>3 DEF MovedRelease, OnPublic
  <2> QED
    BY <1>3, <2>1, CleanMoved DEF WorkOK, me
<1>4. \A n : Moved(t, me, Attempted(me, n))
  <2> SUFFICES ASSUME NEW n PROVE Moved(t, me, Attempted(me, n))
    OBVIOUS
  <2> DEFINE x == Attempted(me, n)
  <2>1. /\ x.local = me.local /\ x.rel = me.rel /\ x.pc = "reconcile"
        /\ x.missing \subseteq me.missing /\ x.doomed = {} /\ x.todo = {}
        /\ x.others = me.others /\ ~x.listed /\ x.memo = me.memo
    BY <1>1 DEF Attempted, Clean, RunRecord
  <2> HIDE DEF x
  <2>2. Moved(t, me, x)
    BY <1>3, <2>1
  <2> QED
    BY <2>2 DEF x
<1>5. \A n : Moved(t, me, [me EXCEPT !.pc = "list", !.round = n])
  <2> SUFFICES ASSUME NEW n PROVE Moved(t, me, [me EXCEPT !.pc = "list", !.round = n])
    OBVIOUS
  <2> DEFINE x == [me EXCEPT !.pc = "list", !.round = n]
  <2>1. /\ x.local = me.local /\ x.rel = me.rel /\ x.pc = "list"
        /\ x.missing \subseteq me.missing /\ x.doomed = {} /\ x.todo = {}
        /\ x.others = me.others /\ ~x.listed /\ x.memo = me.memo
    BY <1>1 DEF Clean, RunRecord
  <2> HIDE DEF x
  <2>2. Moved(t, me, x)
    BY <1>3, <2>1
  <2> QED
    BY <2>2 DEF x
<1> QED
  BY <1>2, <1>4, <1>5 DEF Upload, UploadLost, EndRound, Goto, Fail

\* The decision about "latest", and the Publish call.
LEMMA PublishMoved ==
  ASSUME TypeOK, NEW p \in Publishers, WorkOK(run[p]),
         DecideLatest(p) \/ SendPublish(p) \/ PublishLost(p)
  PROVE  \E x : Continue(p, x) /\ Moved(TagOf[p], run[p], x)
<1> DEFINE me == run[p]
           t == TagOf[p]
           to(pc, l) == [me EXCEPT !.pc = pc, !.latest = l]
<1>1. me \in RunRecord /\ me.pc \in {"latest", "publish"}
  BY DEF TypeOK, DecideLatest, SendPublish, PublishLost
<1>2. Clean(me)
  BY <1>1, CleanAt DEF CompareAt
<1>3. \E pc, l :
        /\ Continue(p, to(pc, l))
        /\ \/ pc \in {"guard", "publish", "reread"}
           \/ /\ pc = "confirm" /\ me.pc = "publish" /\ me.rel \in DOMAIN rels
              /\ \E z : PublishRelease(me.rel, z)
  <2>1. CASE DecideLatest(p)
    BY <2>1 DEF DecideLatest
  <2>2. \A pc : [me EXCEPT !.pc = pc] = to(pc, me.latest)
    BY <1>1 DEF RunRecord
  <2>3. CASE SendPublish(p) \/ PublishLost(p)
    <3> HIDE DEF to
    <3> QED
      BY <2>2, <2>3 DEF SendPublish, PublishLost, Goto, CanPublish
  <2> QED
    BY <2>1, <2>3
<1>4. PICK pc, l :
        /\ Continue(p, to(pc, l))
        /\ \/ pc \in {"guard", "publish", "reread"}
           \/ /\ pc = "confirm" /\ me.pc = "publish" /\ me.rel \in DOMAIN rels
              /\ \E z : PublishRelease(me.rel, z)
  BY <1>3
<1> DEFINE x == to(pc, l)
<1>5. /\ x.local = me.local /\ x.rel = me.rel /\ x.pc = pc
      /\ x.missing = me.missing /\ x.doomed = {} /\ x.todo = {} /\ x.others = me.others
      /\ ~x.listed /\ x.memo = me.memo
  BY <1>1, <1>2 DEF Clean, RunRecord
<1> HIDE DEF to
<1> HIDE DEF x, me, t
<1>6. MovedRelease(t, me, x)
  BY <1>4, <1>5 DEF MovedRelease, OnPublic
<1>7. Moved(t, me, x)
  BY <1>1, <1>4, <1>5, <1>6, CleanMoved DEF WorkOK, me
<1> QED
  BY <1>4, <1>7 DEF x, me, t

\* A comparison that is through.
LEMMA DoneMoved ==
  ASSUME TypeOK, NEW p \in Publishers, WorkOK(run[p]), CompareDone(p)
  PROVE  \E x : Continue(p, x) /\ Moved(TagOf[p], run[p], x)
<1> DEFINE me == run[p]
           t == TagOf[p]
           x == [me EXCEPT !.pc = "latest", !.listed = FALSE]
           y == Ended(me, "succeeded")
<1>1. /\ me \in RunRecord /\ me.pc \in CompareAt /\ me.listed /\ me.todo = {} /\ me.doomed = {}
      /\ me.pc # "final" => me.pc \in OnPublic
  BY DEF TypeOK, CompareDone, WorkOK, CompareAt, OnPublic
<1>2. /\ x.local = me.local /\ x.rel = me.rel /\ x.pc = "latest" /\ x.missing = me.missing
      /\ x.doomed = {} /\ x.todo = {} /\ x.others = me.others /\ ~x.listed
      /\ x.memo = me.memo
  BY <1>1 DEF RunRecord
<1>3. /\ y.local = me.local /\ y.rel = me.rel /\ y.pc = "succeeded" /\ y.missing = {}
      /\ y.doomed = {} /\ y.todo = {} /\ y.others = {} /\ ~y.listed /\ y.memo = {}
  BY DEF Ended, Blank
<1>4. IF me.pc = "final" THEN Continue(p, x) ELSE Continue(p, y)
  BY DEF CompareDone
<1> HIDE DEF x, y, me, t
<1>5. CASE me.pc = "final"
  <2>1. MovedRelease(t, me, x)
    BY <1>2 DEF MovedRelease, OnPublic
  <2>2. Moved(t, me, x)
    BY <1>1, <1>2, <1>5, <2>1, CleanMoved DEF WorkOK, me
  <2> QED
    BY <1>4, <1>5, <2>2 DEF me, t
<1>6. CASE me.pc # "final"
  <2>1. MovedRelease(t, me, y)
    BY <1>1, <1>3, <1>6 DEF MovedRelease
  <2>2. Moved(t, me, y)
    BY <1>1, <1>3, <1>6, <2>1, CleanMoved DEF WorkOK, me
  <2> QED
    BY <1>4, <1>6, <2>2 DEF me, t
<1> QED
  BY <1>5, <1>6

\* Every step of a run that is under way moves it so.
LEMMA StepMoves ==
  ASSUME TypeOK, NEW p \in Publishers, Progress(p) \/ Trouble(p),
         WorkOK(run[p]), ListedOK(run[p]), MemoOK(run[p])
  PROVE  Moved(TagOf[p], run[p], run'[p])
<1> DEFINE me == run[p]
           t == TagOf[p]
<1>1. me \in RunRecord /\ run \in [Publishers -> RunRecord]
  BY DEF TypeOK
<1>2. SUFFICES \E x : Continue(p, x) /\ Moved(t, me, x)
  <2>1. \A x : Continue(p, x) => run'[p] = x
    BY <1>1 DEF Continue
  <2> QED
    BY <1>2, <2>1
<1>3. Moved(t, me, Ended(me, "failed"))
  BY FailedMoved
<1>4. CASE CheckLimits(p) \/ CheckTag(p)
  <2>1. Clean(me)
    BY <1>1, <1>4, CleanAt DEF CheckLimits, CheckTag, CompareAt
  <2>2. Moved(t, me, [me EXCEPT !.pc = "tag"]) /\ Moved(t, me, [me EXCEPT !.pc = "find"])
    BY <1>1, <2>1, GotoMoved DEF OnPublic
  <2> QED
    BY <1>3, <1>4, <2>2 DEF CheckLimits, CheckTag, Goto, Fail
<1>5. CASE Abort(p)
  BY <1>3, <1>5 DEF Abort, Fail
<1>6. CASE FindByTag(p) \/ FindInList(p)
  <2>1. me.pc \in FindAt /\ PublishedOf(t) \subseteq ReleasesOf(t)
    BY <1>6 DEF FindByTag, FindInList, PublishedOf
  <2>2. \A r \in ReleasesOf(t) : Moved(t, me, AfterFind(me, r))
    BY <1>1, <2>1, FoundMoved DEF TypeOK
  <2>3. Moved(t, me, AfterMissing(me)) /\ Moved(t, me, [me EXCEPT !.scan = TRUE])
    BY <1>1, <2>1, MissingMoved
  <2> QED
    BY <1>6, <2>1, <2>2, <2>3 DEF FindByTag, FindInList
<1> QED
  BY <1>4, <1>5, <1>6, DraftMoved, RoundMoved, CompareMoved, UploadMoved, PublishMoved, DoneMoved
     DEF Progress, Trouble
-----------------------------------------------------------------------------
(***************************************************************************)
(* What every run knows, whoever else is at work.                          *)
(***************************************************************************)
\* What a release of an old id says of itself after a gentle step.
LEMMA GentleRelease ==
  ASSUME Gentle, NEW r \in Nat, r < nextId, r \in DOMAIN rels'
  PROVE  /\ r \in DOMAIN rels /\ rels'[r].tag = rels[r].tag
         /\ ~rels[r].draft => ~rels'[r].draft
BY DEF Gentle

\* A run that does not move goes on knowing it.
LEMMA BasicKept ==
  ASSUME Gentle, NEW t, NEW me \in RunRecord, Basic(t, me)
  PROVE  Basic(t, me)'
<1>1. nextId \in Nat /\ nextId' \in Nat /\ nextId <= nextId'
  BY DEF Gentle
<1>2. ReleaseOK(t, me)'
  BY <1>1, GentleRelease DEF Basic, ReleaseOK, RunRecord
<1>3. DroppedOK(t, me)'
  <2>1. \A o \in me.others : o.id \in Nat
    BY DEF RunRecord
  <2> QED
    BY <1>1, <2>1, GentleRelease DEF Basic, DroppedOK
<1>4. ListedOK(me)'
  <2>1. \A s \in me.doomed \cup me.todo : s.id \in Nat
    BY DEF RunRecord, AssetView
  <2> QED
    BY <1>1, <2>1 DEF Basic, ListedOK, Gentle, View
<1>5. MemoOK(me)'
  <2>1. \A m \in me.memo : m[1] \in Nat
    BY DEF RunRecord
  <2> QED
    BY <1>1, <2>1 DEF Basic, MemoOK, Gentle
<1> QED
  BY <1>2, <1>3, <1>4, <1>5 DEF Basic, WorkOK

\* A run that moves knows it of what it works on then.
LEMMA BasicMoved ==
  ASSUME HostOK, Gentle, NEW t, NEW me \in RunRecord, Basic(t, me), NEW x, Moved(t, me, x)
  PROVE  Basic(t, x)'
<1>1. nextId \in Nat /\ nextId' \in Nat /\ nextId <= nextId' /\ Basic(t, me)'
  BY BasicKept DEF Gentle
<1>2. \A r \in ReleasesOf(t) : r \in Nat /\ r < nextId /\ rels[r].tag = t
  BY IdFacts DEF ReleasesOf
<1>3. ReleaseOK(t, x)'
  <2>1. x.rel < nextId'
    <3>1. CreateRelease(t) => nextId' = nextId + 1
      BY DEF CreateRelease
    <3> QED
      BY <1>1, <1>2, <3>1 DEF Basic, ReleaseOK, Moved, MovedRelease
  <2>2. x.rel \in DOMAIN rels' => rels'[x.rel].tag = t
    <3>1. CreateRelease(t) => rels'[nextId].tag = t
      BY DEF CreateRelease
    <3> QED
      BY <1>1, <1>2, <3>1, GentleRelease DEF Basic, ReleaseOK, Moved, MovedRelease
  <2>3. ASSUME x.rel \in DOMAIN rels', x.pc \in OnPublic \cup {"succeeded"}
        PROVE  ~rels'[x.rel].draft
    <3>1. CASE x.rel = me.rel /\ me.pc \in OnPublic
      BY <1>1, <2>3, <3>1 DEF Basic, ReleaseOK
    <3>2. CASE x.rel \in PublishedOf(t)
      <4>1. x.rel \in ReleasesOf(t) /\ ~rels[x.rel].draft
        BY <3>2 DEF PublishedOf
      <4> QED
        BY <1>2, <2>3, <4>1, GentleRelease
    <3>3. ASSUME x.rel = me.rel, me.rel \in DOMAIN rels, NEW l, PublishRelease(me.rel, l)
          PROVE  ~rels'[x.rel].draft
      <4>1. rels[me.rel] \in ReleaseRecord
        BY <3>3 DEF HostOK, WellFormedStore
      <4> QED
        BY <3>3, <4>1 DEF PublishRelease, ReleaseRecord
    <3> QED
      BY <2>3, <3>1, <3>2, <3>3 DEF Moved, MovedRelease
  <2> QED
    BY <2>1, <2>2, <2>3 DEF ReleaseOK
<1>4. DroppedOK(t, x)'
  <2> SUFFICES ASSUME NEW o \in x.others
               PROVE  o.id < nextId' /\ (o.id \in DOMAIN rels' => rels'[o.id].tag = t)
    BY DEF DroppedOK
  <2>1. CASE o \in me.others
    BY <1>1, <2>1 DEF Basic, DroppedOK
  <2>2. CASE o \in {z \in ListReleases : z.tag = t}
    <3>1. o.id \in ReleasesOf(t)
      BY <2>2 DEF ListReleases, ReleasesOf
    <3> QED
      BY <1>1, <1>2, <3>1, GentleRelease
  <2> QED
    BY <2>1, <2>2 DEF Moved, MovedLists
<1>5. ListedOK(x)'
  <2> SUFFICES ASSUME NEW s \in x.doomed \cup x.todo
               PROVE  /\ s.id < nextId'
                      /\ s.id \in DOMAIN assets' => s = View(s.id)' /\ assets'[s.id].rel = x.rel
    BY DEF ListedOK
  <2>1. x.rel = me.rel /\ s \in me.doomed \cup me.todo \cup ListAssets(me.rel)
    BY DEF Moved, MovedLists
  <2>2. CASE s \in me.doomed \cup me.todo
    BY <1>1, <2>1, <2>2 DEF Basic, ListedOK
  <2>3. CASE s \in ListAssets(me.rel)
    <3>1. s.id \in DOMAIN assets /\ s.id < nextId /\ assets[s.id].rel = me.rel /\ s = View(s.id)
      BY <2>3, ListingFacts
    <3>2. s.id \in Nat
      BY <3>1, IdFacts
    <3> QED
      BY <1>1, <2>1, <3>1, <3>2 DEF Gentle, View
  <2> QED
    BY <2>1, <2>2, <2>3
<1>6. MemoOK(x)'
  <2> SUFFICES ASSUME NEW m \in x.memo
               PROVE  m[1] < nextId' /\ (m[1] \in DOMAIN assets' => assets'[m[1]].content = m[2])
    BY DEF MemoOK
  <2>1. CASE m \in me.memo
    BY <1>1, <2>1 DEF Basic, MemoOK
  <2>2. ASSUME NEW a \in DOMAIN assets, m = <<a, assets[a].content>>
        PROVE  m[1] < nextId' /\ (m[1] \in DOMAIN assets' => assets'[m[1]].content = m[2])
    BY <1>1, <2>2, IdFacts DEF Gentle
  <2> QED
    BY <2>1, <2>2 DEF Moved, MovedLists
<1> QED
  BY <1>3, <1>4, <1>5, <1>6 DEF Basic, Moved, WorkOK

\* A run that starts knows nothing.
LEMMA BlankBasic ==
  ASSUME HostOK, NEW t, NEW pc \in {"idle", "limits"}, NEW l, NEW c, NEW n
  PROVE  Basic(t, Blank(pc, l, c, n))
<1>1. 0 < nextId /\ 0 \notin DOMAIN rels
  BY DEF HostOK, WellFormedStore
<1> QED
  BY <1>1 DEF Blank, Basic, ReleaseOK, DroppedOK, ListedOK, WorkOK, MemoOK, CompareAt

BasicInv == TypeOK /\ \A p \in Publishers : Basic(TagOf[p], run[p])

\* At the start nobody knows anything.
LEMMA InitBasic == Init => BasicInv
<1> SUFFICES ASSUME Init, NEW p \in Publishers PROVE TypeOK /\ Basic(TagOf[p], run[p])
  BY InitTyped DEF BasicInv
<1>1. TypeOK
  BY InitTyped
<1> QED
  BY <1>1, BlankBasic DEF Init, TypeOK

\* A step of a job keeps what every run knows.
LEMMA BasicStep ==
  ASSUME BasicInv, NEW p \in Publishers, Start(p) \/ Progress(p) \/ Trouble(p)
  PROVE  BasicInv'
<1>1. HostOK /\ run \in [Publishers -> RunRecord] /\ Basic(TagOf[p], run[p])
  BY DEF BasicInv, TypeOK
<1>2. TypeOK'
  <2>1. run[p].missing \subseteq DOMAIN run[p].local
    BY <1>1 DEF Basic, WorkOK
  <2> QED
    BY <2>1, ReadsTyped, WritesTyped DEF BasicInv, Progress, Trouble
<1>3. Gentle
  BY <1>1, StepRequests, RequestGentle
<1>4. ASSUME NEW q \in Publishers, q # p PROVE Basic(TagOf[q], run[q])'
  <2>1. PICK me : me = run[q]
    OBVIOUS
  <2>2. run'[q] = me
    BY <1>1, <1>4, <2>1, ChangesOnlyOwnRun
  <2>3. Basic(TagOf[q], me)'
    BY <1>1, <1>3, <2>1, BasicKept DEF BasicInv
  <2> QED
    BY <2>2, <2>3
<1>5. Basic(TagOf[p], run[p])'
  <2>1. PICK x : x = run'[p]
    OBVIOUS
  <2>2. CASE Start(p)
    <3>1. PICK l \in LocalSets[p], c \in Commits :
            Continue(p, Blank("limits", l, c, run[p].runs + 1))
      BY <2>2 DEF Start
    <3>2. PICK n : x = Blank("limits", l, c, n)
      BY <1>1, <2>1, <3>1 DEF Continue
    <3>3. Basic(TagOf[p], x)
      BY <1>1, <3>2, BlankBasic
    <3>4. x \in RunRecord
      BY <1>2, <2>1 DEF TypeOK
    <3>5. Basic(TagOf[p], x)'
      BY <1>3, <3>3, <3>4, BasicKept
    <3> QED
      BY <2>1, <3>5
  <2>3. CASE Progress(p) \/ Trouble(p)
    <3>1. Moved(TagOf[p], run[p], x)
      BY <1>1, <2>1, <2>3, StepMoves DEF BasicInv, Basic
    <3>2. Basic(TagOf[p], x)'
      BY <1>1, <1>3, <3>1, BasicMoved
    <3> QED
      BY <2>1, <3>2
  <2> QED
    BY <2>2, <2>3
<1> QED
  BY <1>2, <1>4, <1>5 DEF BasicInv

(* What a run remembers of an asset id is what is stored under that id,    *)
(* whoever else works on the tag, on either platform ("ids never change    *)
(* bytes", publish.go:447).                                                *)
THEOREM MemoHolds == Spec => []MemoSound
<1>1. BasicInv /\ [Next]_vars => BasicInv'
  <2>1. CASE UNCHANGED vars
    <3>1. BasicInv /\ UNCHANGED vars => TypeOK'
      BY HostUnchanged DEF vars, hostVars, TypeOK, BasicInv
    <3>2. BasicInv /\ UNCHANGED vars => \A p \in Publishers : Basic(TagOf[p], run[p])'
      BY DEF vars, BasicInv, Basic, ReleaseOK, DroppedOK, ListedOK, WorkOK, MemoOK, View
    <3> QED
      BY <2>1, <3>1, <3>2 DEF BasicInv
  <2> QED
    BY <2>1, BasicStep DEF Next
<1>2. BasicInv => MemoSound
  BY DEF BasicInv, Basic, MemoOK, MemoSound
<1> QED
  BY InitBasic, <1>1, <1>2, PTL DEF Spec
-----------------------------------------------------------------------------
(***************************************************************************)
(* Requests that arrive late.                                              *)
(***************************************************************************)
\* For the client a delayed request is a lost one.
LEMMA DelayIsLoss ==
  ASSUME NEW p, SendDelayed(p)
  PROVE  Trouble(p) /\ UNCHANGED hostVars
<1>1. CASE CreateDelayed(p) \/ UploadDelayed(p) \/ PublishCallDelayed(p)
  BY <1>1 DEF CreateDelayed, UploadDelayed, PublishCallDelayed, Delay, Trouble, CreateLost,
              UploadLost, PublishLost
<1>2. CASE DropDelayed(p) \/ DeleteDelayed(p)
  BY <1>2 DEF DropDelayed, DeleteDelayed, Delay, Trouble, Abort, Working
<1> QED
  BY <1>1, <1>2 DEF SendDelayed

\* What a run knows when it sends a request that will be late, and what it sends.
Sent(p, q) ==
  \/ q = LateCreate(TagOf[p])
  \/ /\ run[p].pc = "reconcile"
     /\ \E n \in run[p].missing : q = LateUpload(run[p].rel, n, run[p].local[n])
  \/ run[p].pc = "publish" /\ q = LatePublish(run[p].rel, run[p].latest)
  \/ run[p].pc = "drop" /\ \E o \in run[p].others : q = LateDrop(o.id)
  \/ run[p].pc = "reconcile" /\ \E s \in run[p].doomed : q = LateDelete(s.id)

LEMMA DelaySends ==
  ASSUME NEW p, SendDelayed(p)
  PROVE  \E q : /\ Sent(p, q) /\ late' = late \cup {q}
                /\ delays < MaxLate /\ delays' = delays + 1
<1>1. CASE CreateDelayed(p)
  BY <1>1 DEF CreateDelayed, Delay, Sent
<1>2. CASE UploadDelayed(p)
  BY <1>2 DEF UploadDelayed, Uploading, Delay, Sent
<1>3. CASE PublishCallDelayed(p)
  BY <1>3 DEF PublishCallDelayed, Delay, Sent
<1>4. CASE DropDelayed(p)
  BY <1>4 DEF DropDelayed, Delay, Sent
<1>5. CASE DeleteDelayed(p)
  BY <1>5 DEF DeleteDelayed, Delay, Sent
<1> QED
  BY <1>1, <1>2, <1>3, <1>4, <1>5 DEF SendDelayed

\* A late request is served like any other, and no run learns of it.
LEMMA ArrivalServed ==
  ASSUME HostOK, NEW q \in LateRequest, Arrives(q)
  PROVE  /\ Request /\ HostOK'
         /\ UNCHANGED <<run, faults, delays>> /\ late' = late \ {q}
<1>1. UNCHANGED <<run, faults, delays>> /\ late' = late \ {q}
  BY DEF Arrives, CreateArrives, UploadArrives, PublishArrives, DropArrives, DeleteArrives, Arrived
<1>2. CASE CreateArrives(q)
  <2>1. q.tag \in Tags
    BY <1>2 DEF CreateArrives, LateRequest
  <2>2. UNCHANGED hostVars \/ (CanCreate(q.tag) /\ CreateRelease(q.tag))
    BY <1>2 DEF CreateArrives
  <2> QED
    BY <1>1, <2>1, <2>2, HostUnchanged, CreateKeepsStore DEF Request
<1>3. CASE UploadArrives(q)
  <2>1. q.name \in Names /\ q.content \in Bytes /\ Partial \in Bytes
    BY <1>3 DEF UploadArrives, LateRequest, Bytes
  <2>2. \/ UNCHANGED hostVars
        \/ /\ CanStore(q.rel, q.name)
           /\ \/ StoreAsset(q.rel, q.name, q.content, "uploaded")
              \/ Kind = "github" /\ StoreAsset(q.rel, q.name, Partial, "starter")
    BY <1>3 DEF UploadArrives
  <2> QED
    BY <1>1, <2>1, <2>2, HostUnchanged, StoreKeepsStore, HostAssumption DEF Request
<1>4. CASE PublishArrives(q)
  <2>1. q.latest \in BOOLEAN
    BY <1>4 DEF PublishArrives, LateRequest
  <2>2. UNCHANGED hostVars \/ (CanPublish(q.rel) /\ PublishRelease(q.rel, q.latest))
    BY <1>4 DEF PublishArrives
  <2> QED
    BY <1>1, <2>1, <2>2, HostUnchanged, PublishKeepsStore DEF Request
<1>5. CASE DropArrives(q)
  <2>1. RemoveRelease(q.rel)
    BY <1>5 DEF DropArrives
  <2> QED
    BY <1>1, <2>1, RemoveReleaseKeepsStore DEF Request
<1>6. CASE DeleteArrives(q)
  <2>1. UNCHANGED hostVars \/ (CanRemove(q.asset) /\ RemoveAsset(q.asset))
    BY <1>6 DEF DeleteArrives
  <2> QED
    BY <1>1, <2>1, HostUnchanged, RemoveAssetKeepsStore DEF Request
<1> QED
  BY <1>2, <1>3, <1>4, <1>5, <1>6 DEF Arrives

\* The steps of DNext: a job's step that sends at most one request on its way, or an arrival.
LEMMA DelayedSteps ==
  ASSUME DNext
  PROVE  \/ \E p \in Publishers :
              /\ Start(p) \/ Progress(p) \/ Trouble(p)
              /\ UNCHANGED <<late, delays>>
         \/ \E p \in Publishers : SendDelayed(p)
         \/ \E q \in late : Arrives(q)
BY DEF DNext, OnTime, Next

DBasicInv == BasicInv /\ DTypeOK

\* What every run knows, and what can be on its way, in spite of late requests.
LEMMA DBasicStep == ASSUME DBasicInv, [DNext]_delayVars PROVE DBasicInv'
<1>1. BasicInv /\ late \subseteq LateRequest /\ delays \in 0 .. MaxLate /\ HostOK
      /\ run \in [Publishers -> RunRecord]
  BY DEF DBasicInv, DTypeOK, TypeOK
<1>2. ASSUME NEW p \in Publishers, Start(p) \/ Progress(p) \/ Trouble(p), UNCHANGED <<late, delays>>
      PROVE  DBasicInv'
  BY <1>1, <1>2, BasicStep DEF DBasicInv, DTypeOK, BasicInv
<1>3. ASSUME NEW p \in Publishers, SendDelayed(p)
      PROVE  DBasicInv'
  <2>1. BasicInv'
    BY <1>1, <1>3, DelayIsLoss, BasicStep
  <2>2. PICK q : /\ Sent(p, q) /\ late' = late \cup {q}
                 /\ delays < MaxLate /\ delays' = delays + 1
    BY <1>3, DelaySends
  <2>3. delays' \in 0 .. MaxLate
    BY <1>1, <2>2, DelayAssumption
  <2>4. q \in LateRequest
    <3>1. run[p] \in RunRecord /\ run[p].rel \in Nat /\ run[p].latest \in BOOLEAN
          /\ TagOf[p] \in Tags /\ WorkOK(run[p])
      BY <1>1, PublishAssumption DEF RunRecord, BasicInv, Basic
    <3>2. CASE q = LateCreate(TagOf[p])
      BY <3>1, <3>2 DEF LateCreate, LateRequest
    <3>3. ASSUME NEW n \in run[p].missing, q = LateUpload(run[p].rel, n, run[p].local[n])
          PROVE  q \in LateRequest
      <4>1. n \in Names /\ run[p].local[n] \in Contents
        BY <3>1, LocalSetFacts DEF WorkOK, RunRecord
      <4> QED
        BY <3>1, <3>3, <4>1 DEF LateUpload, LateRequest
    <3>4. CASE q = LatePublish(run[p].rel, run[p].latest)
      BY <3>1, <3>4 DEF LatePublish, LateRequest
    <3>5. ASSUME NEW o \in run[p].others, q = LateDrop(o.id) PROVE q \in LateRequest
      BY <3>1, <3>5 DEF LateDrop, LateRequest, RunRecord
    <3>6. ASSUME NEW s \in run[p].doomed, q = LateDelete(s.id) PROVE q \in LateRequest
      BY <3>1, <3>6 DEF LateDelete, LateRequest, RunRecord, AssetView
    <3> QED
      BY <2>2, <3>2, <3>3, <3>4, <3>5, <3>6 DEF Sent
  <2> QED
    BY <1>1, <2>1, <2>2, <2>3, <2>4 DEF DBasicInv, DTypeOK, BasicInv
<1>4. ASSUME NEW q \in late, Arrives(q) PROVE DBasicInv'
  <2>1. /\ Gentle /\ HostOK'
        /\ UNCHANGED <<run, faults, delays>> /\ late' = late \ {q}
    BY <1>1, <1>4, ArrivalServed, RequestGentle
  <2>2. ASSUME NEW p \in Publishers PROVE Basic(TagOf[p], run[p])'
    <3>1. PICK me : me = run[p]
      OBVIOUS
    <3>2. Basic(TagOf[p], me)'
      BY <1>1, <2>1, <3>1, BasicKept DEF BasicInv
    <3> QED
      BY <2>1, <3>1, <3>2
  <2> QED
    BY <1>1, <2>1, <2>2 DEF DBasicInv, DTypeOK, BasicInv, TypeOK
<1>5. CASE UNCHANGED delayVars
  <2>1. TypeOK'
    BY <1>1, <1>5, HostUnchanged DEF delayVars, hostVars, TypeOK, BasicInv
  <2>2. \A p \in Publishers : Basic(TagOf[p], run[p])'
    BY <1>1, <1>5 DEF delayVars, BasicInv, Basic, ReleaseOK, DroppedOK, ListedOK, WorkOK, MemoOK, View
  <2> QED
    BY <1>1, <1>5, <2>1, <2>2 DEF DBasicInv, DTypeOK, BasicInv, delayVars
<1> QED
  BY <1>2, <1>3, <1>4, <1>5, DelayedSteps

LEMMA InitDBasic == DInit => DBasicInv
BY InitBasic, DelayAssumption DEF DInit, DBasicInv, DTypeOK, BasicInv, LateRequest
-----------------------------------------------------------------------------
(***************************************************************************)
(* What was compared stays so.                                             *)
(***************************************************************************)
\* Release r loses none of the files l, and takes no further asset once it has them all.
Keeps(r, l) ==
  r \in DOMAIN rels' =>
    /\ \A a \in AssetsOf(r) : Right(a, l) => a \in DOMAIN assets'
    /\ (\A n \in DOMAIN l : \E a \in AssetsOf(r) : assets[a].name = n)
         => AssetsOf(r)' \subseteq AssetsOf(r)

\* Then if it holds exactly those it keeps the very same assets.
LEMMA ExactSame ==
  ASSUME HostOK, Gentle, NEW r \in DOMAIN rels', NEW l, Keeps(r, l), Exact(r, l)
  PROVE  AssetsOf(r)' = AssetsOf(r) /\ \A a \in AssetsOf(r) : assets'[a] = assets[a]
<1>1. \A a \in AssetsOf(r) : Right(a, l) /\ a \in DOMAIN assets' /\ assets'[a] = assets[a]
  BY IdFacts DEF Exact, Right, Keeps, Gentle, AssetsOf
<1>2. AssetsOf(r)' \subseteq AssetsOf(r)
  BY DEF Exact, Keeps
<1>3. AssetsOf(r) \subseteq AssetsOf(r)'
  BY <1>1 DEF AssetsOf
<1> QED
  BY <1>1, <1>2, <1>3

\* So what it holds exactly it goes on holding.
LEMMA ExactKept ==
  ASSUME HostOK, Gentle, NEW r \in DOMAIN rels', NEW l, Keeps(r, l), Exact(r, l)
  PROVE  Exact(r, l)'
BY ExactSame DEF Exact

\* And what a comparison has found of it is still so.
LEMMA ComparedKept ==
  ASSUME HostOK, Gentle, NEW t, NEW me \in RunRecord, Basic(t, me),
         Keeps(me.rel, me.local), ComparedOK(me)
  PROVE  ComparedOK(me)'
<1> SUFFICES ASSUME me.rel \in DOMAIN rels', \A s \in me.todo : s.id \in DOMAIN assets', me.listed
             PROVE  ShapeOK(me)'
  BY DEF ComparedOK, ShapeOK
<1> DEFINE r == me.rel
           l == me.local
<1>1. me.rel \in DOMAIN rels
  BY GentleRelease DEF Basic, ReleaseOK, RunRecord
<1>2. \A s \in me.todo : s.id \in DOMAIN assets
  <2>1. \A s \in me.todo : s.id \in Nat /\ s.id < nextId
    BY DEF Basic, ListedOK, RunRecord, AssetView
  <2> QED
    BY <2>1 DEF Gentle
<1>3. /\ \A n \in DOMAIN l : \E a \in AssetsOf(r) : assets[a].name = n
      /\ \A a \in AssetsOf(r) :
           /\ assets[a].name \in DOMAIN l
           /\ assets[a].state = "uploaded"
           /\ \A b \in AssetsOf(r) : assets[a].name = assets[b].name => a = b
           /\ View(a) \in me.todo \/ assets[a].content = l[assets[a].name]
  BY <1>1, <1>2 DEF ComparedOK, ShapeOK
<1>4. \A a \in AssetsOf(r) : a \in DOMAIN assets' /\ assets'[a] = assets[a]
  <2> SUFFICES ASSUME NEW a \in AssetsOf(r) PROVE a \in DOMAIN assets' /\ assets'[a] = assets[a]
    OBVIOUS
  <2>1. a \in DOMAIN assets'
    <3>1. CASE View(a) \in me.todo
      BY <3>1 DEF View
    <3>2. CASE View(a) \notin me.todo
      BY <1>3, <3>2 DEF Keeps, Right
    <3> QED
      BY <3>1, <3>2
  <2> QED
    BY <2>1, IdFacts DEF Gentle, AssetsOf
<1>5. AssetsOf(r)' = AssetsOf(r)
  <2>1. AssetsOf(r)' \subseteq AssetsOf(r)
    BY <1>3 DEF Keeps
  <2>2. AssetsOf(r) \subseteq AssetsOf(r)'
    BY <1>4 DEF AssetsOf
  <2> QED
    BY <2>1, <2>2
<1>6. \A a \in AssetsOf(r) : View(a)' = View(a)
  BY <1>4 DEF View
<1> QED
  BY <1>3, <1>4, <1>5, <1>6 DEF ShapeOK

\* A comparison that is through has compared everything.
LEMMA ThroughIsExact ==
  ASSUME NEW me, ComparedOK(me), me.listed, me.todo = {}, me.rel \in DOMAIN rels
  PROVE  Exact(me.rel, me.local)
BY DEF ComparedOK, ShapeOK, Exact

\* Where releases are immutable a public one keeps whatever it holds.
LEMMA FrozenKeeps ==
  ASSUME Kind = "github", Immutable, HostOK, Request,
         NEW r, r \in DOMAIN rels => ~rels[r].draft, r < nextId, r \in Nat, NEW l
  PROVE  Keeps(r, l)
<1> SUFFICES ASSUME r \in DOMAIN rels'
             PROVE  AssetsOf(r)' = AssetsOf(r)
  BY DEF Keeps, AssetsOf
<1>1. r \in DOMAIN rels /\ Frozen(r)
  BY RequestGentle, GentleRelease DEF Frozen
<1>2. CASE UNCHANGED hostVars
  BY <1>2 DEF hostVars, AssetsOf
<1>3. ASSUME NEW t, CreateRelease(t) PROVE AssetsOf(r)' = AssetsOf(r)
  BY <1>3 DEF CreateRelease, AssetsOf
<1>4. ASSUME NEW q, RemoveRelease(q) PROVE AssetsOf(r)' = AssetsOf(r)
  BY <1>4 DEF RemoveRelease, Restrict, AssetsOf
<1>5. ASSUME NEW q, NEW n, NEW c, NEW st, CanStore(q, n), StoreAsset(q, n, c, st)
      PROVE  AssetsOf(r)' = AssetsOf(r)
  <2>1. q # r /\ nextId \notin DOMAIN assets
    BY <1>1, <1>5, IdFacts DEF CanStore
  <2> QED
    BY <1>5, <2>1 DEF StoreAsset, AssetsOf
<1>6. ASSUME NEW a, CanRemove(a), RemoveAsset(a) PROVE AssetsOf(r)' = AssetsOf(r)
  BY <1>1, <1>6 DEF CanRemove, RemoveAsset, Restrict, AssetsOf
<1>7. ASSUME NEW q, NEW z, PublishRelease(q, z) PROVE AssetsOf(r)' = AssetsOf(r)
  BY <1>7 DEF PublishRelease, AssetsOf
<1> QED
  BY <1>2, <1>3, <1>4, <1>5, <1>6, <1>7 DEF Request
-----------------------------------------------------------------------------
(***************************************************************************)
(* Immutable releases: whatever other jobs of the tag bring, a run that    *)
(* reports success has published its own files.                            *)
(***************************************************************************)
\* What a run knows of a release that is public.
PublicOK(me) ==
  /\ me.pc \in OnPublic => ComparedOK(me)
  /\ me.pc = "succeeded" /\ me.rel \in DOMAIN rels => Exact(me.rel, me.local)

FrozenInv == \A p \in Publishers : PublicOK(run[p])

\* A run that does not move goes on knowing it.
LEMMA PublicOKKept ==
  ASSUME Kind = "github", Immutable, HostOK, Request, NEW t, NEW me \in RunRecord,
         Basic(t, me), PublicOK(me)
  PROVE  PublicOK(me)'
<1>1. Gentle /\ me.rel \in Nat /\ me.rel < nextId
  BY RequestGentle DEF Basic, ReleaseOK, RunRecord
<1>2. ASSUME me.pc \in OnPublic \cup {"succeeded"} PROVE Keeps(me.rel, me.local)
  BY <1>1, <1>2, FrozenKeeps DEF Basic, ReleaseOK
<1>3. ASSUME me.pc \in OnPublic PROVE ComparedOK(me)'
  BY <1>1, <1>2, <1>3, ComparedKept DEF PublicOK
<1>4. ASSUME me.pc = "succeeded", me.rel \in DOMAIN rels' PROVE Exact(me.rel, me.local)'
  BY <1>1, <1>2, <1>4, GentleRelease, ExactKept DEF PublicOK
<1> QED
  BY <1>3, <1>4 DEF PublicOK

\* A run that moves knows it of the release it has compared.
LEMMA PublicOKMoved ==
  ASSUME Kind = "github", Immutable, HostOK, Request, NEW t, NEW me \in RunRecord,
         Basic(t, me), PublicOK(me), NEW x, Moved(t, me, x)
  PROVE  PublicOK(x)'
<1>1. Gentle /\ me.rel \in Nat /\ me.rel < nextId
  BY RequestGentle DEF Basic, ReleaseOK, RunRecord
<1>2. ASSUME x.pc \in OnPublic PROVE ComparedOK(x)'
  <2>1. CASE ~x.listed
    BY <2>1 DEF ComparedOK, ShapeOK
  <2>2. CASE x.listed
    <3>1. UNCHANGED hostVars /\ ComparedOK(x)
      BY <1>2, <2>2 DEF Moved, MovedCompared, PublicOK
    <3> QED
      BY <3>1 DEF hostVars, ComparedOK, ShapeOK, AssetsOf, View
  <2> QED
    BY <2>1, <2>2
<1>3. ASSUME x.pc = "succeeded", x.rel \in DOMAIN rels' PROVE Exact(x.rel, x.local)'
  <2>1. /\ x.rel = me.rel /\ x.local = me.local
        /\ me.pc \in OnPublic /\ me.listed /\ me.todo = {}
    BY <1>3 DEF Moved, MovedCompared
  <2>2. me.rel \in DOMAIN rels /\ ~rels[me.rel].draft
    BY <1>1, <1>3, <2>1, GentleRelease DEF Basic, ReleaseOK
  <2>3. Exact(me.rel, me.local)
    BY <2>1, <2>2, ThroughIsExact DEF PublicOK
  <2>4. Keeps(me.rel, me.local)
    BY <1>1, <2>2, FrozenKeeps
  <2> QED
    BY <1>1, <1>3, <2>1, <2>3, <2>4, ExactKept
<1> QED
  BY <1>2, <1>3 DEF PublicOK

\* Every step of a job keeps it.
LEMMA FrozenStep ==
  ASSUME Kind = "github", Immutable, BasicInv, FrozenInv,
         NEW p \in Publishers, Start(p) \/ Progress(p) \/ Trouble(p)
  PROVE  FrozenInv'
<1>1. HostOK /\ run \in [Publishers -> RunRecord] /\ Request
  BY StepRequests DEF BasicInv, TypeOK
<1>2. ASSUME NEW q \in Publishers, q # p PROVE PublicOK(run[q])'
  <2>1. PICK me : me = run[q]
    OBVIOUS
  <2>2. run'[q] = me
    BY <1>1, <1>2, <2>1, ChangesOnlyOwnRun
  <2>3. PublicOK(me)'
    BY <1>1, <2>1, PublicOKKept DEF BasicInv, FrozenInv
  <2> QED
    BY <2>2, <2>3
<1>3. PublicOK(run[p])'
  <2>1. PICK x : x = run'[p]
    OBVIOUS
  <2>2. CASE Start(p)
    <3>1. x.pc = "limits"
      BY <1>1, <2>1, <2>2 DEF Start, Continue, Blank
    <3>2. PublicOK(x)'
      BY <3>1 DEF PublicOK, OnPublic
    <3> QED
      BY <2>1, <3>2
  <2>3. CASE Progress(p) \/ Trouble(p)
    <3>1. Moved(TagOf[p], run[p], x)
      BY <2>1, <2>3, StepMoves DEF BasicInv, Basic
    <3>2. PublicOK(x)'
      BY <1>1, <3>1, PublicOKMoved DEF BasicInv, FrozenInv
    <3> QED
      BY <2>1, <3>2
  <2> QED
    BY <2>2, <2>3
<1> QED
  BY <1>2, <1>3 DEF FrozenInv

\* So does the arrival of a late request.
LEMMA FrozenArrival ==
  ASSUME Kind = "github", Immutable, BasicInv, FrozenInv, Request, UNCHANGED run
  PROVE  FrozenInv'
<1> SUFFICES ASSUME NEW p \in Publishers PROVE PublicOK(run[p])'
  BY DEF FrozenInv
<1>1. PICK me : me = run[p]
  OBVIOUS
<1>2. PublicOK(me)'
  BY <1>1, PublicOKKept DEF BasicInv, TypeOK, FrozenInv
<1> QED
  BY <1>1, <1>2

\* What such a run reports.
LEMMA FrozenReports == BasicInv /\ FrozenInv => ReportedStays
<1> SUFFICES ASSUME BasicInv, FrozenInv,
                    NEW p \in Publishers, run[p].pc = "succeeded", run[p].rel \in DOMAIN rels
             PROVE  run[p].rel \in PublishedOf(TagOf[p]) /\ Exact(run[p].rel, run[p].local)
  BY DEF ReportedStays
<1>1. Basic(TagOf[p], run[p]) /\ PublicOK(run[p])
  BY DEF BasicInv, FrozenInv
<1> QED
  BY <1>1 DEF Basic, ReleaseOK, PublicOK, PublishedOf, ReleasesOf

\* At the start nothing is reported.
LEMMA InitFrozen == Init => FrozenInv
BY DEF Init, FrozenInv, PublicOK, Blank, OnPublic

(* On GitHub with immutable releases a run succeeds only for a public      *)
(* release that holds its files, and this stays so as long as the release  *)
(* exists, with any files and any number of jobs on the tag                *)
(* (publish.go:250-264).                                                   *)
THEOREM ReportedStaysHolds ==
  ASSUME Kind = "github", Immutable PROVE Spec => []ReportedStays
<1>1. BasicInv /\ FrozenInv /\ [Next]_vars => BasicInv' /\ FrozenInv'
  <2>1. CASE UNCHANGED vars
    <3>1. BasicInv /\ UNCHANGED vars => TypeOK'
      BY HostUnchanged DEF vars, hostVars, TypeOK, BasicInv
    <3>2. BasicInv /\ UNCHANGED vars => \A p \in Publishers : Basic(TagOf[p], run[p])'
      BY DEF vars, BasicInv, Basic, ReleaseOK, DroppedOK, ListedOK, WorkOK, MemoOK, View
    <3>3. UNCHANGED vars => Request /\ UNCHANGED run
      BY DEF vars, hostVars, Request
    <3> QED
      BY <2>1, <3>1, <3>2, <3>3, FrozenArrival DEF BasicInv
  <2> QED
    BY <2>1, BasicStep, FrozenStep DEF Next
<1> QED
  BY InitBasic, InitFrozen, <1>1, FrozenReports, PTL DEF Spec

(* The same where requests arrive late.                                    *)
THEOREM ReportedStaysLate ==
  ASSUME Kind = "github", Immutable PROVE DSpec => []ReportedStays
<1>1. DBasicInv /\ FrozenInv /\ [DNext]_delayVars => DBasicInv' /\ FrozenInv'
  <2>1. CASE UNCHANGED delayVars
    <3>1. UNCHANGED delayVars => Request /\ UNCHANGED run
      BY DEF delayVars, hostVars, Request
    <3> QED
      BY <2>1, <3>1, DBasicStep, FrozenArrival DEF DBasicInv
  <2>2. ASSUME DBasicInv, FrozenInv, DNext PROVE FrozenInv'
    <3>1. ASSUME NEW q \in late, Arrives(q) PROVE FrozenInv'
      <4>1. Request /\ UNCHANGED run
        BY <2>2, <3>1, ArrivalServed DEF DBasicInv, DTypeOK, TypeOK
      <4> QED
        BY <2>2, <4>1, FrozenArrival DEF DBasicInv
    <3> QED
      BY <2>2, <3>1, DelayedSteps, DelayIsLoss, FrozenStep DEF DBasicInv
  <2> QED
    BY <2>1, <2>2, DBasicStep
<1>2. DInit => FrozenInv
  BY InitFrozen DEF DInit
<1>3. DBasicInv /\ FrozenInv => ReportedStays
  BY FrozenReports DEF DBasicInv
<1> QED
  BY InitDBasic, <1>1, <1>2, <1>3, PTL DEF DSpec
-----------------------------------------------------------------------------
(***************************************************************************)
(* One file set per tag on GitHub: nothing that is still on its way can do *)
(* more to a release than complete it.                                     *)
(***************************************************************************)
\* A step in which every release of a tag keeps the files of the tag's jobs.
KeepsFiles ==
  \A p \in Publishers : \A r \in ReleasesOf(TagOf[p]) : \A l \in LocalSets[p] : Keeps(r, l)

\* Where no asset of a release comes or goes, it keeps all files.
LEMMA SameAssetsKeep ==
  ASSUME NEW r, NEW l, r \in DOMAIN rels' => AssetsOf(r)' = AssetsOf(r)
  PROVE  Keeps(r, l)
BY DEF Keeps, AssetsOf

\* A stored asset takes a name no other asset of the release has.
LEMMA StoreKeeps ==
  ASSUME Kind = "github", HostOK, NEW q, NEW n, NEW c, NEW st,
         CanStore(q, n), StoreAsset(q, n, c, st),
         NEW r, NEW l, q = r => n \in DOMAIN l
  PROVE  Keeps(r, l)
<1>1. /\ DOMAIN assets' = DOMAIN assets \cup {nextId}
      /\ \A a \in DOMAIN assets : a # nextId => assets'[a] = assets[a]
      /\ assets'[nextId].rel = q
  BY DEF StoreAsset
<1>2. nextId \notin DOMAIN assets
  BY IdFacts
<1>3. CASE q = r
  <2>1. \A a \in AssetsOf(r) : assets[a].name # n
    BY <1>3 DEF CanStore
  <2> QED
    BY <1>1, <1>3, <2>1 DEF Keeps, AssetsOf
<1>4. CASE q # r
  <2>1. AssetsOf(r)' = AssetsOf(r)
    BY <1>1, <1>2, <1>4 DEF AssetsOf
  <2> QED
    BY <2>1, SameAssetsKeep
<1> QED
  BY <1>3, <1>4

\* A removed asset was not one of the files.
LEMMA RemoveKeeps ==
  ASSUME HostOK, NEW a, RemoveAsset(a), NEW r, NEW l, a \in AssetsOf(r) => ~Right(a, l)
  PROVE  Keeps(r, l)
<1>1. DOMAIN assets' = DOMAIN assets \ {a} /\ \A b \in DOMAIN assets' : assets'[b] = assets[b]
  BY DEF RemoveAsset, Restrict
<1>2. AssetsOf(r)' \subseteq AssetsOf(r)
  BY <1>1 DEF AssetsOf
<1> QED
  BY <1>1, <1>2 DEF Keeps, AssetsOf

\* What a run knows of the release it works on: it is of its tag, and it has its files.
LEMMA OwnFiles ==
  ASSUME OneFileSet, NEW p \in Publishers, RunOK(p, run[p]), run[p].pc # "idle",
         run[p].rel \in DOMAIN rels
  PROVE  /\ rels[run[p].rel].tag = TagOf[p]
         /\ run[p].local \in LocalSets[p]
         /\ \A q \in Publishers : TagOf[q] = TagOf[p] =>
              /\ LocalSets[q] = LocalSets[p]
              /\ \A l \in LocalSets[q] : l = run[p].local
BY DEF RunOK, Basic, ReleaseOK, OneFileSet

\* No step of a job takes a file away, or adds one to a release that is complete.
LEMMA StepKeepsFiles ==
  ASSUME Kind = "github", OneFileSet, HostOK,
         NEW p \in Publishers, RunOK(p, run[p]), Start(p) \/ Progress(p) \/ Trouble(p)
  PROVE  KeepsFiles
<1> SUFFICES ASSUME NEW q \in Publishers, NEW r \in ReleasesOf(TagOf[q]), NEW l \in LocalSets[q]
             PROVE  Keeps(r, l)
  BY DEF KeepsFiles
<1> DEFINE me == run[p]
<1>1. r \in DOMAIN rels /\ rels[r].tag = TagOf[q]
  BY DEF ReleasesOf
<1>2. CASE UNCHANGED assets
  BY <1>2, SameAssetsKeep DEF AssetsOf
<1>3. ASSUME NEW o, RemoveRelease(o) PROVE Keeps(r, l)
  <2>1. r \in DOMAIN rels' => AssetsOf(r)' = AssetsOf(r)
    BY <1>3 DEF RemoveRelease, Restrict, AssetsOf
  <2> QED
    BY <2>1, SameAssetsKeep
<1>4. ASSUME me.pc = "reconcile", NEW n \in me.missing, NEW c, NEW st,
             CanStore(me.rel, n), StoreAsset(me.rel, n, c, st)
      PROVE  Keeps(r, l)
  <2>1. n \in DOMAIN me.local
    BY <1>4 DEF RunOK, Basic, WorkOK
  <2>2. me.rel = r => l = me.local
    BY <1>1, <1>4, OwnFiles
  <2> QED
    BY <1>4, <2>1, <2>2, StoreKeeps
<1>5. ASSUME me.pc = "reconcile", NEW s \in me.doomed, RemoveAsset(s.id) PROVE Keeps(r, l)
  <2>1. ASSUME s.id \in AssetsOf(r) PROVE ~Right(s.id, l)
    <3>1. s.id \in DOMAIN assets /\ me.rel = r
      BY <2>1 DEF RunOK, Basic, ListedOK, AssetsOf
    <3>2. l = me.local
      BY <1>1, <1>5, <3>1, OwnFiles
    <3> QED
      BY <3>1, <3>2 DEF RunOK, WrongOK
  <2> QED
    BY <1>5, <2>1, RemoveKeeps
<1> HIDE DEF me
<1>6. UNCHANGED hostVars \/ CreateRelease(TagOf[p]) \/ PublishRelease(me.rel, me.latest)
        => UNCHANGED assets
  BY DEF hostVars, CreateRelease, PublishRelease
<1> QED
  BY <1>2, <1>3, <1>4, <1>5, <1>6, RequestOfStep DEF Sends, me

\* Nor does a request that arrives late.
LEMMA ArrivalKeepsFiles ==
  ASSUME Kind = "github", HostOK, NEW q \in LateRequest, LateOK(q), Arrives(q)
  PROVE  KeepsFiles
<1> SUFFICES ASSUME NEW p \in Publishers, NEW r \in ReleasesOf(TagOf[p]), NEW l \in LocalSets[p]
             PROVE  Keeps(r, l)
  BY DEF KeepsFiles
<1>1. r \in DOMAIN rels /\ rels[r].tag = TagOf[p]
  BY DEF ReleasesOf
<1>2. CASE UNCHANGED assets
  BY <1>2, SameAssetsKeep DEF AssetsOf
<1>3. ASSUME q.kind = "upload", NEW c, NEW st,
             CanStore(q.rel, q.name), StoreAsset(q.rel, q.name, c, st)
      PROVE  Keeps(r, l)
  <2>1. q.rel = r => q.name \in DOMAIN l
    BY <1>1, <1>3 DEF LateOK
  <2> QED
    BY <1>3, <2>1, StoreKeeps
<1>4. CASE DropArrives(q)
  <2>1. r \in DOMAIN rels' => AssetsOf(r)' = AssetsOf(r)
    BY <1>4 DEF DropArrives, RemoveRelease, Restrict, AssetsOf
  <2> QED
    BY <2>1, SameAssetsKeep
<1>5. ASSUME q.kind = "delete", RemoveAsset(q.asset) PROVE Keeps(r, l)
  <2>1. q.asset \in AssetsOf(r) => ~Right(q.asset, l)
    BY <1>1, <1>5 DEF LateOK, Surplus, AssetsOf
  <2> QED
    BY <1>5, <2>1, RemoveKeeps
<1>6. CASE DeleteArrives(q)
  BY <1>2, <1>5, <1>6 DEF DeleteArrives, hostVars
<1> QED
  BY <1>2, <1>3, <1>4, <1>6 DEF Arrives, CreateArrives, UploadArrives, PublishArrives,
                    CreateRelease, PublishRelease, hostVars

\* In such a step what a release holds exactly it goes on holding.
LEMMA FilesKept ==
  ASSUME HostOK, Gentle, KeepsFiles, NEW p \in Publishers, NEW l \in LocalSets[p],
         NEW r, r < nextId, r \in DOMAIN rels', r \in Nat,
         rels[r].tag = TagOf[p], Exact(r, l)
  PROVE  Exact(r, l)'
<1>1. r \in ReleasesOf(TagOf[p])
  BY GentleRelease DEF ReleasesOf
<1> QED
  BY <1>1, ExactKept DEF KeepsFiles

\* A run that does not move goes on knowing what it knew.
LEMMA RunKept ==
  ASSUME HostOK, Gentle, KeepsFiles, NEW p \in Publishers, NEW me \in RunRecord, RunOK(p, me)
  PROVE  RunOK(p, me)'
<1>1. Basic(TagOf[p], me)' /\ Basic(TagOf[p], me)
  BY BasicKept DEF RunOK
<1>2. me.rel \in Nat /\ me.rel < nextId
  BY <1>1 DEF Basic, ReleaseOK, RunRecord
<1>3. ASSUME me.rel \in DOMAIN rels', me.pc # "idle"
      PROVE  /\ rels[me.rel].tag = TagOf[p] /\ me.local \in LocalSets[p]
             /\ me.rel \in DOMAIN rels /\ Keeps(me.rel, me.local)
  <2>1. me.rel \in ReleasesOf(TagOf[p]) /\ me.local \in LocalSets[p]
    BY <1>1, <1>2, <1>3, GentleRelease DEF RunOK, Basic, ReleaseOK, ReleasesOf
  <2> QED
    BY <2>1 DEF KeepsFiles, ReleasesOf
<1>4. ComparedOK(me)'
  <2>1. CASE ~me.listed \/ me.rel \notin DOMAIN rels'
    BY <2>1 DEF ComparedOK, ShapeOK
  <2>2. CASE me.listed /\ me.rel \in DOMAIN rels'
    <3>1. me.pc # "idle"
      BY <1>1, <2>2 DEF Basic, WorkOK, CompareAt
    <3> QED
      BY <1>1, <1>3, <2>2, <3>1, ComparedKept DEF RunOK
  <2> QED
    BY <2>1, <2>2
<1>5. WrongOK(me)'
  <2>1. \A s \in me.doomed : s.id \in Nat /\ s.id < nextId
    BY <1>1 DEF Basic, ListedOK, RunRecord, AssetView
  <2> QED
    BY <2>1 DEF RunOK, WrongOK, Right, Gentle
<1>6. StillReady(me)'
  <2> SUFFICES ASSUME me.rel \in DOMAIN rels', me.pc \in {"latest", "guard", "publish"}
               PROVE  Exact(me.rel, me.local)'
    BY DEF StillReady, ReadyOK
  <2>1. Keeps(me.rel, me.local) /\ me.rel \in DOMAIN rels
    BY <1>3
  <2>2. Exact(me.rel, me.local)
    BY <2>1 DEF RunOK, StillReady, ReadyOK
  <2> QED
    BY <2>1, <2>2, ExactKept
<1> QED
  BY <1>1, <1>4, <1>5, <1>6 DEF RunOK

\* A run that starts knows nothing but its files.
LEMMA BlankRun ==
  ASSUME HostOK, NEW p \in Publishers, NEW pc \in {"idle", "limits"}, NEW l, NEW c, NEW n,
         pc # "idle" => l \in LocalSets[p]
  PROVE  RunOK(p, Blank(pc, l, c, n))
<1> DEFINE x == Blank(pc, l, c, n)
<1>1. Basic(TagOf[p], x)
  BY BlankBasic
<1>2. x.pc = pc /\ x.local = l /\ x.doomed = {} /\ ~x.listed
  BY DEF Blank
<1> HIDE DEF x
<1>3. RunOK(p, x)
  BY <1>1, <1>2 DEF RunOK, ComparedOK, ShapeOK, WrongOK, StillReady, ReadyOK
<1> QED
  BY <1>3 DEF x

\* A run under way is at work.
LEMMA StepIsWork ==
  ASSUME NEW p, Progress(p) \/ Trouble(p)
  PROVE  run[p].pc \in Working
BY DEF Progress, Trouble, CheckLimits, CheckTag, FindByTag, FindInList, ListOthers, DropOther,
       CreateDraft, CreateLost, ReconcileList, DeleteDoomed, CheckStored, Upload, UploadLost,
       EndRound, CompareList, CompareDownload, CompareDone, DecideLatest, SendPublish,
       PublishLost, Abort, Uploading, Working, FindAt, CompareAt

\* What a round sets aside for deletion is not the complete local file of its name.
LEMMA NewlyWrong ==
  ASSUME Kind = "github", TypeOK, NEW p \in Publishers, Basic(TagOf[p], run[p]),
         Start(p) \/ Progress(p) \/ Trouble(p),
         NEW s \in run'[p].doomed \ run[p].doomed, s.id \in DOMAIN assets
  PROVE  ~Right(s.id, run[p].local)
<1> DEFINE me == run[p]
<1>1. ~Matching(p, s) /\ s \in me.todo \cup ListAssets(me.rel) /\ HostOK
  BY DoomedNotMatching DEF TypeOK
<1>2. s = View(s.id) /\ assets[s.id].rel = me.rel
  BY <1>1, ListingFacts DEF Basic, ListedOK
<1>3. s.name = assets[s.id].name
  BY <1>2 DEF View
<1>4. \A b \in AssetsOf(me.rel) : assets[b].name = s.name => b = s.id
  BY <1>1, <1>2, <1>3 DEF HostOK, WellFormedStore, AssetsOf
<1> QED
  BY <1>1, <1>3, <1>4 DEF Matching, Right

\* A run that moves knows it of what it works on then.
LEMMA RunMoved ==
  ASSUME Kind = "github", TypeOK, Gentle, KeepsFiles,
         NEW p \in Publishers, RunOK(p, run[p]), Progress(p) \/ Trouble(p)
  PROVE  RunOK(p, run[p])'
<1>1. PICK me : me = run[p]
  OBVIOUS
<1>2. PICK x : x = run'[p]
  OBVIOUS
<1>3. /\ HostOK /\ me \in RunRecord
      /\ RunOK(p, me) /\ Basic(TagOf[p], me)
      /\ Moved(TagOf[p], me, x)
  BY <1>1, <1>2, StepMoves DEF TypeOK, RunOK, Basic
<1>4. Basic(TagOf[p], x)'
  BY <1>3, BasicMoved
<1>5. me.local \in LocalSets[p] /\ x.local = me.local
  BY <1>1, <1>3, StepIsWork DEF RunOK, Working, FindAt, CompareAt, Moved
<1>6. me.rel \in Nat /\ me.rel < nextId
  BY <1>3 DEF Basic, ReleaseOK, RunRecord
<1>7. ComparedOK(x)'
  <2>1. CASE ~x.listed
    BY <2>1 DEF ComparedOK, ShapeOK
  <2>2. CASE x.listed
    <3>1. UNCHANGED hostVars /\ ComparedOK(x)
      BY <1>3, <2>2 DEF Moved, MovedCompared, RunOK
    <3> QED
      BY <3>1 DEF hostVars, ComparedOK, ShapeOK, AssetsOf, View
  <2> QED
    BY <2>1, <2>2
<1>8. WrongOK(x)'
  <2> SUFFICES ASSUME NEW s \in x.doomed, s.id \in DOMAIN assets' PROVE ~Right(s.id, x.local)'
    BY DEF WrongOK
  <2>1. s.id \in Nat /\ s.id < nextId
    <3>1. s \in me.doomed \cup me.todo \cup ListAssets(me.rel)
      BY <1>3 DEF Moved, MovedLists
    <3>2. CASE s \in me.doomed \cup me.todo
      BY <1>3, <3>2 DEF Basic, ListedOK, RunRecord, AssetView
    <3>3. CASE s \in ListAssets(me.rel)
      BY <1>3, <3>3, ListingFacts, IdFacts
    <3> QED
      BY <3>1, <3>2, <3>3
  <2>2. s.id \in DOMAIN assets /\ assets'[s.id] = assets[s.id]
    BY <2>1 DEF Gentle
  <2>3. ~Right(s.id, me.local)
    <3>1. CASE s \in me.doomed
      BY <1>3, <2>2, <3>1 DEF RunOK, WrongOK
    <3>2. CASE s \notin me.doomed
      BY <1>1, <1>2, <1>3, <2>2, <3>2, NewlyWrong
    <3> QED
      BY <3>1, <3>2
  <2> QED
    BY <1>5, <2>2, <2>3 DEF Right
<1>9. StillReady(x)'
  <2> SUFFICES ASSUME x.rel \in DOMAIN rels', x.pc \in {"latest", "guard", "publish"}
               PROVE  Exact(x.rel, x.local)'
    BY DEF StillReady, ReadyOK
  <2>1. /\ x.rel = me.rel
        /\ \/ me.pc \in {"latest", "guard", "publish"}
           \/ me.pc = "final" /\ me.listed /\ me.todo = {}
    BY <1>3 DEF Moved, MovedCompared
  <2>2. me.rel \in DOMAIN rels /\ rels[me.rel].tag = TagOf[p]
    BY <1>3, <1>6, <2>1, GentleRelease DEF Basic, ReleaseOK
  <2>3. Exact(me.rel, me.local)
    BY <1>3, <2>1, <2>2, ThroughIsExact DEF RunOK, StillReady, ReadyOK
  <2> QED
    BY <1>3, <1>5, <1>6, <2>1, <2>2, <2>3, FilesKept
<1> QED
  BY <1>2, <1>4, <1>5, <1>7, <1>8, <1>9 DEF RunOK

\* A complete release stays complete.
LEMMA CompleteKept ==
  ASSUME HostOK, Gentle, KeepsFiles, NEW r \in Nat, r < nextId, r \in DOMAIN rels', Complete(r)
  PROVE  Complete(r)'
<1>1. r \in DOMAIN rels /\ rels'[r].tag = rels[r].tag
  BY GentleRelease
<1> SUFFICES ASSUME NEW p \in Publishers, TagOf[p] = rels[r].tag
             PROVE  \E l \in LocalSets[p] : Exact(r, l)'
  BY <1>1 DEF Complete
<1>2. PICK l \in LocalSets[p] : Exact(r, l)
  BY DEF Complete
<1>3. Exact(r, l)'
  BY <1>2, FilesKept
<1> QED
  BY <1>3

\* A request on its way goes on being what it was.
LEMMA LateKept ==
  ASSUME HostOK, HostOK', Gentle, KeepsFiles, NEW q \in LateRequest, LateOK(q)
  PROVE  LateOK(q)'
<1>1. nextId \in Nat /\ nextId' \in Nat /\ nextId <= nextId'
  BY DEF Gentle
<1>2. /\ q.kind \in {"upload", "publish", "drop"} => q.rel \in Nat
      /\ q.kind = "delete" => q.asset \in Nat
  BY DEF LateRequest
<1>3. ASSUME q.kind = "upload" PROVE LateOK(q)'
  BY <1>1, <1>2, <1>3, GentleRelease DEF LateOK, OfJob
<1>4. ASSUME q.kind = "publish" PROVE LateOK(q)'
  BY <1>1, <1>2, <1>4, GentleRelease, CompleteKept DEF LateOK
<1>5. ASSUME q.kind = "drop" PROVE LateOK(q)'
  BY <1>1, <1>2, <1>5 DEF LateOK
<1>6. ASSUME q.kind = "delete" PROVE LateOK(q)'
  <2>1. q.asset < nextId'
    BY <1>1, <1>2, <1>6 DEF LateOK
  <2>2. ASSUME q.asset \in DOMAIN assets' PROVE Surplus(q.asset)'
    <3>1. q.asset \in DOMAIN assets /\ assets'[q.asset] = assets[q.asset] /\ Surplus(q.asset)
      BY <1>2, <1>6, <2>2 DEF Gentle, LateOK
    <3>2. rels'[assets[q.asset].rel].tag = rels[assets[q.asset].rel].tag
      <4>1. assets[q.asset].rel \in DOMAIN rels /\ assets[q.asset].rel \in DOMAIN rels'
        BY <2>2, <3>1 DEF HostOK, WellFormedStore
      <4> QED
        BY <4>1, IdFacts, GentleRelease
    <3>3. \A l : Right(q.asset, l)' => Right(q.asset, l)
      BY <3>1 DEF Right
    <3> QED
      BY <3>1, <3>2, <3>3 DEF Surplus
  <2> QED
    BY <1>6, <2>1, <2>2 DEF LateOK
<1> QED
  BY <1>3, <1>4, <1>5, <1>6 DEF LateOK

\* What a run sends on its way completes its release, publishes it complete, or deletes
\* what is not of its files.
LEMMA LateSent ==
  ASSUME OneFileSet, NEW p \in Publishers, RunOK(p, run[p]), HostOK, NEW q, Sent(p, q)
  PROVE  LateOK(q)
<1> DEFINE me == run[p]
<1>1. me.rel < nextId
  BY DEF RunOK, Basic, ReleaseOK
<1>2. CASE q = LateCreate(TagOf[p])
  BY <1>2 DEF LateCreate, LateOK
<1>3. ASSUME me.pc = "reconcile", NEW n \in me.missing, q = LateUpload(me.rel, n, me.local[n])
      PROVE  LateOK(q)
  <2>1. q.kind = "upload" /\ q.rel = me.rel /\ q.name = n
    BY <1>3 DEF LateUpload
  <2>2. n \in DOMAIN me.local
    BY <1>3 DEF RunOK, Basic, WorkOK
  <2>3. ASSUME me.rel \in DOMAIN rels, NEW o \in Publishers, TagOf[o] = rels[me.rel].tag,
               NEW l \in LocalSets[o]
        PROVE  l = me.local
    BY <1>3, <2>3, OwnFiles
  <2>4. me.rel \in DOMAIN rels => OfJob(me.rel)
    BY DEF RunOK, Basic, ReleaseOK, OfJob
  <2> QED
    BY <1>1, <2>1, <2>2, <2>3, <2>4 DEF LateOK
<1>4. ASSUME me.pc = "publish", q = LatePublish(me.rel, me.latest) PROVE LateOK(q)
  <2>1. q.kind = "publish" /\ q.rel = me.rel
    BY <1>4 DEF LatePublish
  <2>2. ASSUME me.rel \in DOMAIN rels PROVE Complete(me.rel)
    <3>1. Exact(me.rel, me.local)
      BY <1>4, <2>2 DEF RunOK, StillReady, ReadyOK
    <3> QED
      BY <1>4, <2>2, <3>1, OwnFiles DEF Complete
  <2> QED
    BY <1>1, <2>1, <2>2 DEF LateOK
<1>5. ASSUME NEW o \in me.others, q = LateDrop(o.id) PROVE LateOK(q)
  <2>1. q.kind = "drop" /\ q.rel = o.id
    BY <1>5 DEF LateDrop
  <2>2. o.id < nextId
    BY DEF RunOK, Basic, DroppedOK
  <2> QED
    BY <2>1, <2>2 DEF LateOK
<1>6. ASSUME me.pc = "reconcile", NEW s \in me.doomed, q = LateDelete(s.id) PROVE LateOK(q)
  <2>1. q.kind = "delete" /\ q.asset = s.id
    BY <1>6 DEF LateDelete
  <2>2. s.id < nextId
    BY DEF RunOK, Basic, ListedOK
  <2>3. ASSUME s.id \in DOMAIN assets, NEW o \in Publishers,
               TagOf[o] = rels[assets[s.id].rel].tag, NEW l \in LocalSets[o]
        PROVE  ~Right(s.id, l)
    <3>1. assets[s.id].rel = me.rel /\ me.rel \in DOMAIN rels
      BY <2>3 DEF RunOK, Basic, ListedOK, HostOK, WellFormedStore
    <3>2. l = me.local
      BY <1>6, <2>3, <3>1, OwnFiles
    <3> QED
      BY <2>3, <3>2 DEF RunOK, WrongOK
  <2> QED
    BY <2>1, <2>2, <2>3 DEF LateOK, Surplus
<1> QED
  BY <1>2, <1>3, <1>4, <1>5, <1>6 DEF Sent

\* What is public stays complete, if only complete releases are made public.
LEMMA CompletePublicKept ==
  ASSUME HostOK, Gentle, KeepsFiles, PublicComplete,
         \A r \in DOMAIN rels' : GoesPublic(r) => r \in DOMAIN rels /\ Complete(r)
  PROVE  PublicComplete'
<1> SUFFICES ASSUME NEW p \in Publishers, NEW r \in PublishedOf(TagOf[p])'
             PROVE  \E l \in LocalSets[p] : Exact(r, l)'
  BY DEF PublicComplete
<1>1. r \in DOMAIN rels' /\ rels'[r].tag = TagOf[p] /\ ~rels'[r].draft
  BY DEF PublishedOf, ReleasesOf
<1>2. r \in DOMAIN rels => r \in Nat /\ r < nextId /\ rels'[r].tag = rels[r].tag
  BY <1>1, IdFacts, GentleRelease
<1>3. CASE GoesPublic(r)
  <2>1. r \in DOMAIN rels /\ Complete(r)
    BY <1>1, <1>3
  <2>2. Complete(r)'
    BY <1>1, <1>2, <2>1, CompleteKept
  <2> QED
    BY <1>1, <2>2 DEF Complete
<1>4. CASE ~GoesPublic(r)
  <2>1. r \in DOMAIN rels /\ ~rels[r].draft
    BY <1>1, <1>4 DEF GoesPublic
  <2>2. PICK l \in LocalSets[p] : Exact(r, l)
    BY <1>1, <1>2, <2>1 DEF PublicComplete, PublishedOf, ReleasesOf
  <2>3. Exact(r, l)'
    BY <1>1, <1>2, <2>1, <2>2, FilesKept
  <2> QED
    BY <2>3
<1> QED
  BY <1>3, <1>4

\* Only a call to publish, on time or late, makes a release visible.
LEMMA WhoPublishes ==
  ASSUME HostOK, NEW r \in DOMAIN rels', GoesPublic(r), Request
  PROVE  r \in DOMAIN rels /\ \E q, l : PublishRelease(q, l)
<1>1. ~UNCHANGED rels
  BY DEF GoesPublic
<1>2. ASSUME NEW t PROVE ~CreateRelease(t)
  BY DEF CreateRelease, GoesPublic
<1>3. ASSUME NEW q PROVE ~RemoveRelease(q)
  BY DEF RemoveRelease, Restrict, GoesPublic
<1>4. PICK q, l : PublishRelease(q, l)
  BY <1>1, <1>2, <1>3 DEF Request, StoreAsset, RemoveAsset, hostVars
<1> QED
  BY <1>4 DEF PublishRelease

\* And it is the release of the call.
LEMMA WhichIsPublished ==
  ASSUME HostOK, NEW r \in DOMAIN rels', GoesPublic(r), NEW q, NEW l, PublishRelease(q, l)
  PROVE  q = r
BY DEF PublishRelease, GoesPublic

\* A run publishes what it has compared.
LEMMA StepPublishesReady ==
  ASSUME HostOK, NEW p \in Publishers, RunOK(p, run[p]),
         Start(p) \/ Progress(p) \/ Trouble(p), NEW r \in DOMAIN rels', GoesPublic(r)
  PROVE  /\ r \in DOMAIN rels
         /\ run[p].pc = "publish" /\ run[p].rel = r /\ Exact(r, run[p].local)
<1> DEFINE me == run[p]
<1>1. r \in DOMAIN rels
  BY StepRequests, WhoPublishes
<1>2. me.pc = "publish" /\ PublishRelease(me.rel, me.latest)
  <2>1. ~UNCHANGED rels
    BY DEF GoesPublic
  <2>2. ASSUME NEW t PROVE ~CreateRelease(t)
    BY DEF CreateRelease, GoesPublic
  <2>3. ASSUME NEW q PROVE ~RemoveRelease(q)
    BY DEF RemoveRelease, Restrict, GoesPublic
  <2> QED
    BY <2>1, <2>2, <2>3, RequestOfStep DEF Sends, StoreAsset, RemoveAsset, hostVars
<1>3. me.rel = r
  BY <1>2, WhichIsPublished
<1>4. Exact(r, me.local)
  BY <1>1, <1>2, <1>3 DEF RunOK, StillReady, ReadyOK
<1> QED
  BY <1>1, <1>2, <1>3, <1>4

LEMMA StepPublishesComplete ==
  ASSUME OneFileSet, HostOK, NEW p \in Publishers, RunOK(p, run[p]),
         Start(p) \/ Progress(p) \/ Trouble(p), NEW r \in DOMAIN rels', GoesPublic(r)
  PROVE  r \in DOMAIN rels /\ Complete(r)
BY StepPublishesReady, OwnFiles DEF Complete

\* So does a late call.
LEMMA ArrivalPublishesComplete ==
  ASSUME HostOK, NEW q \in LateRequest, LateOK(q), Arrives(q),
         NEW r \in DOMAIN rels', GoesPublic(r)
  PROVE  r \in DOMAIN rels /\ Complete(r)
<1>1. r \in DOMAIN rels
  BY ArrivalServed, WhoPublishes
<1>2. ~UNCHANGED rels
  BY DEF GoesPublic
<1>3. ASSUME NEW t PROVE ~CreateRelease(t)
  BY DEF CreateRelease, GoesPublic
<1>4. q.kind = "publish" /\ PublishRelease(q.rel, q.latest)
  <2>1. ASSUME NEW o PROVE ~RemoveRelease(o)
    BY DEF RemoveRelease, Restrict, GoesPublic
  <2> QED
    BY <1>2, <1>3, <2>1 DEF Arrives, CreateArrives, UploadArrives, PublishArrives, DropArrives,
                            DeleteArrives, StoreAsset, RemoveAsset, hostVars
<1>5. q.rel = r
  BY <1>4, WhichIsPublished
<1> QED
  BY <1>1, <1>4, <1>5 DEF LateOK

RunsInv == TypeOK /\ \A p \in Publishers : RunOK(p, run[p])

\* A step of a job keeps what all runs know, and the files of all releases.
LEMMA RunsStep ==
  ASSUME Kind = "github", OneFileSet, RunsInv,
         NEW p \in Publishers, Start(p) \/ Progress(p) \/ Trouble(p)
  PROVE  RunsInv' /\ Gentle /\ KeepsFiles
<1>1. TypeOK /\ HostOK /\ run \in [Publishers -> RunRecord] /\ RunOK(p, run[p])
  BY DEF RunsInv, TypeOK
<1>2. Gentle /\ KeepsFiles
  BY <1>1, StepRequests, RequestGentle, StepKeepsFiles
<1>3. ASSUME NEW q \in Publishers, q # p PROVE RunOK(q, run[q])'
  <2>1. PICK me : me = run[q]
    OBVIOUS
  <2>2. run'[q] = me
    BY <1>1, <1>3, <2>1, ChangesOnlyOwnRun
  <2>3. RunOK(q, me)'
    BY <1>1, <1>2, <2>1, RunKept DEF RunsInv
  <2> QED
    BY <2>2, <2>3
<1>4. RunOK(p, run[p])'
  <2>1. CASE Start(p)
    <3>1. PICK x : x = run'[p]
      OBVIOUS
    <3>2. PICK l \in LocalSets[p], c \in Commits :
            Continue(p, Blank("limits", l, c, run[p].runs + 1))
      BY <2>1 DEF Start
    <3>3. PICK n : x = Blank("limits", l, c, n)
      BY <1>1, <3>1, <3>2 DEF Continue
    <3>4. RunOK(p, x)
      BY <1>1, <3>3, BlankRun
    <3>5. x \in RunRecord
      <4>1. TypeOK'
        BY <1>1, <2>1, ReadsTyped
      <4> QED
        BY <3>1, <4>1 DEF TypeOK
    <3>6. RunOK(p, x)'
      BY <1>1, <1>2, <3>4, <3>5, RunKept
    <3> QED
      BY <3>1, <3>6
  <2>2. CASE Progress(p) \/ Trouble(p)
    BY <1>1, <1>2, <2>2, RunMoved
  <2> QED
    BY <2>1, <2>2
<1>5. TypeOK'
  <2>1. BasicInv
    BY DEF RunsInv, BasicInv, RunOK
  <2> QED
    BY <2>1, BasicStep DEF BasicInv
<1> QED
  BY <1>2, <1>3, <1>4, <1>5 DEF RunsInv

\* What is public or on its way, too, whether or not a request of the step stays on its way.
LEMMA CompleteStep ==
  ASSUME Kind = "github", OneFileSet, DelayedInv,
         NEW p \in Publishers, Start(p) \/ Progress(p) \/ Trouble(p)
  PROVE  /\ \A q \in Publishers : RunOK(q, run[q])'
         /\ \A q \in late : LateOK(q)'
         /\ PublicComplete'
<1>1. HostOK /\ late \subseteq LateRequest /\ RunsInv /\ RunOK(p, run[p])
  BY DEF DelayedInv, DTypeOK, TypeOK, RunsInv
<1>2. RunsInv' /\ Gentle /\ KeepsFiles
  BY <1>1, RunsStep
<1>3. \A q \in late : LateOK(q)'
  BY <1>1, <1>2, LateKept DEF DelayedInv, RunsInv, TypeOK
<1>4. PublicComplete'
  BY <1>1, <1>2, StepPublishesComplete, CompletePublicKept DEF DelayedInv
<1> QED
  BY <1>2, <1>3, <1>4 DEF RunsInv

\* The arrival of a late request.
LEMMA CompleteArrival ==
  ASSUME Kind = "github", OneFileSet, DelayedInv, NEW q \in late, Arrives(q)
  PROVE  /\ \A p \in Publishers : RunOK(p, run[p])'
         /\ \A z \in late' : LateOK(z)'
         /\ PublicComplete'
<1>1. /\ TypeOK /\ HostOK /\ run \in [Publishers -> RunRecord] /\ late \subseteq LateRequest
      /\ LateOK(q)
  BY DEF DelayedInv, DTypeOK, TypeOK
<1>2. /\ Gentle /\ KeepsFiles /\ HostOK'
      /\ run' = run /\ late' = late \ {q}
  BY <1>1, ArrivalServed, RequestGentle, ArrivalKeepsFiles
<1>3. ASSUME NEW p \in Publishers PROVE RunOK(p, run[p])'
  <2>1. PICK me : me = run[p]
    OBVIOUS
  <2>2. RunOK(p, me)'
    BY <1>1, <1>2, <2>1, RunKept DEF DelayedInv
  <2> QED
    BY <1>2, <2>1, <2>2
<1>4. \A z \in late' : LateOK(z)'
  <2> SUFFICES ASSUME NEW z \in late' PROVE LateOK(z)'
    OBVIOUS
  <2>1. z \in late /\ z \in LateRequest /\ LateOK(z)
    BY <1>1, <1>2 DEF DelayedInv
  <2> QED
    BY <1>1, <1>2, <2>1, LateKept
<1>5. PublicComplete'
  BY <1>1, <1>2, ArrivalPublishesComplete, CompletePublicKept DEF DelayedInv
<1> QED
  BY <1>3, <1>4, <1>5

\* What is known of the release store is known as long as the store and the runs stay.
LEMMA CompleteStutter ==
  ASSUME DelayedInv, UNCHANGED <<rels, assets, nextId, run, late>>
  PROVE  /\ \A p \in Publishers : RunOK(p, run[p])'
         /\ \A q \in late : LateOK(q)'
         /\ PublicComplete'
<1>1. ASSUME NEW p \in Publishers PROVE RunOK(p, run[p])'
  BY DEF DelayedInv, RunOK, Basic, ReleaseOK, DroppedOK, ListedOK, WorkOK, MemoOK, View,
         ComparedOK, ShapeOK, WrongOK, Right, StillReady, ReadyOK, Exact, AssetsOf
<1>2. ASSUME NEW q \in late PROVE LateOK(q)'
  BY DEF DelayedInv, LateOK, OfJob, Surplus, Right, Complete, Exact, AssetsOf
<1>3. PublicComplete'
  BY DEF DelayedInv, PublicComplete, PublishedOf, ReleasesOf, Exact, AssetsOf
<1> QED
  BY <1>1, <1>2, <1>3

\* What a delayed request says is true when it is sent.
LEMMA SentLate ==
  ASSUME OneFileSet, DelayedInv, NEW p \in Publishers, SendDelayed(p)
  PROVE  \A q \in late' : q \in late \/ LateOK(q)
<1>1. RunOK(p, run[p]) /\ HostOK
  BY DEF DelayedInv, DTypeOK, TypeOK
<1>2. PICK q : Sent(p, q) /\ late' = late \cup {q}
  BY DelaySends
<1>3. LateOK(q)
  BY <1>1, <1>2, LateSent
<1> QED
  BY <1>2, <1>3

\* The invariant is inductive.
LEMMA DelayedStep ==
  ASSUME Kind = "github", OneFileSet, DelayedInv, [DNext]_delayVars PROVE DelayedInv'
<1>1. DTypeOK'
  <2>1. DBasicInv
    BY DEF DelayedInv, DBasicInv, DTypeOK, BasicInv, RunOK
  <2> QED
    BY <2>1, DBasicStep DEF DBasicInv
<1>2. ASSUME NEW p \in Publishers, Start(p) \/ Progress(p) \/ Trouble(p),
             \A q \in late' : q \in late \/ LateOK(q)'
      PROVE  DelayedInv'
  BY <1>1, <1>2, CompleteStep DEF DelayedInv
<1>3. ASSUME NEW p \in Publishers, Start(p) \/ Progress(p) \/ Trouble(p), UNCHANGED <<late, delays>>
      PROVE  DelayedInv'
  BY <1>2, <1>3
<1>4. ASSUME NEW p \in Publishers, SendDelayed(p)
      PROVE  DelayedInv'
  <2>1. Trouble(p) /\ UNCHANGED hostVars /\ \A q \in late' : q \in late \/ LateOK(q)
    BY <1>4, DelayIsLoss, SentLate
  <2>2. \A q : LateOK(q) => LateOK(q)'
    BY <2>1 DEF hostVars, LateOK, OfJob, Surplus, Right, Complete, Exact, AssetsOf
  <2> QED
    BY <1>2, <2>1, <2>2
<1>5. ASSUME NEW q \in late, Arrives(q) PROVE DelayedInv'
  BY <1>1, <1>5, CompleteArrival DEF DelayedInv
<1>6. CASE UNCHANGED delayVars
  BY <1>1, <1>6, CompleteStutter DEF DelayedInv, delayVars
<1> QED
  BY <1>3, <1>4, <1>5, <1>6, DelayedSteps

\* It holds at the start if what is public then is complete.
LEMMA InitDelayed == DInit /\ PublicComplete => DelayedInv
<1> SUFFICES ASSUME DInit, PublicComplete, NEW p \in Publishers
             PROVE  DTypeOK /\ RunOK(p, run[p]) /\ late = {}
  BY InitDBasic DEF DelayedInv, DInit, DBasicInv
<1>1. DTypeOK /\ HostOK
  BY InitDBasic DEF DBasicInv, DTypeOK, TypeOK
<1>2. RunOK(p, run[p])
  BY <1>1, BlankRun DEF DInit, Init
<1> QED
  BY <1>1, <1>2 DEF DInit

(* What is on its way, too, is one of the requests a run sends.            *)
THEOREM DelayedTyped == DSpec => []DTypeOK
<1>1. DBasicInv => DTypeOK
  BY DEF DBasicInv
<1> QED
  BY InitDBasic, DBasicStep, <1>1, PTL DEF DSpec

(* If all jobs of a tag bring the same files, DelayedInv holds on GitHub,  *)
(* with any number of jobs on the tag, any losses, and any requests that   *)
(* arrive during a later step or run: whatever a run or a late request     *)
(* will still do to a release can only complete it (publish.go:312-400 and *)
(* 468-501).  What is public at the start must be complete.                *)
THEOREM DelayedHolds ==
  ASSUME Kind = "github", OneFileSet
  PROVE  PublicComplete /\ DSpec => []DelayedInv
<1>1. DelayedInv /\ [DNext]_delayVars => DelayedInv'
  BY DelayedStep
<1> QED
  BY InitDelayed, <1>1, PTL DEF DSpec

(* So whatever is public of a tag is all of the files, once each and       *)
(* nothing else, whatever is lost and whatever arrives late (CONTRACT 4.2  *)
(* and 4.3; publish.go:216-248).                                           *)
THEOREM PublicCompleteHolds ==
  ASSUME Kind = "github", OneFileSet
  PROVE  PublicComplete /\ DSpec => []PublicComplete
<1>1. DelayedInv => PublicComplete
  BY DEF DelayedInv
<1> QED
  BY DelayedHolds, <1>1, PTL

\* A run that reports success reports a complete public release.
LEMMA CompleteReports ==
  ASSUME OneFileSet, DelayedInv, NEW p \in Publishers,
         run[p].pc = "succeeded", run[p].rel \in DOMAIN rels
  PROVE  run[p].rel \in PublishedOf(TagOf[p]) /\ Exact(run[p].rel, run[p].local)
<1>1. RunOK(p, run[p])
  BY DEF DelayedInv
<1>2. run[p].rel \in PublishedOf(TagOf[p])
  BY <1>1 DEF RunOK, Basic, ReleaseOK, PublishedOf, ReleasesOf
<1>3. PICK l \in LocalSets[p] : Exact(run[p].rel, l)
  BY <1>2 DEF DelayedInv, PublicComplete
<1> QED
  BY <1>1, <1>2, <1>3, OwnFiles

(* And what a run reported stays so for as long as the release exists,     *)
(* where releases are not immutable either (publish.go:250-264).           *)
THEOREM ReportedStaysOneSet ==
  ASSUME Kind = "github", OneFileSet
  PROVE  PublicComplete /\ DSpec => []ReportedStays
<1>1. DelayedInv => ReportedStays
  BY CompleteReports DEF ReportedStays
<1> QED
  BY DelayedHolds, <1>1, PTL

(* If all jobs of a tag bring the same files, a release on GitHub becomes  *)
(* public only in the state in which it holds exactly the files of the run *)
(* that publishes it, however many jobs are at work on the tag (CONTRACT   *)
(* 4.2; publish.go:216-232).                                               *)
THEOREM AllOrNothingOneSet ==
  ASSUME Kind = "github", OneFileSet PROVE Spec => AllOrNothing
<1>1. Init => RunsInv
  <2> SUFFICES ASSUME Init, NEW p \in Publishers PROVE TypeOK /\ RunOK(p, run[p])
    BY InitTyped DEF RunsInv
  <2>1. TypeOK
    BY InitTyped
  <2> QED
    BY <2>1, BlankRun DEF Init, TypeOK
<1>2. RunsInv /\ [Next]_vars => RunsInv'
  <2>1. ASSUME RunsInv, UNCHANGED vars PROVE RunsInv'
    <3>1. TypeOK'
      BY <2>1, HostUnchanged DEF vars, hostVars, TypeOK, RunsInv
    <3>2. ASSUME NEW p \in Publishers PROVE RunOK(p, run[p])'
      BY <2>1 DEF vars, RunsInv, RunOK, Basic, ReleaseOK, DroppedOK, ListedOK, WorkOK, MemoOK, View,
                  ComparedOK, ShapeOK, WrongOK, Right, StillReady, ReadyOK, Exact, AssetsOf
    <3> QED
      BY <3>1, <3>2 DEF RunsInv
  <2> QED
    BY <2>1, RunsStep DEF Next
<1>3. RunsInv /\ [Next]_vars =>
        [\A r \in DOMAIN rels' : GoesPublic(r) =>
           \E p \in Publishers : /\ run[p].pc = "publish"
                                 /\ run[p].rel = r
                                 /\ Exact(r, run[p].local)]_vars
  <2> SUFFICES ASSUME RunsInv, NEW p \in Publishers, Start(p) \/ Progress(p) \/ Trouble(p),
                      NEW r \in DOMAIN rels', GoesPublic(r)
               PROVE  run[p].pc = "publish" /\ run[p].rel = r /\ Exact(r, run[p].local)
    BY DEF Next
  <2> QED
    BY StepPublishesReady DEF RunsInv, TypeOK
<1> QED
  BY <1>1, <1>2, <1>3, PTL DEF Spec, AllOrNothing
-----------------------------------------------------------------------------
(***************************************************************************)
(* One job per tag: nothing but a late DELETE takes back what a run has    *)
(* seen to be public.                                                      *)
(***************************************************************************)
\* A job deletes releases of its own tag, before it has a release of its own.
LEMMA DropsOwnTag ==
  ASSUME BasicInv, NEW p \in Publishers, Start(p) \/ Progress(p) \/ Trouble(p)
  PROVE  \/ DOMAIN rels \subseteq DOMAIN rels'
         \/ /\ run[p].pc = "drop"
            /\ \A r \in DOMAIN rels : rels[r].tag # TagOf[p] => r \in DOMAIN rels'
<1>1. CASE run[p].pc = "drop" /\ \E o \in run[p].others : RemoveRelease(o.id)
  <2>1. PICK o \in run[p].others : RemoveRelease(o.id)
    BY <1>1
  <2>2. o.id \in DOMAIN rels => rels[o.id].tag = TagOf[p]
    BY DEF BasicInv, Basic, DroppedOK
  <2> QED
    BY <1>1, <2>1, <2>2 DEF RemoveRelease, Restrict
<1>2. CASE ~(run[p].pc = "drop" /\ \E o \in run[p].others : RemoveRelease(o.id))
  BY <1>2, RequestOfStep
     DEF Sends, CreateRelease, StoreAsset, RemoveAsset, PublishRelease, hostVars
<1> QED
  BY <1>1, <1>2

\* A late DELETE of a release deletes the one it names.
LEMMA ArrivalDrops ==
  ASSUME NEW q \in LateRequest, Arrives(q), NEW r \in DOMAIN rels, r \notin DOMAIN rels'
  PROVE  q = LateDrop(r)
<1>1. CASE DropArrives(q)
  <2>1. q.rel = r
    BY <1>1 DEF DropArrives, RemoveRelease, Restrict
  <2>2. q.kind = "drop"
    BY <1>1 DEF DropArrives
  <2>3. q \in [kind : {"drop"}, rel : Nat]
    BY <2>2 DEF LateRequest
  <2> QED
    BY <2>1, <2>3 DEF LateDrop
<1>2. CASE ~DropArrives(q)
  BY <1>2 DEF Arrives, CreateArrives, UploadArrives, PublishArrives, DeleteArrives,
              CreateRelease, StoreAsset, RemoveAsset, PublishRelease, hostVars
<1> QED
  BY <1>1, <1>2

\* A release that stays in the store stays public, with the same assets.
LEMMA PublicUntouched ==
  ASSUME DelayedInv, Gentle, KeepsFiles, NEW p \in Publishers, NEW r \in PublishedOf(TagOf[p]),
         r \in DOMAIN rels'
  PROVE  /\ r \in PublishedOf(TagOf[p])'
         /\ AssetsOf(r)' = AssetsOf(r)
         /\ \A a \in AssetsOf(r) : assets'[a] = assets[a]
<1>1. HostOK
  BY DEF DelayedInv, DTypeOK, TypeOK
<1>2. r \in DOMAIN rels /\ rels[r].tag = TagOf[p] /\ ~rels[r].draft
  BY DEF PublishedOf, ReleasesOf
<1>3. r \in PublishedOf(TagOf[p])'
  BY <1>1, <1>2, IdFacts DEF Gentle, PublishedOf, ReleasesOf
<1>4. PICK l \in LocalSets[p] : Exact(r, l)
  BY DEF DelayedInv, PublicComplete
<1>5. Keeps(r, l)
  BY <1>2 DEF KeepsFiles, ReleasesOf
<1> QED
  BY <1>1, <1>3, <1>4, <1>5, ExactSame

(* On GitHub, with one job and one file set per tag, what a run has seen   *)
(* to be public, or has reported, stays public and stays the same, however *)
(* late the requests of earlier runs arrive, unless one of them is the     *)
(* DELETE of that release, sent when it was a leftover draft               *)
(* (publish.go:293-306).  What is public at the start must be complete.    *)
THEOREM SeenPublicStaysHolds ==
  ASSUME Kind = "github", OneFileSet, OneJobPerTag
  PROVE  PublicComplete /\ DSpec => SeenPublicStays
<1> DEFINE Seen(p, r) == /\ run[p].rel = r
                        /\ run[p].pc \in {"already", "confirm", "recheck", "succeeded"}
                        /\ LateDrop(r) \notin late
           Stays(p, r) == /\ r \in PublishedOf(TagOf[p])'
                          /\ AssetsOf(r)' = AssetsOf(r)
                          /\ \A a \in AssetsOf(r) : assets'[a] = assets[a]
<1>1. ASSUME DelayedInv, DNext, NEW p \in Publishers, NEW r \in DOMAIN rels, Seen(p, r)
      PROVE  Stays(p, r)
  <2>1. /\ DBasicInv /\ RunsInv /\ HostOK /\ late \subseteq LateRequest
        /\ run \in [Publishers -> RunRecord]
    BY <1>1 DEF DelayedInv, DBasicInv, RunsInv, DTypeOK, TypeOK, BasicInv, RunOK
  <2>2. r \in PublishedOf(TagOf[p])
    BY <1>1 DEF DelayedInv, RunOK, Basic, ReleaseOK, OnPublic, PublishedOf, ReleasesOf
  <2>3. rels[r].tag = TagOf[p]
    BY <2>2 DEF PublishedOf, ReleasesOf
  <2>4. ASSUME NEW q \in Publishers, Start(q) \/ Progress(q) \/ Trouble(q) PROVE Stays(p, r)
    <3>1. Gentle /\ KeepsFiles
      BY <2>1, <2>4, RunsStep
    <3>2. r \in DOMAIN rels'
      <4>1. CASE q = p
        <5>1. run[q].pc # "drop"
          BY <1>1, <4>1
        <5> QED
          BY <2>1, <2>4, <5>1, DropsOwnTag DEF DBasicInv
      <4>2. CASE q # p
        <5>1. TagOf[q] # TagOf[p]
          BY <4>2 DEF OneJobPerTag
        <5> QED
          BY <2>1, <2>3, <2>4, <5>1, DropsOwnTag DEF DBasicInv
      <4> QED
        BY <4>1, <4>2
    <3> QED
      BY <1>1, <2>2, <3>1, <3>2, PublicUntouched
  <2>5. ASSUME NEW q \in late, Arrives(q) PROVE Stays(p, r)
    <3>1. q \in LateRequest /\ LateOK(q)
      BY <1>1, <2>1, <2>5 DEF DelayedInv
    <3>2. Gentle /\ KeepsFiles
      BY <2>1, <2>5, <3>1, ArrivalServed, RequestGentle, ArrivalKeepsFiles
    <3>3. r \in DOMAIN rels'
      BY <1>1, <2>5, <3>1, ArrivalDrops
    <3> QED
      BY <1>1, <2>2, <3>2, <3>3, PublicUntouched
  <2> HIDE DEF Stays
  <2> QED
    BY <1>1, <2>4, <2>5, DelayedSteps, DelayIsLoss
<1>2. DelayedInv /\ [DNext]_delayVars =>
        [\A p \in Publishers : \A r \in DOMAIN rels :
           /\ run[p].rel = r
           /\ run[p].pc \in {"already", "confirm", "recheck", "succeeded"}
           /\ LateDrop(r) \notin late
           => /\ r \in PublishedOf(TagOf[p])'
              /\ AssetsOf(r)' = AssetsOf(r)
              /\ \A a \in AssetsOf(r) : assets'[a] = assets[a]]_delayVars
  BY <1>1
<1> HIDE DEF Seen, Stays
<1> QED
  BY DelayedHolds, <1>2, PTL DEF DSpec, SeenPublicStays
=============================================================================
