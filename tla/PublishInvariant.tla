------------------------- MODULE PublishInvariant --------------------------
(***************************************************************************)
(* The inductive invariant behind the promises of Publish, for jobs that   *)
(* each have a tag of their own (the concurrency group of                  *)
(* .github/workflows/release.yml sees to that on GitHub).  Its parts speak *)
(* of a tag t and of what a run me of that tag knows.                      *)
(***************************************************************************)
EXTENDS Publish

OneJobPerTag == \A p, q \in Publishers : TagOf[p] = TagOf[q] => p = q

\* Where a run works on a draft, on a public release, or on either.
OnDraft  == {"others", "drop", "list", "reconcile", "final", "latest", "guard"}
OnPublic == {"already", "confirm", "recheck"}
Holding  == OnDraft \cup OnPublic \cup {"publish", "reread"}

\* From here on the release is the only one of its tag.
Settled == {"list", "reconcile", "final", "latest", "guard", "publish"}

\* The release a run works on exists, is of its tag, and is as visible as it thinks.
OwnRelease(t, me) ==
  me.pc \in Holding =>
    /\ me.rel \in DOMAIN rels
    /\ rels[me.rel].tag = t
    /\ me.pc \in OnDraft => rels[me.rel].draft
    /\ me.pc \in OnPublic => ~rels[me.rel].draft

\* What the list said of the other releases of the tag is still true.
OthersOK(t, me) ==
  /\ me.pc # "drop" => me.others = {}
  /\ \A o \in me.others :
       /\ o.id # me.rel
       /\ o.id < nextId
       /\ o.id \in DOMAIN rels => rels[o.id].tag = t /\ rels[o.id].draft = o.draft

\* The other releases of the tag are those still to be dropped, then there are none.
AloneOK(t, me) ==
  /\ me.pc = "create" => ReleasesOf(t) = {}
  /\ me.pc = "refind" => \A q, r \in ReleasesOf(t) : q = r
  /\ me.pc = "drop" =>
       \A r \in ReleasesOf(t) : r = me.rel \/ \E o \in me.others : o.id = r
  /\ me.pc \in Settled => \A r \in ReleasesOf(t) : r = me.rel

\* The checks before anything is created were passed.
CheckedOK(t, me) ==
  /\ me.pc \in Working \ {"limits"} => WithinLimits(me.local)
  /\ me.pc \in Working \ {"limits", "tag"} => RemoteTag[t] = me.commit

\* What the listing said of the assets still to be looked at is still true.
ListedOK(me) ==
  \A s \in me.doomed \cup me.todo :
    /\ s.id < nextId
    /\ s.id \in DOMAIN assets => s = View(s.id) /\ assets[s.id].rel = me.rel

\* Only a round deletes, only a round and a comparison download.
WorkOK(me) ==
  /\ me.doomed # {} => me.pc = "reconcile"
  /\ me.todo # {} => me.pc \in {"reconcile"} \cup CompareAt
  /\ me.listed => me.pc \in CompareAt
  /\ \A s \in me.todo : s.name \in DOMAIN me.local
  /\ me.missing \subseteq DOMAIN me.local

\* A remembered asset id stands for the bytes that were hashed.
MemoOK(me) ==
  \A m \in me.memo :
    /\ m[1] < nextId
    /\ m[1] \in DOMAIN assets => assets[m[1]].content = m[2]

\* An asset that is the complete local file of its name.
Right(a, l) ==
  /\ assets[a].name \in DOMAIN l
  /\ assets[a].content = l[assets[a].name]
  /\ assets[a].state = "uploaded"

\* A comparison under way: the shape is right, and so is every asset not left to download.
ShapeOK(me) ==
  me.listed =>
    /\ \A n \in DOMAIN me.local : \E a \in AssetsOf(me.rel) : assets[a].name = n
    /\ \A a \in AssetsOf(me.rel) :
         /\ assets[a].name \in DOMAIN me.local
         /\ assets[a].state = "uploaded"
         /\ \A b \in AssetsOf(me.rel) : assets[a].name = assets[b].name => a = b
         /\ View(a) \in me.todo \/ assets[a].content = me.local[assets[a].name]

\* Compared: the release holds exactly the local set until it is public.
ReadyOK(me) == me.pc \in {"latest", "guard", "publish"} => Exact(me.rel, me.local)

SuccessOK(t, me) ==
  me.pc = "succeeded" =>
    /\ me.rel \in DOMAIN rels
    /\ rels[me.rel].tag = t
    /\ ~rels[me.rel].draft
    /\ Exact(me.rel, me.local)

Own(t, me) ==
  /\ OwnRelease(t, me) /\ OthersOK(t, me) /\ AloneOK(t, me) /\ CheckedOK(t, me)
  /\ ListedOK(me) /\ WorkOK(me) /\ MemoOK(me)
  /\ ShapeOK(me) /\ ReadyOK(me) /\ SuccessOK(t, me)

OwnInv(p) == Own(TagOf[p], run[p])

(* Everything a run has read of the store and will still rely on is true   *)
(* of the store: this is what makes publishing after separate requests     *)
(* safe, as long as no other job works on the same tag.                    *)
IInv == TypeOK /\ \A p \in Publishers : OwnInv(p)
=============================================================================
