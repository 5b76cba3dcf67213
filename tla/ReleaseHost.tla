---------------------------- MODULE ReleaseHost ----------------------------
(***************************************************************************)
(* The release store of a hosting platform, as the HTTP clients of         *)
(* internal/host see it.  The platform itself is not in the repository;    *)
(* what it does is taken from internal/host/fake/fake.go, the server the   *)
(* tests run against, which records the documented behaviour of GitHub     *)
(* and of Forgejo.                                                         *)
(*                                                                         *)
(* The operators below are what one served request does to the store, or   *)
(* what one request answers.  Who sends which request, and what gets lost  *)
(* on the way, is the business of the modules that use this one.           *)
(***************************************************************************)
EXTENDS Naturals, FiniteSets, Functions

CONSTANTS
  Kind,       \* "github" or "forgejo"
  Immutable,  \* GitHub: published releases cannot be changed any more
  Tags,       \* release tags
  Names,      \* asset names
  Contents,   \* asset contents that are complete files
  Partial,    \* the bytes of an upload that was cut short
  NoDigest,   \* the platform gives no digest
  Size        \* size of a content, in bytes

Bytes == Contents \cup {Partial}

ASSUME HostAssumption ==
  /\ Kind \in {"github", "forgejo"}
  /\ Immutable \in BOOLEAN
  /\ Size \in [Bytes -> Nat]
  /\ NoDigest \notin Bytes
  /\ Partial \notin Contents

VARIABLES
  rels,    \* release id -> release, for the releases that exist
  assets,  \* asset id -> asset, for the assets that exist
  nextId   \* the next id to give out; ids are never given out twice

hostVars == <<rels, assets, nextId>>

ReleaseRecord == [tag : Tags, draft : BOOLEAN, latest : BOOLEAN]
AssetRecord   == [rel : Nat, name : Names, content : Bytes,
                  state : {"uploaded", "starter"}]

(***************************************************************************)
(* A store as a platform keeps it: ids below the next id, every asset on a *)
(* release that exists, and what each platform refuses to hold twice: on   *)
(* GitHub two published releases of a tag or two assets of one name on a   *)
(* release, on Forgejo two releases of a tag.  Forgejo has no half-stored  *)
(* assets.                                                                 *)
(***************************************************************************)
WellFormedStore(R, A, n) ==
  /\ n \in Nat \ {0}
  /\ DOMAIN R \subseteq 1 .. (n - 1)
  /\ DOMAIN A \subseteq 1 .. (n - 1)
  /\ R \in [DOMAIN R -> ReleaseRecord]
  /\ A \in [DOMAIN A -> AssetRecord]
  /\ \A a \in DOMAIN A : A[a].rel \in DOMAIN R
  /\ \A q, r \in DOMAIN R :
       R[q].tag = R[r].tag /\ (Kind = "forgejo" \/ (~R[q].draft /\ ~R[r].draft)) => q = r
  /\ Kind = "github" =>
       \A a, b \in DOMAIN A : A[a].rel = A[b].rel /\ A[a].name = A[b].name => a = b
  /\ Kind = "forgejo" => \A a \in DOMAIN A : A[a].state = "uploaded"

HostOK == WellFormedStore(rels, assets, nextId)
-----------------------------------------------------------------------------
ReleasesOf(t)  == {r \in DOMAIN rels : rels[r].tag = t}
PublishedOf(t) == {r \in ReleasesOf(t) : ~rels[r].draft}
AssetsOf(r)    == {a \in DOMAIN assets : assets[a].rel = r}

\* Mutant: a platform without immutable releases.
FrozenNever(r) == FALSE

\* Deleting an asset from such a release, or adding one to it, is refused.
Frozen(r) == Kind = "github" /\ Immutable /\ ~rels[r].draft

(***************************************************************************)
(* What a listing says of an asset.  GitHub computes a digest of every     *)
(* asset that is completely stored; Forgejo has no digests.                *)
(***************************************************************************)
View(a) ==
  [id     |-> a,
   name   |-> assets[a].name,
   state  |-> assets[a].state,
   size   |-> Size[assets[a].content],
   digest |-> IF Kind = "github" /\ assets[a].state = "uploaded"
                THEN assets[a].content ELSE NoDigest]

AssetView == [id : Nat, name : Names, state : {"uploaded", "starter"},
              size : Nat, digest : Bytes \cup {NoDigest}]

ListAssets(r) == {View(a) : a \in AssetsOf(r)}

\* One answer of the release list: who is there, of which tag, and visible or not.
ListReleases ==
  {[id |-> r, tag |-> rels[r].tag, draft |-> rels[r].draft] : r \in DOMAIN rels}
-----------------------------------------------------------------------------
\* POST /releases with draft=true.  Forgejo refuses a second release of a tag.
CanCreate(t) == Kind = "forgejo" => ReleasesOf(t) = {}

CreateRelease(t) ==
  /\ rels' = [r \in DOMAIN rels \cup {nextId} |->
                IF r = nextId THEN [tag |-> t, draft |-> TRUE, latest |-> FALSE]
                              ELSE rels[r]]
  /\ nextId' = nextId + 1
  /\ UNCHANGED assets

\* Mutant: the assets of a deleted release are left behind.
RemoveReleaseOnly(r) == rels' = Restrict(rels, DOMAIN rels \ {r}) /\ UNCHANGED <<assets, nextId>>

\* DELETE /releases/{id}; an id that is gone answers 404, which the clients accept.
RemoveRelease(r) ==
  /\ rels' = Restrict(rels, DOMAIN rels \ {r})
  /\ assets' = Restrict(assets, DOMAIN assets \ AssetsOf(r))
  /\ UNCHANGED nextId

\* POST /releases/{id}/assets.  GitHub refuses a name that is taken; Forgejo stores
\* a second asset of the same name.
CanStore(r, n) ==
  /\ r \in DOMAIN rels
  /\ ~Frozen(r)
  /\ Kind = "github" => \A a \in AssetsOf(r) : assets[a].name # n

StoreAsset(r, n, c, st) ==
  /\ assets' = [a \in DOMAIN assets \cup {nextId} |->
                  IF a = nextId THEN [rel |-> r, name |-> n, content |-> c, state |-> st]
                                ELSE assets[a]]
  /\ nextId' = nextId + 1
  /\ UNCHANGED rels

\* DELETE of an asset; one that is gone answers 404, which the clients accept.
CanRemove(a) == a \in DOMAIN assets => ~Frozen(assets[a].rel)

RemoveAsset(a) ==
  /\ assets' = Restrict(assets, DOMAIN assets \ {a})
  /\ UNCHANGED <<rels, nextId>>

\* PATCH /releases/{id} with draft=false.  GitHub keeps one published release per tag
\* and takes make_latest from the request; Forgejo knows no "latest".
CanPublish(r) ==
  /\ r \in DOMAIN rels
  /\ Kind = "github" /\ rels[r].draft => PublishedOf(rels[r].tag) = {}

PublishRelease(r, makeLatest) ==
  /\ rels' = [rels EXCEPT ![r].draft  = FALSE,
                          ![r].latest = Kind = "github" /\ makeLatest]
  /\ UNCHANGED <<assets, nextId>>
=============================================================================
