--------------------------- MODULE PublishDelayed ---------------------------
(***************************************************************************)
(* Publish with requests that outlive the client's patience.  In Publish a *)
(* request without an answer has its effect by the time the run goes on,   *)
(* or never.  Here it may also stay on its way and have its effect during  *)
(* a later step, or a later run: a timeout of the client, or the end of    *)
(* its process, does not call a request back (HttpClient has the same).    *)
(*                                                                         *)
(* Reads change nothing by arriving late.  Nor does a copy of a DELETE     *)
(* that was repeated with success: what it names is gone, and ids are not  *)
(* used twice.  But a DELETE that its run gave up on, or whose run was     *)
(* killed, still names what is there, and by the time it arrives a rerun   *)
(* may have kept the release or the asset it names.                        *)
(***************************************************************************)
EXTENDS Publish

CONSTANT MaxLate  \* bound on the requests that are delayed

ASSUME DelayAssumption == MaxLate \in Nat

VARIABLES
  late,   \* the requests on their way without a client
  delays  \* how many there have been

delayVars == <<rels, assets, nextId, run, faults, late, delays>>

LateCreate(t)       == [kind |-> "create", tag |-> t]
LateUpload(r, n, c) == [kind |-> "upload", rel |-> r, name |-> n, content |-> c]
LatePublish(r, l)   == [kind |-> "publish", rel |-> r, latest |-> l]
LateDrop(r)         == [kind |-> "drop", rel |-> r]
LateDelete(a)       == [kind |-> "delete", asset |-> a]

DInit == Init /\ late = {} /\ delays = 0

Delay(q) ==
  /\ delays < MaxLate /\ delays' = delays + 1
  /\ late' = late \cup {q}
  /\ Fault
  /\ UNCHANGED hostVars

\* As CreateLost, UploadLost and PublishLost, with the effect still to come.
CreateDelayed(p) ==
  /\ run[p].pc = "create"
  /\ Goto(p, "refind")
  /\ Delay(LateCreate(TagOf[p]))

UploadDelayed(p) ==
  /\ Uploading(run[p])
  /\ \E n \in run[p].missing :
       /\ Continue(p, Attempted(run[p], n))
       /\ Delay(LateUpload(run[p].rel, n, run[p].local[n]))

PublishCallDelayed(p) ==
  /\ run[p].pc = "publish"
  /\ \E pc \in {"publish", "reread"} : Goto(p, pc)
  /\ Delay(LatePublish(run[p].rel, run[p].latest))

\* As Abort before DropOther and DeleteDoomed, with the effect of the DELETE still to come.
DropDelayed(p) ==
  /\ run[p].pc = "drop"
  /\ \E o \in run[p].others : o.draft /\ Delay(LateDrop(o.id))
  /\ Fail(p)

DeleteDelayed(p) ==
  /\ run[p].pc = "reconcile"
  /\ \E s \in run[p].doomed : run[p].cur \in {NoName, s.name} /\ Delay(LateDelete(s.id))
  /\ Fail(p)

SendDelayed(p) ==
  \/ CreateDelayed(p) \/ UploadDelayed(p) \/ PublishCallDelayed(p)
  \/ DropDelayed(p) \/ DeleteDelayed(p)

Arrived(q) == q \in late /\ late' = late \ {q} /\ UNCHANGED <<run, faults, delays>>

CreateArrives(q) ==
  /\ q.kind = "create"
  /\ Arrived(q)
  /\ IF CanCreate(q.tag) THEN CreateRelease(q.tag) ELSE UNCHANGED hostVars

UploadArrives(q) ==
  /\ q.kind = "upload"
  /\ Arrived(q)
  /\ IF CanStore(q.rel, q.name)
       THEN \/ StoreAsset(q.rel, q.name, q.content, "uploaded")
            \/ Kind = "github" /\ StoreAsset(q.rel, q.name, Partial, "starter")
       ELSE UNCHANGED hostVars

PublishArrives(q) ==
  /\ q.kind = "publish"
  /\ Arrived(q)
  /\ IF CanPublish(q.rel) THEN PublishRelease(q.rel, q.latest) ELSE UNCHANGED hostVars

DropArrives(q) ==
  /\ q.kind = "drop"
  /\ Arrived(q)
  /\ RemoveRelease(q.rel)

DeleteArrives(q) ==
  /\ q.kind = "delete"
  /\ Arrived(q)
  /\ IF CanRemove(q.asset) THEN RemoveAsset(q.asset) ELSE UNCHANGED hostVars

Arrives(q) ==
  \/ CreateArrives(q) \/ UploadArrives(q) \/ PublishArrives(q)
  \/ DropArrives(q) \/ DeleteArrives(q)

OnTime == Next /\ UNCHANGED <<late, delays>>

DNext ==
  \/ OnTime
  \/ \E p \in Publishers : SendDelayed(p)
  \/ \E q \in late : Arrives(q)

DSpec == DInit /\ [][DNext]_delayVars

\* As Fairness of Publish; nothing makes a late request arrive.
DFairness ==
  \A p \in Publishers :
    /\ WF_delayVars(Progress(p) /\ UNCHANGED <<late, delays>>)
    /\ WF_delayVars(run[p].pc # "succeeded" /\ Start(p) /\ UNCHANGED <<late, delays>>)

DFairSpec == DSpec /\ DFairness
-----------------------------------------------------------------------------
(* CONTRACT 4.2, nothing visible before it is complete, and 4.3: whatever  *)
(* is public of a job's tag is exactly a set of files of that job, each    *)
(* once, also when a request of an earlier run arrives afterwards          *)
(* (publish.go:216-248).                                                   *)
PublicComplete ==
  \A p \in Publishers : \A r \in PublishedOf(TagOf[p]) :
    \E l \in LocalSets[p] : Exact(r, l)

(* CONTRACT 4.3 as far as it holds where DELETEs arrive late: a release    *)
(* that a run has seen to be public, or has reported, stays public with    *)
(* the same assets, whatever else is still on its way, unless one thing    *)
(* is: the DELETE of that very release, which an earlier run sent when it  *)
(* was a leftover draft and gave up on (publish.go:302).                   *)
SeenPublicStays ==
  [][\A p \in Publishers : \A r \in DOMAIN rels :
       /\ run[p].rel = r
       /\ run[p].pc \in {"already", "confirm", "recheck", "succeeded"}
       /\ LateDrop(r) \notin late
       => /\ r \in PublishedOf(TagOf[p])'
          /\ AssetsOf(r)' = AssetsOf(r)
          /\ \A a \in AssetsOf(r) : assets'[a] = assets[a]]_delayVars

=============================================================================
