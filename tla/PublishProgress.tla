-------------------------- MODULE PublishProgress --------------------------
(***************************************************************************)
(* Why runs end and reruns converge, said without temporal operators:      *)
(* every step of a run lowers what is left of it, a working run always has *)
(* a next request, and before its release is public a run fails only for a *)
(* fault of its own.  Together with fairness these make Terminates and     *)
(* Converges.                                                              *)
(***************************************************************************)
EXTENDS PublishInvariant

\* The places of a run in the order of the code, from its end.
Phase(pc) ==
  CASE pc = "limits"                -> 13
    [] pc = "tag"                   -> 12
    [] pc = "find"                  -> 11
    [] pc \in {"others", "create"}  -> 10
    [] pc \in {"drop", "refind"}    -> 9
    [] pc \in {"list", "reconcile"} -> 8
    [] pc \in {"final", "already"}  -> 7
    [] pc = "latest"                -> 6
    [] pc = "guard"                 -> 5
    [] pc = "publish"               -> 4
    [] pc = "reread"                -> 3
    [] pc = "confirm"               -> 2
    [] pc = "recheck"               -> 1
    [] OTHER                        -> 0

\* The first of two requests: by tag before the list, the listing before what it shows.
AtFirst(me) ==
  \/ me.pc = "list"
  \/ me.pc \in FindAt /\ ~me.scan
  \/ me.pc \in CompareAt /\ ~me.listed

\* What a run still has in hand; an asset to download may have to be deleted after that.
InHand(me) ==
  2 * Cardinality(me.todo) + Cardinality(me.doomed)
    + Cardinality(me.missing) + Cardinality(me.others)

\* What is left of a run when f faults have happened, the weightiest first.
LeftOf(f, me) ==
  <<MaxFaults - f, Phase(me.pc), Rounds - me.round, IF AtFirst(me) THEN 1 ELSE 0, InHand(me)>>

Left(p) == LeftOf(faults, run[p])

\* Fewer at the first place where they differ.
Below(u, v) == \E j \in 1..5 : u[j] < v[j] /\ \A i \in 1..(j - 1) : u[i] = v[i]

(* Every step of a run brings it nearer to its end, and no step of another *)
(* job, nor anything else but a new start, takes it further away: rounds   *)
(* are counted, what is set aside is dealt with once, and a request is     *)
(* sent again only after a fault (publish.go:140-266, 323-399).            *)
RunsWindDown ==
  [][\A p \in Publishers :
       /\ Progress(p) \/ Trouble(p) => Below(Left(p)', Left(p))
       /\ run'[p].runs = run[p].runs => Left(p)' = Left(p) \/ Below(Left(p)', Left(p))]_vars

(* A working run always has a next request: there is a release left to     *)
(* drop, an asset it may delete, one to check, or a name to upload unless  *)
(* the round is over (publish.go:286-399).                                 *)
NeverStuck ==
  \A p \in Publishers :
    LET me == run[p] IN
    /\ me.pc = "drop" => me.others # {}
    /\ me.pc = "reconcile" =>
         \/ \E s \in me.doomed : me.cur \in {NoName, s.name}
         \/ me.doomed = {} /\ me.cur = NoName

\* The files of a run are finitely many.
FiniteFiles == \A p \in Publishers : \A l \in LocalSets[p] : IsFiniteSet(DOMAIN l)

\* What makes both hold: all sets are finite, rounds stay within their bound, and while
\* the assets of a name are being deleted there is one left.
Bounded(me) ==
  /\ IsFiniteSet(DOMAIN me.local) /\ IsFiniteSet(me.others)
  /\ IsFiniteSet(me.doomed) /\ IsFiniteSet(me.todo)
  /\ me.missing \subseteq DOMAIN me.local
  /\ me.round <= Rounds
  /\ me.pc = "drop" => me.others # {}
  /\ me.cur # NoName => me.pc = "reconcile" /\ \E s \in me.doomed : s.name = me.cur

BoundedInv == TypeOK /\ \A p \in Publishers : Bounded(run[p])
-----------------------------------------------------------------------------
\* Nothing speaks against the runs of a job from the start.
Fit(p) ==
  /\ \A l \in LocalSets[p] : WithinLimits(l)
  /\ \A c \in Commits : RemoteTag[TagOf[p]] = c

(* Before a tag is public every failed run of its job is paid for by a     *)
(* fault: whatever the store held at the start and whatever earlier runs   *)
(* left behind, a run to which nothing happens does not fail (CONTRACT     *)
(* 4.4, interrupted runs converge).  One more run than there are faults is *)
(* therefore enough, with other files each time if need be.                *)
FailuresPaid ==
  Rounds > 1 =>
    \A p \in Publishers : Fit(p) /\ PublishedOf(TagOf[p]) = {} =>
      run[p].runs <= faults + (IF run[p].pc \in {"idle", "failed"} THEN 0 ELSE 1)

\* A run has the files and the commit of its job.
Brings(p, me) == me.pc # "idle" => me.local \in LocalSets[p] /\ me.commit \in Commits

\* Asset a of the release is one that a round has found, or made, to be right.
Kept(a, me) == View(a) \notin me.doomed \cup me.todo

\* A round: what it keeps is right, what it does not keep it will upload, and of every
\* name at most one asset will be left.
FillOK(me) ==
  /\ me.doomed \cap me.todo = {}
  /\ \A s \in me.todo : s.id \in DOMAIN assets /\ s.state = "uploaded"
  /\ \A a \in AssetsOf(me.rel) :
       Kept(a, me) => Right(a, me.local) /\ assets[a].name \notin me.missing
  /\ \A n \in DOMAIN me.local \ me.missing :
       \E a \in AssetsOf(me.rel) : assets[a].name = n /\ Kept(a, me)
  /\ \A a, b \in AssetsOf(me.rel) :
       View(a) \notin me.doomed /\ View(b) \notin me.doomed /\ assets[a].name = assets[b].name
         => a = b

\* The second round finds everything as the first one left it.
SecondRound(me) ==
  /\ Exact(me.rel, me.local)
  /\ me.pc = "reconcile" =>
       /\ me.doomed = {} /\ ~me.changed
       /\ \A n \in me.missing : \E s \in me.todo : s.name = n

\* A run to which nothing has happened so far has everything it needs.
OnCourse(me) ==
  /\ me.pc \notin {"failed", "refind", "reread"}
  /\ me.pc \in {"limits", "tag", "find", "others", "drop", "create"} => me.round = 1
  /\ me.pc = "drop" => \A o \in me.others : o.draft
  /\ me.pc = "reconcile" => FillOK(me)
  /\ me.pc \in {"list", "reconcile"} => me.round \in {1, 2}
  /\ me.pc \in {"list", "reconcile"} /\ me.round = 2 => SecondRound(me)
  /\ me.pc = "final" => Exact(me.rel, me.local) /\ \A s \in me.todo : s.id \in DOMAIN assets

\* Every run so far but the present one has been paid for, and the present one fares well
\* as long as it is not.
Paid(p) ==
  /\ run[p].runs <= faults + (IF run[p].pc \in {"idle", "failed"} THEN 0 ELSE 1)
  /\ run[p].runs > faults => OnCourse(run[p])

PaidInv ==
  /\ \A p \in Publishers : Brings(p, run[p])
  /\ Rounds > 1 => \A p \in Publishers : Fit(p) /\ PublishedOf(TagOf[p]) = {} => Paid(p)
=============================================================================
