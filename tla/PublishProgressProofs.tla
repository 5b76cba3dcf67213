----------------------- MODULE PublishProgressProofs -----------------------
(***************************************************************************)
(* Why runs end and reruns converge, for every value of the constants.     *)
(* First, for any jobs, several of one tag included: every step of a run   *)
(* lowers a well-founded measure, and no run gets stuck.  Then, for jobs   *)
(* with a tag each: a run to which nothing happens does not fail before    *)
(* its tag is public.                                                      *)
(***************************************************************************)
EXTENDS DelayedProofs, PublishProgress, FiniteSetTheorems

Places == [1..5 -> Nat]

\* There is no endless descent of five numbers compared from the first on.
LEMMA NoEndlessDescent ==
  ~\E f \in [Nat -> Places] : \A n \in Nat : Below(f[n + 1], f[n])
<1> DEFINE R == OpToRel(<, Nat)
           L == LexProductOrdering(R, Nat, 5)
<1>1. IsWellFoundedOn(R, Nat)
  BY NatLessThanWellFounded
<1>2. \A x, y \in Nat : x < y => <<x, y>> \in R
  BY DEF OpToRel
<1> HIDE DEF R
<1>3. IsWellFoundedOn(L, Places)
  BY <1>1, WFLexProductOrdering DEF Places
<1>4. ASSUME NEW u \in Places, NEW v \in Places, Below(u, v) PROVE <<u, v>> \in L
  BY <1>2, <1>4 DEF L, LexProductOrdering, Below, Places
<1> HIDE DEF L
<1> SUFFICES ASSUME NEW f \in [Nat -> Places], \A n \in Nat : Below(f[n + 1], f[n])
             PROVE  FALSE
  OBVIOUS
<1>5. \A n \in Nat : <<f[n + 1], f[n]>> \in L
  BY <1>4
<1> QED
  BY <1>3, <1>5 DEF IsWellFoundedOn

\* The first place that is lower decides.
LEMMA BelowAt ==
  ASSUME NEW a1 \in Nat, NEW a2 \in Nat, NEW a3 \in Nat, NEW a4 \in Nat, NEW a5 \in Nat,
         NEW b1 \in Nat, NEW b2 \in Nat, NEW b3 \in Nat, NEW b4 \in Nat, NEW b5 \in Nat,
         \/ a1 < b1
         \/ a1 = b1 /\ a2 < b2
         \/ a1 = b1 /\ a2 = b2 /\ a3 < b3
         \/ a1 = b1 /\ a2 = b2 /\ a3 = b3 /\ a4 < b4
         \/ a1 = b1 /\ a2 = b2 /\ a3 = b3 /\ a4 = b4 /\ a5 < b5
  PROVE  Below(<<a1, a2, a3, a4, a5>>, <<b1, b2, b3, b4, b5>>)
<1> DEFINE u == <<a1, a2, a3, a4, a5>>
           v == <<b1, b2, b3, b4, b5>>
<1>1. /\ u[1] = a1 /\ u[2] = a2 /\ u[3] = a3 /\ u[4] = a4 /\ u[5] = a5
      /\ v[1] = b1 /\ v[2] = b2 /\ v[3] = b3 /\ v[4] = b4 /\ v[5] = b5
  OBVIOUS
<1> SUFFICES Below(u, v)
  OBVIOUS
<1> HIDE DEF u, v
<1>2. ASSUME NEW j \in 1..5, u[j] < v[j], \A i \in 1..(j - 1) : u[i] = v[i]
      PROVE  Below(u, v)
  BY <1>2 DEF Below
<1>3. CASE a1 < b1
  <2>1. \A i \in 1..(1 - 1) : u[i] = v[i]
    OBVIOUS
  <2> QED
    BY <1>1, <1>2, <1>3, <2>1
<1>4. CASE a1 = b1 /\ a2 < b2
  <2>1. \A i \in 1..(2 - 1) : i = 1
    OBVIOUS
  <2>2. \A i \in 1..(2 - 1) : u[i] = v[i]
    BY <1>1, <1>4, <2>1
  <2> QED
    BY <1>1, <1>2, <1>4, <2>2
<1>5. CASE a1 = b1 /\ a2 = b2 /\ a3 < b3
  <2>1. \A i \in 1..(3 - 1) : i \in {1, 2}
    OBVIOUS
  <2>2. \A i \in 1..(3 - 1) : u[i] = v[i]
    BY <1>1, <1>5, <2>1
  <2> QED
    BY <1>1, <1>2, <1>5, <2>2
<1>6. CASE a1 = b1 /\ a2 = b2 /\ a3 = b3 /\ a4 < b4
  <2>1. \A i \in 1..(4 - 1) : i \in {1, 2, 3}
    OBVIOUS
  <2>2. \A i \in 1..(4 - 1) : u[i] = v[i]
    BY <1>1, <1>6, <2>1
  <2> QED
    BY <1>1, <1>2, <1>6, <2>2
<1>7. CASE a1 = b1 /\ a2 = b2 /\ a3 = b3 /\ a4 = b4 /\ a5 < b5
  <2>1. \A i \in 1..(5 - 1) : i \in {1, 2, 3, 4}
    OBVIOUS
  <2>2. \A i \in 1..(5 - 1) : u[i] = v[i]
    BY <1>1, <1>7, <2>1
  <2> QED
    BY <1>1, <1>2, <1>7, <2>2
<1> QED
  BY <1>3, <1>4, <1>5, <1>6, <1>7

LEMMA PhaseType == \A pc : Phase(pc) \in Nat
  BY DEF Phase

\* The sets a run has in hand are finite.
LEMMA InHandType ==
  ASSUME NEW me \in RunRecord, Bounded(me)
  PROVE  /\ IsFiniteSet(me.missing)
         /\ Cardinality(me.todo) \in Nat /\ Cardinality(me.doomed) \in Nat
         /\ Cardinality(me.missing) \in Nat /\ Cardinality(me.others) \in Nat
         /\ InHand(me) \in Nat
<1>1. IsFiniteSet(me.missing)
  BY FS_Subset DEF Bounded
<1>2. /\ Cardinality(me.todo) \in Nat /\ Cardinality(me.doomed) \in Nat
      /\ Cardinality(me.missing) \in Nat /\ Cardinality(me.others) \in Nat
  BY <1>1, FS_CardinalityType DEF Bounded
<1> QED
  BY <1>1, <1>2 DEF InHand

\* What is left of a run is five natural numbers.
LEMMA LeftType ==
  ASSUME NEW f \in 0..MaxFaults, NEW me \in RunRecord, Bounded(me)
  PROVE  LeftOf(f, me) \in Places
<1>1. MaxFaults - f \in Nat
  BY PublishAssumption
<1>2. Rounds - me.round \in Nat
  BY PublishAssumption DEF RunRecord, Bounded
<1>3. (IF AtFirst(me) THEN 1 ELSE 0) \in Nat
  OBVIOUS
<1> QED
  BY <1>1, <1>2, <1>3, PhaseType, InHandType DEF LeftOf, Places

\* From record me to record x a run comes nearer to its end.
Closer(me, x) ==
  \/ Phase(x.pc) < Phase(me.pc)
  \/ /\ Phase(x.pc) = Phase(me.pc)
     /\ \/ me.round < x.round
        \/ /\ me.round = x.round
           /\ \/ AtFirst(me) /\ ~AtFirst(x)
              \/ (AtFirst(me) <=> AtFirst(x)) /\ InHand(x) < InHand(me)

LEMMA CloserIsBelow ==
  ASSUME NEW f \in 0..MaxFaults, NEW g \in 0..MaxFaults,
         NEW me \in RunRecord, NEW x \in RunRecord, Bounded(me), Bounded(x),
         f < g \/ (f = g /\ Closer(me, x))
  PROVE  Below(LeftOf(g, x), LeftOf(f, me))
<1> DEFINE first(r) == IF AtFirst(r) THEN 1 ELSE 0
<1>1. /\ MaxFaults - f \in Nat /\ MaxFaults - g \in Nat
      /\ f < g => MaxFaults - g < MaxFaults - f
  BY PublishAssumption
<1>2. /\ Rounds - me.round \in Nat /\ Rounds - x.round \in Nat
      /\ me.round < x.round => Rounds - x.round < Rounds - me.round
  BY PublishAssumption DEF RunRecord, Bounded
<1>3. /\ first(me) \in Nat /\ first(x) \in Nat
      /\ AtFirst(me) /\ ~AtFirst(x) => first(x) < first(me)
      /\ (AtFirst(me) <=> AtFirst(x)) => first(x) = first(me)
  OBVIOUS
<1>4. InHand(me) \in Nat /\ InHand(x) \in Nat
  BY InHandType
<1>5. Phase(me.pc) \in Nat /\ Phase(x.pc) \in Nat
  BY PhaseType
<1>6. LeftOf(g, x) = <<MaxFaults - g, Phase(x.pc), Rounds - x.round, first(x), InHand(x)>>
      /\ LeftOf(f, me) = <<MaxFaults - f, Phase(me.pc), Rounds - me.round, first(me), InHand(me)>>
  BY DEF LeftOf
<1>7. \/ MaxFaults - g < MaxFaults - f
      \/ MaxFaults - g = MaxFaults - f /\ Phase(x.pc) < Phase(me.pc)
      \/ /\ MaxFaults - g = MaxFaults - f /\ Phase(x.pc) = Phase(me.pc)
         /\ Rounds - x.round < Rounds - me.round
      \/ /\ MaxFaults - g = MaxFaults - f /\ Phase(x.pc) = Phase(me.pc)
         /\ Rounds - x.round = Rounds - me.round /\ first(x) < first(me)
      \/ /\ MaxFaults - g = MaxFaults - f /\ Phase(x.pc) = Phase(me.pc)
         /\ Rounds - x.round = Rounds - me.round /\ first(x) = first(me)
         /\ InHand(x) < InHand(me)
  BY <1>1, <1>2, <1>3 DEF Closer
<1> DEFINE af == MaxFaults - f
           ag == MaxFaults - g
           px == Phase(x.pc)
           pm == Phase(me.pc)
           rx == Rounds - x.round
           rm == Rounds - me.round
           fx == first(x)
           fm == first(me)
           hx == InHand(x)
           hm == InHand(me)
<1>8. /\ af \in Nat /\ ag \in Nat /\ px \in Nat /\ pm \in Nat /\ rx \in Nat /\ rm \in Nat
      /\ fx \in Nat /\ fm \in Nat /\ hx \in Nat /\ hm \in Nat
  BY <1>1, <1>2, <1>3, <1>4, <1>5
<1>9. \/ ag < af
      \/ ag = af /\ px < pm
      \/ ag = af /\ px = pm /\ rx < rm
      \/ ag = af /\ px = pm /\ rx = rm /\ fx < fm
      \/ ag = af /\ px = pm /\ rx = rm /\ fx = fm /\ hx < hm
  BY <1>7
<1>10. LeftOf(g, x) = <<ag, px, rx, fx, hx>> /\ LeftOf(f, me) = <<af, pm, rm, fm, hm>>
  BY <1>6
<1> HIDE DEF first, af, ag, px, pm, rx, rm, fx, fm, hx, hm
<1>11. Below(<<ag, px, rx, fx, hx>>, <<af, pm, rm, fm, hm>>)
  BY <1>8, <1>9, BelowAt, ZenonT(30)
<1> QED
  BY <1>10, <1>11, Zenon
-----------------------------------------------------------------------------
(***************************************************************************)
(* One step of a run.                                                      *)
(***************************************************************************)
\* A set without one of its elements is smaller by one.
LEMMA TakenFrom ==
  ASSUME NEW S, IsFiniteSet(S), NEW s \in S
  PROVE  /\ IsFiniteSet(S \ {s})
         /\ Cardinality(S) \in Nat /\ Cardinality(S \ {s}) \in Nat
         /\ Cardinality(S \ {s}) < Cardinality(S)
<1>1. IsFiniteSet(S \ {s}) /\ Cardinality(S \ {s}) = Cardinality(S) - 1
  BY FS_RemoveElement
<1>2. Cardinality(S) \in Nat /\ Cardinality(S \ {s}) \in Nat
  BY <1>1, FS_CardinalityType
<1> QED
  BY <1>1, <1>2

\* With one more element it is larger by one at most.
LEMMA AddedTo ==
  ASSUME NEW S, IsFiniteSet(S), NEW s
  PROVE  /\ IsFiniteSet(S \cup {s})
         /\ Cardinality(S) \in Nat /\ Cardinality(S \cup {s}) \in Nat
         /\ Cardinality(S \cup {s}) <= Cardinality(S) + 1
<1>1. /\ IsFiniteSet(S \cup {s})
      /\ Cardinality(S \cup {s}) = IF s \in S THEN Cardinality(S) ELSE Cardinality(S) + 1
  BY FS_AddElement
<1>2. Cardinality(S) \in Nat /\ Cardinality(S \cup {s}) \in Nat
  BY <1>1, FS_CardinalityType
<1> QED
  BY <1>1, <1>2

\* What the platform answers to a list request is finite.
LEMMA ListingsFinite ==
  ASSUME HostOK, NEW r
  PROVE  IsFiniteSet(ListAssets(r)) /\ IsFiniteSet(ListReleases)
<1>1. nextId - 1 \in Int /\ DOMAIN rels \subseteq 1..(nextId - 1)
      /\ DOMAIN assets \subseteq 1..(nextId - 1)
  BY DEF HostOK, WellFormedStore
<1>2. IsFiniteSet(1..(nextId - 1))
  BY <1>1, FS_Interval
<1>3. IsFiniteSet(DOMAIN rels) /\ IsFiniteSet(AssetsOf(r))
  BY <1>1, <1>2, FS_Subset DEF AssetsOf
<1> DEFINE view == [a \in AssetsOf(r) |-> View(a)]
           line(q) == [id |-> q, tag |-> rels[q].tag, draft |-> rels[q].draft]
           lines == [q \in DOMAIN rels |-> line(q)]
<1>4. view \in Surjection(AssetsOf(r), ListAssets(r))
  <2> HIDE DEF view
  <2>1. DOMAIN view = AssetsOf(r) /\ \A a \in AssetsOf(r) : view[a] = View(a)
    BY DEF view
  <2>2. view \in [AssetsOf(r) -> ListAssets(r)]
    BY DEF view, ListAssets
  <2> QED
    BY <2>1, <2>2 DEF Surjection, ListAssets
<1>5. lines \in Surjection(DOMAIN rels, ListReleases)
  <2>1. ListReleases = {line(q) : q \in DOMAIN rels}
    BY DEF ListReleases
  <2> HIDE DEF line
  <2>2. lines \in [DOMAIN rels -> ListReleases] /\ \A q \in DOMAIN rels : lines[q] = line(q)
    BY <2>1
  <2> QED
    BY <2>1, <2>2 DEF Surjection
<1> HIDE DEF view, lines
<1> QED
  BY <1>3, <1>4, <1>5, FS_Surjection

\* The run of p takes a step that brings it nearer to its end, or a fault happens.
Nearer(p) == \E x : /\ Continue(p, x)
                    /\ Bounded(x)
                    /\ Closer(run[p], x) \/ faults' = faults + 1

\* A run at work is not at its end.
LEMMA PhaseOfWork == \A pc \in Working : Phase(pc) > 0
  BY DEF Phase, Working, FindAt, CompareAt

\* A run that ends comes nearer to its end.
LEMMA EndNearer ==
  ASSUME NEW me \in RunRecord, Bounded(me), me.pc \in Working,
         NEW v \in {"failed", "succeeded"}
  PROVE  Bounded(Ended(me, v)) /\ Closer(me, Ended(me, v))
<1> DEFINE x == Ended(me, v)
<1>1. /\ x.pc = v /\ x.local = me.local /\ x.others = {} /\ x.doomed = {} /\ x.todo = {}
      /\ x.missing = {} /\ x.round = 1 /\ x.cur = NoName
  BY DEF Ended, Blank
<1> HIDE DEF x
<1>2. Bounded(x)
  BY <1>1, FS_EmptySet, PublishAssumption DEF Bounded
<1>3. Phase(x.pc) = 0
  BY <1>1 DEF Phase
<1>4. Phase(me.pc) > 0
  BY PhaseOfWork
<1> QED
  BY <1>2, <1>3, <1>4 DEF Closer, x

LEMMA FailNearer ==
  ASSUME TypeOK, NEW p \in Publishers, Bounded(run[p]), run[p].pc \in Working, Fail(p)
  PROVE  Nearer(p)
BY EndNearer DEF TypeOK, Fail, Nearer

\* A record of a later phase with nothing more in hand.
LEMMA PhaseNearer ==
  ASSUME NEW me \in RunRecord, Bounded(me), NEW x,
         x.local = me.local, x.others = me.others, x.doomed = me.doomed, x.todo = me.todo,
         x.missing = me.missing, x.round = me.round, x.cur = me.cur,
         x.pc # "drop", me.cur = NoName \/ x.pc = "reconcile"
  PROVE  /\ Bounded(x)
         /\ Phase(x.pc) < Phase(me.pc) => Closer(me, x)
BY DEF Bounded, Closer

\* Before and between the rounds, reading.
LEMMA ReadsNearer ==
  ASSUME TypeOK, NEW p \in Publishers, Bounded(run[p]),
         \/ CheckLimits(p) \/ CheckTag(p) \/ FindByTag(p) \/ FindInList(p)
         \/ ListOthers(p) \/ CompareDone(p) \/ DecideLatest(p)
  PROVE  Nearer(p)
<1> DEFINE me == run[p]
<1>1. me \in RunRecord /\ Bounded(me) /\ HostOK
  BY DEF TypeOK
<1>2. \A v \in {"failed", "succeeded"} :
        me.pc \in Working => Bounded(Ended(me, v)) /\ Closer(me, Ended(me, v))
  BY <1>1, EndNearer
<1> SUFFICES \E x : Continue(p, x) /\ Bounded(x) /\ Closer(me, x)
  BY DEF Nearer
<1> HIDE DEF me
<1>3. ASSUME NEW pc, me.pc # "reconcile", pc # "drop", Phase(pc) < Phase(me.pc)
      PROVE  Bounded([me EXCEPT !.pc = pc]) /\ Closer(me, [me EXCEPT !.pc = pc])
  <2> DEFINE x == [me EXCEPT !.pc = pc]
  <2>1. /\ x.local = me.local /\ x.others = me.others /\ x.doomed = me.doomed /\ x.todo = me.todo
        /\ x.missing = me.missing /\ x.round = me.round /\ x.cur = me.cur /\ x.pc = pc
    BY <1>1 DEF RunRecord
  <2>2. me.cur = NoName
    BY <1>1, <1>3 DEF Bounded
  <2> HIDE DEF x
  <2>3. Bounded(x) /\ Closer(me, x)
    BY <1>1, <1>3, <2>1, <2>2, PhaseNearer
  <2> QED
    BY <2>3 DEF x
<1>4. CASE CheckLimits(p) \/ CheckTag(p)
  <2>1. me.pc \in {"limits", "tag"}
    BY <1>4 DEF CheckLimits, CheckTag, me
  <2>2. me.pc \in Working
    BY <2>1 DEF Working
  <2>3. /\ me.pc = "limits" => Phase("tag") < Phase(me.pc)
        /\ me.pc = "tag" => Phase("find") < Phase(me.pc)
    BY DEF Phase
  <2> QED
    BY <1>2, <1>3, <1>4, <2>1, <2>2, <2>3 DEF CheckLimits, CheckTag, Fail, Goto, me
<1>5. ASSUME me.pc \in FindAt, NEW r
      PROVE  Bounded(AfterFind(me, r)) /\ Closer(me, AfterFind(me, r))
  <2>1. me.pc \in Working
    BY <1>5 DEF Working
  <2> DEFINE x == AfterFind(me, r)
  <2>2. \/ x = Ended(me, "failed")
        \/ /\ x.local = me.local /\ x.others = me.others /\ x.doomed = me.doomed
           /\ x.todo = me.todo /\ x.missing = me.missing /\ x.round = me.round
           /\ x.cur = me.cur /\ x.pc # "drop" /\ Phase(x.pc) < Phase(me.pc)
    BY <1>1, <1>5 DEF AfterFind, FindAt, RunRecord, Phase
  <2>3. me.cur = NoName
    BY <1>1, <1>5 DEF Bounded, FindAt
  <2> HIDE DEF x
  <2>4. Bounded(x) /\ Closer(me, x)
    BY <1>1, <1>2, <2>1, <2>2, <2>3, PhaseNearer
  <2> QED
    BY <2>4 DEF x
<1>6. ASSUME me.pc \in FindAt
      PROVE  Bounded(AfterMissing(me)) /\ Closer(me, AfterMissing(me))
  <2>1. me.pc \in Working
    BY <1>6 DEF Working
  <2> DEFINE x == AfterMissing(me)
  <2>2. \/ x = Ended(me, "failed")
        \/ /\ x.local = me.local /\ x.others = me.others /\ x.doomed = me.doomed
           /\ x.todo = me.todo /\ x.missing = me.missing /\ x.round = me.round
           /\ x.cur = me.cur /\ x.pc # "drop" /\ Phase(x.pc) < Phase(me.pc)
    BY <1>1, <1>6 DEF AfterMissing, FindAt, RunRecord, Phase
  <2>3. me.cur = NoName
    BY <1>1, <1>6 DEF Bounded, FindAt
  <2> HIDE DEF x
  <2>4. Bounded(x) /\ Closer(me, x)
    BY <1>1, <1>2, <2>1, <2>2, <2>3, PhaseNearer
  <2> QED
    BY <2>4 DEF x
<1>7. ASSUME me.pc \in FindAt, ~me.scan
      PROVE  Bounded([me EXCEPT !.scan = TRUE]) /\ Closer(me, [me EXCEPT !.scan = TRUE])
  <2> DEFINE x == [me EXCEPT !.scan = TRUE]
  <2>1. /\ x.local = me.local /\ x.others = me.others /\ x.doomed = me.doomed /\ x.todo = me.todo
        /\ x.missing = me.missing /\ x.round = me.round /\ x.cur = me.cur /\ x.pc = me.pc
        /\ x.scan /\ x.listed = me.listed
    BY <1>1 DEF RunRecord
  <2>2. me.cur = NoName /\ me.pc # "drop"
    BY <1>1, <1>7 DEF Bounded, FindAt
  <2> HIDE DEF x
  <2>3. Bounded(x)
    BY <1>1, <2>1, <2>2, PhaseNearer
  <2>4. AtFirst(me) /\ ~AtFirst(x)
    BY <1>7, <2>1 DEF AtFirst, FindAt, CompareAt
  <2> QED
    BY <2>1, <2>3, <2>4 DEF Closer, x
<1>8. CASE FindByTag(p) \/ FindInList(p)
  <2>1. me.pc \in FindAt
    BY <1>8 DEF FindByTag, FindInList, me
  <2> QED
    BY <1>5, <1>6, <1>7, <1>8, <2>1 DEF FindByTag, FindInList, me
<1>9. CASE ListOthers(p)
  <2>1. PICK o \in SUBSET ListReleases : Continue(p, AfterDrop(me, o))
    BY <1>9 DEF ListOthers, me
  <2>2. IsFiniteSet(o)
    BY <1>1, <2>1, ListingsFinite, FS_Subset
  <2>3. me.pc = "others"
    BY <1>9 DEF ListOthers, me
  <2> DEFINE x == AfterDrop(me, o)
  <2>4. /\ x.local = me.local /\ x.others = o /\ x.doomed = me.doomed /\ x.todo = me.todo
        /\ x.missing = me.missing /\ x.round = me.round /\ x.cur = me.cur
        /\ x.pc = IF o = {} THEN "list" ELSE "drop"
    BY <1>1 DEF RunRecord, AfterDrop
  <2> HIDE DEF x
  <2>5. Bounded(x)
    BY <1>1, <2>2, <2>3, <2>4 DEF Bounded
  <2>6. Closer(me, x)
    BY <2>3, <2>4 DEF Closer, Phase
  <2> QED
    BY <2>1, <2>5, <2>6 DEF x
<1>10. CASE CompareDone(p)
  <2>1. me.pc \in CompareAt /\ me.pc \in Working
    BY <1>10 DEF CompareDone, Working, me
  <2> DEFINE x == [me EXCEPT !.pc = "latest", !.listed = FALSE]
  <2>2. /\ x.local = me.local /\ x.others = me.others /\ x.doomed = me.doomed /\ x.todo = me.todo
        /\ x.missing = me.missing /\ x.round = me.round /\ x.cur = me.cur /\ x.pc = "latest"
    BY <1>1 DEF RunRecord
  <2>3. me.cur = NoName
    BY <1>1, <2>1 DEF Bounded, CompareAt
  <2>4. me.pc = "final" => Phase("latest") < Phase(me.pc)
    BY DEF Phase
  <2>5. (me.pc = "final" /\ Continue(p, x)) \/ Continue(p, Ended(me, "succeeded"))
    BY <1>10 DEF CompareDone, me
  <2> HIDE DEF x
  <2>6. me.pc = "final" => Bounded(x) /\ Closer(me, x)
    BY <1>1, <2>2, <2>3, <2>4, PhaseNearer
  <2> QED
    BY <1>2, <2>1, <2>5, <2>6
<1>11. CASE DecideLatest(p)
  <2>1. me.pc = "latest"
    BY <1>11 DEF DecideLatest, me
  <2>2. PICK l : Continue(p, [me EXCEPT !.pc = "guard", !.latest = l])
    BY <1>11 DEF DecideLatest, me
  <2> DEFINE x == [me EXCEPT !.pc = "guard", !.latest = l]
  <2>3. /\ x.local = me.local /\ x.others = me.others /\ x.doomed = me.doomed /\ x.todo = me.todo
        /\ x.missing = me.missing /\ x.round = me.round /\ x.cur = me.cur /\ x.pc = "guard"
    BY <1>1 DEF RunRecord
  <2>4. me.cur = NoName
    BY <1>1, <2>1 DEF Bounded
  <2>5. Phase("guard") < Phase("latest")
    BY DEF Phase
  <2> HIDE DEF x
  <2>6. Bounded(x) /\ Closer(me, x)
    BY <1>1, <2>1, <2>3, <2>4, <2>5, PhaseNearer
  <2> QED
    BY <2>2, <2>6 DEF x
<1> QED
  BY <1>4, <1>8, <1>9, <1>10, <1>11

\* The rounds and the comparisons, reading.
LEMMA RoundsNearer ==
  ASSUME TypeOK, NEW p \in Publishers, Bounded(run[p]),
         ReconcileList(p) \/ CheckStored(p) \/ EndRound(p) \/ CompareList(p) \/ CompareDownload(p)
  PROVE  Nearer(p)
<1> DEFINE me == run[p]
<1>1. me \in RunRecord /\ Bounded(me) /\ HostOK
  BY DEF TypeOK
<1>2. Fail(p) /\ me.pc \in Working => Nearer(p)
  BY FailNearer
<1>3. ASSUME NEW x, Continue(p, x), Bounded(x), Closer(me, x)
      PROVE  Nearer(p)
  BY <1>3 DEF Nearer
<1>4. IsFiniteSet(ListAssets(me.rel))
  BY <1>1, ListingsFinite
<1> HIDE DEF me
<1>5. CASE ReconcileList(p)
  <2>1. me.pc = "list" /\ me.pc \in Working
    BY <1>5 DEF ReconcileList, Working, me
  <2>2. ASSUME NEW d \in SUBSET ListAssets(me.rel), NEW t \in SUBSET ListAssets(me.rel),
               NEW m \in SUBSET DOMAIN me.local
        PROVE  LET x == [me EXCEPT !.pc = "reconcile", !.doomed = d, !.todo = t,
                                   !.missing = m, !.changed = FALSE]
               IN Bounded(x) /\ Closer(me, x)
    <3> DEFINE x == [me EXCEPT !.pc = "reconcile", !.doomed = d, !.todo = t,
                               !.missing = m, !.changed = FALSE]
    <3>1. /\ x.local = me.local /\ x.others = me.others /\ x.doomed = d /\ x.todo = t
          /\ x.missing = m /\ x.round = me.round /\ x.cur = me.cur /\ x.pc = "reconcile"
      BY <1>1 DEF RunRecord
    <3>2. IsFiniteSet(d) /\ IsFiniteSet(t)
      BY <1>4, FS_Subset
    <3> HIDE DEF x
    <3>3. Bounded(x)
      BY <1>1, <2>1, <3>1, <3>2 DEF Bounded
    <3>4. Closer(me, x)
      BY <2>1, <3>1 DEF Closer, Phase, AtFirst, FindAt, CompareAt
    <3> QED
      BY <3>3, <3>4 DEF x
  <2>3. \/ Fail(p)
        \/ \E d \in SUBSET ListAssets(me.rel), t \in SUBSET ListAssets(me.rel),
              m \in SUBSET DOMAIN me.local :
             Continue(p, [me EXCEPT !.pc = "reconcile", !.doomed = d, !.todo = t,
                                    !.missing = m, !.changed = FALSE])
    BY <1>5 DEF ReconcileList, me
  <2> QED
    BY <1>2, <1>3, <2>1, <2>2, <2>3
<1>6. CASE CheckStored(p)
  <2>1. me.pc = "reconcile" /\ me.pc \in Working
    BY <1>6 DEF CheckStored, Working, me
  <2>2. PICK s \in me.todo :
          \/ Fail(p)
          \/ \E m : Continue(p, [me EXCEPT !.todo    = @ \ {s},
                                           !.missing = @ \ {s.name},
                                           !.memo    = m])
          \/ Continue(p, [me EXCEPT !.todo = @ \ {s}, !.doomed = @ \cup {s}, !.cur = s.name])
    BY <1>6 DEF CheckStored, me
  <2>3. /\ IsFiniteSet(me.todo \ {s})
        /\ Cardinality(me.todo) \in Nat /\ Cardinality(me.todo \ {s}) \in Nat
        /\ Cardinality(me.todo \ {s}) < Cardinality(me.todo)
    BY <1>1, TakenFrom DEF Bounded
  <2>4. ASSUME NEW m
        PROVE  LET x == [me EXCEPT !.todo = @ \ {s}, !.missing = @ \ {s.name}, !.memo = m]
               IN Bounded(x) /\ Closer(me, x)
    <3> DEFINE x == [me EXCEPT !.todo = @ \ {s}, !.missing = @ \ {s.name}, !.memo = m]
    <3>1. /\ x.local = me.local /\ x.others = me.others /\ x.doomed = me.doomed
          /\ x.todo = me.todo \ {s} /\ x.missing = me.missing \ {s.name}
          /\ x.round = me.round /\ x.cur = me.cur /\ x.pc = me.pc
      BY <1>1 DEF RunRecord
    <3> HIDE DEF x
    <3>2. Bounded(x)
      BY <1>1, <2>1, <2>3, <3>1 DEF Bounded
    <3>3. /\ Cardinality(x.missing) \in Nat /\ Cardinality(me.missing) \in Nat
          /\ Cardinality(x.missing) <= Cardinality(me.missing)
          /\ Cardinality(me.doomed) \in Nat /\ Cardinality(me.others) \in Nat
      BY <1>1, <3>1, InHandType, FS_Subset, FS_CardinalityType
    <3>4. InHand(x) < InHand(me)
      BY <2>3, <3>1, <3>3 DEF InHand
    <3>5. ~AtFirst(me) /\ ~AtFirst(x)
      BY <2>1, <3>1 DEF AtFirst, FindAt, CompareAt
    <3> QED
      BY <3>1, <3>2, <3>4, <3>5 DEF Closer, x
  <2>5. LET x == [me EXCEPT !.todo = @ \ {s}, !.doomed = @ \cup {s}, !.cur = s.name]
        IN Bounded(x) /\ Closer(me, x)
    <3> DEFINE x == [me EXCEPT !.todo = @ \ {s}, !.doomed = @ \cup {s}, !.cur = s.name]
    <3>1. /\ x.local = me.local /\ x.others = me.others /\ x.doomed = me.doomed \cup {s}
          /\ x.todo = me.todo \ {s} /\ x.missing = me.missing
          /\ x.round = me.round /\ x.cur = s.name /\ x.pc = me.pc
      BY <1>1 DEF RunRecord
    <3>2. /\ IsFiniteSet(me.doomed \cup {s})
          /\ Cardinality(me.doomed) \in Nat /\ Cardinality(me.doomed \cup {s}) \in Nat
          /\ Cardinality(me.doomed \cup {s}) <= Cardinality(me.doomed) + 1
      BY <1>1, AddedTo DEF Bounded
    <3> HIDE DEF x
    <3>3. Bounded(x)
      BY <1>1, <2>1, <2>3, <3>1, <3>2 DEF Bounded
    <3>4. Cardinality(me.missing) \in Nat /\ Cardinality(me.others) \in Nat
      BY <1>1, InHandType
    <3>5. InHand(x) < InHand(me)
      BY <2>3, <3>1, <3>2, <3>4 DEF InHand
    <3>6. ~AtFirst(me) /\ ~AtFirst(x)
      BY <2>1, <3>1 DEF AtFirst, FindAt, CompareAt
    <3> QED
      BY <3>1, <3>3, <3>5, <3>6 DEF Closer, x
  <2> QED
    BY <1>2, <1>3, <2>1, <2>2, <2>4, <2>5
<1>7. CASE EndRound(p)
  <2>1. me.pc = "reconcile" /\ me.pc \in Working /\ me.doomed = {}
    BY <1>7 DEF EndRound, Uploading, Working, me
  <2>2. me.cur = NoName
    BY <1>1, <2>1 DEF Bounded
  <2>3. LET x == [me EXCEPT !.pc = "final"] IN Bounded(x) /\ Closer(me, x)
    <3> DEFINE x == [me EXCEPT !.pc = "final"]
    <3>1. /\ x.local = me.local /\ x.others = me.others /\ x.doomed = me.doomed
          /\ x.todo = me.todo /\ x.missing = me.missing /\ x.round = me.round
          /\ x.cur = me.cur /\ x.pc = "final"
      BY <1>1 DEF RunRecord
    <3>2. Phase("final") < Phase(me.pc)
      BY <2>1 DEF Phase
    <3> HIDE DEF x
    <3> QED
      BY <1>1, <2>2, <3>1, <3>2, PhaseNearer DEF x
  <2>4. ASSUME me.round < Rounds
        PROVE  LET x == [me EXCEPT !.pc = "list", !.round = @ + 1] IN Bounded(x) /\ Closer(me, x)
    <3> DEFINE x == [me EXCEPT !.pc = "list", !.round = @ + 1]
    <3>1. /\ x.local = me.local /\ x.others = me.others /\ x.doomed = me.doomed
          /\ x.todo = me.todo /\ x.missing = me.missing /\ x.round = me.round + 1
          /\ x.cur = me.cur /\ x.pc = "list"
      BY <1>1 DEF RunRecord
    <3>2. me.round \in Nat /\ me.round + 1 <= Rounds /\ me.round < me.round + 1
      BY <1>1, <2>4, PublishAssumption DEF RunRecord
    <3> HIDE DEF x
    <3>3. Bounded(x)
      BY <1>1, <2>2, <3>1, <3>2 DEF Bounded
    <3>4. Phase(x.pc) = Phase(me.pc)
      BY <2>1, <3>1 DEF Phase
    <3> QED
      BY <3>1, <3>2, <3>3, <3>4 DEF Closer, x
  <2> QED
    BY <1>2, <1>3, <1>7, <2>1, <2>3, <2>4 DEF EndRound, Goto, me
<1>8. CASE CompareList(p)
  <2>1. me.pc \in CompareAt /\ ~me.listed /\ me.pc \in Working
    BY <1>8 DEF CompareList, Working, me
  <2>2. ASSUME NEW t \in SUBSET ListAssets(me.rel)
        PROVE  LET x == [me EXCEPT !.listed = TRUE, !.todo = t] IN Bounded(x) /\ Closer(me, x)
    <3> DEFINE x == [me EXCEPT !.listed = TRUE, !.todo = t]
    <3>1. /\ x.local = me.local /\ x.others = me.others /\ x.doomed = me.doomed /\ x.todo = t
          /\ x.missing = me.missing /\ x.round = me.round /\ x.cur = me.cur /\ x.pc = me.pc
          /\ x.listed
      BY <1>1 DEF RunRecord
    <3>2. IsFiniteSet(t)
      BY <1>4, FS_Subset
    <3> HIDE DEF x
    <3>3. Bounded(x)
      BY <1>1, <2>1, <3>1, <3>2 DEF Bounded
    <3>4. Closer(me, x)
      BY <2>1, <3>1 DEF Closer, AtFirst, FindAt, CompareAt
    <3> QED
      BY <3>3, <3>4 DEF x
  <2>3. \/ Fail(p)
        \/ \E t \in SUBSET ListAssets(me.rel) :
             Continue(p, [me EXCEPT !.listed = TRUE, !.todo = t])
    BY <1>8 DEF CompareList, me
  <2> QED
    BY <1>2, <1>3, <2>1, <2>2, <2>3
<1>9. CASE CompareDownload(p)
  <2>1. me.pc \in CompareAt /\ me.listed /\ me.pc \in Working
    BY <1>9 DEF CompareDownload, Working, me
  <2>2. PICK s \in me.todo :
          \/ Fail(p)
          \/ \E m : Continue(p, [me EXCEPT !.todo = @ \ {s}, !.memo = m])
    BY <1>9 DEF CompareDownload, me
  <2>3. /\ IsFiniteSet(me.todo \ {s})
        /\ Cardinality(me.todo) \in Nat /\ Cardinality(me.todo \ {s}) \in Nat
        /\ Cardinality(me.todo \ {s}) < Cardinality(me.todo)
    BY <1>1, TakenFrom DEF Bounded
  <2>4. ASSUME NEW m
        PROVE  LET x == [me EXCEPT !.todo = @ \ {s}, !.memo = m] IN Bounded(x) /\ Closer(me, x)
    <3> DEFINE x == [me EXCEPT !.todo = @ \ {s}, !.memo = m]
    <3>1. /\ x.local = me.local /\ x.others = me.others /\ x.doomed = me.doomed
          /\ x.todo = me.todo \ {s} /\ x.missing = me.missing
          /\ x.round = me.round /\ x.cur = me.cur /\ x.pc = me.pc
          /\ x.scan = me.scan /\ x.listed = me.listed
      BY <1>1 DEF RunRecord
    <3> HIDE DEF x
    <3>2. Bounded(x)
      BY <1>1, <2>3, <3>1 DEF Bounded
    <3>3. /\ Cardinality(me.missing) \in Nat /\ Cardinality(me.doomed) \in Nat
          /\ Cardinality(me.others) \in Nat
      BY <1>1, InHandType
    <3>4. InHand(x) < InHand(me)
      BY <2>3, <3>1, <3>3 DEF InHand
    <3>5. AtFirst(me) <=> AtFirst(x)
      BY <3>1 DEF AtFirst
    <3> QED
      BY <3>1, <3>2, <3>4, <3>5 DEF Closer, x
  <2> QED
    BY <1>2, <1>3, <2>1, <2>2, <2>4
<1> QED
  BY <1>5, <1>6, <1>7, <1>8, <1>9

\* The requests that write and are answered.
LEMMA WritesNearer ==
  ASSUME TypeOK, NEW p \in Publishers, Bounded(run[p]),
         DropOther(p) \/ CreateDraft(p) \/ DeleteDoomed(p) \/ Upload(p) \/ SendPublish(p)
  PROVE  Nearer(p)
<1> DEFINE me == run[p]
<1>1. me \in RunRecord /\ Bounded(me) /\ HostOK
  BY DEF TypeOK
<1>2. Fail(p) /\ me.pc \in Working => Nearer(p)
  BY FailNearer
<1>3. ASSUME NEW x, Continue(p, x), Bounded(x), Closer(me, x)
      PROVE  Nearer(p)
  BY <1>3 DEF Nearer
<1>4. /\ Cardinality(me.missing) \in Nat /\ Cardinality(me.doomed) \in Nat
      /\ Cardinality(me.others) \in Nat /\ Cardinality(me.todo) \in Nat
      /\ IsFiniteSet(me.missing)
  BY <1>1, InHandType
<1> HIDE DEF me
<1>5. CASE DropOther(p)
  <2>1. me.pc = "drop" /\ me.pc \in Working
    BY <1>5 DEF DropOther, Working, me
  <2>2. PICK o \in me.others : Fail(p) \/ Continue(p, AfterDrop(me, me.others \ {o}))
    BY <1>5 DEF DropOther, me
  <2>3. /\ IsFiniteSet(me.others \ {o})
        /\ Cardinality(me.others \ {o}) \in Nat
        /\ Cardinality(me.others \ {o}) < Cardinality(me.others)
    BY <1>1, TakenFrom DEF Bounded
  <2> DEFINE x == AfterDrop(me, me.others \ {o})
  <2>4. /\ x.local = me.local /\ x.others = me.others \ {o} /\ x.doomed = me.doomed
        /\ x.todo = me.todo /\ x.missing = me.missing /\ x.round = me.round /\ x.cur = me.cur
        /\ x.pc = IF x.others = {} THEN "list" ELSE "drop"
    BY <1>1 DEF RunRecord, AfterDrop
  <2> HIDE DEF x
  <2>5. Bounded(x)
    BY <1>1, <2>1, <2>3, <2>4 DEF Bounded
  <2>6. x.pc = "list" => Closer(me, x)
    BY <2>1 DEF Closer, Phase
  <2>7. InHand(x) < InHand(me)
    BY <1>4, <2>3, <2>4 DEF InHand
  <2>8. x.pc = "drop" => Closer(me, x)
    BY <2>1, <2>4, <2>7 DEF Closer, AtFirst, FindAt, CompareAt
  <2> QED
    BY <1>2, <1>3, <2>1, <2>2, <2>4, <2>5, <2>6, <2>8 DEF x
<1>6. CASE CreateDraft(p)
  <2>1. me.pc = "create" /\ me.cur = NoName
    BY <1>1, <1>6 DEF CreateDraft, Bounded, me
  <2>2. ASSUME NEW x, x \in {[me EXCEPT !.rel = nextId, !.pc = "list"], [me EXCEPT !.pc = "refind"]}
        PROVE  Bounded(x) /\ Closer(me, x)
    <3>1. /\ x.local = me.local /\ x.others = me.others /\ x.doomed = me.doomed
          /\ x.todo = me.todo /\ x.missing = me.missing /\ x.round = me.round /\ x.cur = me.cur
          /\ x.pc \in {"list", "refind"}
      BY <1>1, <2>2 DEF RunRecord
    <3>2. Phase(x.pc) < Phase(me.pc)
      BY <2>1, <3>1 DEF Phase
    <3> QED
      BY <1>1, <2>1, <3>1, <3>2, PhaseNearer
  <2>3. \/ Continue(p, [me EXCEPT !.rel = nextId, !.pc = "list"])
        \/ Continue(p, [me EXCEPT !.pc = "refind"])
    BY <1>6 DEF CreateDraft, Goto, me
  <2> QED
    BY <1>3, <2>2, <2>3
<1>7. CASE DeleteDoomed(p)
  <2>1. me.pc = "reconcile" /\ me.pc \in Working
    BY <1>7 DEF DeleteDoomed, Working, me
  <2>2. PICK s \in me.doomed :
          \/ Fail(p)
          \/ Continue(p, [me EXCEPT !.doomed  = me.doomed \ {s}, !.changed = TRUE,
                            !.cur = IF \E t \in me.doomed \ {s} : t.name = s.name
                                    THEN s.name ELSE NoName])
    BY <1>7 DEF DeleteDoomed, me
  <2>3. /\ IsFiniteSet(me.doomed \ {s})
        /\ Cardinality(me.doomed \ {s}) \in Nat
        /\ Cardinality(me.doomed \ {s}) < Cardinality(me.doomed)
    BY <1>1, TakenFrom DEF Bounded
  <2> DEFINE c == IF \E t \in me.doomed \ {s} : t.name = s.name THEN s.name ELSE NoName
             x == [me EXCEPT !.doomed = me.doomed \ {s}, !.changed = TRUE, !.cur = c]
  <2>4. c # NoName => \E t \in me.doomed \ {s} : t.name = c
    OBVIOUS
  <2>5. Fail(p) \/ Continue(p, x)
    BY <2>2
  <2> HIDE DEF c
  <2>6. /\ x.local = me.local /\ x.others = me.others /\ x.doomed = me.doomed \ {s}
        /\ x.todo = me.todo /\ x.missing = me.missing /\ x.round = me.round /\ x.cur = c
        /\ x.pc = me.pc
    BY <1>1 DEF RunRecord
  <2> HIDE DEF x
  <2>7. Bounded(x)
    BY <1>1, <2>1, <2>3, <2>4, <2>6 DEF Bounded
  <2>8. InHand(x) < InHand(me)
    BY <1>4, <2>3, <2>6 DEF InHand
  <2>9. Closer(me, x)
    BY <2>1, <2>6, <2>8 DEF Closer, AtFirst, FindAt, CompareAt
  <2> QED
    BY <1>2, <1>3, <2>1, <2>5, <2>7, <2>9
<1>8. CASE Upload(p)
  <2>1. me.pc = "reconcile"
    BY <1>8 DEF Upload, Uploading, me
  <2>2. PICK n \in me.missing : Continue(p, Attempted(me, n))
    BY <1>8 DEF Upload, me
  <2>3. /\ Cardinality(me.missing \ {n}) \in Nat
        /\ Cardinality(me.missing \ {n}) < Cardinality(me.missing)
    BY <1>4, TakenFrom
  <2> DEFINE x == Attempted(me, n)
  <2>4. /\ x.local = me.local /\ x.others = me.others /\ x.doomed = me.doomed
        /\ x.todo = me.todo /\ x.missing = me.missing \ {n} /\ x.round = me.round
        /\ x.cur = me.cur /\ x.pc = me.pc
    BY <1>1 DEF RunRecord, Attempted
  <2> HIDE DEF x
  <2>5. Bounded(x)
    BY <1>1, <2>1, <2>4 DEF Bounded
  <2>6. InHand(x) < InHand(me)
    BY <1>4, <2>3, <2>4 DEF InHand
  <2>7. Closer(me, x)
    BY <2>1, <2>4, <2>6 DEF Closer, AtFirst, FindAt, CompareAt
  <2> QED
    BY <1>3, <2>2, <2>5, <2>7 DEF x
<1>9. CASE SendPublish(p)
  <2>1. me.pc = "publish" /\ me.cur = NoName
    BY <1>1, <1>9 DEF SendPublish, Bounded, me
  <2>2. PICK pc \in {"confirm", "reread"} : Continue(p, [me EXCEPT !.pc = pc])
    BY <1>9 DEF SendPublish, Goto, me
  <2> DEFINE x == [me EXCEPT !.pc = pc]
  <2>3. /\ x.local = me.local /\ x.others = me.others /\ x.doomed = me.doomed
        /\ x.todo = me.todo /\ x.missing = me.missing /\ x.round = me.round /\ x.cur = me.cur
        /\ x.pc = pc
    BY <1>1 DEF RunRecord
  <2> HIDE DEF x
  <2>4. Phase(x.pc) < Phase(me.pc)
    BY <2>1, <2>2, <2>3 DEF Phase
  <2>5. Bounded(x) /\ Closer(me, x)
    BY <1>1, <2>1, <2>2, <2>3, <2>4, PhaseNearer
  <2> QED
    BY <1>3, <2>2, <2>5 DEF x
<1> QED
  BY <1>5, <1>6, <1>7, <1>8, <1>9

\* What is lost or killed leaves a run within its bounds and is a fault more.
LEMMA TroubleNearer ==
  ASSUME TypeOK, NEW p \in Publishers, Bounded(run[p]), Trouble(p)
  PROVE  Nearer(p)
<1> DEFINE me == run[p]
<1>1. me \in RunRecord /\ Bounded(me)
  BY DEF TypeOK
<1>2. faults' = faults + 1
  BY DEF Trouble, CreateLost, UploadLost, PublishLost, Abort, Fault
<1> SUFFICES \E x : Continue(p, x) /\ Bounded(x)
  BY <1>2 DEF Nearer
<1> HIDE DEF me
<1>3. CASE CreateLost(p) \/ PublishLost(p)
  <2>1. me.pc \in {"create", "publish"} /\ me.cur = NoName
    BY <1>1, <1>3 DEF CreateLost, PublishLost, Bounded, me
  <2>2. PICK pc \in {"refind", "publish", "reread"} : Continue(p, [me EXCEPT !.pc = pc])
    BY <1>3 DEF CreateLost, PublishLost, Goto, me
  <2> DEFINE x == [me EXCEPT !.pc = pc]
  <2>3. /\ x.local = me.local /\ x.others = me.others /\ x.doomed = me.doomed
        /\ x.todo = me.todo /\ x.missing = me.missing /\ x.round = me.round /\ x.cur = me.cur
        /\ x.pc = pc
    BY <1>1 DEF RunRecord
  <2> HIDE DEF x
  <2>4. Bounded(x)
    BY <1>1, <2>1, <2>2, <2>3, PhaseNearer
  <2> QED
    BY <2>2, <2>4 DEF x
<1>4. CASE UploadLost(p)
  <2>1. me.pc = "reconcile"
    BY <1>4 DEF UploadLost, Uploading, me
  <2>2. PICK n \in me.missing : Continue(p, Attempted(me, n))
    BY <1>4 DEF UploadLost, me
  <2> DEFINE x == Attempted(me, n)
  <2>3. /\ x.local = me.local /\ x.others = me.others /\ x.doomed = me.doomed
        /\ x.todo = me.todo /\ x.missing = me.missing \ {n} /\ x.round = me.round
        /\ x.cur = me.cur /\ x.pc = me.pc
    BY <1>1 DEF RunRecord, Attempted
  <2> HIDE DEF x
  <2>4. Bounded(x)
    BY <1>1, <2>1, <2>3 DEF Bounded
  <2> QED
    BY <2>2, <2>4 DEF x
<1>5. CASE Abort(p)
  BY <1>1, <1>5, EndNearer DEF Abort, Fail, me
<1> QED
  BY <1>3, <1>4, <1>5 DEF Trouble

\* A run that starts is within its bounds.
LEMMA StartBounded ==
  ASSUME FiniteFiles, NEW p \in Publishers, Start(p)
  PROVE  \E x : Continue(p, x) /\ Bounded(x)
<1>1. PICK l \in LocalSets[p], c \in Commits :
        Continue(p, Blank("limits", l, c, run[p].runs + 1))
  BY DEF Start
<1> DEFINE x == Blank("limits", l, c, run[p].runs + 1)
<1>2. /\ x.pc = "limits" /\ x.local = l /\ x.others = {} /\ x.doomed = {} /\ x.todo = {}
      /\ x.missing = {} /\ x.round = 1 /\ x.cur = NoName
  BY DEF Blank
<1>3. IsFiniteSet(DOMAIN l)
  BY DEF FiniteFiles
<1> HIDE DEF x
<1>4. Bounded(x)
  BY <1>2, <1>3, FS_EmptySet, PublishAssumption DEF Bounded
<1> QED
  BY <1>1, <1>4 DEF x
-----------------------------------------------------------------------------
\* One step of the jobs, seen from every run.
LEMMA StepWindsDown ==
  ASSUME FiniteFiles, BoundedInv, NEW p \in Publishers, Start(p) \/ Progress(p) \/ Trouble(p)
  PROVE  /\ BoundedInv'
         /\ \A q \in Publishers : q # p => Left(q)' = Left(q) \/ Below(Left(q)', Left(q))
         /\ Progress(p) \/ Trouble(p) => Below(Left(p)', Left(p))
<1>1. TypeOK /\ run \in [Publishers -> RunRecord] /\ faults \in 0..MaxFaults
      /\ \A q \in Publishers : Bounded(run[q])
  BY DEF BoundedInv, TypeOK
<1>2. TypeOK'
  BY <1>1, ReadsTyped, WritesTyped DEF Progress, Trouble, Bounded
<1>3. run' \in [Publishers -> RunRecord] /\ faults' \in 0..MaxFaults
  BY <1>2 DEF TypeOK
<1>4. faults' = faults \/ faults' = faults + 1
  BY DEF Start, Progress, Trouble, CheckLimits, CheckTag, FindByTag, FindInList, ListOthers,
         DropOther, CreateDraft, CreateLost, ReconcileList, DeleteDoomed, CheckStored, Upload,
         UploadLost, EndRound, CompareList, CompareDownload, CompareDone, DecideLatest,
         SendPublish, PublishLost, Abort, ReadOnly, Fault
<1>5. Progress(p) \/ Trouble(p) => Nearer(p)
  BY <1>1, ReadsNearer, RoundsNearer, WritesNearer, TroubleNearer DEF Progress
<1>6. \A x : Continue(p, x) => run'[p] = x
  BY <1>1 DEF Continue
<1>7. Bounded(run'[p])
  BY <1>5, <1>6, StartBounded DEF Nearer
<1>8. \A q \in Publishers : q # p => run'[q] = run[q]
  BY <1>1, ChangesOnlyOwnRun
<1>9. BoundedInv'
  <2>1. \A q \in Publishers : Bounded(run'[q])
    BY <1>1, <1>7, <1>8
  <2>2. \A q \in Publishers : Bounded(run[q])'
    BY <2>1 DEF Bounded
  <2> QED
    BY <1>2, <2>2 DEF BoundedInv
<1>10. faults < faults + 1
  BY <1>1
<1>11. ASSUME NEW q \in Publishers, q # p
       PROVE  Left(q)' = Left(q) \/ Below(Left(q)', Left(q))
  <2>1. Left(q)' = LeftOf(faults', run[q]) /\ Left(q) = LeftOf(faults, run[q])
    BY <1>8, <1>11 DEF Left, LeftOf, AtFirst, InHand
  <2>2. run[q] \in RunRecord /\ Bounded(run[q])
    BY <1>1
  <2>3. faults' = faults + 1 => Below(LeftOf(faults', run[q]), LeftOf(faults, run[q]))
    BY <1>1, <1>3, <1>10, <2>2, CloserIsBelow
  <2> QED
    BY <1>4, <2>1, <2>3
<1>12. ASSUME Progress(p) \/ Trouble(p)
       PROVE  Below(Left(p)', Left(p))
  <2>1. Left(p)' = LeftOf(faults', run'[p]) /\ Left(p) = LeftOf(faults, run[p])
    BY DEF Left, LeftOf, AtFirst, InHand
  <2>2. Closer(run[p], run'[p]) \/ faults' = faults + 1
    BY <1>5, <1>6, <1>12 DEF Nearer
  <2>3. faults < faults' \/ (faults = faults' /\ Closer(run[p], run'[p]))
    BY <1>4, <1>10, <2>2
  <2>4. run[p] \in RunRecord /\ run'[p] \in RunRecord /\ Bounded(run[p]) /\ Bounded(run'[p])
    BY <1>1, <1>3, <1>7
  <2> QED
    BY <1>1, <1>3, <2>1, <2>3, <2>4, CloserIsBelow
<1> QED
  BY <1>9, <1>11, <1>12

\* A run that starts is a run more.
LEMMA StartCounts ==
  ASSUME run \in [Publishers -> RunRecord], NEW p \in Publishers, Start(p)
  PROVE  run'[p].runs # run[p].runs
<1>1. PICK l, c : Continue(p, Blank("limits", l, c, run[p].runs + 1))
  BY DEF Start
<1>2. run'[p].runs = run[p].runs + 1
  BY <1>1 DEF Continue, Blank
<1>3. run[p].runs \in Nat
  BY DEF RunRecord
<1> QED
  BY <1>2, <1>3

\* One step of the whole.
LEMMA NextWindsDown ==
  ASSUME FiniteFiles, BoundedInv, [Next]_vars
  PROVE  /\ BoundedInv'
         /\ \A p \in Publishers :
              /\ vars' # vars /\ (Progress(p) \/ Trouble(p)) => Below(Left(p)', Left(p))
              /\ run'[p].runs = run[p].runs => Left(p)' = Left(p) \/ Below(Left(p)', Left(p))
<1>1. CASE UNCHANGED vars
  <2>1. BoundedInv'
    BY <1>1, HostUnchanged DEF BoundedInv, vars, hostVars, TypeOK, Bounded
  <2>2. \A p : Left(p)' = Left(p)
    BY <1>1 DEF vars, Left, LeftOf, AtFirst, InHand
  <2> QED
    BY <1>1, <2>1, <2>2
<1>2. ASSUME NEW p \in Publishers, Start(p) \/ Progress(p) \/ Trouble(p)
      PROVE  BoundedInv'
  BY <1>2, StepWindsDown
<1>3. ASSUME NEW p \in Publishers, Start(p) \/ Progress(p) \/ Trouble(p), NEW q \in Publishers,
             run'[q].runs = run[q].runs
      PROVE  Left(q)' = Left(q) \/ Below(Left(q)', Left(q))
  BY <1>3, StepWindsDown, StartCounts DEF BoundedInv, TypeOK
<1>4. ASSUME NEW p \in Publishers, Progress(p) \/ Trouble(p)
      PROVE  Below(Left(p)', Left(p))
  BY <1>4, StepWindsDown
<1> QED
  BY <1>1, <1>2, <1>3, <1>4 DEF Next

\* The runs are within their bounds at the start.
LEMMA BoundedAtStart == Init => BoundedInv
<1> SUFFICES ASSUME Init PROVE BoundedInv
  OBVIOUS
<1>1. DOMAIN NoFiles = {}
  BY DEF NoFiles
<1> DEFINE x == Blank("idle", NoFiles, NoCommit, 0)
<1>2. /\ x.pc = "idle" /\ x.local = NoFiles /\ x.others = {} /\ x.doomed = {} /\ x.todo = {}
      /\ x.missing = {} /\ x.round = 1 /\ x.cur = NoName
  BY DEF Blank
<1>3. \A p \in Publishers : run[p] = x
  BY DEF Init
<1> HIDE DEF x
<1>4. Bounded(x)
  BY <1>1, <1>2, FS_EmptySet, PublishAssumption DEF Bounded
<1> QED
  BY <1>3, <1>4, InitTyped DEF BoundedInv

\* Whatever is lost or killed, they stay within them.
LEMMA BoundedHolds == ASSUME FiniteFiles PROVE Spec => []BoundedInv
<1>1. BoundedInv /\ [Next]_vars => BoundedInv'
  BY NextWindsDown
<1> QED
  BY BoundedAtStart, <1>1, PTL DEF Spec

(* A working run always has a next request, whatever the answers were.     *)
THEOREM NeverStuckHolds == ASSUME FiniteFiles PROVE Spec => []NeverStuck
<1>1. BoundedInv => NeverStuck
  BY DEF BoundedInv, Bounded, NeverStuck
<1> QED
  BY <1>1, BoundedHolds, PTL

(* Every step of a run lowers what is left of it, five natural numbers     *)
(* that no other job can raise: with NoEndlessDescent, a run that is not   *)
(* left alone in its waiting comes to an end.                              *)
THEOREM RunsWindDownHolds ==
  ASSUME FiniteFiles
  PROVE  Spec => RunsWindDown /\ [](\A p \in Publishers : Left(p) \in Places)
<1>1. BoundedInv => \A p \in Publishers : Left(p) \in Places
  BY LeftType DEF BoundedInv, TypeOK, Left
<1>2. BoundedInv /\ [Next]_vars =>
        [\A p \in Publishers :
           /\ Progress(p) \/ Trouble(p) => Below(Left(p)', Left(p))
           /\ run'[p].runs = run[p].runs => Left(p)' = Left(p) \/ Below(Left(p)', Left(p))]_vars
  BY NextWindsDown
<1> QED
  BY <1>1, <1>2, BoundedHolds, PTL DEF Spec, RunsWindDown

\* Late requests do not hold a run up: one step where requests may be on their way.
LEMMA DelayedWindsDown ==
  ASSUME FiniteFiles, BoundedInv, DTypeOK, [DNext]_delayVars
  PROVE  /\ BoundedInv'
         /\ \A p \in Publishers :
              /\ vars' # vars /\ (Progress(p) \/ Trouble(p)) => Below(Left(p)', Left(p))
              /\ run'[p].runs = run[p].runs => Left(p)' = Left(p) \/ Below(Left(p)', Left(p))
<1>1. ASSUME NEW p \in Publishers, Start(p) \/ Progress(p) \/ Trouble(p)
      PROVE  BoundedInv' /\ [Next]_vars
  BY <1>1, StepWindsDown DEF Next
<1>2. CASE \E p \in Publishers : Start(p) \/ Progress(p) \/ Trouble(p)
  BY <1>1, <1>2, NextWindsDown
<1>3. CASE UNCHANGED delayVars
  BY <1>3, NextWindsDown DEF delayVars, vars
<1>4. ASSUME NEW q \in late, Arrives(q), ~\E p \in Publishers : Progress(p) \/ Trouble(p)
      PROVE  /\ BoundedInv'
             /\ \A p \in Publishers : Left(p)' = Left(p)
  <2>1. HostOK' /\ UNCHANGED <<run, faults>>
    BY <1>4, ArrivalServed DEF DTypeOK, TypeOK
  <2>2. BoundedInv'
    BY <2>1 DEF BoundedInv, TypeOK, Bounded
  <2> QED
    BY <2>1, <2>2 DEF Left, LeftOf, AtFirst, InHand
<1>5. \A p \in Publishers : SendDelayed(p) => Trouble(p)
  BY DelayIsLoss
<1> QED
  BY <1>2, <1>3, <1>4, <1>5, DelayedSteps

\* Nor do they take a run out of its bounds.
LEMMA BoundedLate == ASSUME FiniteFiles PROVE DSpec => []BoundedInv
<1>1. DInit => BoundedInv
  BY BoundedAtStart DEF DInit
<1>2. BoundedInv /\ DTypeOK /\ [DNext]_delayVars => BoundedInv'
  BY DelayedWindsDown
<1> QED
  BY <1>1, <1>2, DelayedTyped, PTL DEF DSpec

(* Also where requests arrive late, a working run has a next request.      *)
THEOREM NeverStuckLate == ASSUME FiniteFiles PROVE DSpec => []NeverStuck
<1>1. BoundedInv => NeverStuck
  BY DEF BoundedInv, Bounded, NeverStuck
<1> QED
  BY <1>1, BoundedLate, PTL

(* And every step of a run still brings it nearer to its end.              *)
THEOREM RunsWindDownLate ==
  ASSUME FiniteFiles
  PROVE  DSpec => RunsWindDown /\ [](\A p \in Publishers : Left(p) \in Places)
<1>1. BoundedInv => \A p \in Publishers : Left(p) \in Places
  BY LeftType DEF BoundedInv, TypeOK, Left
<1>2. BoundedInv /\ DTypeOK /\ [DNext]_delayVars =>
        [\A p \in Publishers :
           /\ Progress(p) \/ Trouble(p) => Below(Left(p)', Left(p))
           /\ run'[p].runs = run[p].runs => Left(p)' = Left(p) \/ Below(Left(p)', Left(p))]_vars
  BY DelayedWindsDown
<1> QED
  BY <1>1, <1>2, BoundedLate, DelayedTyped, PTL DEF DSpec, RunsWindDown
-----------------------------------------------------------------------------
(***************************************************************************)
(* A run to which nothing happens does not fail.  Faring(p) is what such a *)
(* run has before a step, FareOn(p) what it has after it.                  *)
(***************************************************************************)
Faring(p) ==
  /\ TypeOK /\ OwnInv(p) /\ Brings(p, run[p])
  /\ Rounds > 1 /\ Fit(p) /\ PublishedOf(TagOf[p]) = {}
  /\ OnCourse(run[p])

FareOn(p) == \E x : Continue(p, x) /\ x.pc # "idle" /\ OnCourse(x)'

\* The release such a run works on is a draft.
LEMMA FaringFacts ==
  ASSUME NEW p \in Publishers, Faring(p)
  PROVE  /\ run[p] \in RunRecord /\ HostOK /\ Own(TagOf[p], run[p])
         /\ run[p].pc \notin OnPublic \cup {"succeeded"}
         /\ run[p].pc \in OnDraft \cup {"publish"} =>
              /\ run[p].rel \in DOMAIN rels /\ rels[run[p].rel].tag = TagOf[p]
              /\ rels[run[p].rel].draft
<1>1. run[p] \in RunRecord /\ HostOK /\ Own(TagOf[p], run[p])
  BY DEF Faring, TypeOK, OwnInv
<1>2. \A r \in DOMAIN rels : rels[r].tag = TagOf[p] => rels[r].draft
  BY DEF Faring, PublishedOf, ReleasesOf
<1> QED
  BY <1>1, <1>2 DEF Own, OwnRelease, SuccessOK, Holding

\* A record that is on course stays so while the store does not change.
LEMMA SameStoreFares ==
  ASSUME UNCHANGED hostVars, NEW x, OnCourse(x)
  PROVE  OnCourse(x)'
BY DEF hostVars, OnCourse, FillOK, SecondRound, Exact, Kept, Right, View, AssetsOf

\* Where only the place matters.
LEMMA ElsewhereFares ==
  ASSUME NEW x,
         \/ x.pc \in {"tag", "find", "others", "create", "list"} /\ x.round = 1
         \/ x.pc \in {"latest", "guard", "publish", "confirm"}
  PROVE  OnCourse(x) /\ OnCourse(x)' /\ x.pc # "idle"
BY DEF OnCourse, FillOK, SecondRound, Exact

LEMMA ChecksFare ==
  ASSUME NEW p \in Publishers, Faring(p), CheckLimits(p) \/ CheckTag(p)
  PROVE  FareOn(p)
<1> DEFINE me == run[p]
<1>1. me \in RunRecord /\ OnCourse(me) /\ Fit(p) /\ Brings(p, me)
  BY FaringFacts DEF Faring
<1>2. me.pc \in {"limits", "tag"}
  BY DEF CheckLimits, CheckTag
<1> HIDE DEF me
<1>3. WithinLimits(me.local) /\ RemoteTag[TagOf[p]] = me.commit
  BY <1>1, <1>2 DEF Fit, Brings
<1>4. me.round = 1
  BY <1>1, <1>2 DEF OnCourse
<1>5. PICK pc \in {"tag", "find"} : Continue(p, [me EXCEPT !.pc = pc])
  BY <1>3 DEF CheckLimits, CheckTag, Goto, me
<1>6. PICK x : x = [me EXCEPT !.pc = pc] /\ Continue(p, x)
  BY <1>5
<1>7. x.pc = pc /\ x.round = 1
  BY <1>1, <1>4, <1>6 DEF RunRecord
<1> QED
  BY <1>5, <1>6, <1>7, ElsewhereFares DEF FareOn

LEMMA FindFares ==
  ASSUME NEW p \in Publishers, Faring(p), FindByTag(p) \/ FindInList(p)
  PROVE  FareOn(p)
<1> DEFINE me == run[p]
           t == TagOf[p]
<1>1. me \in RunRecord /\ OnCourse(me) /\ Own(t, me) /\ PublishedOf(t) = {}
  BY FaringFacts DEF Faring
<1>2. /\ me.pc \notin OnPublic
      /\ me.pc \in OnDraft => me.rel \in DOMAIN rels /\ rels[me.rel].tag = t
  BY FaringFacts
<1>3. me.pc \in FindAt
  BY DEF FindByTag, FindInList
<1> HIDE DEF me, t
<1>4. me.pc \in {"find", "guard"} /\ (me.pc = "find" => me.round = 1)
  BY <1>1, <1>2, <1>3 DEF FindAt, OnPublic, OnCourse
<1>5. me.pc = "guard" => me.rel \in ReleasesOf(t) /\ \A r \in ReleasesOf(t) : r = me.rel
  BY <1>1, <1>2 DEF OnDraft, ReleasesOf, Own, AloneOK, Settled
<1>6. ASSUME NEW r \in ReleasesOf(t), NEW x, x = AfterFind(me, r)
      PROVE  (x.pc = "others" /\ x.round = 1) \/ x.pc = "publish"
  <2>1. rels[r].draft
    BY <1>1 DEF PublishedOf
  <2>2. CASE me.pc = "find"
    BY <1>1, <1>4, <1>6, <2>1, <2>2 DEF AfterFind, RunRecord
  <2>3. CASE me.pc = "guard"
    BY <1>1, <1>5, <1>6, <2>3 DEF AfterFind, RunRecord
  <2> QED
    BY <1>4, <2>2, <2>3
<1>7. ASSUME ReleasesOf(t) = {}, NEW x, x = AfterMissing(me)
      PROVE  x.pc = "create" /\ x.round = 1
  BY <1>1, <1>4, <1>5, <1>7 DEF AfterMissing, RunRecord
<1>8. ASSUME NEW x, x = [me EXCEPT !.scan = TRUE]
      PROVE  x.pc = me.pc /\ x.round = me.round
  BY <1>1, <1>8 DEF RunRecord
<1>9. \E x : /\ Continue(p, x)
             /\ \/ \E r \in ReleasesOf(t) : x = AfterFind(me, r)
                \/ ReleasesOf(t) = {} /\ x = AfterMissing(me)
                \/ x = [me EXCEPT !.scan = TRUE]
  BY <1>1 DEF FindByTag, FindInList, PublishedOf, me, t
<1>10. PICK x : /\ Continue(p, x)
                /\ \/ x.pc \in {"find", "others", "create"} /\ x.round = 1
                   \/ x.pc \in {"guard", "publish"}
  BY <1>4, <1>6, <1>7, <1>8, <1>9
<1>11. OnCourse(x)' /\ x.pc # "idle"
  BY <1>10, ElsewhereFares
<1> QED
  BY <1>10, <1>11 DEF FareOn

\* All other releases of the tag are drafts, so they can be dropped, or a draft created.
LEMMA DraftFares ==
  ASSUME NEW p \in Publishers, Faring(p), ListOthers(p) \/ DropOther(p) \/ CreateDraft(p)
  PROVE  FareOn(p)
<1> DEFINE me == run[p]
           t == TagOf[p]
<1>1. me \in RunRecord /\ OnCourse(me) /\ Own(t, me) /\ PublishedOf(t) = {}
  BY FaringFacts DEF Faring
<1>2. me.pc \in {"others", "drop", "create"}
  BY DEF ListOthers, DropOther, CreateDraft
<1> HIDE DEF me, t
<1>3. me.round = 1
  BY <1>1, <1>2 DEF OnCourse
<1>4. ASSUME NEW rest, \A o \in rest : o.draft, Continue(p, AfterDrop(me, rest))
      PROVE  FareOn(p)
  <2>1. PICK x : x = AfterDrop(me, rest) /\ Continue(p, x)
    BY <1>4
  <2>2. x.others = rest /\ x.round = 1 /\ x.pc = IF rest = {} THEN "list" ELSE "drop"
    BY <1>1, <1>3, <2>1 DEF AfterDrop, RunRecord
  <2>3. x.pc = "drop" => OnCourse(x)'
    BY <1>4, <2>2 DEF OnCourse
  <2>4. x.pc = "list" => OnCourse(x)'
    BY <2>2, ElsewhereFares
  <2> QED
    BY <2>1, <2>2, <2>3, <2>4 DEF FareOn
<1>5. CASE ListOthers(p)
  <2> DEFINE rest == {o \in ListReleases : o.tag = t /\ o.id # me.rel}
  <2>1. \A o \in rest : o.draft
    BY <1>1 DEF ListReleases, PublishedOf, ReleasesOf
  <2>2. Continue(p, AfterDrop(me, rest))
    BY <1>5 DEF ListOthers, me, t
  <2> HIDE DEF rest
  <2> QED
    BY <1>4, <2>1, <2>2
<1>6. CASE DropOther(p)
  <2>1. me.pc = "drop"
    BY <1>6 DEF DropOther, me
  <2>2. \A o \in me.others : o.draft
    BY <1>1, <2>1 DEF OnCourse
  <2>3. PICK o \in me.others : Continue(p, AfterDrop(me, me.others \ {o}))
    BY <1>6, <2>2 DEF DropOther, me
  <2> QED
    BY <1>4, <2>2, <2>3
<1>7. CASE CreateDraft(p)
  <2>1. ReleasesOf(t) = {}
    BY <1>1, <1>7 DEF CreateDraft, Own, AloneOK, me
  <2>2. CanCreate(t)
    BY <2>1 DEF CanCreate
  <2>3. PICK x : x = [me EXCEPT !.rel = nextId, !.pc = "list"] /\ Continue(p, x)
    BY <1>7, <2>2 DEF CreateDraft, me, t
  <2>4. x.pc = "list" /\ x.round = 1
    BY <1>1, <1>3, <2>3 DEF RunRecord
  <2> QED
    BY <2>3, <2>4, ElsewhereFares DEF FareOn
<1> QED
  BY <1>5, <1>6, <1>7

\* The plan of a round keeps what is right and uploads the rest.
LEMMA PlanFares ==
  ASSUME NEW p \in Publishers, Faring(p), ReconcileList(p)
  PROVE  FareOn(p)
<1> DEFINE me == run[p]
           listing == ListAssets(me.rel)
           d == {s \in listing : \/ s.name \notin DOMAIN me.local
                                 \/ ~Alone(s, listing)
                                 \/ Verdict(me, s, ~TrustServerDigest) = "mismatch"}
           g == {s \in listing \ d : Verdict(me, s, ~TrustServerDigest) = "ok"}
           w == (listing \ d) \ g
           m == DOMAIN me.local \ {s.name : s \in g}
           x == [me EXCEPT !.pc = "reconcile", !.doomed = d, !.todo = w, !.missing = m,
                           !.changed = FALSE]
<1>1. me \in RunRecord /\ HostOK /\ Own(TagOf[p], me) /\ OnCourse(me) /\ me.pc = "list"
      /\ MemoOK(me) /\ TrustServerDigest \in BOOLEAN
  BY FaringFacts, PublishAssumption DEF Faring, ReconcileList, Own
<1>2. me.rel \in DOMAIN rels
  BY <1>1, FaringFacts DEF OnDraft
<1>3. Continue(p, x) /\ UNCHANGED hostVars
  BY <1>2 DEF ReconcileList, ReadOnly, hostVars
<1>4. \A s \in listing : /\ s.id \in AssetsOf(me.rel) /\ s.id \in DOMAIN assets
                         /\ s = View(s.id) /\ s.name = assets[s.id].name
  BY <1>1, ListingFacts
<1>5. \A a \in AssetsOf(me.rel) : /\ View(a) \in listing
                                  /\ View(a).id = a /\ View(a).name = assets[a].name
                                  /\ View(a).state = assets[a].state
  BY DEF ListAssets, View
<1>6. \A s \in listing \ d : /\ s.name \in DOMAIN me.local /\ Alone(s, listing)
                             /\ Verdict(me, s, ~TrustServerDigest) # "mismatch"
                             /\ s.state = "uploaded"
  BY <1>1, VerdictComplete
<1>7. \A s \in g : s \in listing \ d /\ assets[s.id].content = me.local[s.name]
  <2> SUFFICES ASSUME NEW s \in g
               PROVE  s \in listing \ d /\ assets[s.id].content = me.local[s.name]
    OBVIOUS
  <2>1. s \in listing \ d /\ Verdict(me, s, ~TrustServerDigest) = "ok"
    OBVIOUS
  <2> HIDE DEF me, listing, d, g
  <2> QED
    BY <1>1, <1>4, <2>1, VerdictSound
<1>8. /\ d \subseteq listing /\ w \subseteq listing \ d /\ d \cap w = {}
      /\ \A s \in listing : s \notin d \cup w => s \in g
      /\ \A n \in DOMAIN me.local : n \notin m => \E s \in g : s.name = n
      /\ \A s \in g : s.name \notin m
      /\ \A n \in m : n \in DOMAIN me.local /\ \A s \in g : s.name # n
  OBVIOUS
<1>9. SecondRound(me) => \A s \in listing : s \notin d
  <2> SUFFICES ASSUME Exact(me.rel, me.local), NEW s \in listing
               PROVE  s \notin d
    BY DEF SecondRound
  <2>1. s.name \in DOMAIN me.local /\ s.state = "uploaded"
        /\ assets[s.id].content = me.local[s.name] /\ s = View(s.id)
    BY <1>4, <1>5 DEF Exact
  <2>2. Alone(s, listing)
    BY <1>4, <1>5 DEF Exact, Alone
  <2>3. Verdict(me, s, ~TrustServerDigest) # "mismatch"
    <3>1. s.size = Size[me.local[s.name]] /\ s.digest \in {NoDigest, me.local[s.name]}
      BY <2>1 DEF View
    <3> QED
      BY <2>1, <3>1 DEF Verdict
  <2> QED
    BY <2>1, <2>2, <2>3
<1> HIDE DEF listing, d, g, w, m
<1>10. /\ x.pc = "reconcile" /\ x.doomed = d /\ x.todo = w /\ x.missing = m /\ ~x.changed
       /\ x.local = me.local /\ x.rel = me.rel /\ x.round = me.round
  BY <1>1 DEF RunRecord
<1> HIDE DEF x, me
<1>11. FillOK(x)
  <2>1. \A a \in AssetsOf(x.rel) :
          Kept(a, x) => Right(a, x.local) /\ assets[a].name \notin x.missing
    BY <1>4, <1>5, <1>6, <1>7, <1>8, <1>10 DEF Kept, Right
  <2>2. \A n \in DOMAIN x.local \ x.missing :
          \E a \in AssetsOf(x.rel) : assets[a].name = n /\ Kept(a, x)
    <3> SUFFICES ASSUME NEW n \in DOMAIN x.local \ x.missing
                 PROVE  \E a \in AssetsOf(x.rel) : assets[a].name = n /\ Kept(a, x)
      OBVIOUS
    <3>1. PICK s \in g : s.name = n
      BY <1>8, <1>10
    <3>2. s \notin d \cup w /\ s \in listing
      BY <1>7, <1>8, <3>1 DEF w
    <3> QED
      BY <1>4, <1>10, <3>1, <3>2 DEF Kept
  <2>3. \A a, b \in AssetsOf(x.rel) :
          View(a) \notin x.doomed /\ View(b) \notin x.doomed /\ assets[a].name = assets[b].name
            => a = b
    BY <1>5, <1>6, <1>10 DEF Alone
  <2>4. \A s \in x.todo : s.id \in DOMAIN assets /\ s.state = "uploaded"
    BY <1>4, <1>6, <1>8, <1>10
  <2> QED
    BY <1>8, <1>10, <2>1, <2>2, <2>3, <2>4 DEF FillOK
<1>12. x.round = 2 => SecondRound(x)
  <2> SUFFICES ASSUME me.round = 2 PROVE SecondRound(x)
    BY <1>10
  <2>1. SecondRound(me) /\ Exact(me.rel, me.local)
    BY <1>1 DEF OnCourse, SecondRound
  <2>2. d = {}
    BY <1>8, <1>9, <2>1
  <2>3. ASSUME NEW n \in m PROVE \E s \in w : s.name = n
    <3>1. PICK a \in AssetsOf(me.rel) : assets[a].name = n
      BY <1>8, <2>1, <2>3 DEF Exact
    <3>2. View(a) \in listing /\ View(a).name = n
      BY <1>5, <3>1
    <3>3. View(a) \notin g
      BY <1>8, <2>3, <3>2
    <3> QED
      BY <1>8, <2>2, <3>2, <3>3
  <2> QED
    BY <1>10, <2>1, <2>2, <2>3 DEF SecondRound
<1>13. OnCourse(x)
  BY <1>1, <1>10, <1>11, <1>12 DEF OnCourse
<1> QED
  BY <1>3, <1>10, <1>13, SameStoreFares DEF FareOn

\* Deleting what is wrong takes nothing that is kept.
LEMMA DeleteFares ==
  ASSUME NEW p \in Publishers, Faring(p), DeleteDoomed(p)
  PROVE  FareOn(p)
<1>0. PICK me : me = run[p]
  OBVIOUS
<1>1. /\ me \in RunRecord /\ HostOK /\ ListedOK(me) /\ OnCourse(me) /\ FillOK(me)
      /\ me.pc = "reconcile" /\ rels[me.rel].draft
  BY <1>0, FaringFacts DEF Faring, DeleteDoomed, Own, OnCourse, OnDraft
<1>2. \A s \in me.doomed : CanRemove(s.id)
  BY <1>1 DEF ListedOK, CanRemove, Frozen
<1>3. PICK s \in me.doomed :
        /\ RemoveAsset(s.id)
        /\ \E n : Continue(p, [me EXCEPT !.doomed = me.doomed \ {s}, !.changed = TRUE, !.cur = n])
  BY <1>0, <1>2 DEF DeleteDoomed
<1>4. PICK x : /\ \E n : x = [me EXCEPT !.doomed = me.doomed \ {s}, !.changed = TRUE, !.cur = n]
               /\ Continue(p, x)
  BY <1>3
<1>5. /\ x.pc = "reconcile" /\ x.doomed = me.doomed \ {s} /\ x.todo = me.todo
      /\ x.missing = me.missing /\ x.local = me.local /\ x.rel = me.rel /\ x.round = me.round
  BY <1>1, <1>4 DEF RunRecord
<1>6. me.round = 1
  BY <1>1, <1>3 DEF OnCourse, SecondRound
<1>7. /\ DOMAIN assets' = DOMAIN assets \ {s.id}
      /\ \A a \in DOMAIN assets' : assets'[a] = assets[a] /\ View(a)' = View(a)
      /\ \A a \in AssetsOf(me.rel)' : a \in AssetsOf(me.rel) /\ a # s.id /\ a \in DOMAIN assets'
      /\ \A a \in AssetsOf(me.rel) : a # s.id => a \in AssetsOf(me.rel)'
  <2>1. DOMAIN assets' = DOMAIN assets \ {s.id}
        /\ \A a \in DOMAIN assets' : assets'[a] = assets[a]
    BY <1>3 DEF RemoveAsset, Restrict
  <2> QED
    BY <2>1 DEF AssetsOf, View
<1>8. s.id \in DOMAIN assets => s = View(s.id)
  BY <1>1 DEF ListedOK
<1>9. \A a \in DOMAIN assets : View(a).id = a
  BY DEF View
<1>10. \A z \in me.todo : z.id \in DOMAIN assets' /\ z.state = "uploaded"
  <2> SUFFICES ASSUME NEW z \in me.todo PROVE z.id \in DOMAIN assets' /\ z.state = "uploaded"
    OBVIOUS
  <2>1. z.id \in DOMAIN assets /\ z.state = "uploaded" /\ z = View(z.id) /\ z # s
    BY <1>1, <1>3 DEF FillOK, ListedOK
  <2> QED
    BY <1>7, <1>8, <2>1
<1>11. \A a \in AssetsOf(me.rel)' : /\ View(a)' = View(a) /\ View(a) # s /\ assets'[a] = assets[a]
                                    /\ a \in AssetsOf(me.rel)
  BY <1>7, <1>9 DEF AssetsOf
<1>12. \A a \in AssetsOf(me.rel) : Kept(a, me) => a # s.id
  BY <1>3, <1>8 DEF Kept, AssetsOf
<1>13. FillOK(x)'
  <2>1. \A a \in AssetsOf(x.rel)' :
          Kept(a, x)' => Right(a, x.local)' /\ assets'[a].name \notin x.missing
    BY <1>1, <1>5, <1>11 DEF FillOK, Kept, Right
  <2>2. \A n \in DOMAIN x.local \ x.missing :
          \E a \in AssetsOf(x.rel)' : assets'[a].name = n /\ Kept(a, x)'
    <3> SUFFICES ASSUME NEW n \in DOMAIN x.local \ x.missing
                 PROVE  \E a \in AssetsOf(x.rel)' : assets'[a].name = n /\ Kept(a, x)'
      OBVIOUS
    <3>1. PICK a \in AssetsOf(me.rel) : assets[a].name = n /\ Kept(a, me)
      BY <1>1, <1>5 DEF FillOK
    <3>2. a \in AssetsOf(me.rel)'
      BY <1>7, <1>12, <3>1
    <3> QED
      BY <1>5, <1>11, <3>1, <3>2 DEF Kept
  <2>3. \A a, b \in AssetsOf(x.rel)' :
          View(a)' \notin x.doomed /\ View(b)' \notin x.doomed /\ assets'[a].name = assets'[b].name
            => a = b
    BY <1>1, <1>5, <1>11 DEF FillOK
  <2>4. x.doomed \cap x.todo = {}
    BY <1>1, <1>5 DEF FillOK
  <2> QED
    BY <1>5, <1>10, <2>1, <2>2, <2>3, <2>4 DEF FillOK
<1>14. OnCourse(x)'
  BY <1>5, <1>6, <1>13 DEF OnCourse
<1> QED
  BY <1>4, <1>5, <1>14 DEF FareOn

\* A download shows that an asset is right, or sets it aside.
LEMMA DownloadFares ==
  ASSUME NEW p \in Publishers, Faring(p), CheckStored(p)
  PROVE  FareOn(p)
<1>0. PICK me : me = run[p]
  OBVIOUS
<1>1. /\ me \in RunRecord /\ HostOK /\ ListedOK(me) /\ WorkOK(me) /\ OnCourse(me) /\ FillOK(me)
      /\ me.pc = "reconcile"
  BY <1>0, FaringFacts DEF Faring, CheckStored, Own, OnCourse
<1>2. \A s \in me.todo : s.id \in DOMAIN assets /\ s.state = "uploaded" /\ s = View(s.id)
                         /\ s.id \in AssetsOf(me.rel) /\ s.name = assets[s.id].name
                         /\ s.name \in DOMAIN me.local /\ assets[s.id].state = "uploaded"
  BY <1>1 DEF FillOK, ListedOK, WorkOK, AssetsOf, View
<1>3. UNCHANGED hostVars
  BY DEF CheckStored, ReadOnly, hostVars
<1>4. PICK s \in me.todo :
        \/ /\ assets[s.id].content = me.local[s.name]
           /\ \E m : Continue(p, [me EXCEPT !.todo    = me.todo \ {s},
                                            !.missing = me.missing \ {s.name},
                                            !.memo    = m])
        \/ /\ assets[s.id].content # me.local[s.name]
           /\ Continue(p, [me EXCEPT !.todo = me.todo \ {s}, !.doomed = me.doomed \cup {s},
                                     !.cur  = s.name])
  BY <1>0, <1>2 DEF CheckStored
<1>5. \A a \in AssetsOf(me.rel) : View(a).id = a /\ View(a).name = assets[a].name
  BY DEF View
<1> SUFFICES \E x : Continue(p, x) /\ x.pc # "idle" /\ OnCourse(x)
  BY <1>3, SameStoreFares DEF FareOn
<1>6. CASE assets[s.id].content = me.local[s.name]
  <2>1. PICK m, x : /\ x = [me EXCEPT !.todo = me.todo \ {s}, !.missing = me.missing \ {s.name},
                                      !.memo = m]
                    /\ Continue(p, x)
    BY <1>4, <1>6
  <2>2. /\ x.pc = "reconcile" /\ x.doomed = me.doomed /\ x.todo = me.todo \ {s}
        /\ x.missing = me.missing \ {s.name} /\ x.local = me.local /\ x.rel = me.rel
        /\ x.round = me.round /\ x.changed = me.changed
    BY <1>1, <2>1 DEF RunRecord
  <2>3. Right(s.id, me.local)
    BY <1>2, <1>6 DEF Right
  <2>4. \A a \in AssetsOf(me.rel) : Kept(a, x) => Kept(a, me) \/ a = s.id
    BY <1>5, <2>2 DEF Kept
  <2>5. \A a \in AssetsOf(x.rel) :
          Kept(a, x) => Right(a, x.local) /\ assets[a].name \notin x.missing
    BY <1>1, <1>2, <2>2, <2>3, <2>4 DEF FillOK
  <2>6. \A n \in DOMAIN x.local \ x.missing :
          \E a \in AssetsOf(x.rel) : assets[a].name = n /\ Kept(a, x)
    <3> SUFFICES ASSUME NEW n \in DOMAIN x.local \ x.missing
                 PROVE  \E a \in AssetsOf(x.rel) : assets[a].name = n /\ Kept(a, x)
      OBVIOUS
    <3>1. CASE n = s.name
      <4>1. Kept(s.id, x)
        BY <1>1, <1>2, <2>2 DEF Kept, FillOK
      <4> QED
        BY <1>2, <2>2, <3>1, <4>1
    <3>2. CASE n # s.name
      BY <1>1, <2>2, <3>2 DEF FillOK, Kept
    <3> QED
      BY <3>1, <3>2
  <2>7. FillOK(x)
    BY <1>1, <2>2, <2>5, <2>6 DEF FillOK
  <2>8. x.round = 2 => SecondRound(x)
    <3> SUFFICES ASSUME x.round = 2 PROVE SecondRound(x)
      OBVIOUS
    <3>1. SecondRound(me)
      BY <1>1, <2>2 DEF OnCourse
    <3>2. ASSUME NEW n \in x.missing PROVE \E z \in x.todo : z.name = n
      <4>1. PICK z \in me.todo : z.name = n
        BY <1>1, <2>2, <3>1, <3>2 DEF SecondRound
      <4> QED
        BY <2>2, <3>2, <4>1
    <3> QED
      BY <1>1, <2>2, <3>1, <3>2 DEF SecondRound
  <2>9. OnCourse(x)
    BY <1>1, <2>2, <2>7, <2>8 DEF OnCourse
  <2> QED
    BY <2>1, <2>2, <2>9
<1>7. CASE assets[s.id].content # me.local[s.name]
  <2>1. PICK x : /\ x = [me EXCEPT !.todo = me.todo \ {s}, !.doomed = me.doomed \cup {s},
                                   !.cur = s.name]
                 /\ Continue(p, x)
    BY <1>4, <1>7
  <2>2. /\ x.pc = "reconcile" /\ x.doomed = me.doomed \cup {s} /\ x.todo = me.todo \ {s}
        /\ x.missing = me.missing /\ x.local = me.local /\ x.rel = me.rel /\ x.round = me.round
    BY <1>1, <2>1 DEF RunRecord
  <2>3. me.round # 2
    BY <1>1, <1>2, <1>7 DEF OnCourse, SecondRound, Exact
  <2>4. \A a \in AssetsOf(me.rel) : Kept(a, x) <=> Kept(a, me)
    BY <2>2 DEF Kept
  <2>5. FillOK(x)
    BY <1>1, <2>2, <2>4 DEF FillOK
  <2>6. OnCourse(x)
    BY <1>1, <2>2, <2>3, <2>5 DEF OnCourse
  <2> QED
    BY <2>1, <2>2, <2>6
<1> QED
  BY <1>6, <1>7

\* A name that is missing is free, so its file is stored.
LEMMA UploadFares ==
  ASSUME NEW p \in Publishers, Faring(p), Upload(p)
  PROVE  FareOn(p)
<1>0. PICK me : me = run[p]
  OBVIOUS
<1>1. /\ me \in RunRecord /\ HostOK /\ OnCourse(me) /\ FillOK(me) /\ WorkOK(me)
      /\ me.pc = "reconcile" /\ me.doomed = {} /\ me.todo = {}
      /\ me.rel \in DOMAIN rels /\ rels[me.rel].draft
  BY <1>0, FaringFacts DEF Faring, Upload, Uploading, Own, OnCourse, OnDraft
<1>2. \A a \in AssetsOf(me.rel) : Right(a, me.local) /\ assets[a].name \notin me.missing
  BY <1>1 DEF FillOK, Kept
<1>3. \A n \in me.missing : CanStore(me.rel, n)
  BY <1>1, <1>2 DEF CanStore, Frozen
<1>4. PICK n \in me.missing : /\ StoreAsset(me.rel, n, me.local[n], "uploaded")
                              /\ Continue(p, Attempted(me, n))
  BY <1>0, <1>3 DEF Upload
<1>5. PICK x : x = Attempted(me, n) /\ Continue(p, x)
  BY <1>4
<1>6. /\ x.pc = "reconcile" /\ x.doomed = {} /\ x.todo = {}
      /\ x.missing = me.missing \ {n} /\ x.local = me.local /\ x.rel = me.rel
      /\ x.round = me.round
  BY <1>1, <1>5 DEF RunRecord, Attempted
<1>7. me.round = 1 /\ n \in DOMAIN me.local
  BY <1>1 DEF OnCourse, SecondRound, WorkOK
<1>8. PICK i : i = nextId
  OBVIOUS
<1>9. i \notin DOMAIN assets
  BY <1>1, <1>8, IdFacts
<1>10. /\ DOMAIN assets' = DOMAIN assets \cup {i}
       /\ \A a \in DOMAIN assets : assets'[a] = assets[a]
       /\ assets'[i].rel = me.rel /\ assets'[i].name = n
       /\ assets'[i].content = me.local[n] /\ assets'[i].state = "uploaded"
  BY <1>4, <1>8, <1>9 DEF StoreAsset
<1>11. \A a \in AssetsOf(x.rel)' : a = i \/ (a \in AssetsOf(me.rel) /\ assets'[a] = assets[a])
  BY <1>6, <1>10 DEF AssetsOf
<1>12. i \in AssetsOf(x.rel)' /\ \A a \in AssetsOf(me.rel) : a \in AssetsOf(x.rel)'
                                                             /\ assets'[a] = assets[a]
  BY <1>6, <1>10 DEF AssetsOf
<1>13. FillOK(x)'
  <2>1. \A a \in AssetsOf(x.rel)' : Right(a, x.local)' /\ assets'[a].name \notin x.missing
    BY <1>2, <1>6, <1>7, <1>10, <1>11 DEF Right
  <2>2. \A m \in DOMAIN x.local \ x.missing : \E a \in AssetsOf(x.rel)' : assets'[a].name = m
    <3> SUFFICES ASSUME NEW m \in DOMAIN x.local \ x.missing
                 PROVE  \E a \in AssetsOf(x.rel)' : assets'[a].name = m
      OBVIOUS
    <3>1. CASE m = n
      BY <1>10, <1>12, <3>1
    <3>2. CASE m # n
      BY <1>1, <1>6, <1>12, <3>2 DEF FillOK
    <3> QED
      BY <3>1, <3>2
  <2>3. \A a, b \in AssetsOf(x.rel)' : assets'[a].name = assets'[b].name => a = b
    <3>1. \A a, b \in AssetsOf(me.rel) : assets[a].name = assets[b].name => a = b
      BY <1>1 DEF FillOK
    <3> QED
      BY <1>2, <1>10, <1>11, <3>1
  <2> QED
    BY <1>6, <2>1, <2>2, <2>3 DEF FillOK, Kept
<1>14. OnCourse(x)'
  BY <1>6, <1>7, <1>13 DEF OnCourse
<1> QED
  BY <1>5, <1>6, <1>14 DEF FareOn

\* After a round the release holds the files, and the second round changes nothing.
LEMMA EndFares ==
  ASSUME NEW p \in Publishers, Faring(p), EndRound(p)
  PROVE  FareOn(p)
<1>0. PICK me : me = run[p]
  OBVIOUS
<1>1. /\ me \in RunRecord /\ OnCourse(me) /\ FillOK(me) /\ Rounds > 1 /\ Rounds \in Nat
      /\ me.pc = "reconcile" /\ me.doomed = {} /\ me.todo = {} /\ me.missing = {}
  BY <1>0, FaringFacts, PublishAssumption DEF Faring, EndRound, Uploading, OnCourse
<1>2. Exact(me.rel, me.local)
  BY <1>1 DEF FillOK, Kept, Right, Exact
<1>3. me.changed => me.round = 1
  BY <1>1 DEF OnCourse, SecondRound
<1>4. UNCHANGED hostVars
  BY DEF EndRound, ReadOnly, hostVars
<1>5. PICK x : /\ Continue(p, x)
               /\ \/ x = [me EXCEPT !.pc = "final"]
                  \/ me.round = 1 /\ x = [me EXCEPT !.pc = "list", !.round = me.round + 1]
  <2>1. me.changed => me.round < Rounds
    BY <1>1, <1>3
  <2> QED
    BY <1>0, <1>3, <2>1 DEF EndRound, Goto
<1>6. /\ x.pc = "final" \/ (x.pc = "list" /\ x.round = 2)
      /\ x.local = me.local /\ x.rel = me.rel /\ x.todo = {}
  <2>1. CASE x = [me EXCEPT !.pc = "final"]
    BY <1>1, <2>1 DEF RunRecord
  <2>2. CASE me.round = 1 /\ x = [me EXCEPT !.pc = "list", !.round = me.round + 1]
    <3>1. x.round = me.round + 1 /\ x.pc = "list"
          /\ x.local = me.local /\ x.rel = me.rel /\ x.todo = {}
      BY <1>1, <2>2 DEF RunRecord
    <3> QED
      BY <2>2, <3>1
  <2> QED
    BY <1>5, <2>1, <2>2
<1>7. OnCourse(x)
  BY <1>2, <1>6 DEF OnCourse, SecondRound
<1> QED
  BY <1>4, <1>5, <1>6, <1>7, SameStoreFares DEF FareOn

\* The comparison before publishing finds what the rounds have made.
LEMMA CompareFares ==
  ASSUME NEW p \in Publishers, Faring(p), CompareList(p) \/ CompareDownload(p) \/ CompareDone(p)
  PROVE  FareOn(p)
<1>0. PICK me : me = run[p]
  OBVIOUS
<1>1. me.pc = "final"
  BY <1>0, FaringFacts DEF CompareList, CompareDownload, CompareDone, CompareAt, OnPublic
<1>2. /\ me \in RunRecord /\ HostOK /\ ListedOK(me)
      /\ Exact(me.rel, me.local) /\ \A s \in me.todo : s.id \in DOMAIN assets
      /\ me.rel \in DOMAIN rels
  BY <1>0, <1>1, FaringFacts DEF Faring, OnCourse, Own, OnDraft
<1>3. UNCHANGED hostVars
  BY DEF CompareList, CompareDownload, CompareDone, ReadOnly, hostVars
<1> SUFFICES \E x : Continue(p, x) /\ x.pc # "idle" /\ OnCourse(x)
  BY <1>3, SameStoreFares DEF FareOn
<1>4. ASSUME NEW x, Continue(p, x), x.pc = "final", x.local = me.local, x.rel = me.rel,
             \A s \in x.todo : s.id \in DOMAIN assets
      PROVE  \E y : Continue(p, y) /\ y.pc # "idle" /\ OnCourse(y)
  BY <1>2, <1>4 DEF OnCourse
<1>5. CASE CompareList(p)
  <2> DEFINE listing == ListAssets(me.rel)
             verdict == [s \in listing |-> Verdict(me, s, FullDownload(me.pc))]
  <2>1. \A s \in listing : /\ s.id \in AssetsOf(me.rel) /\ s.id \in DOMAIN assets
                           /\ s = View(s.id) /\ s.name = assets[s.id].name
    BY <1>2, ListingFacts
  <2>2. \A a \in AssetsOf(me.rel) : View(a) \in listing /\ View(a).name = assets[a].name
    BY DEF ListAssets, View
  <2> HIDE DEF listing
  <2>3. SameShape(me, listing)
    <3>1. DOMAIN me.local = {s.name : s \in listing}
      BY <1>2, <2>1, <2>2 DEF Exact
    <3>2. \A s \in listing : Alone(s, listing)
      BY <1>2, <2>1 DEF Exact, Alone
    <3> QED
      BY <3>1, <3>2 DEF SameShape
  <2>4. \A s \in listing : verdict[s] # "mismatch"
    <3> SUFFICES ASSUME NEW s \in listing
                 PROVE  Verdict(me, s, FullDownload(me.pc)) # "mismatch"
      OBVIOUS
    <3>1. /\ assets[s.id].state = "uploaded" /\ assets[s.id].content = me.local[s.name]
      BY <1>2, <2>1 DEF Exact
    <3>2. /\ s.state = "uploaded" /\ s.size = Size[me.local[s.name]]
          /\ s.digest \in {NoDigest, me.local[s.name]}
      BY <2>1, <3>1 DEF View
    <3> QED
      BY <3>2 DEF Verdict
  <2>5. \E t \in SUBSET listing : Continue(p, [me EXCEPT !.listed = TRUE, !.todo = t])
    BY <1>0, <1>2, <1>5, <2>3, <2>4 DEF CompareList, listing
  <2> HIDE DEF verdict
  <2>6. PICK t, x : t \in SUBSET listing /\ Continue(p, x)
                    /\ x = [me EXCEPT !.listed = TRUE, !.todo = t]
    BY <2>5
  <2>7. x.pc = "final" /\ x.local = me.local /\ x.rel = me.rel /\ x.todo = t
    BY <1>1, <1>2, <2>6 DEF RunRecord
  <2> QED
    BY <1>4, <2>1, <2>6, <2>7
<1>6. CASE CompareDownload(p)
  <2>1. \A s \in me.todo : s.id \in DOMAIN assets /\ assets[s.id].content = me.local[s.name]
    <3> SUFFICES ASSUME NEW s \in me.todo
                 PROVE  s.id \in DOMAIN assets /\ assets[s.id].content = me.local[s.name]
      OBVIOUS
    <3>1. s.id \in DOMAIN assets /\ s = View(s.id) /\ assets[s.id].rel = me.rel
      BY <1>2 DEF ListedOK
    <3>2. s.id \in AssetsOf(me.rel) /\ s.name = assets[s.id].name
      BY <3>1 DEF AssetsOf, View
    <3> QED
      BY <1>2, <3>2 DEF Exact, AssetsOf
  <2>2. PICK s, m, x : /\ s \in me.todo /\ Continue(p, x)
                       /\ x = [me EXCEPT !.todo = me.todo \ {s}, !.memo = m]
    BY <1>0, <1>6, <2>1 DEF CompareDownload
  <2>3. x.pc = "final" /\ x.local = me.local /\ x.rel = me.rel /\ x.todo = me.todo \ {s}
    BY <1>1, <1>2, <2>2 DEF RunRecord
  <2> QED
    BY <1>2, <1>4, <2>2, <2>3
<1>7. CASE CompareDone(p)
  <2>1. PICK x : Continue(p, x) /\ x = [me EXCEPT !.pc = "latest", !.listed = FALSE]
    BY <1>0, <1>1, <1>7 DEF CompareDone
  <2>2. x.pc = "latest"
    BY <1>2, <2>1 DEF RunRecord
  <2> QED
    BY <2>1, <2>2, ElsewhereFares
<1> QED
  BY <1>5, <1>6, <1>7

\* The release can be made public.
LEMMA PublishFares ==
  ASSUME NEW p \in Publishers, Faring(p), DecideLatest(p) \/ SendPublish(p)
  PROVE  FareOn(p)
<1>0. PICK me : me = run[p]
  OBVIOUS
<1>1. me \in RunRecord
  BY <1>0, FaringFacts
<1>2. SendPublish(p) => CanPublish(me.rel)
  BY <1>0, FaringFacts DEF Faring, SendPublish, CanPublish
<1>3. PICK x : /\ Continue(p, x)
               /\ \/ \E l : x = [me EXCEPT !.pc = "guard", !.latest = l]
                  \/ x = [me EXCEPT !.pc = "confirm"]
  BY <1>0, <1>2 DEF DecideLatest, SendPublish, Goto
<1>4. x.pc \in {"guard", "confirm"}
  BY <1>1, <1>3 DEF RunRecord
<1> QED
  BY <1>3, <1>4, ElsewhereFares DEF FareOn

\* No step of a run to which nothing has happened makes it fail.
LEMMA ProgressFares ==
  ASSUME NEW p \in Publishers, Faring(p), Progress(p)
  PROVE  FareOn(p)
BY ChecksFare, FindFares, DraftFares, PlanFares, DeleteFares, DownloadFares, UploadFares,
   EndFares, CompareFares, PublishFares DEF Progress

\* Nor does a step of another job.
LEMMA OthersFare ==
  ASSUME HostOK, NEW t, NEW me \in RunRecord, Own(t, me), OnCourse(me), Untouched(t)
  PROVE  OnCourse(me)'
<1>1. me.pc \in {"reconcile", "list", "final"} => me.rel \in ReleasesOf(t)
  BY DEF Own, OwnRelease, ReleasesOf, Holding, OnDraft
<1>2. CASE me.pc \notin {"reconcile", "list", "final"}
  BY <1>2 DEF OnCourse
<1>3. CASE me.pc \in {"reconcile", "list", "final"}
  <2>1. /\ AssetsOf(me.rel)' = AssetsOf(me.rel)
        /\ \A a \in AssetsOf(me.rel) : assets'[a] = assets[a] /\ View(a)' = View(a)
    <3>1. \A a \in AssetsOf(me.rel) : a \in AssetsOf(me.rel)' /\ a < nextId /\ a \in DOMAIN assets'
      BY <1>1, <1>3, IdFacts DEF Untouched, AssetsOf
    <3> QED
      BY <1>1, <1>3, <3>1 DEF Untouched, View
  <2>2. ASSUME Exact(me.rel, me.local) PROVE Exact(me.rel, me.local)'
    BY <2>1, <2>2 DEF Exact
  <2>3. ASSUME NEW s \in me.doomed \cup me.todo, s.id \in DOMAIN assets PROVE s.id \in DOMAIN assets'
    <3>1. s.id \in AssetsOf(me.rel)
      BY <2>3 DEF Own, ListedOK, AssetsOf
    <3> QED
      BY <2>1, <3>1 DEF AssetsOf
  <2>4. ASSUME FillOK(me) PROVE FillOK(me)'
    BY <2>1, <2>3, <2>4 DEF FillOK, Kept, Right
  <2>5. ASSUME SecondRound(me) PROVE SecondRound(me)'
    BY <2>2, <2>5 DEF SecondRound
  <2> QED
    BY <1>3, <2>2, <2>3, <2>4, <2>5 DEF OnCourse
<1> QED
  BY <1>2, <1>3
-----------------------------------------------------------------------------
(***************************************************************************)
(* So every failed run is paid for by a fault.                             *)
(***************************************************************************)
\* A run that starts has the files and the commit of its job, and all before it.
LEMMA StartPaid ==
  ASSUME NEW p \in Publishers, TypeOK, OwnInv(p), PublishedOf(TagOf[p]) = {}, Paid(p), Start(p)
  PROVE  Paid(p)'
<1>1. run[p].pc \in {"idle", "failed"}
  BY DEF Start, Resting, OwnInv, Own, SuccessOK, PublishedOf, ReleasesOf
<1>2. run[p].runs <= faults /\ faults \in Nat /\ run[p].runs \in Nat /\ faults' = faults
  BY <1>1 DEF Paid, TypeOK, RunRecord, Start, ReadOnly
<1>3. PICK l, c, x : x = Blank("limits", l, c, run[p].runs + 1) /\ Continue(p, x)
  BY DEF Start
<1>4. x.pc = "limits" /\ x.round = 1 /\ x.runs = run[p].runs + 1
  BY <1>3 DEF Blank
<1>5. OnCourse(x)'
  BY <1>4 DEF OnCourse
<1>6. run'[p] = x
  BY <1>3 DEF Continue, TypeOK
<1>7. run'[p].runs <= faults' + 1
  BY <1>2, <1>4, <1>6
<1> QED
  BY <1>4, <1>5, <1>6, <1>7 DEF Paid, OnCourse, FillOK, SecondRound, Exact

\* A step that something happens to pays for the run.
LEMMA TroublePaid ==
  ASSUME NEW p \in Publishers, TypeOK, Paid(p), Trouble(p)
  PROVE  Paid(p)'
<1>1. run[p].pc \in Working /\ run'[p].runs = run[p].runs
  BY StepIsWork, RunStep
<1>2. faults' = faults + 1
  BY DEF Trouble, CreateLost, UploadLost, PublishLost, Abort, Fault
<1>3. run[p].runs <= faults + 1 /\ faults \in Nat /\ run[p].runs \in Nat
  BY DEF Paid, TypeOK, RunRecord
<1>4. run'[p].runs <= faults' /\ faults' \in Nat /\ run'[p].runs \in Nat
  BY <1>1, <1>2, <1>3
<1>5. run'[p].runs <= faults' + 1 /\ ~(run'[p].runs > faults')
  BY <1>4
<1> QED
  BY <1>4, <1>5 DEF Paid

\* A step that nothing happens to keeps a run on its course.
LEMMA ProgressPaid ==
  ASSUME NEW p \in Publishers, Faring(p) \/ run[p].runs <= faults, TypeOK, Paid(p), Progress(p)
  PROVE  Paid(p)'
<1>1. run[p].pc \in Working /\ run'[p].runs = run[p].runs
  BY StepIsWork, RunStep
<1>2. faults' = faults /\ faults \in Nat /\ run[p].runs \in Nat
  <2>1. faults' = faults
    BY DEF Progress, CheckLimits, CheckTag, FindByTag, FindInList, ListOthers, DropOther,
           CreateDraft, ReconcileList, DeleteDoomed, CheckStored, Upload, EndRound,
           CompareList, CompareDownload, CompareDone, DecideLatest, SendPublish, ReadOnly
  <2> QED
    BY <2>1 DEF TypeOK, RunRecord
<1>3. CASE run[p].runs <= faults
  <2>1. run'[p].runs <= faults' /\ run'[p].runs <= faults' + 1 /\ ~(run'[p].runs > faults')
    BY <1>1, <1>2, <1>3
  <2> QED
    BY <1>1, <1>2, <2>1 DEF Paid
<1>4. CASE Faring(p)
  <2>1. PICK x : Continue(p, x) /\ x.pc # "idle" /\ OnCourse(x)'
    BY <1>4, ProgressFares DEF FareOn
  <2>2. run'[p] = x /\ x.pc \notin {"idle", "failed"}
    BY <2>1 DEF Continue, TypeOK, OnCourse
  <2>3. run'[p].runs <= faults' + 1
    BY <1>1, <1>2 DEF Paid
  <2> QED
    BY <2>1, <2>2, <2>3 DEF Paid, OnCourse, FillOK, SecondRound, Exact, Kept, Right, View, AssetsOf
<1> QED
  BY <1>3, <1>4

\* A step that is not of the job leaves what has been paid for it.
LEMMA PaidElsewhere ==
  ASSUME NEW p \in Publishers, TypeOK, OwnInv(p), Paid(p), run'[p] = run[p],
         Untouched(TagOf[p]), faults' \in Nat, faults <= faults'
  PROVE  Paid(p)'
<1>1. PICK x : x = run[p]
  OBVIOUS
<1>2. x \in RunRecord /\ Own(TagOf[p], x) /\ HostOK /\ faults \in Nat /\ x.runs \in Nat
  BY <1>1 DEF TypeOK, OwnInv, RunRecord
<1>3. x.runs <= faults + (IF x.pc \in {"idle", "failed"} THEN 0 ELSE 1)
  BY <1>1 DEF Paid
<1>4. x.runs <= faults' + (IF x.pc \in {"idle", "failed"} THEN 0 ELSE 1)
  BY <1>2, <1>3
<1>5. x.runs > faults' => x.runs > faults
  BY <1>2
<1>6. x.runs > faults' => OnCourse(x)'
  BY <1>1, <1>2, <1>5, OthersFare DEF Paid
<1> QED
  BY <1>1, <1>4, <1>6 DEF Paid, OnCourse, FillOK, SecondRound, Exact, Kept, Right, View, AssetsOf

\* Every run has the files and the commit of its job.
LEMMA BringsKept ==
  ASSUME TypeOK, NEW p \in Publishers, Brings(p, run[p]), Start(p) \/ Progress(p) \/ Trouble(p)
  PROVE  Brings(p, run'[p])
<1>1. CASE Start(p)
  <2>1. PICK l \in LocalSets[p], c \in Commits :
          Continue(p, Blank("limits", l, c, run[p].runs + 1))
    BY <1>1 DEF Start
  <2>2. run'[p].local = l /\ run'[p].commit = c
    BY <2>1 DEF Blank, Continue, TypeOK
  <2> QED
    BY <2>1, <2>2 DEF Brings
<1>2. CASE Progress(p) \/ Trouble(p)
  <2>1. run[p].pc # "idle"
    BY <1>2, StepIsWork DEF Working, FindAt, CompareAt
  <2> QED
    BY <1>2, <2>1, RunStep DEF Brings
<1> QED
  BY <1>1, <1>2

\* What is public does not disappear, so before a tag is public it was not public before.
LEMMA StillHidden ==
  ASSUME IInv, [Next]_vars, NEW t, PublishedOf(t)' = {}
  PROVE  PublishedOf(t) = {}
<1> SUFFICES ASSUME NEW r \in DOMAIN rels, rels[r].tag = t, ~rels[r].draft
             PROVE  r \in DOMAIN rels' /\ rels'[r].tag = t /\ ~rels'[r].draft
  BY DEF PublishedOf, ReleasesOf
<1>1. CASE UNCHANGED vars
  BY <1>1 DEF vars
<1>2. CASE Next
  BY <1>2, PublicKept DEF Next
<1> QED
  BY <1>1, <1>2

\* One step of the whole.
LEMMA StepPaid ==
  ASSUME OneJobPerTag, IInv, PaidInv, [Next]_vars
  PROVE  PaidInv'
<1>1. TypeOK /\ \A p \in Publishers : OwnInv(p) /\ Brings(p, run[p])
  BY DEF IInv, PaidInv
<1>2. TypeOK'
  BY StepKnows DEF IInv
<1>3. faults \in Nat /\ faults' \in Nat /\ faults <= faults'
  <2>1. faults' = faults \/ faults' = faults + 1
    BY DEF Next, vars, Progress, Trouble, Start, CheckLimits, CheckTag, FindByTag, FindInList,
           ListOthers, DropOther, CreateDraft, ReconcileList, DeleteDoomed, CheckStored, Upload,
           EndRound, CompareList, CompareDownload, CompareDone, DecideLatest, SendPublish,
           CreateLost, UploadLost, PublishLost, Abort, Fault, ReadOnly
  <2>2. faults \in Nat
    BY <1>1 DEF TypeOK
  <2> QED
    BY <2>1, <2>2
<1>4. ASSUME NEW q \in Publishers, run'[q] = run[q], Untouched(TagOf[q]),
             Rounds > 1, Fit(q), PublishedOf(TagOf[q])' = {}
      PROVE  Paid(q)'
  BY <1>1, <1>3, <1>4, StillHidden, PaidElsewhere DEF PaidInv
<1>5. CASE UNCHANGED vars
  <2>1. \A q \in Publishers : run'[q] = run[q] /\ Untouched(TagOf[q])
    BY <1>1, <1>5, NothingTouched DEF vars, hostVars, TypeOK
  <2>2. \A q \in Publishers : Brings(q, run[q])' /\ (Fit(q)' <=> Fit(q))
    BY <1>1, <2>1 DEF Brings, Fit, WithinLimits
  <2> QED
    BY <1>4, <2>1, <2>2 DEF PaidInv
<1>6. ASSUME NEW p \in Publishers, Start(p) \/ Progress(p) \/ Trouble(p)
      PROVE  PaidInv'
  <2>1. ASSUME NEW q \in Publishers, q # p
        PROVE  run'[q] = run[q] /\ Untouched(TagOf[q])
    <3>1. TagOf[q] # TagOf[p]
      BY <2>1 DEF OneJobPerTag
    <3> QED
      BY <1>1, <1>6, <2>1, <3>1, ChangesOnlyOwnRun, StepTouchesOwnTag DEF TypeOK
  <2>2. \A q \in Publishers : Brings(q, run[q])'
    BY <1>1, <1>6, <2>1, BringsKept DEF Brings
  <2>3. ASSUME Rounds > 1, Fit(p), PublishedOf(TagOf[p])' = {}
        PROVE  Paid(p)'
    <3>1. PublishedOf(TagOf[p]) = {} /\ Paid(p)
      BY <2>3, StillHidden DEF PaidInv
    <3>2. run[p].runs > faults => Faring(p)
      BY <1>1, <2>3, <3>1 DEF Faring, Paid
    <3>3. run[p].runs <= faults \/ run[p].runs > faults
      BY <1>1, <1>3 DEF TypeOK, RunRecord
    <3> QED
      BY <1>1, <1>6, <3>1, <3>2, <3>3, StartPaid, TroublePaid, ProgressPaid
  <2>4. \A q \in Publishers : Fit(q)' <=> Fit(q)
    BY DEF Fit, WithinLimits
  <2> QED
    BY <1>4, <2>1, <2>2, <2>3, <2>4 DEF PaidInv
<1> QED
  BY <1>5, <1>6 DEF Next

\* Nothing has to be paid for at the start.
LEMMA InitPaid == Init => PaidInv
<1> SUFFICES ASSUME Init, NEW p \in Publishers
             PROVE  Brings(p, run[p]) /\ Paid(p)
  BY DEF PaidInv
<1>1. run[p].pc = "idle" /\ run[p].runs = 0 /\ faults = 0
  BY DEF Init, Blank
<1> QED
  BY <1>1 DEF Brings, Paid

(* Whatever earlier runs left behind, and whatever requests were lost in   *)
(* it, a run of a job that has its tag to itself fails before its release  *)
(* is public only when something happened to that job or another: the      *)
(* first round repairs the draft, the second one finds it right, and every *)
(* later check passes (publish.go:140-399).                                *)
THEOREM FailuresPaidHolds == ASSUME OneJobPerTag PROVE Spec => []FailuresPaid
<1>1. PaidInv => FailuresPaid
  BY DEF PaidInv, FailuresPaid, Paid
<1>2. IInv /\ PaidInv /\ [Next]_vars => PaidInv'
  BY StepPaid
<1> QED
  BY <1>1, <1>2, InitPaid, KnowledgeInvariant, PTL DEF Spec
=============================================================================
