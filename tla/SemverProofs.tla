---------------------------- MODULE SemverProofs ----------------------------
(***************************************************************************)
(* Compare of internal/semver is a total order on all versions, up to      *)
(* build metadata: what Publish relies on where it takes a version for its *)
(* place in the order (Rank).                                              *)
(*                                                                         *)
(* The argument.  CmpText, CmpPre and the comparison of the three numbers  *)
(* all look for the first difference and then compare the elements there:  *)
(* each is the lexicographic order LexBefore of a strict order of its      *)
(* elements.  LexBefore of a strict total order is a strict total order;   *)
(* this is used for characters, then for identifiers, whose order rests on *)
(* the first, and for numbers.                                             *)
(*                                                                         *)
(* Parse and String.  Split cuts a text at the places b of its dots        *)
(* (CutAt), so a part between dots is a piece and a piece such a part.     *)
(* Parse cuts at the first '+' and the first '-'; no well-formed part in   *)
(* front of one contains it, so no other cut makes three well-formed       *)
(* parts, and the grammar's "some cut" is the cut of the code.  Joined puts*)
(* the pieces together again, and Decimal is the inverse of Value, because *)
(* no two texts without a leading zero stand for one number.               *)
(***************************************************************************)
EXTENDS Semver, SequenceTheorems, WellFoundedInduction, TLAPS

\* R orders E strictly and totally.
StrictOrder(R, E) ==
  /\ \A a \in E : <<a, a>> \notin R
  /\ \A a, b \in E : a # b => <<a, b>> \in R \/ <<b, a>> \in R
  /\ \A a, b, c \in E : <<a, b>> \in R /\ <<b, c>> \in R => <<a, c>> \in R

Less == {p \in Nat \X Nat : p[1] < p[2]}

\* x and y differ first at i, and x is before y there.
BeforeAt(R, x, y, i) ==
  /\ i \in DOMAIN x \intersect DOMAIN y
  /\ <<x[i], y[i]>> \in R
  /\ \A j \in 1 .. i - 1 : x[j] = y[j]

LexBefore(R, x, y) ==
  \/ \E i \in DOMAIN x \intersect DOMAIN y : BeforeAt(R, x, y, i)
  \/ ~Differ(x, y) /\ Len(x) < Len(y)

\* Every set of natural numbers that is not empty has a least element.
LEMMA LeastOf ==
  ASSUME NEW T \in SUBSET Nat, T # {}
  PROVE  \E m \in T : \A k \in T : m <= k
<1>1. IsWellFoundedOn(OpToRel(<, Nat), Nat)
  BY NatLessThanWellFounded
<1>2. PICK m \in T : \A k \in T : <<k, m>> \notin OpToRel(<, Nat)
  BY <1>1, WFMin
<1>3. \A k \in T : ~(k < m)
  BY <1>2 DEF OpToRel
<1> QED
  BY <1>3

\* What holds at the start of a loop and is kept by every round holds at the end.
LEMMA Rounds ==
  ASSUME NEW n \in Nat, NEW T, 0 \in T, \A i \in 1 .. n : i - 1 \in T => i \in T
  PROVE  \A i \in 0 .. n : i \in T
<1> DEFINE B == {k \in 0 .. n : k \notin T}
<1> SUFFICES ASSUME B # {} PROVE FALSE
  OBVIOUS
<1>1. B \in SUBSET Nat
  OBVIOUS
<1>2. PICK k \in B : \A j \in B : k <= j
  BY <1>1, LeastOf
<1>3. k \in 1 .. n /\ k - 1 \in 0 .. n /\ k - 1 \notin B
  BY <1>2
<1> QED
  BY <1>2, <1>3

\* A loop over 1 .. n, with a value of W that starts as a and becomes F[i, value] in
\* round i, is a function: what the LET ... [i \in 0 .. n] of the models define.
Rule(n, W) == [(1 .. n) \X W -> W]
IsLoop(g, n, a, F) == g = [i \in 0 .. n |-> IF i = 0 THEN a ELSE F[<<i, g[i - 1]>>]]

LEMMA LoopDefined ==
  ASSUME NEW W, NEW a \in W, NEW n \in Nat, NEW F \in Rule(n, W)
  PROVE  \E g \in [0 .. n -> W] : IsLoop(g, n, a, F)
<1> DEFINE Upto(k, g) == /\ g \in [0 .. k -> W]
                         /\ \A i \in 0 .. k : g[i] = IF i = 0 THEN a ELSE F[<<i, g[i - 1]>>]
           T == {k \in 0 .. n : \E g : Upto(k, g)}
<1>1. 0 \in T
  <2> DEFINE h == [i \in {0} |-> a]
  <2>1. 0 .. 0 = {0} /\ h \in [{0} -> W] /\ h[0] = a
    OBVIOUS
  <2> HIDE DEF h
  <2>2. Upto(0, h)
    BY <2>1
  <2> QED
    BY <2>2
<1>2. ASSUME NEW k \in 1 .. n, k - 1 \in T PROVE k \in T
  <2>1. PICK g : Upto(k - 1, g)
    BY <1>2
  <2> DEFINE v == F[<<k, g[k - 1]>>]
             h == [i \in 0 .. k |-> IF i = k THEN v ELSE g[i]]
  <2>2. g[k - 1] \in W
    BY <2>1
  <2>3. v \in W
    BY <2>2 DEF Rule
  <2> HIDE DEF v
  <2>4. h \in [0 .. k -> W]
    BY <2>1, <2>3
  <2>5. h[k] = v /\ \A i \in 0 .. k - 1 : h[i] = g[i]
    OBVIOUS
  <2> HIDE DEF h
  <2>6. ASSUME NEW i \in 0 .. k
        PROVE  h[i] = IF i = 0 THEN a ELSE F[<<i, h[i - 1]>>]
    <3>1. CASE i = k
      BY <2>5, <3>1 DEF v
    <3>2. CASE i # k
      <4>1. i \in 0 .. k - 1 /\ (i # 0 => i - 1 \in 0 .. k - 1)
        BY <3>2
      <4>2. h[i] = g[i] /\ (i # 0 => h[i - 1] = g[i - 1])
        BY <2>5, <4>1
      <4> QED
        BY <2>1, <4>1, <4>2
    <3> QED
      BY <3>1, <3>2
  <2> QED
    BY <2>4, <2>6
<1>3. n \in T
  <2> HIDE DEF T
  <2> QED
    BY <1>1, <1>2, Rounds
<1>4. PICK g : Upto(n, g)
  BY <1>3
<1>5. g = [i \in 0 .. n |-> IF i = 0 THEN a ELSE F[<<i, g[i - 1]>>]]
  BY <1>4
<1> QED
  BY <1>4, <1>5 DEF IsLoop
-----------------------------------------------------------------------------
\* The indices of a sequence are natural numbers without a gap.
LEMMA SeqIndices ==
  ASSUME NEW E, NEW x \in Seq(E)
  PROVE  /\ Len(x) \in Nat
         /\ DOMAIN x = 1 .. Len(x)
         /\ \A i \in DOMAIN x : x[i] \in E
BY LenProperties, ElementOfSeq

\* FirstDifference is where two sequences differ first.
LEMMA FirstDifferenceFound ==
  ASSUME NEW E, NEW x \in Seq(E), NEW y \in Seq(E), Differ(x, y)
  PROVE  /\ FirstDifference(x, y) \in DOMAIN x \intersect DOMAIN y
         /\ x[FirstDifference(x, y)] # y[FirstDifference(x, y)]
         /\ \A j \in 1 .. FirstDifference(x, y) - 1 : x[j] = y[j]
<1> DEFINE T == {i \in DOMAIN x \intersect DOMAIN y : x[i] # y[i]}
<1>1. T \in SUBSET Nat /\ T # {}
  BY SeqIndices DEF Differ
<1>2. PICK m \in T : \A k \in T : m <= k
  BY <1>1, LeastOf
<1>3. \A j \in 1 .. m - 1 : x[j] = y[j]
  <2> SUFFICES ASSUME NEW j \in 1 .. m - 1, x[j] # y[j] PROVE FALSE
    OBVIOUS
  <2>1. m \in Nat /\ m <= Len(x) /\ m <= Len(y) /\ Len(x) \in Nat /\ Len(y) \in Nat
    BY <1>1, SeqIndices
  <2>2. j \in DOMAIN x \intersect DOMAIN y
    BY <2>1, SeqIndices
  <2> QED
    BY <1>2, <2>1, <2>2
<1>4. m \in DOMAIN x \intersect DOMAIN y /\ x[m] # y[m]
  OBVIOUS
<1> QED
  BY <1>3, <1>4 DEF FirstDifference

\* Sequences without a difference are equal if they are equally long.
LEMMA NoDifference ==
  ASSUME NEW E, NEW x \in Seq(E), NEW y \in Seq(E), ~Differ(x, y), Len(x) = Len(y)
  PROVE  x = y
<1>1. \A i \in 1 .. Len(x) : x[i] = y[i]
  BY SeqIndices DEF Differ
<1> QED
  BY <1>1, SeqEqual

\* The lexicographic order is irreflexive,
LEMMA LexIrreflexive ==
  ASSUME NEW E, NEW R, StrictOrder(R, E), NEW x \in Seq(E)
  PROVE  ~LexBefore(R, x, x)
<1>1. ~(Len(x) < Len(x))
  BY SeqIndices
<1>2. \A i : ~BeforeAt(R, x, x, i)
  BY SeqIndices DEF StrictOrder, BeforeAt
<1> QED
  BY <1>1, <1>2 DEF LexBefore

\* and total,
LEMMA LexTotal ==
  ASSUME NEW E, NEW R, StrictOrder(R, E), NEW x \in Seq(E), NEW y \in Seq(E)
  PROVE  x = y \/ LexBefore(R, x, y) \/ LexBefore(R, y, x)
<1>1. CASE Differ(x, y)
  <2> DEFINE i == FirstDifference(x, y)
  <2>1. /\ i \in DOMAIN x \intersect DOMAIN y /\ x[i] # y[i]
        /\ \A j \in 1 .. i - 1 : x[j] = y[j]
    BY <1>1, FirstDifferenceFound
  <2> HIDE DEF i
  <2>2. <<x[i], y[i]>> \in R \/ <<y[i], x[i]>> \in R
    BY <2>1, SeqIndices DEF StrictOrder
  <2> QED
    BY <2>1, <2>2 DEF LexBefore, BeforeAt
<1>2. CASE ~Differ(x, y)
  <2>1. ~Differ(y, x)
    BY <1>2 DEF Differ
  <2> QED
    BY <1>2, <2>1, NoDifference, SeqIndices DEF LexBefore
<1> QED
  BY <1>1, <1>2

\* and transitive.
LEMMA LexTransitive ==
  ASSUME NEW E, NEW R, StrictOrder(R, E), NEW x \in Seq(E), NEW y \in Seq(E), NEW z \in Seq(E),
         LexBefore(R, x, y), LexBefore(R, y, z)
  PROVE  LexBefore(R, x, z)
<1>1. /\ Len(x) \in Nat /\ DOMAIN x = 1 .. Len(x) /\ \A i \in DOMAIN x : x[i] \in E
      /\ Len(y) \in Nat /\ DOMAIN y = 1 .. Len(y) /\ \A i \in DOMAIN y : y[i] \in E
      /\ Len(z) \in Nat /\ DOMAIN z = 1 .. Len(z) /\ \A i \in DOMAIN z : z[i] \in E
  BY SeqIndices
<1>2. ASSUME NEW i \in Nat, BeforeAt(R, x, y, i), NEW k \in Nat, BeforeAt(R, y, z, k)
      PROVE  LexBefore(R, x, z)
  <2>1. CASE i < k
    <3>1. i \in DOMAIN x \intersect DOMAIN z /\ y[i] = z[i]
      BY <1>1, <1>2, <2>1 DEF BeforeAt
    <3>2. <<x[i], z[i]>> \in R
      BY <3>1, <1>1, <1>2, <2>1 DEF BeforeAt
    <3>3. ASSUME NEW j \in 1 .. i - 1 PROVE x[j] = z[j]
      BY <1>1, <1>2, <2>1 DEF BeforeAt
    <3>4. BeforeAt(R, x, z, i)
      BY <3>1, <3>2, <3>3 DEF BeforeAt
    <3> QED
      BY <3>4 DEF LexBefore, BeforeAt
  <2>2. CASE i = k
    <3>1. BeforeAt(R, x, z, i)
      BY <1>1, <1>2, <2>2 DEF BeforeAt, StrictOrder
    <3> QED
      BY <3>1 DEF LexBefore, BeforeAt
  <2>3. CASE k < i
    <3>1. k \in DOMAIN x \intersect DOMAIN z /\ x[k] = y[k]
      BY <1>1, <1>2, <2>3 DEF BeforeAt
    <3>2. <<x[k], z[k]>> \in R
      BY <3>1, <1>1, <1>2, <2>3 DEF BeforeAt
    <3>3. ASSUME NEW j \in 1 .. k - 1 PROVE x[j] = z[j]
      BY <1>1, <1>2, <2>3 DEF BeforeAt
    <3>4. BeforeAt(R, x, z, k)
      BY <3>1, <3>2, <3>3 DEF BeforeAt
    <3> QED
      BY <3>4 DEF LexBefore, BeforeAt
  <2> QED
    BY <2>1, <2>2, <2>3
<1>3. ASSUME NEW i \in Nat, BeforeAt(R, x, y, i), ~Differ(y, z), Len(y) < Len(z)
      PROVE  LexBefore(R, x, z)
  <2>1. i \in DOMAIN x \intersect DOMAIN z /\ y[i] = z[i]
    BY <1>1, <1>3 DEF BeforeAt, Differ
  <2>2. <<x[i], z[i]>> \in R
    BY <2>1, <1>1, <1>3 DEF BeforeAt
  <2>3. ASSUME NEW j \in 1 .. i - 1 PROVE x[j] = z[j]
    BY <1>1, <1>3 DEF BeforeAt, Differ
  <2>4. BeforeAt(R, x, z, i)
    BY <2>1, <2>2, <2>3 DEF BeforeAt
  <2> QED
    BY <2>4 DEF LexBefore, BeforeAt
<1>4. ASSUME ~Differ(x, y), Len(x) < Len(y), NEW k \in Nat, BeforeAt(R, y, z, k)
      PROVE  LexBefore(R, x, z)
  <2>1. CASE k <= Len(x)
    <3>1. k \in DOMAIN x \intersect DOMAIN z /\ x[k] = y[k]
      BY <1>1, <1>4, <2>1 DEF BeforeAt, Differ
    <3>2. <<x[k], z[k]>> \in R
      BY <3>1, <1>1, <1>4, <2>1 DEF BeforeAt
    <3>3. ASSUME NEW j \in 1 .. k - 1 PROVE x[j] = z[j]
      BY <1>1, <1>4, <2>1 DEF BeforeAt, Differ
    <3>4. BeforeAt(R, x, z, k)
      BY <3>1, <3>2, <3>3 DEF BeforeAt
    <3> QED
      BY <3>4 DEF LexBefore, BeforeAt
  <2>2. CASE Len(x) < k
    <3>1. ~Differ(x, z) /\ Len(x) < Len(z)
      BY <1>1, <1>4, <2>2 DEF BeforeAt, Differ
    <3> QED
      BY <3>1 DEF LexBefore
  <2> QED
    BY <1>1, <2>1, <2>2
<1>5. ASSUME ~Differ(x, y), Len(x) < Len(y), ~Differ(y, z), Len(y) < Len(z)
      PROVE  LexBefore(R, x, z)
  BY <1>1, <1>5 DEF LexBefore, Differ
<1> QED
  BY <1>1, <1>2, <1>3, <1>4, <1>5 DEF LexBefore

\* So of two sequences one at most is before the other.
LEMMA LexAsymmetric ==
  ASSUME NEW E, NEW R, StrictOrder(R, E), NEW x \in Seq(E), NEW y \in Seq(E),
         LexBefore(R, x, y), LexBefore(R, y, x)
  PROVE  FALSE
BY LexTransitive, LexIrreflexive
-----------------------------------------------------------------------------
\* c is what a comparison by the strict order R answers for x and y.
Answers(c, before, after, same) ==
  /\ c \in {-1, 0, 1}
  /\ c = -1 <=> before
  /\ c = 1 <=> after
  /\ c = 0 <=> same

\* The order of numbers.
LEMMA LessOrders == ASSUME NEW E \in SUBSET Nat PROVE StrictOrder(Less, E)
BY DEF StrictOrder, Less

\* CmpText is the lexicographic order of the characters.
LEMMA TextOrder ==
  ASSUME NEW E \in SUBSET Nat, NEW x \in Seq(E), NEW y \in Seq(E)
  PROVE  Answers(CmpText(x, y), LexBefore(Less, x, y), LexBefore(Less, y, x), x = y)
<1> DEFINE i == FirstDifference(x, y)
<1>1. StrictOrder(Less, E)
  BY LessOrders
<1>2. ~(LexBefore(Less, x, y) /\ LexBefore(Less, y, x))
      /\ (x = y => ~LexBefore(Less, x, y) /\ ~LexBefore(Less, y, x))
  BY <1>1, LexAsymmetric, LexIrreflexive
<1>3. CASE Differ(x, y)
  <2>1. /\ i \in DOMAIN x \intersect DOMAIN y /\ x[i] # y[i]
        /\ \A j \in 1 .. i - 1 : x[j] = y[j]
    BY <1>3, FirstDifferenceFound
  <2>2. CmpText(x, y) = CmpU(x[i], y[i])
    BY <1>3 DEF CmpText
  <2> HIDE DEF i
  <2>3. x[i] \in Nat /\ y[i] \in Nat
    BY <2>1, SeqIndices
  <2>4. CASE x[i] < y[i]
    <3>1. LexBefore(Less, x, y)
      BY <2>1, <2>3, <2>4 DEF LexBefore, BeforeAt, Less
    <3> QED
      BY <1>2, <2>2, <2>4, <3>1 DEF CmpU, Answers
  <2>5. CASE y[i] < x[i]
    <3>1. LexBefore(Less, y, x)
      BY <2>1, <2>3, <2>5 DEF LexBefore, BeforeAt, Less
    <3>2. CmpText(x, y) = 1
      BY <2>2, <2>3, <2>5 DEF CmpU
    <3> QED
      BY <1>2, <3>1, <3>2 DEF Answers
  <2> QED
    BY <2>1, <2>3, <2>4, <2>5
<1>4. CASE ~Differ(x, y)
  <2>1. CmpText(x, y) = CmpU(Len(x), Len(y)) /\ ~Differ(y, x)
    BY <1>4 DEF CmpText, Differ
  <2>2. Len(x) \in Nat /\ Len(y) \in Nat
    BY SeqIndices
  <2>3. CASE Len(x) = Len(y)
    <3>1. x = y
      BY <1>4, <2>3, NoDifference
    <3> QED
      BY <1>2, <2>1, <2>2, <2>3, <3>1 DEF CmpU, Answers
  <2>4. CASE Len(x) < Len(y)
    <3>1. LexBefore(Less, x, y)
      BY <1>4, <2>4 DEF LexBefore
    <3> QED
      BY <1>2, <2>1, <2>4, <3>1 DEF CmpU, Answers
  <2>5. CASE Len(y) < Len(x)
    <3>1. LexBefore(Less, y, x)
      BY <2>1, <2>5 DEF LexBefore
    <3>2. CmpText(x, y) = 1
      BY <2>1, <2>2, <2>5 DEF CmpU
    <3> QED
      BY <1>2, <3>1, <3>2 DEF Answers
  <2> QED
    BY <2>2, <2>3, <2>4, <2>5
<1> QED
  BY <1>3, <1>4

\* The order of identifiers.
Sooner == {p \in Text \X Text : CmpIdentifier(p[1], p[2]) = -1}

\* Where x comes before y.
IdentifierFirst(x, y) ==
  \/ IsNumeric(x) /\ ~IsNumeric(y)
  \/ IsNumeric(x) /\ IsNumeric(y) /\ Len(x) < Len(y)
  \/ (IsNumeric(x) /\ IsNumeric(y) => Len(x) = Len(y))
     /\ (IsNumeric(x) <=> IsNumeric(y)) /\ LexBefore(Less, x, y)

\* CmpIdentifier answers by it: numbers by length, then as texts, before all words.
LEMMA IdentifierAnswers ==
  ASSUME NEW x \in Text, NEW y \in Text
  PROVE  Answers(CmpIdentifier(x, y), IdentifierFirst(x, y), IdentifierFirst(y, x), x = y)
<1>1. Len(x) \in Nat /\ Len(y) \in Nat
  BY SeqIndices DEF Text
<1>2. Answers(CmpText(x, y), LexBefore(Less, x, y), LexBefore(Less, y, x), x = y)
  <2>1. IdentifierChar \in SUBSET Nat
    BY DEF IdentifierChar, Digit
  <2> QED
    BY <2>1, TextOrder DEF Text
<1>3. CASE IsNumeric(x) /\ IsNumeric(y) /\ Len(x) # Len(y)
  <2>1. CmpIdentifier(x, y) = CmpU(Len(x), Len(y))
    BY <1>3 DEF CmpIdentifier
  <2>2. x # y
    BY <1>3
  <2> QED
    BY <1>1, <1>3, <2>1, <2>2 DEF CmpU, Answers, IdentifierFirst
<1>4. CASE IsNumeric(x) /\ ~IsNumeric(y)
  <2>1. CmpIdentifier(x, y) = -1 /\ x # y
    BY <1>4 DEF CmpIdentifier
  <2> QED
    BY <1>4, <2>1 DEF Answers, IdentifierFirst
<1>5. CASE ~IsNumeric(x) /\ IsNumeric(y)
  <2>1. CmpIdentifier(x, y) = 1 /\ x # y
    BY <1>5 DEF CmpIdentifier
  <2> QED
    BY <1>5, <2>1 DEF Answers, IdentifierFirst
<1>6. CASE /\ IsNumeric(x) <=> IsNumeric(y)
           /\ IsNumeric(x) => Len(x) = Len(y)
  <2>1. CmpIdentifier(x, y) = CmpText(x, y)
    BY <1>6 DEF CmpIdentifier
  <2>2. /\ IdentifierFirst(x, y) <=> LexBefore(Less, x, y)
        /\ IdentifierFirst(y, x) <=> LexBefore(Less, y, x)
    BY <1>1, <1>6 DEF IdentifierFirst
  <2> QED
    BY <1>2, <2>1, <2>2 DEF Answers
<1> QED
  BY <1>3, <1>4, <1>5, <1>6

\* So identifiers are strictly ordered.
LEMMA SoonerOrders == StrictOrder(Sooner, Text)
<1>1. ASSUME NEW x \in Text, NEW y \in Text
      PROVE  <<x, y>> \in Sooner <=> IdentifierFirst(x, y)
  BY IdentifierAnswers DEF Sooner, Answers
<1>2. \A x \in Text : <<x, x>> \notin Sooner
  BY IdentifierAnswers DEF Sooner, Answers
<1>3. \A x, y \in Text : x # y => <<x, y>> \in Sooner \/ <<y, x>> \in Sooner
  BY <1>1, IdentifierAnswers DEF Answers
<1>4. ASSUME NEW x \in Text, NEW y \in Text, NEW z \in Text,
             IdentifierFirst(x, y), IdentifierFirst(y, z)
      PROVE  IdentifierFirst(x, z)
  <2>1. StrictOrder(Less, IdentifierChar)
    BY LessOrders DEF IdentifierChar, Digit
  <2>2. LexBefore(Less, x, y) /\ LexBefore(Less, y, z) => LexBefore(Less, x, z)
    BY <2>1, LexTransitive DEF Text
  <2>3. Len(x) \in Nat /\ Len(y) \in Nat /\ Len(z) \in Nat
    BY SeqIndices DEF Text
  <2> QED
    BY <1>4, <2>2, <2>3 DEF IdentifierFirst
<1> QED
  BY <1>1, <1>2, <1>3, <1>4 DEF StrictOrder
-----------------------------------------------------------------------------
\* The order of pre-releases: a version without one comes last.
PreFirst(x, y) ==
  \/ x # <<>> /\ y = <<>>
  \/ x # <<>> /\ y # <<>> /\ LexBefore(Sooner, x, y)

\* Lists of identifiers are sequences of texts.
LEMMA PreTexts == ASSUME NEW x \in Seq(Identifier) PROVE x \in Seq(Text)
BY SeqMonotonic DEF Identifier

\* CmpPre answers by it.
LEMMA PreAnswers ==
  ASSUME NEW x \in Seq(Identifier), NEW y \in Seq(Identifier)
  PROVE  Answers(CmpPre(x, y), PreFirst(x, y), PreFirst(y, x), x = y)
<1> DEFINE i == FirstDifference(x, y)
<1>1. x \in Seq(Text) /\ y \in Seq(Text)
  BY PreTexts
<1>2. CASE x = <<>> \/ y = <<>>
  BY <1>2 DEF CmpPre, PreFirst, Answers
<1>3. CASE x # <<>> /\ y # <<>>
  <2>1. /\ PreFirst(x, y) <=> LexBefore(Sooner, x, y)
        /\ PreFirst(y, x) <=> LexBefore(Sooner, y, x)
    BY <1>3 DEF PreFirst
  <2>2. ~(LexBefore(Sooner, x, y) /\ LexBefore(Sooner, y, x))
        /\ (x = y => ~LexBefore(Sooner, x, y) /\ ~LexBefore(Sooner, y, x))
    BY <1>1, SoonerOrders, LexAsymmetric, LexIrreflexive
  <2>3. CASE Differ(x, y)
    <3>1. /\ i \in DOMAIN x \intersect DOMAIN y /\ x[i] # y[i]
          /\ \A j \in 1 .. i - 1 : x[j] = y[j]
      BY <1>1, <2>3, FirstDifferenceFound
    <3>2. CmpPre(x, y) = CmpIdentifier(x[i], y[i])
      BY <1>3, <2>3 DEF CmpPre
    <3> HIDE DEF i
    <3>3. x[i] \in Text /\ y[i] \in Text
      BY <1>1, <3>1, SeqIndices
    <3>4. Answers(CmpIdentifier(x[i], y[i]), IdentifierFirst(x[i], y[i]),
                  IdentifierFirst(y[i], x[i]), x[i] = y[i])
      BY <3>3, IdentifierAnswers
    <3>5. CmpIdentifier(x[i], y[i]) = -1 => LexBefore(Sooner, x, y)
      BY <3>1, <3>3 DEF LexBefore, BeforeAt, Sooner
    <3>6. CmpIdentifier(x[i], y[i]) = 1 => LexBefore(Sooner, y, x)
      <4>1. CmpIdentifier(x[i], y[i]) = 1 => CmpIdentifier(y[i], x[i]) = -1
        BY <3>3, <3>4, IdentifierAnswers DEF Answers
      <4> QED
        BY <3>1, <3>3, <4>1 DEF LexBefore, BeforeAt, Sooner
    <3> QED
      BY <2>1, <2>2, <3>1, <3>2, <3>4, <3>5, <3>6 DEF Answers
  <2>4. CASE ~Differ(x, y)
    <3>1. CmpPre(x, y) = CmpU(Len(x), Len(y)) /\ ~Differ(y, x)
      BY <1>3, <2>4 DEF CmpPre, Differ
    <3>2. Len(x) \in Nat /\ Len(y) \in Nat
      BY SeqIndices
    <3>3. CASE Len(x) = Len(y)
      <4>1. x = y
        BY <2>4, <3>3, NoDifference
      <4> QED
        BY <2>1, <2>2, <3>1, <3>2, <3>3, <4>1 DEF CmpU, Answers
    <3>4. CASE Len(x) < Len(y)
      <4>1. LexBefore(Sooner, x, y)
        BY <2>4, <3>4 DEF LexBefore
      <4> QED
        BY <2>1, <2>2, <3>1, <3>4, <4>1 DEF CmpU, Answers
    <3>5. CASE Len(y) < Len(x)
      <4>1. LexBefore(Sooner, y, x)
        BY <3>1, <3>5 DEF LexBefore
      <4>2. CmpPre(x, y) = 1
        BY <3>1, <3>2, <3>5 DEF CmpU
      <4> QED
        BY <2>1, <2>2, <4>1, <4>2 DEF Answers
    <3> QED
      BY <3>2, <3>3, <3>4, <3>5
  <2> QED
    BY <2>3, <2>4
<1> QED
  BY <1>2, <1>3

\* The order of pre-releases is transitive.
LEMMA PreTransitive ==
  ASSUME NEW x \in Seq(Identifier), NEW y \in Seq(Identifier), NEW z \in Seq(Identifier),
         PreFirst(x, y), PreFirst(y, z)
  PROVE  PreFirst(x, z)
<1>1. LexBefore(Sooner, x, y) /\ LexBefore(Sooner, y, z) => LexBefore(Sooner, x, z)
  BY PreTexts, SoonerOrders, LexTransitive
<1> QED
  BY <1>1 DEF PreFirst

\* The order of versions: the three numbers, then the pre-release.
VersionFirst(a, b) ==
  \/ LexBefore(Less, a.core, b.core)
  \/ a.core = b.core /\ PreFirst(a.pre, b.pre)

\* The three numbers are a sequence of numbers.
LEMMA VersionParts ==
  ASSUME NEW v \in Version
  PROVE  v.core \in Seq(Nat) /\ Len(v.core) = 3 /\ v.pre \in Seq(Identifier)
<1>1. v.core \in [1 .. 3 -> Nat] /\ v.pre \in Seq(Identifier)
  BY DEF Version
<1>2. ASSUME NEW f \in [1 .. 3 -> Nat] PROVE f \in Seq(Nat) /\ Len(f) = 3
  <2>1. f[1] \in Nat /\ f[2] \in Nat /\ f[3] \in Nat
    OBVIOUS
  <2>2. << f[1], f[2], f[3] >> \in Seq(Nat) /\ Len(<< f[1], f[2], f[3] >>) = 3
    BY <2>1
  <2>3. f = << f[1], f[2], f[3] >>
    OBVIOUS
  <2> QED
    BY <2>2, <2>3
<1> QED
  BY <1>1, <1>2

\* Compare answers by it.
LEMMA CompareAnswers ==
  ASSUME NEW a \in Version, NEW b \in Version
  PROVE  Answers(Compare(a, b), VersionFirst(a, b), VersionFirst(b, a),
                 a.core = b.core /\ a.pre = b.pre)
<1>1. /\ a.core \in Seq(Nat) /\ Len(a.core) = 3 /\ a.pre \in Seq(Identifier)
      /\ b.core \in Seq(Nat) /\ Len(b.core) = 3 /\ b.pre \in Seq(Identifier)
  BY VersionParts
<1>2. Answers(CmpText(a.core, b.core), LexBefore(Less, a.core, b.core),
              LexBefore(Less, b.core, a.core), a.core = b.core)
  BY <1>1, TextOrder
<1>3. CASE Differ(a.core, b.core)
  <2>1. Compare(a, b) = CmpText(a.core, b.core)
    BY <1>3 DEF Compare, CmpText
  <2>2. a.core # b.core
    BY <1>3 DEF Differ
  <2> QED
    BY <1>2, <2>1, <2>2 DEF Answers, VersionFirst
<1>4. CASE ~Differ(a.core, b.core)
  <2>1. Compare(a, b) = CmpPre(a.pre, b.pre)
    BY <1>4 DEF Compare
  <2>2. a.core = b.core
    BY <1>1, <1>4, NoDifference
  <2>3. ~LexBefore(Less, a.core, b.core) /\ ~LexBefore(Less, b.core, a.core)
    BY <1>2, <2>2 DEF Answers
  <2> QED
    BY <1>1, <2>1, <2>2, <2>3, PreAnswers DEF Answers, VersionFirst
<1> QED
  BY <1>3, <1>4

\* The order of versions is transitive.
LEMMA VersionTransitive ==
  ASSUME NEW a \in Version, NEW b \in Version, NEW c \in Version,
         VersionFirst(a, b), VersionFirst(b, c)
  PROVE  VersionFirst(a, c)
<1>1. /\ a.core \in Seq(Nat) /\ a.pre \in Seq(Identifier)
      /\ b.core \in Seq(Nat) /\ b.pre \in Seq(Identifier)
      /\ c.core \in Seq(Nat) /\ c.pre \in Seq(Identifier)
  BY VersionParts
<1>2. LexBefore(Less, a.core, b.core) /\ LexBefore(Less, b.core, c.core)
        => LexBefore(Less, a.core, c.core)
  BY <1>1, LessOrders, LexTransitive
<1>3. PreFirst(a.pre, b.pre) /\ PreFirst(b.pre, c.pre) => PreFirst(a.pre, c.pre)
  BY <1>1, PreTransitive
<1> QED
  BY <1>2, <1>3 DEF VersionFirst

(* Precedence is a total order on all versions up to build metadata,       *)
(* whatever the length of their numbers and identifiers (Compare and       *)
(* cmpIdentifier, semver.go:129-181): "latest" and the order of releases   *)
(* do not depend on the sequence in which versions are compared.           *)
THEOREM PrecedenceIsTotalOrder == TotalOrderOn(Version)
<1>1. ASSUME NEW a \in Version, NEW b \in Version
      PROVE  /\ Compare(a, b) \in {-1, 0, 1} /\ Compare(a, b) = -Compare(b, a)
             /\ Compare(a, b) = 0 <=> a.core = b.core /\ a.pre = b.pre
  BY CompareAnswers DEF Answers
<1>2. ASSUME NEW a \in Version, NEW b \in Version, NEW c \in Version,
             Compare(a, b) <= 0, Compare(b, c) <= 0
      PROVE  Compare(a, c) <= 0
  <2> DEFINE same(x, y) == x.core = y.core /\ x.pre = y.pre
  <2>1. VersionFirst(a, b) \/ same(a, b)
    BY <1>2, CompareAnswers DEF Answers
  <2>2. VersionFirst(b, c) \/ same(b, c)
    BY <1>2, CompareAnswers DEF Answers
  <2>3. VersionFirst(a, c) \/ same(a, c)
    BY <2>1, <2>2, VersionTransitive DEF VersionFirst
  <2>4. Answers(Compare(a, c), VersionFirst(a, c), VersionFirst(c, a), same(a, c))
    BY CompareAnswers
  <2> QED
    BY <2>3, <2>4 DEF Answers
<1> QED
  BY <1>1, <1>2 DEF TotalOrderOn
-----------------------------------------------------------------------------
\* The numbers that the first digits of x stand for.
Prefixes(x, v) ==
  /\ v \in [0 .. Len(x) -> Nat] /\ v[0] = 0 /\ Value(x) = v[Len(x)]
  /\ \A i \in 1 .. Len(x) : v[i] = 10 * v[i - 1] + (x[i] - 48)

\* One more digit.
LEMMA NextDigit ==
  ASSUME NEW v \in Nat, NEW w \in Nat, NEW a \in 48 .. 57, NEW b \in 48 .. 57
  PROVE  /\ 10 * v + (a - 48) \in Nat
         /\ v > 0 \/ a # 48 => 10 * v + (a - 48) > 0
         /\ v < w \/ (v = w /\ a < b) => 10 * v + (a - 48) < 10 * w + (b - 48)
<1> DEFINE c == a - 48
           d == b - 48
<1>1. c \in 0 .. 9 /\ d \in 0 .. 9 /\ (a # 48 => c > 0) /\ (a < b => c < d)
  OBVIOUS
<1> HIDE DEF c, d
<1>2. /\ 10 * v + c \in Nat
      /\ v > 0 \/ c > 0 => 10 * v + c > 0
      /\ v < w \/ (v = w /\ c < d) => 10 * v + c < 10 * w + d
  BY <1>1
<1> QED
  BY <1>1, <1>2 DEF c, d

\* The recursion of Value is a function.
LEMMA ValueFound ==
  ASSUME NEW x \in Text, IsNumeric(x)
  PROVE  \E v : Prefixes(x, v)
<1> DEFINE n == Len(x)
           Round(i, w) == 10 * w + (x[i] - 48)
           F == [q \in (1 .. n) \X Nat |-> Round(q[1], q[2])]
           zero == 0
           Walk(g) == g = [i \in 0 .. n |-> IF i = 0 THEN 0 ELSE Round(i, g[i - 1])]
<1>1. n \in Nat /\ \A i \in 1 .. n : x[i] \in 48 .. 57
  BY SeqIndices DEF Text, IsNumeric, Digit
<1>2. \A i \in 1 .. n, w \in Nat : Round(i, w) \in Nat
  BY <1>1
<1> HIDE DEF Round
<1>3. F \in Rule(n, Nat)
  BY <1>2 DEF Rule
<1>4. \A i \in 1 .. n, w \in Nat : F[<<i, w>>] = Round(i, w)
  OBVIOUS
<1>5. zero \in Nat
  OBVIOUS
<1> HIDE DEF F, n, zero
<1>6. PICK g \in [0 .. n -> Nat] : IsLoop(g, n, zero, F)
  BY <1>1, <1>3, <1>5, LoopDefined
<1>7. \A i \in 0 .. n : i # 0 => F[<<i, g[i - 1]>>] = Round(i, g[i - 1])
  <2>1. \A i \in 0 .. n : i # 0 => i \in 1 .. n /\ i - 1 \in 0 .. n
    BY <1>1
  <2> QED
    BY <1>4, <1>6, <2>1
<1>8. Walk(g)
  BY <1>6, <1>7 DEF zero, IsLoop
<1>9. PICK v : Walk(v) /\ Value(x) = v[n]
  BY <1>8 DEF Value, Round, n
<1>10. v[0] = 0 /\ \A i \in 1 .. n : v[i] = Round(i, v[i - 1])
  BY <1>1, <1>9
<1>11. \A i \in 0 .. n : v[i] \in Nat
  <2> DEFINE T == {i \in 0 .. n : v[i] \in Nat}
  <2>1. 0 \in T
    BY <1>1, <1>10
  <2>2. ASSUME NEW i \in 1 .. n, i - 1 \in T PROVE i \in T
    <3>1. v[i - 1] \in Nat /\ v[i] = Round(i, v[i - 1]) /\ i \in 0 .. n
      BY <1>1, <1>10, <2>2
    <3>2. v[i] \in Nat
      BY <1>2, <3>1
    <3> QED
      BY <3>1, <3>2
  <2> HIDE DEF T
  <2>3. \A i \in 0 .. n : i \in T
    BY <1>1, <2>1, <2>2, Rounds
  <2> QED
    BY <2>3 DEF T
<1>12. v \in [0 .. n -> Nat]
  BY <1>9, <1>11
<1> QED
  BY <1>9, <1>10, <1>12 DEF Prefixes, Round, n

\* A longer number without a leading zero is larger.
LEMMA LongerIsLarger ==
  ASSUME NEW x \in Text, NEW y \in Text, IsNumeric(x), IsNumeric(y), ~LeadingZero(y),
         Len(x) < Len(y)
  PROVE  Value(x) < Value(y)
<1>1. PICK v : Prefixes(x, v)
  BY ValueFound
<1>2. PICK w : Prefixes(y, w)
  BY ValueFound
<1> DEFINE n == Len(x)
           m == Len(y)
           d == m - n
<1>3. /\ n \in Nat /\ m \in Nat /\ d \in 1 .. m
      /\ \A i \in 1 .. n : x[i] \in 48 .. 57
      /\ \A i \in 1 .. m : y[i] \in 48 .. 57
  BY SeqIndices DEF Text, IsNumeric, Digit
<1>4. /\ v[0] = 0 /\ \A i \in 0 .. n : v[i] \in Nat
      /\ \A i \in 1 .. n : v[i] = 10 * v[i - 1] + (x[i] - 48)
  BY <1>1 DEF Prefixes
<1>5. /\ w[0] = 0 /\ \A i \in 0 .. m : w[i] \in Nat
      /\ \A i \in 1 .. m : w[i] = 10 * w[i - 1] + (y[i] - 48)
  BY <1>2 DEF Prefixes
<1>6. Len(y) > 1 /\ y[1] # 48
  <2>1. Len(x) # 0
    BY SeqIndices DEF Text, IsNumeric
  <2> QED
    BY <1>3, <2>1 DEF LeadingZero
<1> HIDE DEF n, m, d
<1>7. \A i \in 0 .. d : i > 0 => w[i] > 0
  <2> DEFINE T == {i \in 0 .. d : i > 0 => w[i] > 0}
  <2>1. 0 \in T
    BY <1>3
  <2>2. ASSUME NEW i \in 1 .. d, i - 1 \in T PROVE i \in T
    <3>1. i \in 1 .. m /\ i \in 0 .. d /\ i - 1 \in 0 .. m /\ y[i] \in 48 .. 57 /\ w[i - 1] \in Nat
      BY <1>3, <1>5
    <3>2. w[i] = 10 * w[i - 1] + (y[i] - 48)
      BY <1>5, <3>1
    <3>3. CASE i = 1
      BY <1>5, <1>6, <3>1, <3>2, <3>3
    <3>4. CASE i # 1
      <4>1. w[i - 1] > 0
        BY <2>2, <3>4
      <4>2. w[i] > 0
        BY <3>1, <3>2, <4>1, NextDigit
      <4> QED
        BY <3>1, <4>2
    <3> QED
      BY <3>3, <3>4
  <2> HIDE DEF T
  <2>3. d \in Nat
    BY <1>3
  <2>4. \A i \in 0 .. d : i \in T
    BY <2>1, <2>2, <2>3, Rounds
  <2> QED
    BY <2>4 DEF T
<1>8. \A i \in 0 .. n : v[i] < w[i + d]
  <2> DEFINE T == {i \in 0 .. n : v[i] < w[i + d]}
  <2>1. 0 \in T
    BY <1>3, <1>4, <1>7
  <2>2. ASSUME NEW i \in 1 .. n, i - 1 \in T PROVE i \in T
    <3>1. /\ i + d \in 1 .. m /\ (i + d) - 1 = (i - 1) + d /\ (i - 1) + d \in 0 .. m
          /\ i \in 0 .. n /\ i - 1 \in 0 .. n
      BY <1>3 DEF d
    <3>2. /\ v[i] = 10 * v[i - 1] + (x[i] - 48) /\ x[i] \in 48 .. 57 /\ v[i - 1] \in Nat
          /\ w[i + d] = 10 * w[(i - 1) + d] + (y[i + d] - 48) /\ y[i + d] \in 48 .. 57
          /\ w[(i - 1) + d] \in Nat
      BY <1>3, <1>4, <1>5, <3>1
    <3>3. v[i - 1] < w[(i - 1) + d]
      BY <2>2
    <3>4. v[i] < w[i + d]
      BY <3>2, <3>3, NextDigit
    <3> QED
      BY <3>1, <3>4
  <2> HIDE DEF T
  <2>3. \A i \in 0 .. n : i \in T
    BY <1>3, <2>1, <2>2, Rounds
  <2> QED
    BY <2>3 DEF T
<1>9. v[n] < w[n + d] /\ n + d = m
  BY <1>3, <1>8 DEF d
<1> QED
  BY <1>1, <1>2, <1>9 DEF Prefixes, n, m

\* Of two equally long numbers the one that comes first as a text is smaller.
LEMMA FirstIsSmaller ==
  ASSUME NEW x \in Text, NEW y \in Text, IsNumeric(x), IsNumeric(y),
         Len(x) = Len(y), LexBefore(Less, x, y)
  PROVE  Value(x) < Value(y)
<1>1. PICK v : Prefixes(x, v)
  BY ValueFound
<1>2. PICK w : Prefixes(y, w)
  BY ValueFound
<1> DEFINE n == Len(x)
<1>3. /\ n \in Nat /\ Len(y) = n /\ DOMAIN x = 1 .. n /\ DOMAIN y = 1 .. n
      /\ \A i \in 1 .. n : x[i] \in 48 .. 57 /\ y[i] \in 48 .. 57
  BY SeqIndices DEF Text, IsNumeric, Digit
<1>4. /\ v[0] = 0 /\ \A i \in 0 .. n : v[i] \in Nat
      /\ \A i \in 1 .. n : v[i] = 10 * v[i - 1] + (x[i] - 48)
  BY <1>1 DEF Prefixes
<1>5. /\ w[0] = 0 /\ \A i \in 0 .. n : w[i] \in Nat
      /\ \A i \in 1 .. n : w[i] = 10 * w[i - 1] + (y[i] - 48)
  BY <1>2, <1>3 DEF Prefixes
<1>6. PICK k \in 1 .. n : x[k] < y[k] /\ \A j \in 1 .. k - 1 : x[j] = y[j]
  <2>1. ~(Len(x) < Len(y))
    BY <1>3
  <2>2. PICK k \in DOMAIN x \intersect DOMAIN y : BeforeAt(Less, x, y, k)
    BY <2>1 DEF LexBefore
  <2>3. x[k] < y[k]
    BY <2>2 DEF BeforeAt, Less
  <2> QED
    BY <1>3, <2>2, <2>3 DEF BeforeAt
<1> HIDE DEF n
<1>7. \A i \in 0 .. n : IF i < k THEN v[i] = w[i] ELSE v[i] < w[i]
  <2> DEFINE T == {i \in 0 .. n : IF i < k THEN v[i] = w[i] ELSE v[i] < w[i]}
  <2>1. 0 \in T
    BY <1>3, <1>4, <1>5
  <2>2. ASSUME NEW i \in 1 .. n, i - 1 \in T PROVE i \in T
    <3>1. /\ v[i] = 10 * v[i - 1] + (x[i] - 48) /\ x[i] \in 48 .. 57 /\ v[i - 1] \in Nat
          /\ w[i] = 10 * w[i - 1] + (y[i] - 48) /\ y[i] \in 48 .. 57 /\ w[i - 1] \in Nat
          /\ i \in 0 .. n
      BY <1>3, <1>4, <1>5
    <3>2. CASE i < k
      <4>1. x[i] = y[i] /\ v[i - 1] = w[i - 1]
        BY <1>3, <1>6, <2>2, <3>2
      <4> QED
        BY <3>1, <3>2, <4>1
    <3>3. CASE i = k
      <4>1. x[i] < y[i] /\ v[i - 1] = w[i - 1]
        BY <1>3, <1>6, <2>2, <3>3
      <4>2. v[i] < w[i]
        BY <3>1, <4>1, NextDigit
      <4> QED
        BY <3>1, <3>3, <4>2
    <3>4. CASE i > k
      <4>1. v[i - 1] < w[i - 1]
        BY <1>3, <1>6, <2>2, <3>4
      <4>2. v[i] < w[i]
        BY <3>1, <4>1, NextDigit
      <4> QED
        BY <1>3, <3>1, <3>4, <4>2
    <3> QED
      BY <3>2, <3>3, <3>4
  <2> HIDE DEF T
  <2>3. \A i \in 0 .. n : i \in T
    BY <1>3, <2>1, <2>2, Rounds
  <2> QED
    BY <2>3 DEF T
<1>8. v[n] < w[n]
  BY <1>3, <1>6, <1>7
<1> QED
  BY <1>1, <1>2, <1>3, <1>8 DEF Prefixes, n

\* Two sequences begin alike up to i where they have the same elements.
LEMMA SameStart ==
  ASSUME NEW E, NEW x \in Seq(E), NEW y \in Seq(E), NEW k \in Nat, k <= Len(x), k <= Len(y)
  PROVE  SubSeq(x, 1, k) = SubSeq(y, 1, k) <=> \A j \in 1 .. k : x[j] = y[j]
<1> DEFINE s == SubSeq(x, 1, k)
           t == SubSeq(y, 1, k)
<1>1. /\ Len(x) \in Nat /\ \A i \in 1 .. Len(x) : x[i] \in E
      /\ Len(y) \in Nat /\ \A i \in 1 .. Len(y) : y[i] \in E
  BY SeqIndices
<1>2. /\ s \in Seq(E) /\ Len(s) = IF 1 <= k THEN k - 1 + 1 ELSE 0
      /\ \A i \in 1 .. k - 1 + 1 : s[i] = x[1 + i - 1]
  <2>1. \A i \in 1 .. k : x[i] \in E
    BY <1>1
  <2> QED
    BY <2>1, SubSeqProperties
<1>3. /\ t \in Seq(E) /\ Len(t) = IF 1 <= k THEN k - 1 + 1 ELSE 0
      /\ \A i \in 1 .. k - 1 + 1 : t[i] = y[1 + i - 1]
  <2>1. \A i \in 1 .. k : y[i] \in E
    BY <1>1
  <2> QED
    BY <2>1, SubSeqProperties
<1> HIDE DEF s, t
<1>4. /\ k - 1 + 1 = k /\ (IF 1 <= k THEN k - 1 + 1 ELSE 0) = k
      /\ \A i \in 1 .. k : 1 + i - 1 = i
  OBVIOUS
<1>5. /\ s \in Seq(E) /\ Len(s) = k /\ \A i \in 1 .. k : s[i] = x[i]
      /\ t \in Seq(E) /\ Len(t) = k /\ \A i \in 1 .. k : t[i] = y[i]
  BY <1>2, <1>3, <1>4
<1>6. s = t <=> \A j \in 1 .. k : x[j] = y[j]
  <2>1. (\A j \in 1 .. k : s[j] = t[j]) => s = t
    BY <1>5, SeqEqual
  <2> QED
    BY <1>5, <2>1
<1> QED
  BY <1>6 DEF s, t

\* x is the start of the longer y.
LEMMA ShorterFirst ==
  ASSUME NEW E, NEW x \in Seq(E), NEW y \in Seq(E), Len(x) < Len(y)
  PROVE  x = SubSeq(y, 1, Len(x)) <=> ~Differ(x, y)
<1>1. /\ Len(x) \in Nat /\ DOMAIN x = 1 .. Len(x)
      /\ Len(y) \in Nat /\ DOMAIN y = 1 .. Len(y)
  BY SeqIndices
<1>2. SubSeq(x, 1, Len(x)) = x
  BY SubSeqFull
<1>3. SubSeq(x, 1, Len(x)) = SubSeq(y, 1, Len(x)) <=> \A j \in 1 .. Len(x) : x[j] = y[j]
  BY <1>1, SameStart
<1>4. Differ(x, y) <=> \E j \in 1 .. Len(x) : x[j] # y[j]
  BY <1>1 DEF Differ
<1> QED
  BY <1>2, <1>3, <1>4

\* Where x and y differ first, what stands before is the same.
LEMMA BeforeThere ==
  ASSUME NEW E, NEW x \in Seq(E), NEW y \in Seq(E), NEW i \in DOMAIN x \intersect DOMAIN y
  PROVE  SubSeq(x, 1, i - 1) = SubSeq(y, 1, i - 1) <=> \A j \in 1 .. i - 1 : x[j] = y[j]
<1>1. i - 1 \in Nat /\ i - 1 <= Len(x) /\ i - 1 <= Len(y)
  BY SeqIndices
<1> QED
  BY <1>1, SameStart

\* Words are ordered by their characters.
LEMMA WordsByText ==
  ASSUME NEW x \in Text, NEW y \in Text
  PROVE  WordBefore(x, y) <=> LexBefore(Less, x, y)
<1>1. Len(x) < Len(y) => (x = SubSeq(y, 1, Len(x)) <=> ~Differ(x, y))
  BY ShorterFirst DEF Text
<1>2. ASSUME NEW i \in DOMAIN x \intersect DOMAIN y
      PROVE  x[i] < y[i] /\ SubSeq(x, 1, i - 1) = SubSeq(y, 1, i - 1)
               <=> BeforeAt(Less, x, y, i)
  <2>1. x[i] \in Nat /\ y[i] \in Nat
    <3>1. x[i] \in IdentifierChar /\ y[i] \in IdentifierChar
      BY SeqIndices DEF Text
    <3> QED
      BY <3>1 DEF IdentifierChar, Digit
  <2>2. <<x[i], y[i]>> \in Less <=> x[i] < y[i]
    BY <2>1 DEF Less
  <2>3. SubSeq(x, 1, i - 1) = SubSeq(y, 1, i - 1) <=> \A j \in 1 .. i - 1 : x[j] = y[j]
    BY BeforeThere DEF Text
  <2> QED
    BY <2>2, <2>3 DEF BeforeAt
<1> QED
  BY <1>1, <1>2 DEF WordBefore, LexBefore

\* The order of identifiers is the one of the specification.
LEMMA IdentifierAsSpecified ==
  ASSUME NEW x \in Identifier, NEW y \in Identifier, ValidPre(x), ValidPre(y)
  PROVE  IdentifierFirst(x, y) <=> IdentifierBefore(x, y)
<1>1. x \in Text /\ y \in Text /\ Len(x) \in Nat /\ Len(y) \in Nat
  BY SeqIndices DEF Identifier, Text
<1>2. CASE IsNumeric(x) /\ IsNumeric(y)
  <2>1. ~LeadingZero(x) /\ ~LeadingZero(y)
    BY <1>2 DEF ValidPre
  <2>2. ASSUME NEW a \in Text, NEW b \in Text, IsNumeric(a), IsNumeric(b), ~LeadingZero(b),
               IdentifierFirst(a, b)
        PROVE  Value(a) < Value(b)
    BY <2>2, LongerIsLarger, FirstIsSmaller DEF IdentifierFirst
  <2>3. IdentifierFirst(x, y) \/ IdentifierFirst(y, x) \/ x = y
    BY <1>1, IdentifierAnswers DEF Answers
  <2>4. Value(x) \in Nat /\ Value(y) \in Nat
    <3>1. ASSUME NEW a \in Text, IsNumeric(a) PROVE Value(a) \in Nat
      <4>1. Len(a) \in 0 .. Len(a)
        BY SeqIndices DEF Text
      <4> QED
        BY <3>1, <4>1, ValueFound DEF Prefixes
    <3> QED
      BY <1>1, <1>2, <3>1
  <2>5. IdentifierFirst(x, y) => Value(x) < Value(y)
    BY <1>1, <1>2, <2>1, <2>2
  <2>6. IdentifierFirst(y, x) => Value(y) < Value(x)
    BY <1>1, <1>2, <2>1, <2>2
  <2>7. IdentifierFirst(x, y) <=> Value(x) < Value(y)
    BY <2>3, <2>4, <2>5, <2>6
  <2> QED
    BY <1>2, <2>7 DEF IdentifierBefore
<1>3. CASE ~(IsNumeric(x) /\ IsNumeric(y))
  BY <1>1, <1>3, WordsByText DEF IdentifierFirst, IdentifierBefore
<1> QED
  BY <1>2, <1>3

\* Identifiers without leading zeros, as Parse lets them through.
Proper == {id \in Identifier : ValidPre(id)}

\* The order of pre-releases is the one of the specification.
LEMMA PreAsSpecified ==
  ASSUME NEW x \in Seq(Proper), NEW y \in Seq(Proper)
  PROVE  PreFirst(x, y) <=> PreBefore(x, y)
<1>1. Len(x) < Len(y) => (x = SubSeq(y, 1, Len(x)) <=> ~Differ(x, y))
  BY ShorterFirst
<1>2. ASSUME NEW i \in DOMAIN x \intersect DOMAIN y
      PROVE  IdentifierBefore(x[i], y[i]) /\ SubSeq(x, 1, i - 1) = SubSeq(y, 1, i - 1)
               <=> BeforeAt(Sooner, x, y, i)
  <2>1. x[i] \in Proper /\ y[i] \in Proper
    BY SeqIndices
  <2>2. /\ x[i] \in Identifier /\ y[i] \in Identifier /\ ValidPre(x[i]) /\ ValidPre(y[i])
        /\ x[i] \in Text /\ y[i] \in Text
    BY <2>1 DEF Proper, Identifier
  <2>3. CmpIdentifier(x[i], y[i]) = -1 <=> IdentifierFirst(x[i], y[i])
    BY <2>2, IdentifierAnswers DEF Answers
  <2>4. IdentifierFirst(x[i], y[i]) <=> IdentifierBefore(x[i], y[i])
    BY <2>2, IdentifierAsSpecified
  <2>5. <<x[i], y[i]>> \in Sooner <=> IdentifierBefore(x[i], y[i])
    BY <2>2, <2>3, <2>4 DEF Sooner
  <2>6. SubSeq(x, 1, i - 1) = SubSeq(y, 1, i - 1) <=> \A j \in 1 .. i - 1 : x[j] = y[j]
    BY BeforeThere
  <2> QED
    BY <2>5, <2>6 DEF BeforeAt
<1>3. /\ x = <<>> => DOMAIN x = {} /\ Len(x) = 0
      /\ y = <<>> => DOMAIN y = {} /\ Len(y) = 0
      /\ Len(x) \in Nat /\ Len(y) \in Nat
  BY SeqIndices
<1>4. (\E i \in DOMAIN x \intersect DOMAIN y : TRUE) => x # <<>> /\ y # <<>>
  BY <1>3
<1> QED
  BY <1>1, <1>2, <1>4 DEF PreFirst, PreBefore, LexBefore

\* Compare decides the precedence of the specification, for numbers of any length.
LEMMA ComparesVersions ==
  ASSUME NEW V, \A v \in V : /\ v.core \in [1 .. 3 -> Nat]
                             /\ v.pre \in Seq(Proper) /\ v.build \in Seq(Identifier)
                             /\ v = [core |-> v.core, pre |-> v.pre, build |-> v.build]
  PROVE  ComparesAsSpecified(V)
<1>1. ASSUME NEW a \in V PROVE a \in Version /\ a.pre \in Seq(Proper)
  <2>1. \A s \in Seq(Proper) : s \in Seq(Identifier)
    BY SeqMonotonic DEF Proper
  <2> QED
    BY <2>1 DEF Version
<1>2. ASSUME NEW a \in V, NEW b \in V PROVE SpecBefore(a, b) <=> VersionFirst(a, b)
  <2>1. /\ a.core \in Seq(Nat) /\ Len(a.core) = 3 /\ b.core \in Seq(Nat) /\ Len(b.core) = 3
        /\ \A i \in 1 .. 3 : a.core[i] \in Nat /\ b.core[i] \in Nat
    BY <1>1, VersionParts
  <2>2. DOMAIN a.core = 1 .. 3 /\ DOMAIN b.core = 1 .. 3
    BY <2>1, SeqIndices
  <2>3. \A i \in 1 .. 3 : <<a.core[i], b.core[i]>> \in Less <=> a.core[i] < b.core[i]
    BY <2>1 DEF Less
  <2>4. LexBefore(Less, a.core, b.core)
          <=> \E i \in 1 .. 3 : /\ a.core[i] < b.core[i]
                                /\ \A j \in 1 .. i - 1 : a.core[j] = b.core[j]
    <3>1. ~(Len(a.core) < Len(b.core))
      BY <2>1
    <3>2. DOMAIN a.core \intersect DOMAIN b.core = 1 .. 3
      BY <2>2
    <3> QED
      BY <2>3, <3>1, <3>2 DEF LexBefore, BeforeAt
  <2>5. PreBefore(a.pre, b.pre) <=> PreFirst(a.pre, b.pre)
    BY <1>1, PreAsSpecified
  <2> QED
    BY <2>4, <2>5 DEF SpecBefore, VersionFirst
<1>3. ASSUME NEW a \in V, NEW b \in V
      PROVE  Answers(Compare(a, b), VersionFirst(a, b), VersionFirst(b, a),
                     a.core = b.core /\ a.pre = b.pre)
  BY <1>1, CompareAnswers
<1> QED
  BY <1>2, <1>3 DEF Answers, ComparesAsSpecified
-----------------------------------------------------------------------------
\* A text as it is read, before anybody knows what it is.
Raw == Seq(Nat)

\* The part of a text from i to j.
LEMMA PartOf ==
  ASSUME NEW s \in Raw, NEW i \in 1 .. Len(s) + 1, NEW j \in i - 1 .. Len(s)
  PROVE  /\ SubSeq(s, i, j) \in Raw /\ Len(SubSeq(s, i, j)) = j - i + 1
         /\ \A k \in 1 .. j - i + 1 : SubSeq(s, i, j)[k] = s[i + k - 1]
<1>1. Len(s) \in Nat /\ \A k \in 1 .. Len(s) : s[k] \in Nat
  BY SeqIndices DEF Raw
<1>2. \A k \in i .. j : s[k] \in Nat
  BY <1>1
<1>3. i \in Int /\ j \in Int
  BY <1>1
<1>4. /\ SubSeq(s, i, j) \in Seq(Nat)
      /\ Len(SubSeq(s, i, j)) = IF i <= j THEN j - i + 1 ELSE 0
      /\ \A k \in 1 .. j - i + 1 : SubSeq(s, i, j)[k] = s[i + k - 1]
  BY <1>2, <1>3, SubSeqProperties
<1> QED
  BY <1>1, <1>4 DEF Raw

\* Two parts that meet make one.
LEMMA PartsMeet ==
  ASSUME NEW s \in Raw, NEW i \in 1 .. Len(s) + 1, NEW j \in i - 1 .. Len(s),
         NEW k \in j .. Len(s)
  PROVE  SubSeq(s, i, j) \o SubSeq(s, j + 1, k) = SubSeq(s, i, k)
BY ConcatAdjacentSubSeq DEF Raw

\* A part and the character behind it.
LEMMA PartGrows ==
  ASSUME NEW s \in Raw, NEW i \in 1 .. Len(s), NEW j \in i .. Len(s)
  PROVE  Append(SubSeq(s, i, j - 1), s[j]) = SubSeq(s, i, j)
<1>1. SubSeq(s, i, j) = SubSeq(s, i, j - 1) \o <<s[j]>>
  BY SubSeqRecursiveSecond DEF Raw
<1>2. /\ SubSeq(s, i, j - 1) \in Seq(Nat) /\ s[j] \in Nat
  <2>1. Len(s) \in Nat /\ s[j] \in Nat
    BY SeqIndices DEF Raw
  <2>2. i \in 1 .. Len(s) + 1 /\ j - 1 \in i - 1 .. Len(s)
    BY <2>1
  <2> QED
    BY <2>1, <2>2, PartOf DEF Raw
<1> QED
  BY <1>1, <1>2, AppendIsConcat

(***************************************************************************)
(* p are the pieces of the first k characters of s between the c's, and b  *)
(* where these stand.                                                      *)
(***************************************************************************)
CutAt(s, c, k, p, b) ==
  /\ p \in Seq(Raw) /\ Len(p) >= 1
  /\ b \in [0 .. Len(p) -> 0 .. k + 1]
  /\ b[0] = 0 /\ b[Len(p)] = k + 1
  /\ \A i \in 1 .. Len(p) :
       /\ b[i - 1] < b[i]
       /\ p[i] = SubSeq(s, b[i - 1] + 1, b[i] - 1)
       /\ \A j \in b[i - 1] + 1 .. b[i] - 1 : s[j] # c
  /\ \A i \in 1 .. Len(p) - 1 : s[b[i]] = c

\* Before the first character there is one piece, and it is empty.
LEMMA CutStarts == ASSUME NEW s \in Raw, NEW c PROVE \E b : CutAt(s, c, 0, << <<>> >>, b)
<1> DEFINE b == [i \in 0 .. 1 |-> i]
           p == << <<>> >>
<1>1. p \in Seq(Raw) /\ Len(p) = 1 /\ p[1] = <<>>
  BY DEF Raw
<1>2. b \in [0 .. 1 -> 0 .. 1] /\ b[0] = 0 /\ b[1] = 1
  OBVIOUS
<1>3. SubSeq(s, 1, 0) = <<>>
  BY SubSeqEmpty
<1> HIDE DEF b, p
<1>4. /\ p \in Seq(Raw) /\ Len(p) >= 1
      /\ b \in [0 .. Len(p) -> 0 .. 0 + 1] /\ b[0] = 0 /\ b[Len(p)] = 0 + 1
  BY <1>1, <1>2
<1>5. ASSUME NEW i \in 1 .. Len(p)
      PROVE  /\ b[i - 1] < b[i]
             /\ p[i] = SubSeq(s, b[i - 1] + 1, b[i] - 1)
             /\ \A j \in b[i - 1] + 1 .. b[i] - 1 : s[j] # c
  <2>1. i = 1 /\ b[i - 1] = 0 /\ b[i] = 1 /\ 0 + 1 = 1 /\ 1 - 1 = 0
    BY <1>1, <1>2
  <2>2. \A j : j \notin 0 + 1 .. 1 - 1
    OBVIOUS
  <2>3. p[i] = SubSeq(s, b[i - 1] + 1, b[i] - 1)
    BY <1>1, <1>3, <2>1
  <2>4. \A j \in b[i - 1] + 1 .. b[i] - 1 : s[j] # c
    BY <2>1, <2>2
  <2> QED
    BY <2>1, <2>3, <2>4
<1>6. CutAt(s, c, 0, p, b)
  <2>1. \A i : i \notin 1 .. Len(p) - 1
    BY <1>1
  <2> QED
    BY <1>4, <1>5, <2>1 DEF CutAt
<1> QED
  BY <1>6 DEF p

\* The next character ends the piece or lengthens it.
LEMMA CutGoesOn ==
  ASSUME NEW s \in Raw, NEW c, NEW k \in 1 .. Len(s), NEW p, NEW b, CutAt(s, c, k - 1, p, b)
  PROVE  \E d : CutAt(s, c, k, IF s[k] = c THEN Append(p, <<>>)
                               ELSE [p EXCEPT ![Len(p)] = Append(@, s[k])], d)
<1> DEFINE n == Len(p)
           d == [i \in 0 .. n + 1 |-> IF i = n + 1 THEN k + 1 ELSE b[i]]
           e == [i \in 0 .. n |-> IF i = n THEN k + 1 ELSE b[i]]
           q == Append(p, <<>>)
           r == [p EXCEPT ![n] = Append(p[n], s[k])]
<1>1. Len(s) \in Nat /\ n \in Nat /\ n >= 1 /\ s[k] \in Nat /\ p \in Seq(Raw)
      /\ \A i \in 1 .. n : p[i] \in Raw
  BY SeqIndices DEF Raw, CutAt
<1>2. /\ \A i \in 0 .. n : b[i] \in 0 .. k
      /\ b[0] = 0 /\ b[n] = k
      /\ \A i \in 1 .. n : /\ b[i - 1] < b[i]
                           /\ p[i] = SubSeq(s, b[i - 1] + 1, b[i] - 1)
                           /\ \A j \in b[i - 1] + 1 .. b[i] - 1 : s[j] # c
      /\ \A i \in 1 .. n - 1 : s[b[i]] = c
  <2>1. (k - 1) + 1 = k
    BY <1>1
  <2>2. b \in [0 .. n -> 0 .. (k - 1) + 1] /\ b[n] = (k - 1) + 1
    BY DEF CutAt
  <2> QED
    BY <2>1, <2>2 DEF CutAt
<1> HIDE DEF n
<1>3. CASE s[k] = c
  <2>1. q \in Seq(Raw) /\ Len(q) = n + 1 /\ q[n + 1] = <<>> /\ \A i \in 1 .. n : q[i] = p[i]
    <3>1. <<>> \in Raw
      BY DEF Raw
    <3> QED
      BY <1>1, <3>1, AppendProperties DEF n
  <2>2. /\ d \in [0 .. n + 1 -> 0 .. k + 1]
        /\ d[0] = 0 /\ d[n + 1] = k + 1 /\ d[n] = k
        /\ \A i \in 0 .. n : d[i] = b[i]
    BY <1>1, <1>2
  <2>3. SubSeq(s, k + 1, (k + 1) - 1) = <<>>
    BY <1>1, SubSeqEmpty
  <2> HIDE DEF q, d
  <2>4. ASSUME NEW i \in 1 .. n + 1
        PROVE  /\ d[i - 1] < d[i]
               /\ q[i] = SubSeq(s, d[i - 1] + 1, d[i] - 1)
               /\ \A j \in d[i - 1] + 1 .. d[i] - 1 : s[j] # c
    <3>1. CASE i = n + 1
      <4>1. d[i - 1] = k /\ d[i] = k + 1 /\ q[i] = <<>>
        BY <1>1, <2>1, <2>2, <3>1
      <4>2. \A j : j \notin k + 1 .. (k + 1) - 1
        BY <1>1
      <4> QED
        BY <2>3, <4>1, <4>2
    <3>2. CASE i # n + 1
      <4>1. i \in 1 .. n /\ i - 1 \in 0 .. n /\ i \in 0 .. n
        BY <1>1, <3>2
      <4> QED
        BY <1>2, <2>1, <2>2, <4>1
    <3> QED
      BY <3>1, <3>2
  <2>5. ASSUME NEW i \in 1 .. Len(q) - 1 PROVE s[d[i]] = c
    <3>0. Len(q) - 1 = n
      BY <1>1, <2>1
    <3>1. i \in 0 .. n /\ (i = n \/ i \in 1 .. n - 1)
      BY <1>1, <3>0
    <3> QED
      BY <1>2, <1>3, <2>2, <3>1
  <2>6. CutAt(s, c, k, q, d)
    <3>1. Len(q) >= 1
      BY <1>1, <2>1
    <3> QED
      BY <2>1, <2>2, <2>4, <2>5, <3>1 DEF CutAt
  <2> QED
    BY <1>3, <2>6 DEF q
<1>4. CASE s[k] # c
  <2>1. Append(p[n], s[k]) \in Raw
    BY <1>1 DEF Raw
  <2>2. r \in Seq(Raw) /\ Len(r) = n /\ r[n] = Append(p[n], s[k])
        /\ \A i \in 1 .. n - 1 : r[i] = p[i]
    <3>1. n \in 1 .. Len(p)
      BY <1>1 DEF n
    <3>2. r \in Seq(Raw) /\ Len(r) = Len(p)
          /\ \A i \in 1 .. Len(p) : r[i] = IF i = n THEN Append(p[n], s[k]) ELSE p[i]
      BY <1>1, <2>1, <3>1, ExceptSeq
    <3>3. \A i \in 1 .. n - 1 : i \in 1 .. Len(p) /\ i # n
      BY <1>1 DEF n
    <3> QED
      BY <3>1, <3>2, <3>3 DEF n
  <2>3. /\ e \in [0 .. n -> 0 .. k + 1]
        /\ e[0] = 0 /\ e[n] = k + 1
        /\ \A i \in 0 .. n - 1 : e[i] = b[i]
    BY <1>1, <1>2
  <2> HIDE DEF r, e
  <2>4. /\ b[n - 1] < k /\ b[n - 1] \in Nat
        /\ p[n] = SubSeq(s, b[n - 1] + 1, k - 1)
        /\ \A j \in b[n - 1] + 1 .. k - 1 : s[j] # c
    <3>1. n \in 1 .. n /\ n - 1 \in 0 .. n
      BY <1>1
    <3>2. /\ b[n - 1] < b[n] /\ p[n] = SubSeq(s, b[n - 1] + 1, b[n] - 1)
          /\ \A j \in b[n - 1] + 1 .. b[n] - 1 : s[j] # c
      BY <1>2, <3>1
    <3>3. b[n] = k /\ b[n - 1] \in Nat
      BY <1>2, <3>1
    <3> QED
      BY <3>2, <3>3
  <2>5. r[n] = SubSeq(s, b[n - 1] + 1, k)
    <3>1. b[n - 1] + 1 \in 1 .. Len(s) /\ k \in b[n - 1] + 1 .. Len(s)
      BY <1>1, <2>4
    <3> QED
      BY <2>2, <2>4, <3>1, PartGrows
  <2>6. ASSUME NEW i \in 1 .. n
        PROVE  /\ e[i - 1] < e[i]
               /\ r[i] = SubSeq(s, e[i - 1] + 1, e[i] - 1)
               /\ \A j \in e[i - 1] + 1 .. e[i] - 1 : s[j] # c
    <3>1. CASE i = n
      <4>1. e[i - 1] = b[n - 1] /\ e[i] = k + 1 /\ (k + 1) - 1 = k
        BY <1>1, <2>3, <3>1
      <4>2. \A j \in b[n - 1] + 1 .. k : s[j] # c
        BY <1>4, <2>4
      <4> QED
        BY <2>4, <2>5, <3>1, <4>1, <4>2
    <3>2. CASE i # n
      <4>1. i \in 1 .. n - 1 /\ i - 1 \in 0 .. n - 1 /\ i \in 0 .. n - 1
        BY <1>1, <3>2
      <4> QED
        BY <1>2, <2>2, <2>3, <4>1
    <3> QED
      BY <3>1, <3>2
  <2>7. ASSUME NEW i \in 1 .. n - 1 PROVE s[e[i]] = c
    <3>1. i \in 0 .. n - 1
      BY <1>1
    <3> QED
      BY <1>2, <2>3, <3>1
  <2>8. CutAt(s, c, k, r, e)
    BY <1>1, <2>2, <2>3, <2>6, <2>7 DEF CutAt
  <2> QED
    BY <1>4, <2>8 DEF r, n
<1> QED
  BY <1>3, <1>4

\* Split cuts a text into its pieces.
LEMMA SplitCuts ==
  ASSUME NEW s \in Raw, NEW c
  PROVE  \E b : CutAt(s, c, Len(s), Split(s, c), b)
<1> DEFINE n == Len(s)
           Round(i, p) == IF s[i] = c THEN Append(p, <<>>) ELSE [p EXCEPT ![Len(p)] = Append(@, s[i])]
           W == {p \in Seq(Raw) : Len(p) >= 1}
           F == [q \in (1 .. n) \X W |-> Round(q[1], q[2])]
           Walk(g) == g = [i \in 0 .. n |-> IF i = 0 THEN << <<>> >> ELSE Round(i, g[i - 1])]
           start == << <<>> >>
<1>1. n \in Nat /\ \A i \in 1 .. n : s[i] \in Nat
  BY SeqIndices DEF Raw
<1>2. start \in W
  BY DEF Raw
<1>3. ASSUME NEW i \in 1 .. n, NEW p \in W PROVE Round(i, p) \in W
  <2>1. p \in Seq(Raw) /\ Len(p) \in 1 .. Len(p) /\ p[Len(p)] \in Raw /\ <<>> \in Raw
    BY SeqIndices DEF Raw
  <2>2. Append(p[Len(p)], s[i]) \in Raw
    BY <1>1, <2>1 DEF Raw
  <2>3. Append(p, <<>>) \in Seq(Raw) /\ Len(Append(p, <<>>)) = Len(p) + 1
    BY <2>1, AppendProperties
  <2>4. /\ [p EXCEPT ![Len(p)] = Append(p[Len(p)], s[i])] \in Seq(Raw)
        /\ Len([p EXCEPT ![Len(p)] = Append(p[Len(p)], s[i])]) = Len(p)
    BY <2>1, <2>2, ExceptSeq
  <2> QED
    BY <2>1, <2>3, <2>4
<1> HIDE DEF Round, W
<1>4. F \in Rule(n, W)
  BY <1>3 DEF Rule
<1>5. \A i \in 1 .. n, p \in W : F[<<i, p>>] = Round(i, p)
  OBVIOUS
<1> HIDE DEF F, n, start
<1>6. PICK g \in [0 .. n -> W] : IsLoop(g, n, start, F)
  BY <1>1, <1>2, <1>4, LoopDefined
<1>7. \A i \in 0 .. n : i # 0 => F[<<i, g[i - 1]>>] = Round(i, g[i - 1])
  <2>1. \A i \in 0 .. n : i # 0 => i \in 1 .. n /\ i - 1 \in 0 .. n
    BY <1>1
  <2> QED
    BY <1>5, <1>6, <2>1
<1>8. Walk(g)
  BY <1>6, <1>7 DEF IsLoop, start
<1>9. PICK f : Walk(f) /\ Split(s, c) = f[n]
  BY <1>8 DEF Split, Round, n
<1>10. f[0] = << <<>> >> /\ \A i \in 1 .. n : f[i] = Round(i, f[i - 1])
  BY <1>1, <1>9
<1>11. \A i \in 0 .. n : \E b : CutAt(s, c, i, f[i], b)
  <2> DEFINE T == {i \in 0 .. n : \E b : CutAt(s, c, i, f[i], b)}
  <2>1. 0 \in T
    <3>1. 0 \in 0 .. n
      BY <1>1
    <3> QED
      BY <1>10, <3>1, CutStarts
  <2>2. ASSUME NEW i \in 1 .. n, i - 1 \in T PROVE i \in T
    <3>1. PICK b : CutAt(s, c, i - 1, f[i - 1], b)
      BY <2>2
    <3>2. \E d : CutAt(s, c, i, Round(i, f[i - 1]), d)
      BY <3>1, CutGoesOn DEF Round, n
    <3>3. i \in 0 .. n /\ f[i] = Round(i, f[i - 1])
      BY <1>1, <1>10
    <3> QED
      BY <3>2, <3>3
  <2> HIDE DEF T
  <2>3. \A i \in 0 .. n : i \in T
    BY <1>1, <2>1, <2>2, Rounds
  <2> QED
    BY <2>3 DEF T
<1>12. n \in 0 .. n
  BY <1>1
<1> QED
  BY <1>9, <1>11, <1>12 DEF n

\* What a cut says, place by place.
LEMMA CutFacts ==
  ASSUME NEW s \in Raw, NEW c, NEW p, NEW b, CutAt(s, c, Len(s), p, b)
  PROVE  /\ p \in Seq(Raw) /\ Len(p) \in Nat /\ Len(p) >= 1 /\ Len(s) \in Nat
         /\ DOMAIN p = 1 .. Len(p)
         /\ b[0] = 0 /\ b[Len(p)] = Len(s) + 1
         /\ \A i \in 0 .. Len(p) : b[i] \in 0 .. Len(s) + 1
         /\ \A i \in 1 .. Len(p) :
              /\ b[i - 1] < b[i] /\ b[i - 1] \in 0 .. Len(s)
              /\ p[i] = SubSeq(s, b[i - 1] + 1, b[i] - 1)
              /\ \A j \in b[i - 1] + 1 .. b[i] - 1 : s[j] # c
         /\ \A i \in 1 .. Len(p) - 1 : b[i] \in 1 .. Len(s) /\ s[b[i]] = c
         /\ \A i, j \in 0 .. Len(p) : i < j => b[i] < b[j]
<1> DEFINE n == Len(p)
           m == Len(s)
<1>1. /\ p \in Seq(Raw) /\ n \in Nat /\ n >= 1 /\ m \in Nat /\ DOMAIN p = 1 .. n
      /\ b[0] = 0 /\ b[n] = m + 1 /\ \A i \in 0 .. n : b[i] \in 0 .. m + 1
  BY SeqIndices DEF CutAt, Raw
<1>2. /\ \A i \in 1 .. n : /\ b[i - 1] < b[i]
                           /\ p[i] = SubSeq(s, b[i - 1] + 1, b[i] - 1)
                           /\ \A j \in b[i - 1] + 1 .. b[i] - 1 : s[j] # c
      /\ \A i \in 1 .. n - 1 : s[b[i]] = c
  BY DEF CutAt
<1> HIDE DEF n, m
<1>3. \A d \in 0 .. n : \A i, j \in 0 .. n : i < j /\ j - i <= d => b[i] < b[j]
  <2> DEFINE T == {d \in 0 .. n : \A i, j \in 0 .. n : i < j /\ j - i <= d => b[i] < b[j]}
  <2>1. 0 \in T
    BY <1>1
  <2>2. ASSUME NEW d \in 1 .. n, d - 1 \in T PROVE d \in T
    <3> SUFFICES ASSUME NEW i \in 0 .. n, NEW j \in 0 .. n, i < j, j - i <= d PROVE b[i] < b[j]
      BY <1>1
    <3>1. j \in 1 .. n /\ j - 1 \in 0 .. n /\ (j - 1) - i <= d - 1 /\ (i = j - 1 \/ i < j - 1)
      BY <1>1
    <3>2. b[j - 1] < b[j]
      BY <1>2, <3>1
    <3>3. i < j - 1 => b[i] < b[j - 1]
      BY <2>2, <3>1
    <3>4. b[i] \in Nat /\ b[j - 1] \in Nat /\ b[j] \in Nat
      BY <1>1, <3>1
    <3> QED
      BY <3>1, <3>2, <3>3, <3>4
  <2> HIDE DEF T
  <2>3. \A d \in 0 .. n : d \in T
    BY <1>1, <2>1, <2>2, Rounds
  <2> QED
    BY <2>3 DEF T
<1>4. \A i, j \in 0 .. n : i < j => b[i] < b[j]
  <2> SUFFICES ASSUME NEW i \in 0 .. n, NEW j \in 0 .. n, i < j PROVE b[i] < b[j]
    OBVIOUS
  <2>1. j - i \in 0 .. n
    BY <1>1
  <2> QED
    BY <1>1, <1>3, <2>1
<1>5. \A i \in 1 .. n : b[i - 1] \in 0 .. m
  <2> SUFFICES ASSUME NEW i \in 1 .. n PROVE b[i - 1] \in 0 .. m
    OBVIOUS
  <2>1. i - 1 \in 0 .. n /\ i \in 0 .. n /\ b[i - 1] < b[i]
    BY <1>1, <1>2
  <2> QED
    BY <1>1, <2>1
<1>6. \A i \in 1 .. n - 1 : b[i] \in 1 .. m
  <2> SUFFICES ASSUME NEW i \in 1 .. n - 1 PROVE b[i] \in 1 .. m
    OBVIOUS
  <2>1. i \in 0 .. n /\ 0 \in 0 .. n /\ n \in 0 .. n /\ 0 < i /\ i < n
    BY <1>1
  <2>2. b[0] < b[i] /\ b[i] < b[n]
    BY <1>4, <2>1
  <2> QED
    BY <1>1, <2>1, <2>2
<1> QED
  BY <1>1, <1>2, <1>4, <1>5, <1>6 DEF n, m

\* Every place of the text is before, at or behind a boundary.
LEMMA CutCovers ==
  ASSUME NEW s \in Raw, NEW c, NEW p, NEW b, CutAt(s, c, Len(s), p, b), NEW i \in 1 .. Len(s) + 1
  PROVE  \E m \in 1 .. Len(p) : b[m - 1] < i /\ i <= b[m]
<1> DEFINE n == Len(p)
           B == {m \in 0 .. n : i <= b[m]}
<1>1. n \in Nat /\ n >= 1 /\ Len(s) \in Nat /\ b[0] = 0 /\ b[n] = Len(s) + 1
      /\ \A m \in 0 .. n : b[m] \in 0 .. Len(s) + 1
  BY CutFacts
<1> HIDE DEF n
<1>2. B \in SUBSET Nat /\ n \in B
  BY <1>1
<1>3. PICK m \in B : \A k \in B : m <= k
  BY <1>2, LeastOf
<1>4. m \in 1 .. n /\ m - 1 \in 0 .. n /\ m - 1 \notin B
  BY <1>1, <1>3
<1>5. b[m - 1] < i
  BY <1>1, <1>4
<1> QED
  BY <1>3, <1>4, <1>5 DEF n

\* The pieces are the parts of the text between dots.
LEMMA PieceFound ==
  ASSUME NEW s \in Raw, NEW p, NEW b, CutAt(s, Dot, Len(s), p, b),
         NEW i \in 1 .. Len(s) + 1, NEW j \in i - 1 .. Len(s)
  PROVE  Piece(s, i, j) <=> \E m \in 1 .. Len(p) : i = b[m - 1] + 1 /\ j = b[m] - 1
<1> DEFINE n == Len(p)
           l == Len(s)
<1>1. /\ n \in Nat /\ n >= 1 /\ l \in Nat /\ b[0] = 0 /\ b[n] = l + 1
      /\ \A m \in 0 .. n : b[m] \in 0 .. l + 1
      /\ \A m \in 1 .. n : /\ b[m - 1] < b[m] /\ b[m - 1] \in 0 .. l
                           /\ \A k \in b[m - 1] + 1 .. b[m] - 1 : s[k] # Dot
      /\ \A m \in 1 .. n - 1 : b[m] \in 1 .. l /\ s[b[m]] = Dot
  BY CutFacts
<1> HIDE DEF n, l
<1>2. ASSUME NEW m \in 1 .. n, i = b[m - 1] + 1, j = b[m] - 1 PROVE Piece(s, i, j)
  <2>1. \A k \in i .. j : s[k] # Dot
    BY <1>1, <1>2
  <2>2. i = 1 \/ s[i - 1] = Dot
    <3>1. m = 1 \/ m - 1 \in 1 .. n - 1
      BY <1>1
    <3>2. b[m - 1] \in Nat
      BY <1>1
    <3>3. i - 1 = b[m - 1]
      BY <1>2, <3>2
    <3>4. m = 1 => i = 1
      BY <1>1, <1>2
    <3>5. m - 1 \in 1 .. n - 1 => s[b[m - 1]] = Dot
      BY <1>1
    <3> QED
      BY <3>1, <3>3, <3>4, <3>5
  <2>3. j = l \/ s[j + 1] = Dot
    <3>1. m = n \/ m \in 1 .. n - 1
      BY <1>1
    <3>2. j + 1 = b[m]
      <4>1. m \in 0 .. n
        BY <1>1
      <4> QED
        BY <1>1, <1>2, <4>1
    <3>3. m = n => j = l
      BY <1>1, <1>2
    <3> QED
      BY <1>1, <3>1, <3>2, <3>3
  <2> QED
    BY <2>1, <2>2, <2>3 DEF Piece, l
<1>3. ASSUME Piece(s, i, j) PROVE \E m \in 1 .. n : i = b[m - 1] + 1 /\ j = b[m] - 1
  <2>1. /\ \A k \in i .. j : s[k] # Dot
        /\ i = 1 \/ s[i - 1] = Dot
        /\ j = l \/ s[j + 1] = Dot
    BY <1>3 DEF Piece, l
  <2>2. i \in 1 .. l + 1 /\ j \in i - 1 .. l
    BY DEF l
  <2>3. PICK m \in 1 .. n : b[m - 1] < i /\ i <= b[m]
    BY CutCovers DEF n
  <2>4. /\ b[m - 1] \in 0 .. l /\ b[m] \in 0 .. l + 1
        /\ \A k \in b[m - 1] + 1 .. b[m] - 1 : s[k] # Dot
        /\ m = n \/ m \in 1 .. n - 1
    <3>1. m \in 0 .. n
      BY <1>1
    <3> QED
      BY <1>1, <3>1
  <2>5. i = b[m - 1] + 1
    <3>1. i = 1 => b[m - 1] = 0
      BY <2>3, <2>4
    <3>2. i # 1 => i - 1 \notin b[m - 1] + 1 .. b[m] - 1
      BY <2>1, <2>4
    <3> QED
      BY <2>2, <2>3, <2>4, <3>1, <3>2
  <2>6. j + 1 <= b[m]
    <3> SUFFICES ASSUME b[m] < j + 1 PROVE FALSE
      BY <2>2, <2>4
    <3>1. b[m] \in i .. j
      BY <2>2, <2>3, <2>4
    <3>2. m # n
      BY <1>1, <2>2, <3>1
    <3>3. s[b[m]] = Dot
      BY <1>1, <2>4, <3>2
    <3> QED
      BY <2>1, <3>1, <3>3
  <2>7. j = l => b[m] = j + 1
    BY <1>1, <2>2, <2>4, <2>6
  <2>8. j # l => b[m] = j + 1
    <3>1. j # l => j + 1 \notin b[m - 1] + 1 .. b[m] - 1
      BY <2>1, <2>4
    <3> QED
      BY <2>2, <2>3, <2>4, <2>6, <3>1
  <2>9. j = b[m] - 1
    BY <2>2, <2>4, <2>7, <2>8
  <2> QED
    BY <2>5, <2>9
<1> QED
  BY <1>2, <1>3 DEF n

\* So all parts between dots are of some kind where all pieces are.
LEMMA PiecesFound ==
  ASSUME NEW s \in Raw, NEW p, NEW b, CutAt(s, Dot, Len(s), p, b), NEW G
  PROVE  (\A i \in 1 .. Len(s) + 1 : \A j \in i - 1 .. Len(s) :
            Piece(s, i, j) => SubSeq(s, i, j) \in G)
           <=> \A m \in 1 .. Len(p) : p[m] \in G
<1>1. ASSUME NEW m \in 1 .. Len(p)
      PROVE  /\ b[m - 1] + 1 \in 1 .. Len(s) + 1 /\ b[m] - 1 \in (b[m - 1] + 1) - 1 .. Len(s)
             /\ p[m] = SubSeq(s, b[m - 1] + 1, b[m] - 1)
  <2>1. /\ Len(p) \in Nat /\ Len(s) \in Nat /\ \A i \in 0 .. Len(p) : b[i] \in 0 .. Len(s) + 1
        /\ b[m - 1] < b[m] /\ b[m - 1] \in 0 .. Len(s)
        /\ p[m] = SubSeq(s, b[m - 1] + 1, b[m] - 1)
    BY CutFacts
  <2>2. m \in 0 .. Len(p)
    BY <2>1
  <2> QED
    BY <2>1, <2>2
<1>2. ASSUME \A m \in 1 .. Len(p) : p[m] \in G,
             NEW i \in 1 .. Len(s) + 1, NEW j \in i - 1 .. Len(s), Piece(s, i, j)
      PROVE  SubSeq(s, i, j) \in G
  <2>1. PICK m \in 1 .. Len(p) : i = b[m - 1] + 1 /\ j = b[m] - 1
    BY <1>2, PieceFound
  <2> QED
    BY <1>1, <1>2, <2>1
<1>3. ASSUME \A i \in 1 .. Len(s) + 1 : \A j \in i - 1 .. Len(s) :
               Piece(s, i, j) => SubSeq(s, i, j) \in G,
             NEW m \in 1 .. Len(p)
      PROVE  p[m] \in G
  <2> DEFINE i == b[m - 1] + 1
             j == b[m] - 1
  <2>1. i \in 1 .. Len(s) + 1 /\ j \in i - 1 .. Len(s) /\ p[m] = SubSeq(s, i, j)
    BY <1>1
  <2>2. Piece(s, i, j)
    BY <2>1, PieceFound
  <2> QED
    BY <1>3, <2>1, <2>2
<1> QED
  BY <1>2, <1>3

\* What stands in a text but dots stands in a piece.
LEMMA CharFound ==
  ASSUME NEW s \in Raw, NEW p, NEW b, CutAt(s, Dot, Len(s), p, b), NEW k \in 1 .. Len(s), s[k] # Dot
  PROVE  \E m \in 1 .. Len(p) : \E q \in 1 .. Len(p[m]) : p[m][q] = s[k]
<1>1. Len(s) \in Nat /\ k \in 1 .. Len(s) + 1
  BY SeqIndices DEF Raw
<1>2. PICK m \in 1 .. Len(p) : b[m - 1] < k /\ k <= b[m]
  BY <1>1, CutCovers
<1>3. /\ Len(p) \in Nat /\ b[Len(p)] = Len(s) + 1 /\ \A i \in 0 .. Len(p) : b[i] \in 0 .. Len(s) + 1
      /\ \A i \in 1 .. Len(p) - 1 : s[b[i]] = Dot
      /\ b[m - 1] \in 0 .. Len(s) /\ p[m] = SubSeq(s, b[m - 1] + 1, b[m] - 1)
  BY CutFacts
<1>4. m \in 0 .. Len(p) /\ (m = Len(p) \/ m \in 1 .. Len(p) - 1)
  BY <1>3
<1>5. k # b[m]
  BY <1>1, <1>3, <1>4
<1>6. /\ b[m - 1] \in Nat /\ b[m] \in Nat /\ k \in Nat
      /\ b[m - 1] < k /\ k < b[m] /\ b[m] <= Len(s) + 1
  BY <1>1, <1>2, <1>3, <1>4, <1>5
<1>7. ASSUME NEW u \in Nat, NEW v \in Nat, u < k, k < v, v <= Len(s) + 1,
             p[m] = SubSeq(s, u + 1, v - 1)
      PROVE  \E q \in 1 .. Len(p[m]) : p[m][q] = s[k]
  <2>1. u + 1 \in 1 .. Len(s) + 1 /\ v - 1 \in (u + 1) - 1 .. Len(s)
    BY <1>1, <1>7
  <2>2. /\ Len(p[m]) = (v - 1) - (u + 1) + 1
        /\ \A q \in 1 .. (v - 1) - (u + 1) + 1 : p[m][q] = s[(u + 1) + q - 1]
    BY <1>7, <2>1, PartOf
  <2>3. k - u \in 1 .. (v - 1) - (u + 1) + 1 /\ (u + 1) + (k - u) - 1 = k
    BY <1>1, <1>7
  <2> QED
    BY <2>2, <2>3
<1> QED
  BY <1>3, <1>6, <1>7

\* Three pieces have two dots between them.
LEMMA DotsCounted ==
  ASSUME NEW s \in Raw, NEW p, NEW b, CutAt(s, Dot, Len(s), p, b)
  PROVE  Len(p) = 3 <=> \E d, e \in 1 .. Len(s) : d < e /\ Dots(s) = {d, e}
<1> DEFINE n == Len(p)
<1>1. /\ n \in Nat /\ n >= 1 /\ Len(s) \in Nat /\ DOMAIN s = 1 .. Len(s)
      /\ \A i \in 1 .. n - 1 : b[i] \in 1 .. Len(s) /\ s[b[i]] = Dot
      /\ \A i, j \in 0 .. n : i < j => b[i] < b[j]
  BY CutFacts, SeqIndices DEF Raw
<1>2. Dots(s) = {b[i] : i \in 1 .. n - 1}
  <2>1. ASSUME NEW k \in 1 .. Len(s), s[k] = Dot PROVE \E i \in 1 .. n - 1 : k = b[i]
    <3>1. k \in 1 .. Len(s) + 1
      BY <1>1
    <3>2. PICK m \in 1 .. Len(p) : b[m - 1] < k /\ k <= b[m]
      BY <3>1, CutCovers
    <3>3. /\ b[n] = Len(s) + 1 /\ \A i \in 0 .. n : b[i] \in 0 .. Len(s) + 1
          /\ b[m - 1] \in 0 .. Len(s)
          /\ \A j \in b[m - 1] + 1 .. b[m] - 1 : s[j] # Dot
      BY CutFacts
    <3>4. m \in 0 .. n /\ (m = n \/ m \in 1 .. n - 1)
      BY <1>1
    <3>5. k \notin b[m - 1] + 1 .. b[m] - 1
      BY <2>1, <3>3
    <3>6. k = b[m]
      <4> HIDE DEF n
      <4> QED
        BY <1>1, <3>2, <3>3, <3>4, <3>5
    <3>7. m # n
      BY <1>1, <3>3, <3>6
    <3> QED
      BY <3>4, <3>6, <3>7
  <2> QED
    BY <1>1, <2>1 DEF Dots
<1> HIDE DEF n
<1>3. ASSUME n = 3 PROVE \E d, e \in 1 .. Len(s) : d < e /\ Dots(s) = {d, e}
  <2>1. 1 \in 1 .. n - 1 /\ 2 \in 1 .. n - 1 /\ 1 \in 0 .. n /\ 2 \in 0 .. n
    BY <1>3
  <2>2. \A i \in 1 .. n - 1 : i = 1 \/ i = 2
    BY <1>3
  <2>3. b[1] \in 1 .. Len(s) /\ b[2] \in 1 .. Len(s) /\ b[1] < b[2]
    BY <1>1, <2>1
  <2>4. Dots(s) = {b[1], b[2]}
    BY <1>2, <2>1, <2>2
  <2> QED
    BY <2>3, <2>4
<1>4. ASSUME NEW d \in 1 .. Len(s), NEW e \in 1 .. Len(s), d < e, Dots(s) = {d, e} PROVE n = 3
  <2>1. PICK i \in 1 .. n - 1 : b[i] = d
    BY <1>2, <1>4
  <2>2. PICK j \in 1 .. n - 1 : b[j] = e
    BY <1>2, <1>4
  <2>3. i # j
    BY <1>1, <1>4, <2>1, <2>2
  <2>4. n >= 3
    BY <1>1, <2>3
  <2>5. ~(n > 3)
    <3> SUFFICES ASSUME n > 3 PROVE FALSE
      OBVIOUS
    <3>1. 1 \in 1 .. n - 1 /\ 2 \in 1 .. n - 1 /\ 3 \in 1 .. n - 1
          /\ 1 \in 0 .. n /\ 2 \in 0 .. n /\ 3 \in 0 .. n
      BY <1>1
    <3>2. b[1] < b[2] /\ b[2] < b[3] /\ b[1] < b[3]
      BY <1>1, <3>1
    <3>3. b[1] \in {d, e} /\ b[2] \in {d, e} /\ b[3] \in {d, e}
      BY <1>2, <1>4, <3>1
    <3>4. d \in Nat /\ e \in Nat
      BY <1>1
    <3> QED
      BY <3>2, <3>3, <3>4
  <2> QED
    BY <1>1, <2>4, <2>5
<1> QED
  BY <1>3, <1>4 DEF n

\* Two parts and the character between them.
LEMMA PartsJoined ==
  ASSUME NEW s \in Raw, NEW u \in 1 .. Len(s), NEW v \in u + 1 .. Len(s) + 1
  PROVE  (SubSeq(s, 1, u - 1) \o <<s[u]>>) \o SubSeq(s, u + 1, v - 1) = SubSeq(s, 1, v - 1)
<1>1. Len(s) \in Nat /\ s[u] \in Nat
  BY SeqIndices DEF Raw
<1>2. 1 \in 1 .. Len(s) /\ u \in 1 .. Len(s) /\ 1 \in 1 .. Len(s) + 1
      /\ u - 1 \in 1 - 1 .. Len(s) /\ u \in 1 - 1 .. Len(s) /\ v - 1 \in u .. Len(s)
  BY <1>1
<1>3. SubSeq(s, 1, u - 1) \in Seq(Nat)
  BY <1>2, PartOf DEF Raw
<1>4. SubSeq(s, 1, u - 1) \o <<s[u]>> = SubSeq(s, 1, u)
  BY <1>1, <1>2, <1>3, PartGrows, AppendIsConcat
<1> QED
  BY <1>2, <1>4, PartsMeet

\* Where the parentheses stand does not matter.
LEMMA ThreeInOne ==
  ASSUME NEW E
  PROVE  \A x, y, z \in Seq(E) : x \o y \in Seq(E) /\ (x \o y) \o z = x \o (y \o z)
BY ConcatAssociative, ConcatProperties

\* The same with an operator that the provers do not take apart.
Cat(x, y) == x \o y

LEMMA CatAssociates ==
  \A x, y, z \in Raw : Cat(x, y) \in Raw /\ Cat(Cat(x, y), z) = Cat(x, Cat(y, z))
BY ThreeInOne DEF Raw, Cat

\* The parentheses of a loop that has gone around once more.
LEMMA FourInOne ==
  \A a, x, y, z \in Raw : Cat(Cat(Cat(a, x), y), z) = Cat(a, Cat(Cat(x, y), z))
BY CatAssociates

\* Joined puts the pieces of a text together again.
LEMMA JoinedBack ==
  ASSUME NEW s \in Raw, NEW p, NEW b, CutAt(s, Dot, Len(s), p, b), NEW first \in Raw
  PROVE  Joined(p, first) = first \o s
<1> DEFINE n == Len(p)
           Round(i, t) == t \o (IF i = 1 THEN first ELSE <<Dot>>) \o p[i]
           F == [q \in (1 .. n) \X Raw |-> Round(q[1], q[2])]
           Walk(g) == g = [i \in 0 .. n |-> IF i = 0 THEN <<>> ELSE Round(i, g[i - 1])]
           none == <<>>
<1>1. /\ p \in Seq(Raw) /\ n \in Nat /\ n >= 1 /\ Len(s) \in Nat
      /\ b[0] = 0 /\ b[n] = Len(s) + 1
      /\ \A i \in 1 .. n :
           /\ b[i - 1] < b[i] /\ b[i - 1] \in 0 .. Len(s)
           /\ p[i] = SubSeq(s, b[i - 1] + 1, b[i] - 1)
      /\ \A i \in 1 .. n - 1 : b[i] \in 1 .. Len(s) /\ s[b[i]] = Dot
      /\ \A i \in 0 .. n : b[i] \in 0 .. Len(s) + 1
  BY CutFacts
<1>2. none \in Raw /\ <<Dot>> \in Raw /\ \A i \in 1 .. n : p[i] \in Raw
  BY <1>1, SeqIndices DEF Raw, Dot
<1>3. \A i \in 1 .. n, t \in Raw : Round(i, t) \in Raw
  BY <1>2, ConcatProperties DEF Raw
<1> HIDE DEF Round
<1>4. F \in Rule(n, Raw)
  BY <1>3 DEF Rule
<1>5. \A i \in 1 .. n, t \in Raw : F[<<i, t>>] = Round(i, t)
  OBVIOUS
<1> HIDE DEF F, n, none
<1>6. PICK g \in [0 .. n -> Raw] : IsLoop(g, n, none, F)
  BY <1>1, <1>2, <1>4, LoopDefined
<1>7. \A i \in 0 .. n : i # 0 => F[<<i, g[i - 1]>>] = Round(i, g[i - 1])
  <2>1. \A i \in 0 .. n : i # 0 => i \in 1 .. n /\ i - 1 \in 0 .. n
    BY <1>1
  <2> QED
    BY <1>5, <1>6, <2>1
<1>8. Walk(g)
  BY <1>6, <1>7 DEF IsLoop, none
<1>9. PICK f : Walk(f) /\ Joined(p, first) = f[n]
  BY <1>8 DEF Joined, Round, n
<1>10. f[0] = <<>> /\ \A i \in 1 .. n : f[i] = Round(i, f[i - 1])
  BY <1>1, <1>9
<1>11. \A i \in 0 .. n : i # 0 => f[i] = first \o SubSeq(s, 1, b[i] - 1)
  <2> DEFINE T == {i \in 0 .. n : i # 0 => f[i] = first \o SubSeq(s, 1, b[i] - 1)}
  <2>1. 0 \in T
    BY <1>1
  <2>2. ASSUME NEW i \in 1 .. n, i - 1 \in T PROVE i \in T
    <3>1. f[i] = Round(i, f[i - 1]) /\ p[i] = SubSeq(s, b[i - 1] + 1, b[i] - 1) /\ i \in 0 .. n
      BY <1>1, <1>10
    <3>2. CASE i = 1
      <4>0. f[i - 1] = <<>> /\ b[i - 1] + 1 = 1
        BY <1>1, <1>10, <3>2
      <4>1. f[i] = (<<>> \o first) \o SubSeq(s, 1, b[i] - 1)
        BY <3>1, <3>2, <4>0 DEF Round
      <4>2. <<>> \o first = first
        BY ConcatEmptySeq DEF Raw
      <4>3. f[i] = first \o SubSeq(s, 1, b[i] - 1)
        BY <4>1, <4>2
      <4> QED
        BY <3>1, <4>3
    <3>3. CASE i # 1
      <4> DEFINE u == b[i - 1]
                 v == b[i]
      <4>1. i - 1 \in 1 .. n - 1 /\ i - 1 # 0
        BY <1>1, <3>3
      <4>2. u \in 1 .. Len(s) /\ s[u] = Dot /\ v \in u + 1 .. Len(s) + 1
        <5>1. u \in 1 .. Len(s) /\ s[u] = Dot
          BY <1>1, <4>1
        <5>2. u < v
          BY <1>1
        <5>3. v \in 0 .. Len(s) + 1 /\ Len(s) \in Nat
          BY <1>1, <3>1
        <5> HIDE DEF u, v
        <5> QED
          BY <5>1, <5>2, <5>3
      <4>3. f[i - 1] = first \o SubSeq(s, 1, u - 1)
        BY <2>2, <4>1
      <4>4. f[i] = ((first \o SubSeq(s, 1, u - 1)) \o <<s[u]>>) \o SubSeq(s, u + 1, v - 1)
        BY <3>1, <3>3, <4>2, <4>3 DEF Round
      <4> HIDE DEF u, v
      <4>5. /\ SubSeq(s, 1, u - 1) \in Seq(Nat) /\ SubSeq(s, u + 1, v - 1) \in Seq(Nat)
            /\ <<s[u]>> \in Seq(Nat) /\ first \in Seq(Nat)
        <5>1. /\ 1 \in 1 .. Len(s) + 1 /\ u - 1 \in 1 - 1 .. Len(s)
              /\ u + 1 \in 1 .. Len(s) + 1 /\ v - 1 \in (u + 1) - 1 .. Len(s)
          BY <1>1, <4>2
        <5> QED
          BY <1>2, <4>2, <5>1, PartOf DEF Raw
      <4> DEFINE x == SubSeq(s, 1, u - 1)
                 y == <<s[u]>>
                 z == SubSeq(s, u + 1, v - 1)
      <4>6. x \in Raw /\ y \in Raw /\ z \in Raw /\ f[i] = ((first \o x) \o y) \o z
        BY <4>4, <4>5 DEF Raw
      <4> HIDE DEF x, y, z
      <4>7. f[i] = first \o ((x \o y) \o z)
        <5>1. f[i] = Cat(Cat(Cat(first, x), y), z)
          BY <4>6 DEF Cat
        <5>2. f[i] = Cat(first, Cat(Cat(x, y), z))
          BY <4>6, <5>1, FourInOne
        <5> QED
          BY <5>2 DEF Cat
      <4> USE DEF x, y, z
      <4>8. f[i] = first \o SubSeq(s, 1, v - 1)
        BY <4>2, <4>7, PartsJoined
      <4> QED
        BY <3>1, <4>8 DEF v
    <3> QED
      BY <3>2, <3>3
  <2> HIDE DEF T
  <2>3. \A i \in 0 .. n : i \in T
    BY <1>1, <2>1, <2>2, Rounds
  <2> QED
    BY <2>3 DEF T
<1>12. f[n] = first \o SubSeq(s, 1, Len(s))
  <2>1. n \in 0 .. n /\ n # 0 /\ b[n] - 1 = Len(s)
    BY <1>1
  <2> QED
    BY <1>11, <2>1
<1>13. SubSeq(s, 1, Len(s)) = s
  BY SubSeqFull DEF Raw
<1> QED
  BY <1>9, <1>12, <1>13

\* A text of digits.
Digits == {x \in Text : IsNumeric(x)}

\* What is known of a text of digits.
LEMMA DigitsFacts ==
  ASSUME NEW x \in Digits
  PROVE  /\ x \in Seq(IdentifierChar) /\ Len(x) \in Nat /\ Len(x) >= 1 /\ DOMAIN x = 1 .. Len(x)
         /\ \A i \in 1 .. Len(x) : x[i] \in 48 .. 57
         /\ x \in Text /\ IsNumeric(x)
<1>1. x \in Seq(IdentifierChar) /\ x # <<>> /\ \A i \in DOMAIN x : x[i] \in 48 .. 57
  BY DEF Digits, Text, IsNumeric, Digit
<1>2. Len(x) \in Nat /\ DOMAIN x = 1 .. Len(x) /\ Len(x) # 0
  BY <1>1, SeqIndices, EmptySeq
<1> QED
  BY <1>1, <1>2 DEF Digits

\* It stands for a number.
LEMMA ValueIsNumber == ASSUME NEW x \in Digits PROVE Value(x) \in Nat
<1>1. PICK v : Prefixes(x, v)
  BY ValueFound DEF Digits
<1>2. Len(x) \in Nat
  BY DigitsFacts
<1> QED
  BY <1>1, <1>2 DEF Prefixes

\* One digit more.
LEMMA ValueGrows ==
  ASSUME NEW x \in Digits, NEW d \in 48 .. 57
  PROVE  Append(x, d) \in Digits /\ Value(Append(x, d)) = 10 * Value(x) + (d - 48)
<1> DEFINE y == Append(x, d)
           n == Len(x)
<1>1. /\ n \in Nat /\ Len(y) = n + 1 /\ y \in Seq(IdentifierChar) /\ y[n + 1] = d
      /\ \A i \in 1 .. n : y[i] = x[i]
      /\ \A i \in 1 .. n : x[i] \in 48 .. 57
      /\ y # <<>>
  <2>1. d \in IdentifierChar
    BY DEF IdentifierChar, Digit
  <2> QED
    BY <2>1, DigitsFacts, AppendProperties
<1> HIDE DEF y, n
<1>2. y \in Digits
  <2>1. DOMAIN y = 1 .. n + 1
    BY <1>1, SeqIndices
  <2>2. \A i \in 1 .. n + 1 : y[i] \in 48 .. 57
    <3> SUFFICES ASSUME NEW i \in 1 .. n + 1 PROVE y[i] \in 48 .. 57
      OBVIOUS
    <3>1. i \in 1 .. n \/ i = n + 1
      BY <1>1
    <3> QED
      BY <1>1, <3>1
  <2> QED
    BY <1>1, <2>1, <2>2 DEF Digits, Text, IsNumeric, Digit
<1>3. PICK v : Prefixes(x, v)
  BY ValueFound DEF Digits
<1>4. PICK w : Prefixes(y, w)
  BY <1>2, ValueFound DEF Digits
<1>5. /\ v[0] = 0 /\ \A i \in 1 .. n : v[i] = 10 * v[i - 1] + (x[i] - 48)
      /\ w[0] = 0 /\ \A i \in 1 .. n + 1 : w[i] = 10 * w[i - 1] + (y[i] - 48)
      /\ Value(x) = v[n] /\ Value(y) = w[n + 1]
  BY <1>1, <1>3, <1>4 DEF Prefixes, n
<1>6. \A i \in 0 .. n : v[i] = w[i]
  <2> DEFINE T == {i \in 0 .. n : v[i] = w[i]}
  <2>1. 0 \in T
    BY <1>1, <1>5
  <2>2. ASSUME NEW i \in 1 .. n, i - 1 \in T PROVE i \in T
    <3>1. i \in 1 .. n + 1 /\ i \in 0 .. n /\ y[i] = x[i]
      BY <1>1
    <3>2. v[i] = 10 * v[i - 1] + (x[i] - 48) /\ w[i] = 10 * w[i - 1] + (y[i] - 48)
      BY <1>5, <3>1
    <3> QED
      BY <2>2, <3>1, <3>2
  <2> HIDE DEF T
  <2>3. \A i \in 0 .. n : i \in T
    BY <1>1, <2>1, <2>2, Rounds
  <2> QED
    BY <2>3 DEF T
<1>7. Value(y) = 10 * Value(x) + (d - 48)
  <2>1. n \in 0 .. n /\ n + 1 \in 1 .. n + 1 /\ (n + 1) - 1 = n
    BY <1>1
  <2>2. w[n + 1] = 10 * w[(n + 1) - 1] + (y[n + 1] - 48)
    BY <1>5, <2>1
  <2> QED
    BY <1>1, <1>5, <1>6, <2>1, <2>2
<1> QED
  BY <1>2, <1>7 DEF y

\* One digit alone.
LEMMA ValueOfDigit ==
  ASSUME NEW d \in 48 .. 57
  PROVE  <<d>> \in Digits /\ Value(<<d>>) = d - 48
<1> DEFINE x == <<d>>
<1>1. Len(x) = 1 /\ x[1] = d /\ DOMAIN x = 1 .. 1 /\ x # <<>>
  OBVIOUS
<1>2. x \in Digits
  <2>1. d \in IdentifierChar
    BY DEF IdentifierChar, Digit
  <2>2. x \in Seq(IdentifierChar)
    BY <2>1
  <2> QED
    BY <1>1, <2>2 DEF Digits, Text, IsNumeric, Digit
<1> HIDE DEF x
<1>3. PICK v : Prefixes(x, v)
  BY <1>2, ValueFound DEF Digits
<1>4. v[0] = 0 /\ v[1] = 10 * v[1 - 1] + (x[1] - 48) /\ Value(x) = v[1]
  BY <1>1, <1>3 DEF Prefixes
<1>5. Value(x) = d - 48
  BY <1>1, <1>4
<1> QED
  BY <1>2, <1>5 DEF x

\* No two texts without a leading zero stand for the same number.
LEMMA OneText ==
  ASSUME NEW x \in Digits, NEW y \in Digits, ~LeadingZero(x), ~LeadingZero(y),
         Value(x) = Value(y)
  PROVE  x = y
<1>1. Value(x) \in Nat /\ Value(y) \in Nat
  BY ValueIsNumber
<1>2. x \in Text /\ y \in Text /\ IsNumeric(x) /\ IsNumeric(y)
  BY DigitsFacts
<1>3. Len(x) \in Nat /\ Len(y) \in Nat
  BY DigitsFacts
<1>4. Len(x) = Len(y)
  <2>1. Len(x) < Len(y) => Value(x) < Value(y)
    BY <1>2, LongerIsLarger
  <2>2. Len(y) < Len(x) => Value(y) < Value(x)
    BY <1>2, LongerIsLarger
  <2> QED
    BY <1>1, <1>3, <2>1, <2>2
<1>5. ~LexBefore(Less, x, y) /\ ~LexBefore(Less, y, x)
  <2>1. LexBefore(Less, x, y) => Value(x) < Value(y)
    BY <1>2, <1>4, FirstIsSmaller
  <2>2. LexBefore(Less, y, x) => Value(y) < Value(x)
    BY <1>2, <1>4, FirstIsSmaller
  <2> QED
    BY <1>1, <2>1, <2>2
<1> QED
  BY <1>2, <1>4, <1>5, IdentifierAnswers DEF Answers, IdentifierFirst

\* The recursion of Decimal is a function.
Digit10(g, k) == IF k < 10 THEN <<48 + k>> ELSE Append(g[k \div 10], 48 + (k % 10))

LEMMA DigitsDefined ==
  ASSUME NEW n \in Nat
  PROVE  \E g : g = [k \in 0 .. n |-> Digit10(g, k)]
<1> DEFINE T == {m \in 0 .. n : \E g : g = [k \in 0 .. m |-> Digit10(g, k)]}
<1>1. 0 \in T
  <2> DEFINE h == [k \in 0 .. 0 |-> <<48 + k>>]
  <2>1. h = [k \in 0 .. 0 |-> Digit10(h, k)]
    <3>1. \A k \in 0 .. 0 : k < 10
      OBVIOUS
    <3> QED
      BY <3>1 DEF Digit10
  <2> HIDE DEF h
  <2> QED
    BY <2>1
<1>2. ASSUME NEW m \in 1 .. n, m - 1 \in T PROVE m \in T
  <2>1. PICK g : g = [k \in 0 .. m - 1 |-> Digit10(g, k)]
    BY <1>2
  <2> DEFINE v == Digit10(g, m)
             h == [k \in 0 .. m |-> IF k = m THEN v ELSE g[k]]
  <2> HIDE DEF v
  <2>2. DOMAIN h = 0 .. m /\ h[m] = v /\ \A k \in 0 .. m - 1 : h[k] = g[k]
    OBVIOUS
  <2>3. h = [k \in 0 .. m |-> h[k]]
    OBVIOUS
  <2> HIDE DEF h
  <2>4. ASSUME NEW k \in 0 .. m PROVE h[k] = Digit10(h, k)
    <3>1. k >= 10 => k \div 10 \in 0 .. m - 1
      OBVIOUS
    <3>2. Digit10(h, k) = Digit10(g, k)
      BY <2>2, <3>1 DEF Digit10
    <3>3. CASE k = m
      BY <2>2, <3>2, <3>3 DEF v
    <3>4. CASE k # m
      <4>1. k \in 0 .. m - 1
        BY <3>4
      <4>2. g[k] = Digit10(g, k)
        <5> HIDE DEF T
        <5> QED
          BY <2>1, <4>1
      <4> QED
        BY <2>2, <3>2, <4>1, <4>2
    <3> QED
      BY <3>3, <3>4
  <2>5. h = [k \in 0 .. m |-> Digit10(h, k)]
    BY <2>3, <2>4
  <2> QED
    BY <2>5
<1> HIDE DEF T
<1>3. \A m \in 0 .. n : m \in T
  BY <1>1, <1>2, Rounds
<1> QED
  BY <1>3 DEF T

\* Decimal writes a number without a leading zero.
LEMMA DecimalOfNumber ==
  ASSUME NEW n \in Nat
  PROVE  Decimal(n) \in Digits /\ ~LeadingZero(Decimal(n)) /\ Value(Decimal(n)) = n
<1>1. PICK g : g = [k \in 0 .. n |-> Digit10(g, k)] /\ Decimal(n) = g[n]
  BY DigitsDefined DEF Decimal, Digit10
<1>2. \A k \in 0 .. n : g[k] = Digit10(g, k)
  BY <1>1
<1> DEFINE Good(k) == g[k] \in Digits /\ Value(g[k]) = k /\ (k > 0 => g[k][1] # 48)
           Bad == {k \in 0 .. n : ~Good(k)}
<1>3. ASSUME NEW k \in 0 .. n, \A j \in 0 .. k - 1 : Good(j) PROVE Good(k)
  <2>1. CASE k < 10
    <3>0. 48 + k \in 48 .. 57 /\ g[k] = Digit10(g, k)
      BY <1>2, <2>1
    <3>1. 48 + k \in 48 .. 57 /\ g[k] = <<48 + k>>
      BY <2>1, <3>0, Zenon DEF Digit10
    <3>2. g[k] \in Digits /\ Value(g[k]) = (48 + k) - 48
      BY <3>1, ValueOfDigit
    <3>3. g[k][1] = 48 + k
      BY <3>1
    <3> QED
      BY <3>2, <3>3
  <2>2. CASE ~(k < 10)
    <3> DEFINE q == k \div 10
               r == k % 10
               d == 48 + r
    <3>1. q \in 0 .. k - 1 /\ q > 0 /\ r \in 0 .. 9 /\ k = 10 * q + r
      BY <2>2
    <3>2. g[k] = Append(g[q], d)
      BY <1>2, <2>2 DEF Digit10
    <3> HIDE DEF q, r
    <3>3. d \in 48 .. 57 /\ d - 48 = r
      BY <3>1
    <3>4. Good(q)
      BY <1>3, <3>1
    <3> HIDE DEF d
    <3>5. g[k] \in Digits /\ Value(g[k]) = 10 * Value(g[q]) + (d - 48)
      BY <3>2, <3>3, <3>4, ValueGrows
    <3>6. g[k][1] = g[q][1]
      <4>1. g[q] \in Seq(IdentifierChar) /\ 1 \in 1 .. Len(g[q])
        BY <3>4, DigitsFacts
      <4>2. d \in IdentifierChar
        BY <3>3 DEF IdentifierChar, Digit
      <4> QED
        BY <3>2, <4>1, <4>2, AppendProperties
    <3>7. Value(g[k]) = k
      BY <3>1, <3>3, <3>4, <3>5
    <3> QED
      BY <3>1, <3>4, <3>5, <3>6, <3>7
  <2> QED
    BY <2>1, <2>2
<1> HIDE DEF Good
<1>4. Bad = {}
  <2> SUFFICES ASSUME Bad # {} PROVE FALSE
    OBVIOUS
  <2>1. Bad \in SUBSET Nat
    OBVIOUS
  <2>2. PICK k \in Bad : \A j \in Bad : k <= j
    BY <2>1, LeastOf
  <2>3. \A j \in 0 .. k - 1 : Good(j)
    BY <2>2
  <2> QED
    BY <1>3, <2>2, <2>3
<1>5. Good(n)
  BY <1>4
<1>6. ~LeadingZero(g[n])
  <2>1. CASE n > 0
    BY <1>5, <2>1 DEF Good, LeadingZero
  <2>2. CASE n = 0
    <3>1. g[n] = <<48>>
      BY <1>2, <2>2 DEF Digit10
    <3> QED
      BY <3>1 DEF LeadingZero
  <2> QED
    BY <2>1, <2>2
<1> QED
  BY <1>1, <1>5, <1>6 DEF Good

\* So Decimal writes again what Value has read.
LEMMA DecimalBack ==
  ASSUME NEW x \in Digits, ~LeadingZero(x)
  PROVE  Decimal(Value(x)) = x
<1>1. Value(x) \in Nat
  BY ValueIsNumber
<1>2. /\ Decimal(Value(x)) \in Digits /\ ~LeadingZero(Decimal(Value(x)))
      /\ Value(Decimal(Value(x))) = Value(x)
  BY <1>1, DecimalOfNumber
<1> QED
  BY <1>2, OneText

\* The pieces of a text.
LEMMA SplitFacts ==
  ASSUME NEW s \in Raw
  PROVE  /\ Split(s, Dot) \in Seq(Raw) /\ Len(Split(s, Dot)) \in Nat
         /\ DOMAIN Split(s, Dot) = 1 .. Len(Split(s, Dot))
         /\ Len(Split(s, Dot)) = 3 <=> \E d, e \in 1 .. Len(s) : d < e /\ Dots(s) = {d, e}
         /\ \A first \in Raw : Joined(Split(s, Dot), first) = first \o s
<1>1. PICK b : CutAt(s, Dot, Len(s), Split(s, Dot), b)
  BY SplitCuts
<1>2. /\ Split(s, Dot) \in Seq(Raw) /\ Len(Split(s, Dot)) \in Nat
      /\ DOMAIN Split(s, Dot) = 1 .. Len(Split(s, Dot))
  BY <1>1, CutFacts
<1>3. Len(Split(s, Dot)) = 3 <=> \E d, e \in 1 .. Len(s) : d < e /\ Dots(s) = {d, e}
  BY <1>1, DotsCounted
<1>4. ASSUME NEW first \in Raw PROVE Joined(Split(s, Dot), first) = first \o s
  BY <1>1, JoinedBack
<1> QED
  BY <1>2, <1>3, <1>4

\* All parts of a text between dots are in G where its pieces are,
LEMMA PiecesIn ==
  ASSUME NEW s \in Raw, NEW G
  PROVE  (\A i \in 1 .. Len(s) + 1 : \A j \in i - 1 .. Len(s) :
            Piece(s, i, j) => SubSeq(s, i, j) \in G)
           <=> \A m \in DOMAIN Split(s, Dot) : Split(s, Dot)[m] \in G
<1>1. PICK b : CutAt(s, Dot, Len(s), Split(s, Dot), b)
  BY SplitCuts
<1>2. DOMAIN Split(s, Dot) = 1 .. Len(Split(s, Dot))
  BY SplitFacts
<1> QED
  BY <1>1, <1>2, PiecesFound

\* and its characters are those of its pieces, or dots.
LEMMA CharsIn ==
  ASSUME NEW s \in Raw, NEW D,
         \A m \in DOMAIN Split(s, Dot) : \A q \in DOMAIN Split(s, Dot)[m] : Split(s, Dot)[m][q] \in D
  PROVE  \A k \in 1 .. Len(s) : s[k] = Dot \/ s[k] \in D
<1> SUFFICES ASSUME NEW k \in 1 .. Len(s), s[k] # Dot PROVE s[k] \in D
  OBVIOUS
<1>1. PICK b : CutAt(s, Dot, Len(s), Split(s, Dot), b)
  BY SplitCuts
<1> DEFINE p == Split(s, Dot)
<1>2. PICK m \in 1 .. Len(p) : \E q \in 1 .. Len(p[m]) : p[m][q] = s[k]
  BY <1>1, CharFound
<1>3. p \in Seq(Raw) /\ DOMAIN p = 1 .. Len(p)
  BY SplitFacts
<1>4. p[m] \in Seq(Nat)
  BY <1>3, SeqIndices DEF Raw
<1>5. DOMAIN p[m] = 1 .. Len(p[m])
  BY <1>4, SeqIndices
<1> QED
  BY <1>2, <1>3, <1>5

\* The same for the three kinds of pieces: numbers,
LEMMA NumbersFound ==
  ASSUME NEW s \in Raw
  PROVE  PiecesAre(s, ValidNumber) <=> \A m \in DOMAIN Split(s, Dot) : ValidNumber(Split(s, Dot)[m])
<1> DEFINE G == {x \in Raw : ValidNumber(x)}
<1>1. \A i \in 1 .. Len(s) + 1 : \A j \in i - 1 .. Len(s) : SubSeq(s, i, j) \in Raw
  BY PartOf
<1>2. \A m \in DOMAIN Split(s, Dot) : Split(s, Dot)[m] \in Raw
  BY SplitFacts, SeqIndices
<1>3. (\A i \in 1 .. Len(s) + 1 : \A j \in i - 1 .. Len(s) : Piece(s, i, j) => SubSeq(s, i, j) \in G)
        <=> \A m \in DOMAIN Split(s, Dot) : Split(s, Dot)[m] \in G
  BY PiecesIn
<1> QED
  BY <1>1, <1>2, <1>3, Zenon DEF PiecesAre

\* pre-release identifiers
LEMMA PresFound ==
  ASSUME NEW s \in Raw
  PROVE  PiecesAre(s, ValidPre) <=> \A m \in DOMAIN Split(s, Dot) : ValidPre(Split(s, Dot)[m])
<1> DEFINE G == {x \in Raw : ValidPre(x)}
<1>1. \A i \in 1 .. Len(s) + 1 : \A j \in i - 1 .. Len(s) : SubSeq(s, i, j) \in Raw
  BY PartOf
<1>2. \A m \in DOMAIN Split(s, Dot) : Split(s, Dot)[m] \in Raw
  BY SplitFacts, SeqIndices
<1>3. (\A i \in 1 .. Len(s) + 1 : \A j \in i - 1 .. Len(s) : Piece(s, i, j) => SubSeq(s, i, j) \in G)
        <=> \A m \in DOMAIN Split(s, Dot) : Split(s, Dot)[m] \in G
  BY PiecesIn
<1> QED
  BY <1>1, <1>2, <1>3, Zenon DEF PiecesAre

\* and build identifiers.
LEMMA BuildsFound ==
  ASSUME NEW s \in Raw
  PROVE  PiecesAre(s, ValidBuild) <=> \A m \in DOMAIN Split(s, Dot) : ValidBuild(Split(s, Dot)[m])
<1> DEFINE G == {x \in Raw : ValidBuild(x)}
<1>1. \A i \in 1 .. Len(s) + 1 : \A j \in i - 1 .. Len(s) : SubSeq(s, i, j) \in Raw
  BY PartOf
<1>2. \A m \in DOMAIN Split(s, Dot) : Split(s, Dot)[m] \in Raw
  BY SplitFacts, SeqIndices
<1>3. (\A i \in 1 .. Len(s) + 1 : \A j \in i - 1 .. Len(s) : Piece(s, i, j) => SubSeq(s, i, j) \in G)
        <=> \A m \in DOMAIN Split(s, Dot) : Split(s, Dot)[m] \in G
  BY PiecesIn
<1> QED
  BY <1>1, <1>2, <1>3, Zenon DEF PiecesAre

\* The first c of a text.
LEMMA IndexFound ==
  ASSUME NEW s \in Raw, NEW c
  PROVE  /\ IndexOf(s, c) \in 0 .. Len(s)
         /\ IndexOf(s, c) = 0 => \A k \in 1 .. Len(s) : s[k] # c
         /\ IndexOf(s, c) # 0 => /\ s[IndexOf(s, c)] = c
                                 /\ \A k \in 1 .. IndexOf(s, c) - 1 : s[k] # c
<1> DEFINE T == {i \in 1 .. Len(s) : s[i] = c}
<1>1. Len(s) \in Nat /\ DOMAIN s = 1 .. Len(s)
  BY SeqIndices DEF Raw
<1>2. CASE T = {}
  <2>1. IndexOf(s, c) = 0
    BY <1>1, <1>2 DEF IndexOf
  <2> QED
    BY <1>1, <1>2, <2>1
<1>3. CASE T # {}
  <2>1. T \in SUBSET Nat
    OBVIOUS
  <2>2. PICK i \in T : \A k \in T : i <= k
    BY <1>3, <2>1, LeastOf
  <2>3. i \in DOMAIN s /\ s[i] = c /\ \A j \in 1 .. i - 1 : s[j] # c
    BY <1>1, <2>2
  <2>4. /\ IndexOf(s, c) \in DOMAIN s /\ s[IndexOf(s, c)] = c
        /\ \A j \in 1 .. IndexOf(s, c) - 1 : s[j] # c
    BY <2>3 DEF IndexOf
  <2> QED
    BY <1>1, <2>4
<1> QED
  BY <1>2, <1>3

(***************************************************************************)
(* The text up to i, from there to j, and the rest, as the code cuts it.   *)
(***************************************************************************)
WithoutBuild(t) == Before(t, IndexOf(t, Plus))
CoreText(t) == Before(WithoutBuild(t), IndexOf(WithoutBuild(t), Dash))

\* What stands before the first c.
LEMMA BeforeFound ==
  ASSUME NEW s \in Raw, NEW c
  PROVE  LET i == IndexOf(s, c)
             h == Before(s, i)
         IN  /\ h \in Raw /\ Len(h) \in 0 .. Len(s) /\ h = SubSeq(s, 1, Len(h))
             /\ \A k \in 1 .. Len(h) : h[k] = s[k] /\ s[k] # c
             /\ i = 0 => Len(h) = Len(s)
             /\ i # 0 => i = Len(h) + 1 /\ i \in 1 .. Len(s) /\ s[i] = c
<1> DEFINE i == IndexOf(s, c)
           h == Before(s, i)
<1>1. Len(s) \in Nat /\ SubSeq(s, 1, Len(s)) = s
  BY SeqIndices, SubSeqFull DEF Raw
<1>2. /\ i \in 0 .. Len(s)
      /\ i = 0 => \A k \in 1 .. Len(s) : s[k] # c
      /\ i # 0 => s[i] = c /\ \A k \in 1 .. i - 1 : s[k] # c
  BY IndexFound
<1>3. /\ i = 0 => h = s
      /\ i # 0 => h = SubSeq(s, 1, i - 1)
  BY DEF Before
<1> HIDE DEF i, h
<1>4. CASE i = 0
  BY <1>1, <1>2, <1>3, <1>4 DEF i, h
<1>5. CASE i # 0
  <2>1. 1 \in 1 .. Len(s) + 1 /\ i - 1 \in 1 - 1 .. Len(s)
    BY <1>1, <1>2, <1>5
  <2>2. h \in Raw /\ Len(h) = (i - 1) - 1 + 1 /\ \A k \in 1 .. (i - 1) - 1 + 1 : h[k] = s[1 + k - 1]
    BY <1>3, <1>5, <2>1, PartOf
  <2>3. (i - 1) - 1 + 1 = i - 1 /\ \A k \in 1 .. i - 1 : 1 + k - 1 = k
    BY <1>2
  <2>4. Len(h) = i - 1 /\ \A k \in 1 .. i - 1 : h[k] = s[k]
    BY <2>2, <2>3
  <2>5. h = SubSeq(s, 1, Len(h))
    BY <1>3, <1>5, <2>4
  <2> QED
    BY <1>1, <1>2, <1>5, <2>2, <2>4, <2>5 DEF i, h
<1> QED
  BY <1>4, <1>5

(***************************************************************************)
(* t is cut after i and after j.                                           *)
(***************************************************************************)
CutAfter(t, i, j) ==
  /\ i \in 0 .. Len(t) /\ j \in 0 .. Len(t) /\ i <= j
  /\ i = j \/ t[i + 1] = Dash
  /\ j = Len(t) \/ t[j + 1] = Plus

\* What the grammar asks of the three parts.
WellFormed(t, i, j) ==
  /\ \E d, e \in 1 .. i : d < e /\ Dots(SubSeq(t, 1, i)) = {d, e}
  /\ PiecesAre(SubSeq(t, 1, i), ValidNumber)
  /\ i = j \/ PiecesAre(SubSeq(t, i + 2, j), ValidPre)
  /\ j = Len(t) \/ PiecesAre(After(t, j + 1), ValidBuild)

\* The parts of a cut text are texts.
LEMMA CutParts ==
  ASSUME NEW t \in Raw, NEW i, NEW j, CutAfter(t, i, j)
  PROVE  /\ Len(t) \in Nat /\ i \in Nat /\ j \in Nat
         /\ SubSeq(t, 1, i) \in Raw /\ Len(SubSeq(t, 1, i)) = i
         /\ \A k \in 1 .. i : SubSeq(t, 1, i)[k] = t[k]
         /\ i # j => /\ i < j /\ SubSeq(t, i + 2, j) \in Raw /\ t[i + 1] = Dash
                     /\ Len(SubSeq(t, i + 2, j)) = j - i - 1
                     /\ \A k \in i + 2 .. j : SubSeq(t, i + 2, j)[k - i - 1] = t[k]
         /\ j # Len(t) => j < Len(t) /\ After(t, j + 1) \in Raw /\ t[j + 1] = Plus
<1>1. /\ Len(t) \in Nat /\ i \in 0 .. Len(t) /\ j \in 0 .. Len(t) /\ i <= j
      /\ i = j \/ t[i + 1] = Dash
      /\ j = Len(t) \/ t[j + 1] = Plus
  BY SeqIndices DEF Raw, CutAfter
<1>2. /\ SubSeq(t, 1, i) \in Raw /\ Len(SubSeq(t, 1, i)) = i
      /\ \A k \in 1 .. i : SubSeq(t, 1, i)[k] = t[k]
  <2>1. 1 \in 1 .. Len(t) + 1 /\ i \in 1 - 1 .. Len(t)
    BY <1>1
  <2>2. /\ SubSeq(t, 1, i) \in Raw /\ Len(SubSeq(t, 1, i)) = i - 1 + 1
        /\ \A k \in 1 .. i - 1 + 1 : SubSeq(t, 1, i)[k] = t[1 + k - 1]
    BY <2>1, PartOf
  <2>3. i - 1 + 1 = i /\ \A k \in 1 .. i : 1 + k - 1 = k
    BY <1>1
  <2> QED
    BY <2>2, <2>3
<1>3. ASSUME i # j
      PROVE  /\ i < j /\ SubSeq(t, i + 2, j) \in Raw
             /\ Len(SubSeq(t, i + 2, j)) = j - i - 1
             /\ \A k \in i + 2 .. j : SubSeq(t, i + 2, j)[k - i - 1] = t[k]
  <2>1. i + 2 \in 1 .. Len(t) + 1 /\ j \in (i + 2) - 1 .. Len(t)
    BY <1>1, <1>3
  <2>2. /\ SubSeq(t, i + 2, j) \in Raw /\ Len(SubSeq(t, i + 2, j)) = j - (i + 2) + 1
        /\ \A k \in 1 .. j - (i + 2) + 1 : SubSeq(t, i + 2, j)[k] = t[(i + 2) + k - 1]
    BY <2>1, PartOf
  <2>3. \A k \in i + 2 .. j : /\ k - i - 1 \in 1 .. j - (i + 2) + 1
                              /\ (i + 2) + (k - i - 1) - 1 = k
    BY <1>1
  <2>4. j - (i + 2) + 1 = j - i - 1 /\ i < j
    BY <1>1, <1>3
  <2> QED
    BY <2>2, <2>3, <2>4
<1>4. ASSUME j # Len(t) PROVE j < Len(t) /\ After(t, j + 1) \in Raw
  <2>1. (j + 1) + 1 \in 1 .. Len(t) + 1 /\ Len(t) \in ((j + 1) + 1) - 1 .. Len(t) /\ j < Len(t)
    BY <1>1, <1>4
  <2> QED
    BY <2>1, PartOf DEF After
<1> QED
  BY <1>1, <1>2, <1>3, <1>4

\* Where the code cuts.
CodeCuts(t, i, j) == i = Len(CoreText(t)) /\ j = Len(WithoutBuild(t))

\* There the text is cut, and the parts in front contain neither character.
LEMMA CodeCutsFound ==
  ASSUME NEW t \in Raw, NEW i, NEW j, CodeCuts(t, i, j)
  PROVE  /\ CutAfter(t, i, j)
         /\ \A k \in 1 .. i : t[k] # Dash
         /\ \A k \in 1 .. j : t[k] # Plus
         /\ CoreText(t) = SubSeq(t, 1, i)
         /\ IndexOf(WithoutBuild(t), Dash) = 0 <=> i = j
         /\ i # j => After(WithoutBuild(t), IndexOf(WithoutBuild(t), Dash)) = SubSeq(t, i + 2, j)
         /\ IndexOf(t, Plus) = 0 <=> j = Len(t)
         /\ j # Len(t) => After(t, IndexOf(t, Plus)) = After(t, j + 1)
<1> DEFINE r == WithoutBuild(t)
           h == CoreText(t)
           p == IndexOf(t, Plus)
           d == IndexOf(r, Dash)
<1>1. /\ r \in Raw /\ Len(r) \in 0 .. Len(t) /\ r = SubSeq(t, 1, Len(r))
      /\ \A k \in 1 .. Len(r) : r[k] = t[k] /\ t[k] # Plus
      /\ p = 0 => Len(r) = Len(t)
      /\ p # 0 => p = Len(r) + 1 /\ p \in 1 .. Len(t) /\ t[p] = Plus
  BY BeforeFound, Zenon DEF WithoutBuild
<1>2. /\ h \in Raw /\ Len(h) \in 0 .. Len(r) /\ h = SubSeq(r, 1, Len(h))
      /\ \A k \in 1 .. Len(h) : h[k] = r[k] /\ r[k] # Dash
      /\ d = 0 => Len(h) = Len(r)
      /\ d # 0 => d = Len(h) + 1 /\ d \in 1 .. Len(r) /\ r[d] = Dash
  BY <1>1, BeforeFound, Zenon DEF CoreText
<1>3. i = Len(h) /\ j = Len(r) /\ Len(t) \in Nat
  BY SeqIndices DEF CodeCuts, Raw
<1> HIDE DEF r, h, p, d
<1>4. /\ i \in 0 .. j /\ j \in 0 .. Len(t) /\ i \in 0 .. Len(t)
  <2>1. i \in 0 .. j /\ j \in 0 .. Len(t) /\ Len(t) \in Nat
    BY <1>1, <1>2, <1>3, Zenon
  <2> QED
    BY <2>1
<1>5. /\ p = 0 <=> j = Len(t)
      /\ d = 0 <=> i = j
  BY <1>1, <1>2, <1>3, <1>4
<1>6. /\ i # j => t[i + 1] = Dash
      /\ j # Len(t) => t[j + 1] = Plus
  <2>1. j # Len(t) => t[j + 1] = Plus
    BY <1>1, <1>3, <1>5
  <2>2. i # j => i + 1 \in 1 .. j /\ r[i + 1] = Dash
    BY <1>2, <1>3, <1>5
  <2>3. \A k \in 1 .. j : r[k] = t[k]
    BY <1>1, <1>3
  <2> QED
    BY <2>1, <2>2, <2>3
<1>7. CutAfter(t, i, j)
  BY <1>4, <1>6 DEF CutAfter
<1>8. /\ \A k \in 1 .. i : t[k] # Dash
      /\ \A k \in 1 .. j : t[k] # Plus
  <2>1. \A k \in 1 .. i : k \in 1 .. j
    BY <1>4
  <2> QED
    BY <1>1, <1>2, <1>3, <2>1
<1>9. ASSUME NEW m \in 1 .. j + 1, NEW k \in m - 1 .. j
      PROVE  SubSeq(r, m, k) = SubSeq(t, m, k)
  <2>1. /\ m \in 1 .. Len(r) + 1 /\ k \in m - 1 .. Len(r)
        /\ m \in 1 .. Len(t) + 1 /\ k \in m - 1 .. Len(t)
    BY <1>3, <1>4
  <2>2. /\ SubSeq(r, m, k) \in Raw /\ Len(SubSeq(r, m, k)) = k - m + 1
        /\ \A q \in 1 .. k - m + 1 : SubSeq(r, m, k)[q] = r[m + q - 1]
    BY <1>1, <2>1, PartOf
  <2>3. /\ SubSeq(t, m, k) \in Raw /\ Len(SubSeq(t, m, k)) = k - m + 1
        /\ \A q \in 1 .. k - m + 1 : SubSeq(t, m, k)[q] = t[m + q - 1]
    BY <2>1, PartOf
  <2>4. \A q \in 1 .. k - m + 1 : m + q - 1 \in 1 .. j
    BY <1>4
  <2>5. \A q \in 1 .. k - m + 1 : SubSeq(r, m, k)[q] = SubSeq(t, m, k)[q]
    BY <1>1, <1>3, <2>2, <2>3, <2>4
  <2> DEFINE x == SubSeq(r, m, k)
             y == SubSeq(t, m, k)
  <2>6. x \in Seq(Nat) /\ y \in Seq(Nat) /\ Len(x) = Len(y) /\ \A q \in 1 .. Len(x) : x[q] = y[q]
    BY <2>2, <2>3, <2>5 DEF Raw
  <2> HIDE DEF x, y
  <2>7. x = y
    BY <2>6, SeqEqual
  <2> QED
    BY <2>7 DEF x, y
<1>10. h = SubSeq(t, 1, i)
  <2>1. 1 \in 1 .. j + 1 /\ i \in 1 - 1 .. j
    BY <1>4
  <2> QED
    BY <1>2, <1>3, <1>9, <2>1
<1>11. ASSUME i # j PROVE After(r, d) = SubSeq(t, i + 2, j)
  <2>1. d + 1 = i + 2 /\ i + 2 \in 1 .. j + 1 /\ j \in (i + 2) - 1 .. j
    BY <1>2, <1>3, <1>4, <1>5, <1>11
  <2> QED
    BY <1>3, <1>9, <2>1 DEF After
<1>12. ASSUME j # Len(t) PROVE After(t, p) = After(t, j + 1)
  BY <1>1, <1>3, <1>5, <1>12
<1> QED
  BY <1>5, <1>7, <1>8, <1>10, <1>11, <1>12 DEF r, h, p, d

\* No other cut makes three well-formed parts: no number contains a '-', and no
\* identifier a '+'.
LEMMA CutIsUnique ==
  ASSUME NEW t \in Raw, NEW i, NEW j, CodeCuts(t, i, j),
         NEW m, NEW n, CutAfter(t, m, n), WellFormed(t, m, n)
  PROVE  m = i /\ n = j
<1>1. /\ CutAfter(t, i, j)
      /\ \A k \in 1 .. i : t[k] # Dash
      /\ \A k \in 1 .. j : t[k] # Plus
  BY CodeCutsFound
<1>2. \A k \in 1 .. m : t[k] # Dash /\ t[k] # Plus
  <2> DEFINE s == SubSeq(t, 1, m)
  <2>1. s \in Raw /\ Len(s) = m /\ \A k \in 1 .. m : s[k] = t[k]
    BY CutParts
  <2>2. PiecesAre(s, ValidNumber)
    BY DEF WellFormed
  <2> HIDE DEF s
  <2>3. \A q \in DOMAIN Split(s, Dot) : ValidNumber(Split(s, Dot)[q])
    BY <2>1, <2>2, NumbersFound
  <2>4. \A q \in DOMAIN Split(s, Dot) :
          \A k \in DOMAIN Split(s, Dot)[q] : Split(s, Dot)[q][k] \in Digit
    BY <2>3 DEF ValidNumber, IsNumeric
  <2>5. \A k \in 1 .. Len(s) : s[k] = Dot \/ s[k] \in Digit
    BY <2>1, <2>4, CharsIn
  <2> QED
    BY <2>1, <2>5 DEF Dot, Digit, Dash, Plus
<1>3. \A k \in 1 .. n : t[k] # Plus
  <2>1. CASE m = n
    BY <1>2, <2>1
  <2>2. CASE m # n
    <3> DEFINE s == SubSeq(t, m + 2, n)
    <3>1. /\ s \in Raw /\ Len(s) = n - m - 1 /\ \A k \in m + 2 .. n : s[k - m - 1] = t[k]
          /\ t[m + 1] = Dash /\ m \in Nat /\ n \in Nat /\ m < n
      BY <2>2, CutParts
    <3>2. PiecesAre(s, ValidPre)
      BY <2>2 DEF WellFormed
    <3> HIDE DEF s
    <3>3. \A q \in DOMAIN Split(s, Dot) : ValidPre(Split(s, Dot)[q])
      BY <3>1, <3>2, PresFound
    <3>4. \A q \in DOMAIN Split(s, Dot) :
            \A k \in DOMAIN Split(s, Dot)[q] : Split(s, Dot)[q][k] \in IdentifierChar
      BY <3>3 DEF ValidPre, ValidIdentifier
    <3>5. \A k \in 1 .. Len(s) : s[k] = Dot \/ s[k] \in IdentifierChar
      BY <3>1, <3>4, CharsIn
    <3>6. \A k \in 1 .. Len(s) : s[k] # Plus
      <4>1. Plus # Dot /\ Plus \notin IdentifierChar
        BY DEF Dot, IdentifierChar, Digit, Plus
      <4> QED
        BY <3>5, <4>1, Zenon
    <3> SUFFICES ASSUME NEW k \in 1 .. n PROVE t[k] # Plus
      OBVIOUS
    <3>7. k \in 1 .. m \/ k = m + 1 \/ (k \in m + 2 .. n /\ k - m - 1 \in 1 .. n - m - 1)
      BY <3>1
    <3>8. Dash # Plus
      BY DEF Dash, Plus
    <3> QED
      BY <1>2, <3>1, <3>6, <3>7, <3>8
  <2> QED
    BY <2>1, <2>2
<1>4. /\ Len(t) \in Nat /\ i \in 0 .. Len(t) /\ j \in 0 .. Len(t) /\ i <= j
      /\ i = j \/ t[i + 1] = Dash
      /\ j = Len(t) \/ t[j + 1] = Plus
      /\ m \in 0 .. Len(t) /\ n \in 0 .. Len(t) /\ m <= n
      /\ m = n \/ t[m + 1] = Dash
      /\ n = Len(t) \/ t[n + 1] = Plus
  BY <1>1, SeqIndices DEF Raw, CutAfter
<1>5. n = j
  <2>1. ~(n < j)
    <3> SUFFICES ASSUME n < j PROVE FALSE
      OBVIOUS
    <3>1. n + 1 \in 1 .. j /\ n # Len(t)
      BY <1>4
    <3> QED
      BY <1>1, <1>4, <3>1
  <2>2. ~(j < n)
    <3> SUFFICES ASSUME j < n PROVE FALSE
      OBVIOUS
    <3>1. j + 1 \in 1 .. n /\ j # Len(t)
      BY <1>4
    <3> QED
      BY <1>3, <1>4, <3>1
  <2> QED
    BY <1>4, <2>1, <2>2
<1>6. m = i
  <2>1. ~(m < i)
    <3> SUFFICES ASSUME m < i PROVE FALSE
      OBVIOUS
    <3>1. m + 1 \in 1 .. i /\ m # n
      BY <1>4, <1>5
    <3> QED
      BY <1>1, <1>4, <3>1
  <2>2. ~(i < m)
    <3> SUFFICES ASSUME i < m PROVE FALSE
      OBVIOUS
    <3>1. i + 1 \in 1 .. m /\ i # j
      BY <1>4, <1>5
    <3> QED
      BY <1>2, <1>4, <3>1
  <2> QED
    BY <1>4, <2>1, <2>2
<1> QED
  BY <1>5, <1>6

\* So a text is a version where the code's cut makes three well-formed parts.
LEMMA GrammarByCodeCuts ==
  ASSUME NEW t \in Raw, NEW i, NEW j, CodeCuts(t, i, j)
  PROVE  IsVersionText(t) <=> WellFormed(t, i, j)
<1>1. IsVersionText(t) <=> \E m, n \in 0 .. Len(t) : CutAfter(t, m, n) /\ WellFormed(t, m, n)
  <2>1. ASSUME NEW m \in 0 .. Len(t), NEW n \in 0 .. Len(t)
        PROVE  CutAfter(t, m, n) /\ WellFormed(t, m, n)
                 <=> /\ m <= n
                     /\ \E d, e \in 1 .. m : d < e /\ Dots(SubSeq(t, 1, m)) = {d, e}
                     /\ PiecesAre(SubSeq(t, 1, m), ValidNumber)
                     /\ \/ m = n
                        \/ t[m + 1] = Dash /\ PiecesAre(SubSeq(t, m + 2, n), ValidPre)
                     /\ \/ n = Len(t)
                        \/ t[n + 1] = Plus /\ PiecesAre(After(t, n + 1), ValidBuild)
    BY DEF CutAfter, WellFormed
  <2> QED
    BY <2>1 DEF IsVersionText
<1>2. CutAfter(t, i, j) /\ i \in 0 .. Len(t) /\ j \in 0 .. Len(t)
  BY CodeCutsFound DEF CutAfter
<1> QED
  BY <1>1, <1>2, CutIsUnique

\* The three lists of pieces that Parse looks at.
CoreOf(t) == Split(CoreText(t), Dot)
PreOf(t) ==
  IF IndexOf(WithoutBuild(t), Dash) = 0 THEN <<>> ELSE Split(After(WithoutBuild(t), IndexOf(WithoutBuild(t), Dash)), Dot)
BuildOf(t) == IF IndexOf(t, Plus) = 0 THEN <<>> ELSE Split(After(t, IndexOf(t, Plus)), Dot)

Accepted(t) ==
  /\ \A i \in DOMAIN BuildOf(t) : ValidBuild(BuildOf(t)[i])
  /\ \A i \in DOMAIN PreOf(t) : ValidPre(PreOf(t)[i])
  /\ Len(CoreOf(t)) = 3
  /\ \A i \in 1 .. 3 : ValidNumber(CoreOf(t)[i])

ReadAs(t) == [core |-> [i \in 1 .. 3 |-> Value(CoreOf(t)[i])], pre |-> PreOf(t), build |-> BuildOf(t)]

\* Parse reads them where all are valid.
LEMMA ParseReads ==
  ASSUME NEW t
  PROVE  /\ Accepted(t) => Parse(t) = ReadAs(t) /\ Parse(t) # NoVersion
         /\ ~Accepted(t) => Parse(t) = NoVersion
<1>1. Parse(t) = IF Accepted(t) THEN ReadAs(t) ELSE NoVersion
  BY DEF Parse, Accepted, ReadAs, CoreOf, PreOf, BuildOf, CoreText, WithoutBuild
<1>2. ReadAs(t) # NoVersion
  <2>1. ReadAs(t).core = [i \in 1 .. 3 |-> Value(CoreOf(t)[i])] /\ NoVersion.core = <<>>
    BY DEF ReadAs, NoVersion
  <2>2. DOMAIN [i \in 1 .. 3 |-> Value(CoreOf(t)[i])] = 1 .. 3 /\ 1 \in 1 .. 3
    OBVIOUS
  <2>3. 1 \notin DOMAIN <<>>
    OBVIOUS
  <2> QED
    BY <2>1, <2>2, <2>3
<1> QED
  BY <1>1, <1>2

\* The parts are good exactly where the pieces are.
LEMMA AcceptedIsWellFormed ==
  ASSUME NEW t \in Raw, NEW i, NEW j, CodeCuts(t, i, j)
  PROVE  Accepted(t) <=> WellFormed(t, i, j)
<1>1. /\ CutAfter(t, i, j) /\ CoreText(t) = SubSeq(t, 1, i)
      /\ IndexOf(WithoutBuild(t), Dash) = 0 <=> i = j
      /\ i # j => After(WithoutBuild(t), IndexOf(WithoutBuild(t), Dash)) = SubSeq(t, i + 2, j)
      /\ IndexOf(t, Plus) = 0 <=> j = Len(t)
      /\ j # Len(t) => After(t, IndexOf(t, Plus)) = After(t, j + 1)
  BY CodeCutsFound
<1>2. /\ SubSeq(t, 1, i) \in Raw /\ Len(SubSeq(t, 1, i)) = i
      /\ i # j => SubSeq(t, i + 2, j) \in Raw
      /\ j # Len(t) => After(t, j + 1) \in Raw
  BY <1>1, CutParts
<1>3. (\A m \in DOMAIN BuildOf(t) : ValidBuild(BuildOf(t)[m]))
        <=> j = Len(t) \/ PiecesAre(After(t, j + 1), ValidBuild)
  <2>1. CASE j = Len(t)
    <3>1. BuildOf(t) = <<>>
      BY <1>1, <2>1 DEF BuildOf
    <3> QED
      BY <2>1, <3>1
  <2>2. CASE j # Len(t)
    <3>1. BuildOf(t) = Split(After(t, j + 1), Dot)
      BY <1>1, <2>2 DEF BuildOf
    <3> QED
      BY <1>2, <2>2, <3>1, BuildsFound
  <2> QED
    BY <2>1, <2>2
<1>4. (\A m \in DOMAIN PreOf(t) : ValidPre(PreOf(t)[m]))
        <=> i = j \/ PiecesAre(SubSeq(t, i + 2, j), ValidPre)
  <2>1. CASE i = j
    <3>1. PreOf(t) = <<>>
      BY <1>1, <2>1 DEF PreOf
    <3> QED
      BY <2>1, <3>1
  <2>2. CASE i # j
    <3>1. PreOf(t) = Split(SubSeq(t, i + 2, j), Dot)
      BY <1>1, <2>2 DEF PreOf
    <3> QED
      BY <1>2, <2>2, <3>1, PresFound
  <2> QED
    BY <2>1, <2>2
<1>5. Len(CoreOf(t)) = 3 <=> \E d, e \in 1 .. i : d < e /\ Dots(SubSeq(t, 1, i)) = {d, e}
  BY <1>1, <1>2, SplitFacts DEF CoreOf
<1>6. Len(CoreOf(t)) = 3 =>
        ((\A m \in 1 .. 3 : ValidNumber(CoreOf(t)[m])) <=> PiecesAre(SubSeq(t, 1, i), ValidNumber))
  <2>1. DOMAIN CoreOf(t) = 1 .. Len(CoreOf(t))
    BY <1>1, <1>2, SplitFacts DEF CoreOf
  <2>2. PiecesAre(SubSeq(t, 1, i), ValidNumber)
          <=> \A m \in DOMAIN CoreOf(t) : ValidNumber(CoreOf(t)[m])
    BY <1>1, <1>2, NumbersFound DEF CoreOf
  <2> QED
    BY <2>1, <2>2
<1> QED
  BY <1>3, <1>4, <1>5, <1>6 DEF Accepted, WellFormed

\* Nothing to join.
LEMMA NothingJoined == ASSUME NEW first PROVE Joined(<<>>, first) = <<>>
<1> DEFINE none == <<>>
           Round(i, t) == t \o (IF i = 1 THEN first ELSE <<Dot>>) \o none[i]
           Walk(g) == g = [i \in 0 .. Len(none) |-> IF i = 0 THEN <<>> ELSE Round(i, g[i - 1])]
           h == [i \in 0 .. 0 |-> <<>>]
<1>1. Len(none) = 0
  OBVIOUS
<1> HIDE DEF Round
<1>2. h = [i \in 0 .. 0 |-> IF i = 0 THEN <<>> ELSE Round(i, h[i - 1])]
  <2>1. \A i \in 0 .. 0 : i = 0
    OBVIOUS
  <2> QED
    BY <2>1, Zenon
<1> HIDE DEF none, h
<1>3. Walk(h)
  BY <1>1, <1>2
<1>4. PICK f : Walk(f) /\ Joined(none, first) = f[Len(none)]
  BY <1>3 DEF Joined, Round
<1>5. f[0] = <<>>
  BY <1>1, <1>4
<1> QED
  BY <1>1, <1>4, <1>5 DEF none

\* Where Parse accepts a text, String writes it again.
LEMMA RenderedBack ==
  ASSUME NEW t \in Raw, Accepted(t)
  PROVE  Rendered(ReadAs(t)) = t
<1> DEFINE i == Len(CoreText(t))
           j == Len(WithoutBuild(t))
<1>0. CodeCuts(t, i, j)
  BY DEF CodeCuts
<1> HIDE DEF i, j
<1>1. /\ CutAfter(t, i, j) /\ CoreText(t) = SubSeq(t, 1, i)
      /\ IndexOf(WithoutBuild(t), Dash) = 0 <=> i = j
      /\ i # j => After(WithoutBuild(t), IndexOf(WithoutBuild(t), Dash)) = SubSeq(t, i + 2, j)
      /\ IndexOf(t, Plus) = 0 <=> j = Len(t)
      /\ j # Len(t) => After(t, IndexOf(t, Plus)) = After(t, j + 1)
  BY <1>0, CodeCutsFound
<1>2. /\ Len(t) \in Nat /\ i \in Nat /\ j \in Nat
      /\ SubSeq(t, 1, i) \in Raw
      /\ i # j => i < j /\ SubSeq(t, i + 2, j) \in Raw /\ t[i + 1] = Dash
      /\ j # Len(t) => j < Len(t) /\ After(t, j + 1) \in Raw /\ t[j + 1] = Plus
      /\ i <= j /\ j <= Len(t)
  <2>1. i <= j /\ j \in 0 .. Len(t)
    BY <1>1 DEF CutAfter
  <2> QED
    BY <1>1, <2>1, CutParts
<1>3. <<>> \in Raw /\ <<Dash>> \in Raw /\ <<Plus>> \in Raw
  BY DEF Raw, Dash, Plus
<1>4. Joined([k \in 1 .. 3 |-> Decimal(ReadAs(t).core[k])], <<>>) = SubSeq(t, 1, i)
  <2> DEFINE p == CoreOf(t)
  <2>1. p \in Seq(Raw) /\ Len(p) = 3 /\ Joined(p, <<>>) = <<>> \o SubSeq(t, 1, i)
    BY <1>1, <1>2, <1>3, SplitFacts DEF CoreOf, Accepted
  <2>2. \A k \in 1 .. 3 : ReadAs(t).core[k] = Value(p[k])
    BY DEF ReadAs
  <2>3. ASSUME NEW k \in 1 .. 3 PROVE Decimal(Value(p[k])) = p[k]
    <3>1. ValidNumber(p[k])
      BY DEF Accepted
    <3>2. p[k] \in Seq(Nat)
      <4>1. k \in DOMAIN p
        BY <2>1, SeqIndices
      <4> QED
        BY <2>1, <4>1, SeqIndices DEF Raw
    <3> HIDE DEF p
    <3>3. p[k] \in Seq(IdentifierChar)
      <4> DEFINE x == p[k]
      <4>1. x \in Seq(Nat) /\ \A q \in 1 .. Len(x) : x[q] \in IdentifierChar
        <5>1. DOMAIN p[k] = 1 .. Len(p[k])
          BY <3>2, SeqIndices
        <5>2. \A q \in DOMAIN p[k] : p[k][q] \in IdentifierChar
          BY <3>1 DEF ValidNumber, IsNumeric, IdentifierChar
        <5> QED
          BY <3>2, <5>1, <5>2
      <4> HIDE DEF x
      <4>2. SubSeq(x, 1, Len(x)) = x /\ 1 \in Int /\ Len(x) \in Int
        BY <4>1, SubSeqFull, SeqIndices
      <4>3. SubSeq(x, 1, Len(x)) \in Seq(IdentifierChar)
        BY <4>1, <4>2, SubSeqProperties
      <4> QED
        BY <4>2, <4>3 DEF x
    <3>4. p[k] \in Digits /\ ~LeadingZero(p[k])
      BY <3>1, <3>3 DEF ValidNumber, Digits, Text
    <3> QED
      BY <3>4, DecimalBack
  <2> HIDE DEF p
  <2>4. [k \in 1 .. 3 |-> Decimal(ReadAs(t).core[k])] = [k \in 1 .. 3 |-> p[k]]
    BY <2>2, <2>3
  <2>5. [k \in 1 .. 3 |-> p[k]] = p
    <3>1. p = [k \in 1 .. Len(p) |-> p[k]]
      BY <2>1
    <3> QED
      BY <2>1, <3>1
  <2>6. <<>> \o SubSeq(t, 1, i) = SubSeq(t, 1, i)
    BY <1>2, ConcatEmptySeq DEF Raw
  <2> QED
    BY <2>1, <2>4, <2>5, <2>6
<1>5. Joined(PreOf(t), <<Dash>>) = SubSeq(t, i + 1, j)
  <2>1. CASE i = j
    <3>1. PreOf(t) = <<>>
      BY <1>1, <2>1 DEF PreOf
    <3>2. SubSeq(t, i + 1, j) = <<>>
      BY <1>2, <2>1, SubSeqEmpty
    <3> QED
      BY <3>1, <3>2, NothingJoined
  <2>2. CASE i # j
    <3>1. PreOf(t) = Split(SubSeq(t, i + 2, j), Dot)
      BY <1>1, <2>2 DEF PreOf
    <3>2. Joined(PreOf(t), <<Dash>>) = <<t[i + 1]>> \o SubSeq(t, i + 2, j)
      BY <1>2, <1>3, <2>2, <3>1, SplitFacts
    <3>3. i + 1 \in 1 .. Len(t) /\ j \in i + 1 .. Len(t) /\ (i + 1) + 1 = i + 2
      BY <1>2, <2>2
    <3>4. SubSeq(t, i + 1, j) = <<t[i + 1]>> \o SubSeq(t, (i + 1) + 1, j)
      BY <3>3, SubSeqRecursiveFirst DEF Raw
    <3> QED
      BY <3>2, <3>3, <3>4
  <2> QED
    BY <2>1, <2>2
<1>6. Joined(BuildOf(t), <<Plus>>) = SubSeq(t, j + 1, Len(t))
  <2>1. CASE j = Len(t)
    <3>1. BuildOf(t) = <<>>
      BY <1>1, <2>1 DEF BuildOf
    <3>2. SubSeq(t, j + 1, Len(t)) = <<>>
      BY <1>2, <2>1, SubSeqEmpty
    <3> QED
      BY <3>1, <3>2, NothingJoined
  <2>2. CASE j # Len(t)
    <3>1. BuildOf(t) = Split(After(t, j + 1), Dot)
      BY <1>1, <2>2 DEF BuildOf
    <3>2. Joined(BuildOf(t), <<Plus>>) = <<t[j + 1]>> \o SubSeq(t, (j + 1) + 1, Len(t))
      BY <1>2, <1>3, <2>2, <3>1, SplitFacts DEF After
    <3>3. j + 1 \in 1 .. Len(t) /\ Len(t) \in j + 1 .. Len(t)
      BY <1>2, <2>2
    <3>4. SubSeq(t, j + 1, Len(t)) = <<t[j + 1]>> \o SubSeq(t, (j + 1) + 1, Len(t))
      BY <3>3, SubSeqRecursiveFirst DEF Raw
    <3> QED
      BY <3>2, <3>4
  <2> QED
    BY <2>1, <2>2
<1>7. ReadAs(t).pre = PreOf(t) /\ ReadAs(t).build = BuildOf(t)
  BY DEF ReadAs
<1>8. Rendered(ReadAs(t)) = (SubSeq(t, 1, i) \o SubSeq(t, i + 1, j)) \o SubSeq(t, j + 1, Len(t))
  BY <1>4, <1>5, <1>6, <1>7, Zenon DEF Rendered
<1>9. SubSeq(t, 1, i) \o SubSeq(t, i + 1, j) = SubSeq(t, 1, j)
  <2>1. 1 \in 1 .. Len(t) + 1 /\ i \in 1 - 1 .. Len(t) /\ j \in i .. Len(t)
    BY <1>2
  <2> QED
    BY <2>1, PartsMeet
<1>10. SubSeq(t, 1, j) \o SubSeq(t, j + 1, Len(t)) = SubSeq(t, 1, Len(t))
  <2>1. 1 \in 1 .. Len(t) + 1 /\ j \in 1 - 1 .. Len(t) /\ Len(t) \in j .. Len(t)
    BY <1>2
  <2> QED
    BY <2>1, PartsMeet
<1>11. SubSeq(t, 1, Len(t)) = t
  BY SubSeqFull DEF Raw
<1> QED
  BY <1>8, <1>9, <1>10, <1>11, Zenon

(* For texts of any length: Parse accepts the texts of the grammar and no  *)
(* other, and String writes what Parse has read.                           *)
LEMMA ParsesTexts == ASSUME NEW T \in SUBSET Raw PROVE ParsesGrammar(T)
<1> SUFFICES ASSUME NEW t \in T
             PROVE  /\ Parse(t) # NoVersion <=> IsVersionText(t)
                    /\ Parse(t) # NoVersion => Rendered(Parse(t)) = t
  BY DEF ParsesGrammar
<1>1. t \in Raw /\ CodeCuts(t, Len(CoreText(t)), Len(WithoutBuild(t)))
  BY DEF CodeCuts
<1>2. IsVersionText(t) <=> Accepted(t)
  BY <1>1, GrammarByCodeCuts, AcceptedIsWellFormed
<1> QED
  BY <1>1, <1>2, ParseReads, RenderedBack
=============================================================================
