------------------------------- MODULE Semver -------------------------------
(***************************************************************************)
(* internal/semver: versions, which texts are versions, and precedence.    *)
(* A character is its ASCII code, a text a sequence of characters.         *)
(***************************************************************************)
EXTENDS Integers, Sequences

CONSTANT MaxNumber   \* the largest uint64

Digit == 48 .. 57
IdentifierChar == Digit \union (65 .. 90) \union (97 .. 122) \union {45}
Dot == 46
Dash == 45
Plus == 43
LetterV == 118

Text == Seq(IdentifierChar)
Identifier == Text \ {<<>>}

\* What Parse returns: the three numbers, the pre-release identifiers and the
\* build identifiers (the code keeps these as one text).
Version == [core : [1 .. 3 -> Nat], pre : Seq(Identifier), build : Seq(Identifier)]

NoVersion == [core |-> <<>>, pre |-> <<>>, build |-> <<>>]

IsNumeric(s) == s # <<>> /\ \A i \in DOMAIN s : s[i] \in Digit

ValidIdentifier(s) == s # <<>> /\ \A i \in DOMAIN s : s[i] \in IdentifierChar

LeadingZero(s) == Len(s) > 1 /\ s[1] = 48

\* The number a text of digits stands for.
Value(s) ==
  LET upTo[i \in 0 .. Len(s)] == IF i = 0 THEN 0 ELSE 10 * upTo[i - 1] + (s[i] - 48)
  IN  upTo[Len(s)]

(***************************************************************************)
(* Parse.  The build metadata is cut off at the first '+', then the        *)
(* pre-release at the first '-': what follows may contain both again.      *)
(***************************************************************************)
\* Mutant: the last one (strings.LastIndexByte).
IndexOfLast(s, c) ==
  IF \E i \in DOMAIN s : s[i] = c
  THEN CHOOSE i \in DOMAIN s : s[i] = c /\ \A j \in i + 1 .. Len(s) : s[j] # c
  ELSE 0

IndexOf(s, c) ==
  IF \E i \in DOMAIN s : s[i] = c
  THEN CHOOSE i \in DOMAIN s : s[i] = c /\ \A j \in 1 .. i - 1 : s[j] # c
  ELSE 0

Before(s, i) == IF i = 0 THEN s ELSE SubSeq(s, 1, i - 1)
After(s, i) == SubSeq(s, i + 1, Len(s))

Split(s, c) ==
  LET pieces[i \in 0 .. Len(s)] ==
        IF i = 0 THEN << <<>> >>
        ELSE LET p == pieces[i - 1]
             IN  IF s[i] = c THEN Append(p, <<>>)
                 ELSE [p EXCEPT ![Len(p)] = Append(@, s[i])]
  IN  pieces[Len(s)]

ValidBuild(id) == ValidIdentifier(id)

ValidPre(id) == ValidIdentifier(id) /\ ~(IsNumeric(id) /\ LeadingZero(id))

ValidNumber(s) == IsNumeric(s) /\ ~LeadingZero(s) /\ Value(s) <= MaxNumber

Parse(s) ==
  LET plus  == IndexOf(s, Plus)
      rest  == Before(s, plus)
      dash  == IndexOf(rest, Dash)
      build == IF plus = 0 THEN <<>> ELSE Split(After(s, plus), Dot)
      pre   == IF dash = 0 THEN <<>> ELSE Split(After(rest, dash), Dot)
      core  == Split(Before(rest, dash), Dot)
  IN  IF /\ \A i \in DOMAIN build : ValidBuild(build[i])
         /\ \A i \in DOMAIN pre : ValidPre(pre[i])
         /\ Len(core) = 3
         /\ \A i \in 1 .. 3 : ValidNumber(core[i])
      THEN [core |-> [i \in 1 .. 3 |-> Value(core[i])], pre |-> pre, build |-> build]
      ELSE NoVersion

ParseTag(t) ==
  IF t # <<>> /\ t[1] = LetterV THEN Parse(Tail(t)) ELSE NoVersion

(***************************************************************************)
(* Compare: -1, 0 or 1.  Build metadata is ignored.                        *)
(***************************************************************************)
CmpU(a, b) == IF a < b THEN -1 ELSE IF a > b THEN 1 ELSE 0

\* The order of two sequences by their first difference, else by length.
FirstDifference(x, y) ==
  CHOOSE i \in DOMAIN x \intersect DOMAIN y :
    x[i] # y[i] /\ \A j \in 1 .. i - 1 : x[j] = y[j]

Differ(x, y) == \E i \in DOMAIN x \intersect DOMAIN y : x[i] # y[i]

\* strings.Compare
CmpText(x, y) ==
  IF Differ(x, y) THEN LET i == FirstDifference(x, y) IN CmpU(x[i], y[i])
  ELSE CmpU(Len(x), Len(y))

\* Mutant: compares numbers as text.
CmpIdentifierText(x, y) ==
  IF IsNumeric(x) = IsNumeric(y) THEN CmpText(x, y)
  ELSE IF IsNumeric(x) THEN -1 ELSE 1

CmpIdentifier(x, y) ==
  CASE IsNumeric(x) /\ IsNumeric(y) /\ Len(x) # Len(y) -> CmpU(Len(x), Len(y))
    [] IsNumeric(x) /\ ~IsNumeric(y) -> -1
    [] ~IsNumeric(x) /\ IsNumeric(y) -> 1
    [] OTHER -> CmpText(x, y)

CmpPre(x, y) ==
  CASE x = <<>> /\ y = <<>> -> 0
    [] x = <<>> /\ y # <<>> -> 1
    [] x # <<>> /\ y = <<>> -> -1
    [] OTHER -> IF Differ(x, y)
                THEN LET i == FirstDifference(x, y) IN CmpIdentifier(x[i], y[i])
                ELSE CmpU(Len(x), Len(y))

Compare(a, b) ==
  IF Differ(a.core, b.core)
  THEN LET i == FirstDifference(a.core, b.core) IN CmpU(a.core[i], b.core[i])
  ELSE CmpPre(a.pre, b.pre)

IsPrerelease(v) == v.pre # <<>>

(***************************************************************************)
(* What the specification says (semver.org, items 2, 9, 10 and 11).        *)
(***************************************************************************)
\* Item 11.4: numbers numerically, words in ASCII order, numbers before words.
WordBefore(x, y) ==
  \/ Len(x) < Len(y) /\ x = SubSeq(y, 1, Len(x))
  \/ \E i \in DOMAIN x \intersect DOMAIN y :
       x[i] < y[i] /\ SubSeq(x, 1, i - 1) = SubSeq(y, 1, i - 1)

IdentifierBefore(x, y) ==
  \/ IsNumeric(x) /\ IsNumeric(y) /\ Value(x) < Value(y)
  \/ IsNumeric(x) /\ ~IsNumeric(y)
  \/ ~IsNumeric(x) /\ ~IsNumeric(y) /\ WordBefore(x, y)

PreBefore(x, y) ==
  \/ x # <<>> /\ y = <<>>
  \/ x # <<>> /\ y # <<>> /\ Len(x) < Len(y) /\ x = SubSeq(y, 1, Len(x))
  \/ \E i \in DOMAIN x \intersect DOMAIN y :
       IdentifierBefore(x[i], y[i]) /\ SubSeq(x, 1, i - 1) = SubSeq(y, 1, i - 1)

SpecBefore(a, b) ==
  \/ \E i \in 1 .. 3 : a.core[i] < b.core[i] /\ \A j \in 1 .. i - 1 : a.core[j] = b.core[j]
  \/ a.core = b.core /\ PreBefore(a.pre, b.pre)

\* Compare decides the precedence of item 11, also for numbers that no integer
\* type holds, and it is a total order up to build metadata.
ComparesAsSpecified(V) ==
  \A a, b \in V :
    /\ Compare(a, b) = -1 <=> SpecBefore(a, b)
    /\ Compare(a, b) = 1 <=> SpecBefore(b, a)
    /\ Compare(a, b) = 0 <=> a.core = b.core /\ a.pre = b.pre

TotalOrderOn(V) ==
  /\ \A a, b \in V : Compare(a, b) \in {-1, 0, 1} /\ Compare(a, b) = -Compare(b, a)
  /\ \A a, b \in V : Compare(a, b) = 0 <=> a.core = b.core /\ a.pre = b.pre
  /\ \A a, b, c \in V :
       Compare(a, b) <= 0 /\ Compare(b, c) <= 0 => Compare(a, c) <= 0

\* The grammar, without cutting at a first anything: some way to divide the
\* text into a core, a pre-release and build metadata is well formed.
Piece(s, i, j) ==
  /\ \A k \in i .. j : s[k] # Dot
  /\ i = 1 \/ s[i - 1] = Dot
  /\ j = Len(s) \/ s[j + 1] = Dot

PiecesAre(s, Valid(_)) ==
  \A i \in 1 .. Len(s) + 1 : \A j \in i - 1 .. Len(s) :
    Piece(s, i, j) => Valid(SubSeq(s, i, j))

Dots(s) == {i \in DOMAIN s : s[i] = Dot}

IsVersionText(t) ==
  \E i, j \in 0 .. Len(t) :
    /\ i <= j
    /\ \E d, e \in 1 .. i : d < e /\ Dots(SubSeq(t, 1, i)) = {d, e}
    /\ PiecesAre(SubSeq(t, 1, i), ValidNumber)
    /\ \/ i = j
       \/ t[i + 1] = Dash /\ PiecesAre(SubSeq(t, i + 2, j), ValidPre)
    /\ \/ j = Len(t)
       \/ t[j + 1] = Plus /\ PiecesAre(After(t, j + 1), ValidBuild)

Decimal(n) ==
  LET digits[k \in 0 .. n] ==
        IF k < 10 THEN <<48 + k>> ELSE Append(digits[k \div 10], 48 + (k % 10))
  IN  digits[n]

\* The pieces of a dotted list, each with what stands before it.
Joined(pieces, first) ==
  LET upTo[i \in 0 .. Len(pieces)] ==
        IF i = 0 THEN <<>>
        ELSE upTo[i - 1] \o (IF i = 1 THEN first ELSE <<Dot>>) \o pieces[i]
  IN  upTo[Len(pieces)]

\* Version.String
Rendered(v) ==
  Joined([i \in 1 .. 3 |-> Decimal(v.core[i])], <<>>)
    \o Joined(v.pre, <<Dash>>) \o Joined(v.build, <<Plus>>)

\* Parse accepts the texts of the grammar and no other, and loses nothing.
ParsesGrammar(T) ==
  \A t \in T :
    /\ Parse(t) # NoVersion <=> IsVersionText(t)
    /\ Parse(t) # NoVersion => Rendered(Parse(t)) = t
=============================================================================
