------------------------------ MODULE Manifest ------------------------------
(***************************************************************************)
(* internal/manifest: the list of file names and digests.  Names are       *)
(* numbers in byte order; what ValidName refuses is not among Names.  A    *)
(* manifest is the sequence of its entries; a manifest file is a sequence  *)
(* of lines [name, sum].                                                   *)
(***************************************************************************)
EXTENDS Integers, Sequences

CONSTANTS Names, Sums

Entry == [name : Names, sum : Sums]

NoManifest == <<[name |-> -1, sum |-> -1]>>

\* sort.Search: the smallest index, from 0, with f, if f holds from there on.
Search(n, f(_)) ==
  LET between[i \in 0 .. n] ==
        [j \in 0 .. n |->
           IF i >= j THEN i
           ELSE LET h == (i + j) \div 2
                IN  IF f(h) THEN between[i][h] ELSE between[h + 1][j]]
  IN  between[0][n]

\* The index, from 1, at which name is or belongs.
Place(m, name) == LET at(i) == m[i + 1].name >= name IN Search(Len(m), at) + 1

IsAt(m, i, name) == i <= Len(m) /\ m[i].name = name

Listed(m, name) == IsAt(m, Place(m, name), name)

Lookup(m, name) == m[Place(m, name)].sum

Add(m, name, sum) ==
  LET i == Place(m, name)
  IN  IF IsAt(m, i, name) THEN [m EXCEPT ![i].sum = sum]
      ELSE SubSeq(m, 1, i - 1) \o <<[name |-> name, sum |-> sum]>> \o SubSeq(m, i, Len(m))

Parse(lines) ==
  LET upTo[n \in 0 .. Len(lines)] ==
        IF n = 0 THEN <<>>
        ELSE LET m == upTo[n - 1]  l == lines[n]
             IN  IF m = NoManifest \/ l.name \notin Names \/ Listed(m, l.name)
                 THEN NoManifest
                 ELSE Add(m, l.name, l.sum)
  IN  IF lines = <<>> THEN NoManifest ELSE upTo[Len(lines)]

\* Mutant: looks at the entries of the first manifest only.
SameOneWay(a, b) ==
  \A i \in DOMAIN a : Listed(b, a[i].name) /\ Lookup(b, a[i].name) = a[i].sum

\* Diff returns nil.
Same(a, b) ==
  /\ \A i \in DOMAIN a : Listed(b, a[i].name) /\ Lookup(b, a[i].name) = a[i].sum
  /\ \A i \in DOMAIN b : Listed(a, b[i].name)

\* Statement.Subjects (internal/intoto): later subjects replace earlier ones.
Subjects(lines) ==
  LET upTo[n \in 0 .. Len(lines)] ==
        IF n = 0 THEN <<>> ELSE Add(upTo[n - 1], lines[n].name, lines[n].sum)
  IN  upTo[Len(lines)]
=============================================================================
