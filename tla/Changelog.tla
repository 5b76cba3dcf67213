----------------------------- MODULE Changelog ------------------------------
(***************************************************************************)
(* internal/changelog: a changelog as the sequence of its lines, and what  *)
(* Parse, Lint, Section and Release make of them.  A version is its rank;  *)
(* two versions that differ in build metadata only are one rank.  A line   *)
(* is one of                                                               *)
(*   [is |-> "unreleased"]            ## [Unreleased]                      *)
(*   [is |-> "release", v, good]      ## [v] - date, good if a real date   *)
(*   [is |-> "odd"]                   another line that starts with "## "  *)
(*   [is |-> "sub", good]             ### type, good if one of the six     *)
(*   [is |-> "heading"]               another line that starts with "#"    *)
(*   [is |-> "link", v, good]         [v]: url, good if scheme://host/     *)
(*   [is |-> "text"], [is |-> "blank"]                                     *)
(* Version 0 stands for Unreleased in a link.                              *)
(***************************************************************************)
EXTENDS Integers, Sequences

Line ==
  [is : {"unreleased", "odd", "heading", "text", "blank"}]
    \union [is : {"sub"}, good : BOOLEAN]
    \union [is : {"release"}, v : Nat \ {0}, good : BOOLEAN]
    \union [is : {"link"}, v : Nat, good : BOOLEAN]

Unreleased == [is |-> "unreleased"]
Blank == [is |-> "blank"]
ReleaseHead(v) == [is |-> "release", v |-> v, good |-> TRUE]
Link(v) == [is |-> "link", v |-> v, good |-> TRUE]

Is(lines, kind) == {i \in DOMAIN lines : lines[i].is = kind}
Sections(lines) == Is(lines, "unreleased") \union Is(lines, "release") \union Is(lines, "odd")

First(S) == CHOOSE i \in S : \A j \in S : i <= j

\* Parse succeeds.
Parses(lines) ==
  /\ Is(lines, "odd") = {}
  /\ \A i, j \in Is(lines, "unreleased") : i = j

EndOf(lines, i) ==
  LET later == {j \in Sections(lines) : j > i}
  IN  IF later = {} THEN Len(lines) ELSE First(later) - 1

WithoutLinks(s) ==
  LET kept[i \in 0 .. Len(s)] ==
        IF i = 0 THEN <<>>
        ELSE IF s[i].is = "link" THEN kept[i - 1] ELSE Append(kept[i - 1], s[i])
  IN  kept[Len(s)]

\* Without the blank lines at both ends.
Trimmed(s) ==
  LET full == {j \in DOMAIN s : s[j].is # "blank"}
  IN  IF full = {} THEN <<>>
      ELSE SubSeq(s, First(full), CHOOSE j \in full : \A k \in full : k <= j)

\* The body of the section whose heading is line i.
Body(lines, i) == Trimmed(WithoutLinks(SubSeq(lines, i + 1, EndOf(lines, i))))

UnreleasedBody(lines) ==
  IF Is(lines, "unreleased") = {} THEN <<>>
  ELSE Body(lines, CHOOSE i \in Is(lines, "unreleased") : TRUE)

UnreleasedEmpty(lines) == UnreleasedBody(lines) = <<>>

\* The version of the topmost released section; 0 when there is none.
Latest(lines) ==
  IF Is(lines, "release") = {} THEN 0 ELSE lines[First(Is(lines, "release"))].v

HasSection(lines, v) == \E i \in Is(lines, "release") : lines[i].v = v

LinksTo(lines, v) == {i \in Is(lines, "link") : lines[i].v = v}

\* The link that counts is the last one of its name.
LinkOK(i, lines) ==
  lines[i].good \/ \E j \in LinksTo(lines, lines[i].v) : j > i

\* A subsection ends at the next line that starts with '#'.
HasContent(lines, i) ==
  \E j \in Is(lines, "text") :
    /\ j > i
    /\ \A k \in i + 1 .. j : lines[k].is \in {"text", "blank", "link"}

\* The code compares neighbours only: if these descend, all do.
Lints(lines) ==
  /\ Is(lines, "unreleased") # {}
  /\ \A i \in Is(lines, "unreleased") : \A j \in Is(lines, "release") : i < j
  /\ \A i \in Is(lines, "release") : lines[i].good /\ LinksTo(lines, lines[i].v) # {}
  /\ \A i, j \in Is(lines, "release") : i < j => lines[i].v > lines[j].v
  /\ LinksTo(lines, 0) # {}
  /\ \A i \in Is(lines, "link") : LinkOK(i, lines)
  /\ \A i \in Is(lines, "sub") :
       lines[i].good /\ HasContent(lines, i) /\ \E j \in Sections(lines) : j < i
  /\ \A i \in Is(lines, "heading") : ~\E j \in Sections(lines) : j < i

Follows(lines, v) == Latest(lines) = 0 \/ v > Latest(lines)

\* Mutant: forgets the link of the new version.
MovedUnlinked(l, v) ==
  IF l.is = "unreleased" THEN <<Unreleased, Blank, ReleaseHead(v)>> ELSE <<l>>

\* What a line of the old file becomes in the file Release returns.
Moved(l, v) ==
  CASE l.is = "unreleased"         -> <<Unreleased, Blank, ReleaseHead(v)>>
    [] l.is = "link" /\ l.v = 0    -> <<Link(0), Link(v)>>
    [] OTHER                       -> <<l>>

CanRelease(lines, v) ==
  /\ Is(lines, "unreleased") # {}
  /\ ~UnreleasedEmpty(lines)
  /\ Follows(lines, v)
  /\ ~HasSection(lines, v)

Release(lines, v) ==
  LET out[i \in 0 .. Len(lines)] ==
        IF i = 0 THEN <<>> ELSE out[i - 1] \o Moved(lines[i], v)
  IN  out[Len(lines)]

\* changelog release: lint, Release, and a parse of what it made.
ReleaseCommand(lines, v) ==
  IF Parses(lines) /\ Lints(lines) /\ CanRelease(lines, v) /\ Parses(Release(lines, v))
  THEN Release(lines, v)
  ELSE lines

\* The predicate of tag create and tag verify for a tag of version v.
ReadyFor(lines, v) ==
  Parses(lines) /\ Lints(lines) /\ Latest(lines) = v /\ UnreleasedEmpty(lines)
=============================================================================
