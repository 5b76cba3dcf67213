---------------------------- MODULE Maintainer ------------------------------
(***************************************************************************)
(* The maintainer's side.  Either `tag create` runs in a repository         *)
(* (Tagging), or one kind of text is written step by step: every text that *)
(* can come about is read, and what the code makes of it is compared with  *)
(* a definition that is not an algorithm.                                  *)
(***************************************************************************)
EXTENDS Tagging, Semver

CONSTANTS
  Starts, Chars, MaxChars,                          \* Semver: texts
  Cores, Identifiers, MaxIdentifiers,               \* and versions
  FileNames, BadNames, Sums, MaxEntries, OtherLists,   \* Manifest
  Star, Any, None, SignerLines, MaxLines, Requests, \* AllowedSigners: lines
  Letters, MaxPattern, MaxName,                     \* and patterns
  Files, Lines, MaxEdits, Releases                  \* Changelog

M == INSTANCE Manifest WITH Names <- FileNames
S == INSTANCE AllowedSigners
C == INSTANCE Changelog

ManifestLine == [name : FileNames \union BadNames, sum : Sums]
PatternText == Seq(Letters \union {Star, Any})
PatternList == Seq([negate : BOOLEAN, text : PatternText])
SignerLine ==
  [key : Int, principals : PatternList, namespaces : PatternList, after : Nat, before : Nat]

(* What Parse of versions lets through as an identifier, what ValidName    *)
(* accepts or refuses as a name, and what the parser of an allowed-signers *)
(* file makes of a line.                                                   *)
ASSUME MaintainerAssumption ==
  /\ Starts \subseteq Seq(Nat) /\ Chars \subseteq Nat
  /\ Cores \subseteq [1 .. 3 -> Nat]
  /\ \A id \in Identifiers : id \in Identifier /\ ValidPre(id)
  /\ FileNames \subseteq Nat /\ BadNames \subseteq Nat \ FileNames
  /\ OtherLists \subseteq Seq(M!Entry)
  /\ SignerLines \subseteq SignerLine /\ MaxName \in Nat
  /\ \A r \in Requests :
       /\ r.now \in Nat /\ r.namespace \in Seq(Letters)
       /\ r.principal # None => r.principal \in Seq(Letters)
  /\ Files \subseteq Seq(C!Line) /\ Lines \subseteq C!Line
  /\ Releases \subseteq Nat \ {0}

VARIABLES
  kind,   \* the kind of text that is written, or "repository"
  text,   \* what there is of it
  size    \* the steps so far

textVars == <<kind, text, size>>

vars == <<textVars, tagVars>>

UpTo(n, A) == UNION {[1 .. k -> A] : k \in 0 .. n}

Kinds == {"version", "identifiers", "manifest", "signers", "pattern", "changelog",
          "repository"}

Init ==
  /\ TagInit
  /\ kind \in Kinds
  /\ kind # "repository" => head = (CHOOSE c \in Commits : TRUE) /\ ~dirty
  /\ text \in CASE kind = "version"   -> Starts
                [] kind = "changelog" -> Files
                [] OTHER              -> {<<>>}
  /\ size = 0

Write(k, max, A) ==
  /\ kind = k /\ size < max
  /\ \E x \in A : text' = Append(text, x)
  /\ size' = size + 1
  /\ UNCHANGED <<kind, tagVars>>

WriteChar       == Write("version", MaxChars, Chars)
WriteIdentifier == Write("identifiers", MaxIdentifiers, Identifiers)
WriteEntry      == Write("manifest", MaxEntries, ManifestLine)
WriteSigner     == Write("signers", MaxLines, SignerLines)
WritePattern    == Write("pattern", MaxPattern, Letters \union {Star, Any})

\* A line of the changelog is inserted or removed.
EditLine ==
  /\ kind = "changelog" /\ size < MaxEdits
  /\ \E i \in 1 .. Len(text) + 1 :
       \/ \E l \in Lines : text' = SubSeq(text, 1, i - 1) \o <<l>> \o SubSeq(text, i, Len(text))
       \/ text' = SubSeq(text, 1, i - 1) \o SubSeq(text, i + 1, Len(text))
  /\ size' = size + 1
  /\ UNCHANGED <<kind, tagVars>>

InRepository == kind = "repository" /\ TagStep /\ UNCHANGED textVars

Next ==
  \/ InRepository
  \/ WriteChar
  \/ WriteIdentifier
  \/ WriteEntry
  \/ WriteSigner
  \/ WritePattern
  \/ EditLine

Spec == Init /\ [][Next]_vars

(***************************************************************************)
(* What must hold of every text.                                           *)
(***************************************************************************)
\* Parse (internal/semver) accepts the texts of the grammar of Semantic
\* Versioning, however '-' and '+' are mixed, and String gives back the text.
VersionsParse == kind = "version" => ParsesGrammar({text})

\* Compare orders any two versions as item 11 of the specification says, though
\* numbers are compared without ever becoming a number.
VersionsCompare ==
  kind = "identifiers" =>
    ComparesAsSpecified(
      [core : Cores, pre : {text}, build : {<<>>}]
        \union [core : Cores, pre : UpTo(2, Identifiers), build : {text}])

Content(lines) == {lines[i] : i \in DOMAIN lines}
Valid(lines) ==
  /\ lines # <<>>
  /\ \A i \in DOMAIN lines : lines[i].name \in FileNames
  /\ \A i, j \in DOMAIN lines : lines[i].name = lines[j].name => i = j

\* What is refused lists nothing, a bad name, or a name twice.
RefusesInvalid(lines) == M!Parse(lines) # M!NoManifest <=> Valid(lines)

\* In the sorted result Lookup finds the entries and no others.
FindsEntries(m, lines) ==
  /\ \A i \in 1 .. Len(m) - 1 : m[i].name < m[i + 1].name
  /\ Content(m) = Content(lines)
  /\ \A n \in FileNames :
       /\ M!Listed(m, n) <=> \E e \in Content(lines) : e.name = n
       /\ M!Listed(m, n) => [name |-> n, sum |-> M!Lookup(m, n)] \in Content(lines)

\* Diff of two manifests is empty exactly when both list the same.
DiffsContent(m, o) == M!Same(m, o) <=> Content(m) = Content(o)

\* Parse of a manifest refuses exactly what lists nothing, a bad name or a name
\* twice; otherwise Lookup finds the entries and no others in the sorted result,
\* and Diff of it and another manifest is empty exactly when both list the same.
ManifestFaithful ==
  kind = "manifest" =>
    /\ RefusesInvalid(text)
    /\ Valid(text) => /\ FindsEntries(M!Parse(text), text)
                      /\ \A l \in OtherLists : DiffsContent(M!Parse(text), M!Subjects(l))

\* Verify accepts a key exactly when some line of the file allows the use, in
\* whatever order the lines and the patterns of a line stand, and no pattern with
\* a '!' matches.
SignersSound ==
  kind = "signers" =>
    \A r \in Requests :
      S!Verify(text, r.revoked, r.key, r.principal, r.namespace, r.now)
        <=> S!Authorized(text, r.revoked, r.key, r.principal, r.namespace, r.now)

\* wildcardMatch, which takes a pattern apart from the left, accepts the texts
\* that can be cut into one piece per letter of the pattern.
WildcardsSound ==
  kind = "pattern" =>
    \A s \in UpTo(MaxName, Letters) : S!WildcardMatch(text, s) <=> S!InLanguage(text, s)

BodyOf(lines, v) ==
  C!Body(lines, CHOOSE i \in C!Is(lines, "release") : lines[i].v = v)

\* changelog release leaves a file that is good for the tag it was made for: it
\* parses, lints, has the version on top and nothing unreleased; the section is what
\* was unreleased, and no other section has changed.
ReleaseKeepsLint ==
  kind = "changelog" =>
    \A v \in Releases :
      LET new == C!ReleaseCommand(text, v)
      IN  new # text =>
            /\ C!ReadyFor(new, v)
            /\ BodyOf(new, v) = C!UnreleasedBody(text)
            /\ \A i \in C!Is(text, "release") : BodyOf(new, text[i].v) = C!Body(text, i)
=============================================================================
