----------------------------- MODULE Artifacts ------------------------------
(***************************************************************************)
(* The files of a release and what they say about each other.  A digest    *)
(* is the content itself.                                                  *)
(***************************************************************************)
CONSTANTS
  Payload,       \* the names of the archives
  Manifest, ManifestSig, Statement, StatementSig, Bundle,  \* the other names
  NoFile

ASSUME NamesAssumption ==
  /\ Payload \intersect {Manifest, ManifestSig, Statement, StatementSig, Bundle} = {}
  /\ Manifest \notin {ManifestSig, Statement, StatementSig, Bundle}
  /\ ManifestSig \notin {Statement, StatementSig, Bundle}
  /\ Statement \notin {StatementSig, Bundle} /\ StatementSig # Bundle

Evidence == {Manifest, ManifestSig, Statement, StatementSig, Bundle}
Names == Payload \union Evidence

\* One archive: its name, the commit it was built from and the outcome of the
\* build (outcome 0 is the one every careful build comes to).
ArchiveOf(n, commit, outcome) == [kind |-> "archive", name |-> n, commit |-> commit, outcome |-> outcome]

ManifestOf(entries) == [kind |-> "manifest", entries |-> entries]

\* The statement as written to a file (newline) or as signed (no newline).  Its origin
\* is what it says of the release: [tag, uri, type], the source with the tag in it and
\* the type of the build.
StatementOf(subjects, origin, commit, attempt) ==
  [kind |-> "statement", subjects |-> subjects, origin |-> origin, commit |-> commit,
   attempt |-> attempt, newline |-> TRUE]

\* bytes.TrimSpace
Trimmed(s) == [s EXCEPT !.newline = FALSE]

\* An SSH signature by what it signs, which says nothing of a tag; a Sigstore bundle by
\* what it signs and the identity in its certificate, the workflow of an origin.
SigOf(content) == [kind |-> "sig", signed |-> content]
BundleOf(payload, signer) == [kind |-> "bundle", payload |-> payload, signer |-> signer]

Corrupt == [kind |-> "corrupt"]

\* manifest.FromDir: every file but the manifest itself.
FromDir(dir) == [n \in DOMAIN dir \ {Manifest} |-> dir[n]]

\* dir with the file n written.
Written(dir, n, content) == [m \in DOMAIN dir \union {n} |-> IF m = n THEN content ELSE dir[m]]
=============================================================================
