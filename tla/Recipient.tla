----------------------------- MODULE Recipient ------------------------------
(***************************************************************************)
(* verify.Run: what a recipient downloads, one file at a time, from a      *)
(* release that may change meanwhile, and what it compares.                *)
(***************************************************************************)
EXTENDS Pipeline

VARIABLE rec

\* The listing (name -> the digest the platform states, or NoFile), the files
\* downloaded, the entries of the manifest, those still to be fetched, and the
\* statement in force, or NoFile.
NoRecord ==
  [pc |-> "idle", listed |-> NoFiles, got |-> NoFiles, entries |-> NoFiles, todo |-> {},
   statement |-> NoFile, reproduce |-> FALSE]

Verifying == {"list", "manifest", "assets", "sig", "statement", "statement-sig", "bundle",
              "contents", "reproduce"}

RecInit == rec = NoRecord

RecTo(pc) == rec' = [rec EXCEPT !.pc = pc]
Reject == RecTo("rejected")

KeepOthers == UNCHANGED <<remote, setup, job, brought, release, index, faults>>

\* release-me verify, once; the policy may ask for a rebuild.
StartVerify ==
  /\ rec.pc = "idle"
  /\ \E r \in BOOLEAN : rec' = [rec EXCEPT !.pc = "list", !.reproduce = r]
  /\ KeepOthers

\* FindRelease, which finds no draft and here no release at all either.
ListRelease ==
  /\ rec.pc = "list"
  /\ IF release = Nothing THEN Reject
     ELSE rec' = [rec EXCEPT !.pc = "manifest",
                    !.listed = [n \in DOMAIN release |->
                                  IF setup.digests THEN release[n] ELSE NoFile]]
  /\ KeepOthers

\* A download succeeds: the name was listed, the release is there and serves it.
Serves(n) == n \in DOMAIN rec.listed /\ release # Nothing /\ n \in DOMAIN release

\* rec with file n downloaded and the next place.
With(n, pc) == [rec EXCEPT !.pc = pc, !.got = Written(@, n, release[n])]

FetchManifest ==
  /\ rec.pc = "manifest"
  /\ IF Serves(Manifest) /\ release[Manifest].kind = "manifest"
     THEN LET e == release[Manifest].entries
          IN  rec' = [With(Manifest, "assets") EXCEPT !.entries = e, !.todo = DOMAIN e]
     ELSE Reject
  /\ KeepOthers

\* Mutant: a file that was fetched is fetched again.
FetchAssetAgain ==
  /\ rec.pc = "assets"
  /\ \E n \in rec.todo : IF Serves(n) THEN rec' = With(n, "assets") ELSE Reject
  /\ KeepOthers

FetchAsset ==
  /\ rec.pc = "assets"
  /\ \E n \in rec.todo :
       IF Serves(n) THEN rec' = [With(n, "assets") EXCEPT !.todo = @ \ {n}] ELSE Reject
  /\ KeepOthers

\* The mechanisms are checked in this order; AfterSig follows sshsig.
AfterSig == IF "sigstore" \in setup.requires THEN "bundle" ELSE "contents"
AfterAssets == IF "sshsig" \in setup.requires THEN "sig" ELSE AfterSig

\* Mutant: trusts the digests of the listing where there are any.
AssetOKByDigest(n) ==
  IF rec.listed[n] # NoFile THEN rec.listed[n] = rec.entries[n]
  ELSE rec.got[n] = rec.entries[n]

\* The hash of the download and the digest of the platform, if it states one.
AssetOK(n) ==
  /\ rec.got[n] = rec.entries[n]
  /\ rec.listed[n] \in {NoFile, rec.entries[n]}

CheckAssets ==
  /\ rec.pc = "assets" /\ rec.todo = {}
  /\ IF \A n \in DOMAIN rec.entries : AssetOK(n) THEN RecTo(AfterAssets) ELSE Reject
  /\ KeepOthers

CheckManifestSig ==
  /\ rec.pc = "sig"
  /\ IF Serves(ManifestSig) /\ release[ManifestSig] = SigOf(rec.got[Manifest])
     THEN rec' = With(ManifestSig, "statement")
     ELSE Reject
  /\ KeepOthers

\* The statement is optional: what the listing does not show is not missed.
FetchStatement ==
  /\ rec.pc = "statement"
  /\ IF Statement \notin DOMAIN rec.listed THEN RecTo(AfterSig)
     ELSE IF Serves(Statement) THEN rec' = With(Statement, "statement-sig")
     ELSE Reject
  /\ KeepOthers

CheckStatementSig ==
  /\ rec.pc = "statement-sig"
  /\ IF /\ Serves(StatementSig)
        /\ release[StatementSig] = SigOf(rec.got[Statement])
        /\ rec.got[Statement].kind = "statement"
     THEN rec' = [With(StatementSig, AfterSig) EXCEPT !.statement = rec.got[Statement]]
     ELSE Reject
  /\ KeepOthers

Covers(s) == \A n \in DOMAIN rec.entries : \E m \in DOMAIN s.subjects : s.subjects[m] = rec.entries[n]

\* Sigstore's own verification, of a bundle some job made, with the identity in its
\* certificate; and the comparison with a published statement, byte for byte.
CheckBundle ==
  /\ rec.pc = "bundle"
  /\ IF /\ Serves(Bundle) /\ release[Bundle].kind = "bundle"
        /\ release[Bundle].signer \in setup.identities
        /\ Covers(release[Bundle].payload)
        /\ rec.statement \in {NoFile, release[Bundle].payload}
     THEN rec' = [With(Bundle, "contents") EXCEPT !.statement = release[Bundle].payload]
     ELSE Reject
  /\ KeepOthers

Finish == IF rec.reproduce THEN "reproduce" ELSE "accepted"

\* Mutant: does not compare the tag in the statement.
CheckContentsOfAnyTag ==
  /\ rec.pc = "contents"
  /\ IF \/ rec.statement = NoFile
        \/ /\ rec.statement.subjects = rec.entries
           /\ setup.source => rec.statement.origin.uri = Ours.uri
           /\ rec.statement.origin.type \in KnownTypes
     THEN RecTo(Finish) ELSE Reject
  /\ KeepOthers

\* A statement that is no provenance, or not of a form SourceOf can read, is refused as
\* one of an unknown build type is.
CheckContents ==
  /\ rec.pc = "contents"
  /\ IF \/ rec.statement = NoFile
        \/ /\ rec.statement.subjects = rec.entries
           /\ rec.statement.origin.tag = Ours.tag
           /\ setup.source => rec.statement.origin.uri = Ours.uri
           /\ rec.statement.origin.type \in KnownTypes
     THEN RecTo(Finish) ELSE Reject
  /\ KeepOthers

\* What a build of the tag comes to.
Rebuilt == [n \in Payload |-> ArchiveOf(n, remote.commit, 0)]

\* The rebuild in a clean checkout of the tag; VerifyFails stands for any other clone.
Reproduce ==
  /\ rec.pc = "reproduce"
  /\ IF /\ rec.statement # NoFile => rec.statement.commit = remote.commit
        /\ rec.entries = Rebuilt
     THEN RecTo("accepted") ELSE Reject
  /\ KeepOthers

\* A request fails for good, the clone is not clean, a command cannot be run.
VerifyFails ==
  /\ rec.pc \in Verifying
  /\ faults < MaxFaults /\ faults' = faults + 1
  /\ RecTo("failed")
  /\ UNCHANGED <<remote, setup, job, brought, release, index>>

VerifyProgress ==
  \/ ListRelease
  \/ FetchManifest
  \/ FetchAsset
  \/ CheckAssets
  \/ CheckManifestSig
  \/ FetchStatement
  \/ CheckStatementSig
  \/ CheckBundle
  \/ CheckContents
  \/ Reproduce

VerifyStep == StartVerify \/ VerifyProgress \/ VerifyFails
=============================================================================
