--------------------------- MODULE DeliveryProofs ---------------------------
(***************************************************************************)
(* What a recipient accepts, for any archives, setups, attempts, faults    *)
(* and edits.                                                              *)
(***************************************************************************)
EXTENDS DeliveryInvariant, FiniteSetTheorems, TLAPS

(***************************************************************************)
(* Files.                                                                  *)
(***************************************************************************)
LEMMA WrittenIs ==
  ASSUME NEW d, NEW n, NEW content
  PROVE  /\ DOMAIN Written(d, n, content) = DOMAIN d \union {n}
         /\ Written(d, n, content)[n] = content
         /\ \A m \in DOMAIN d \ {n} : Written(d, n, content)[m] = d[m]
  BY DEF Written

LEMMA PayloadKept ==
  ASSUME NEW d, NEW n, NEW content, Payload \subseteq DOMAIN d, n \notin Payload
  PROVE  PayloadOf(Written(d, n, content)) = PayloadOf(d)
  <1>1. \A m \in Payload : Written(d, n, content)[m] = d[m]
    BY DEF Written
  <1> DEFINE w == Written(d, n, content)
  <1> HIDE DEF w
  <1>2. \A m \in Payload : w[m] = d[m]
    BY <1>1 DEF w
  <1>3. PayloadOf(w) = PayloadOf(d)
    BY <1>2 DEF PayloadOf
  <1> QED
    BY <1>3 DEF w

LEMMA NamesDiffer ==
  /\ Manifest \notin Payload /\ ManifestSig \notin Payload /\ Statement \notin Payload
  /\ StatementSig \notin Payload /\ Bundle \notin Payload
  /\ Manifest # ManifestSig /\ Manifest # Statement /\ Manifest # StatementSig /\ Manifest # Bundle
  /\ ManifestSig # Statement /\ ManifestSig # StatementSig /\ ManifestSig # Bundle
  /\ Statement # StatementSig /\ Statement # Bundle /\ StatementSig # Bundle
  BY NamesAssumption

(***************************************************************************)
(* The files of other jobs.                                                *)
(***************************************************************************)
LEMMA ForeignIs ==
  ASSUME NEW o \in Others, NEW d, d = FilesOf(o)
  PROVE  /\ DOMAIN d = Names
         /\ d[Statement] = StatementOf(PayloadOf(d), o.origin, o.commit, 1)
         /\ d[Manifest] = ManifestOf(PayloadOf(d))
         /\ d[Bundle] = BundleOf(Trimmed(d[Statement]), o.origin)
  <1> DEFINE archives == [n \in Payload |-> ArchiveOf(n, o.commit, o.outcome)]
             manifest == ManifestOf(archives)
             statement == StatementOf(archives, o.origin, o.commit, 1)
             bundle == BundleOf(Trimmed(statement), o.origin)
  <1>1. d = [n \in Names |->
               CASE n = Manifest     -> manifest
                 [] n = ManifestSig  -> SigOf(manifest)
                 [] n = Statement    -> statement
                 [] n = StatementSig -> SigOf(statement)
                 [] n = Bundle       -> bundle
                 [] OTHER            -> archives[n]]
    BY DEF FilesOf
  <1> HIDE DEF manifest, statement, bundle
  <1>2. DOMAIN d = Names /\ Payload \subseteq Names /\ {Manifest, Statement, Bundle} \subseteq Names
    BY <1>1 DEF Names, Evidence
  <1>3. d[Manifest] = manifest /\ d[Statement] = statement /\ d[Bundle] = bundle
    BY <1>1, <1>2, NamesDiffer
  <1>4. \A n \in Payload : d[n] = archives[n]
    BY <1>1, <1>2, NamesDiffer
  <1>5. PayloadOf(d) = archives
    BY <1>4 DEF PayloadOf
  <1> QED
    BY <1>2, <1>3, <1>5 DEF manifest, statement, bundle

LEMMA StatementIs ==
  ASSUME NEW a, NEW origin, NEW commit, NEW attempt, NEW s,
         s = StatementOf(a, origin, commit, attempt)
  PROVE  /\ s.kind = "statement"
         /\ s.subjects = a /\ Trimmed(s).subjects = a
         /\ s.origin = origin /\ Trimmed(s).origin = origin
         /\ s.commit = commit /\ Trimmed(s).commit = commit
  BY DEF StatementOf, Trimmed

LEMMA BundleIs ==
  ASSUME NEW payload, NEW signer
  PROVE  /\ BundleOf(payload, signer).kind = "bundle"
         /\ BundleOf(payload, signer).payload = payload
         /\ BundleOf(payload, signer).signer = signer
  BY DEF BundleOf

\* Every set of files there is has a manifest, a statement and perhaps a bundle that
\* are about its archives.
LEMMA SetsAgree ==
  ASSUME BroughtOK, NEW d \in brought \union Foreign
  PROVE  /\ {Manifest, Statement} \subseteq DOMAIN d
         /\ d[Manifest] = ManifestOf(PayloadOf(d))
         /\ d[Statement].kind = "statement" /\ d[Statement].subjects = PayloadOf(d)
         /\ Trimmed(d[Statement]).subjects = PayloadOf(d)
         /\ Bundle \in DOMAIN d => d[Bundle].payload = Trimmed(d[Statement])
  <1>1. CASE d \in brought
    <2>1. DOMAIN d = Complete /\ Coherent(d, Ours, remote.commit)
      BY <1>1 DEF BroughtOK
    <2>2. {Manifest, Statement} \subseteq DOMAIN d /\ d[Manifest] = ManifestOf(PayloadOf(d))
      BY <2>1 DEF Complete, Coherent
    <2>3. d[Statement] = StatementOf(PayloadOf(d), Ours, remote.commit, d[Statement].attempt)
      BY <2>1, <2>2 DEF Coherent
    <2>4. Bundle \in DOMAIN d => d[Bundle].payload = Trimmed(d[Statement])
      BY <2>1, BundleIs DEF Coherent
    <2> QED
      BY <2>2, <2>3, <2>4, StatementIs
  <1>2. CASE d \in Foreign
    <2>1. PICK o \in Others : d = FilesOf(o)
      BY <1>2 DEF Foreign
    <2>2. {Manifest, Statement} \subseteq DOMAIN d /\ d[Manifest] = ManifestOf(PayloadOf(d))
      BY <2>1, ForeignIs DEF Names, Evidence
    <2>3. d[Statement] = StatementOf(PayloadOf(d), o.origin, o.commit, 1)
      BY <2>1, ForeignIs
    <2>4. d[Bundle].payload = Trimmed(d[Statement])
      BY <2>1, ForeignIs, BundleIs
    <2> QED
      BY <2>2, <2>3, <2>4, StatementIs
  <1> QED
    BY <1>1, <1>2

(***************************************************************************)
(* What a step of the job leaves alone.                                    *)
(***************************************************************************)
LEMMA RecKept ==
  ASSUME RecOK, rec' = rec, setup' = setup, brought \subseteq brought', index \subseteq index'
  PROVE  RecOK'
  <1>1. \A s : OfJob(s) => OfJob(s)'
    BY DEF OfJob
  <1>2. StatementOK'
    BY <1>1 DEF RecOK, StatementOK, Fits
  <1> QED
    BY <1>2 DEF RecOK

LEMMA BroughtKept ==
  ASSUME BroughtOK, brought' = brought, index \subseteq index', remote' = remote, setup' = setup
  PROVE  BroughtOK'
  BY DEF BroughtOK, Complete, Signatures, Indexed

LEMMA ForeignKept ==
  ASSUME ForeignOK, index \subseteq index'
  PROVE  ForeignOK'
  BY DEF ForeignOK, Indexed

LEMMA BroughtMore ==
  ASSUME BroughtOK, JobOK, At("publish"), brought' = brought \union {job.dist},
         index' = index, remote' = remote, setup' = setup
  PROVE  BroughtOK'
  <1>1. /\ DOMAIN job.dist = Complete /\ Coherent(job.dist, Ours, remote.commit) /\ Indexed(job.dist)
        /\ ValidTag(remote, TRUE)
    BY DEF JobOK, At, Running, Attesting
  <1>2. Complete' = Complete
    BY DEF Complete, Signatures
  <1> QED
    BY <1>1, <1>2 DEF BroughtOK, Indexed

LEMMA ReleaseKept ==
  ASSUME ReleaseOK, release' = release, brought \subseteq brought'
  PROVE  ReleaseOK'
  BY DEF ReleaseOK

(***************************************************************************)
(* The job writes a file.                                                  *)
(***************************************************************************)
LEMMA WritesIs ==
  ASSUME JobOK, NEW n, NEW content, NEW pc, Writes(n, content, pc)
  PROVE  /\ DOMAIN job' = {"pc", "attempt", "commit", "dist"}
         /\ job'.pc = pc /\ job'.commit = job.commit
         /\ job'.dist = Written(job.dist, n, content)
  BY DEF Writes, JobOK

LEMMA ManifestWritten ==
  ASSUME JobOK, WriteManifest
  PROVE  JobOK'
  <1> DEFINE c == ManifestOf(FromDir(job.dist))
             w == Written(job.dist, Manifest, c)
  <1>1. At("manifest") /\ DOMAIN job.dist = Payload
    BY DEF WriteManifest, JobOK
  <1>2. /\ DOMAIN job' = {"pc", "attempt", "commit", "dist"}
        /\ job'.pc = "provenance" /\ job'.commit = job.commit /\ job'.dist = w
    BY WritesIs DEF WriteManifest
  <1> HIDE DEF c
  <1>3. /\ DOMAIN w = Payload \union {Manifest}
        /\ w[Manifest] = c
    BY <1>1 DEF Written
  <1>4. PayloadOf(w) = PayloadOf(job.dist)
    BY <1>1, NamesDiffer, PayloadKept
  <1>5. FromDir(job.dist) = PayloadOf(job.dist)
    BY <1>1, NamesDiffer DEF FromDir, PayloadOf
  <1>6. Coherent(w, Ours, remote.commit)
    BY <1>3, <1>4, <1>5, NamesDiffer DEF Coherent, c
  <1>7. job.commit # NoCommit => job.commit = remote.commit /\ ValidTag(remote, TRUE)
    BY <1>1 DEF JobOK, At, Running, Attesting
  <1>8. UNCHANGED <<remote, setup, index>>
    BY DEF WriteManifest, KeepRest
  <1> HIDE DEF w
  <1>9. Coherent(job'.dist, Ours, remote'.commit)
    BY <1>2, <1>6, <1>8
  <1> QED
    BY <1>2, <1>3, <1>7, <1>8, <1>9 DEF JobOK, At, Running, Attesting

LEMMA ProvenanceWritten ==
  ASSUME JobOK, setup \in Setups, WriteProvenance, job.commit # NoCommit
  PROVE  JobOK'
  <1> DEFINE s == StatementAbout(job.dist[Manifest].entries)
             w == Written(job.dist, Statement, s)
  <1>1. At("provenance") /\ DOMAIN job.dist = Payload \union {Manifest}
    BY DEF WriteProvenance, JobOK
  <1>2. /\ DOMAIN job' = {"pc", "attempt", "commit", "dist"}
        /\ job'.pc = AfterProvenance /\ job'.commit = job.commit /\ job'.dist = w
    BY WritesIs DEF WriteProvenance
  <1> HIDE DEF s
  <1>3. /\ DOMAIN w = Payload \union {Manifest, Statement}
        /\ w[Statement] = s /\ w[Manifest] = job.dist[Manifest]
    BY <1>1, NamesDiffer DEF Written
  <1>4. PayloadOf(w) = PayloadOf(job.dist)
    BY <1>1, NamesDiffer, PayloadKept
  <1>5. /\ ValidTag(remote, TRUE) /\ job.commit = remote.commit /\ job.commit # NoCommit
        /\ Coherent(job.dist, Ours, remote.commit)
    BY <1>1 DEF JobOK, At, Running, Attesting
  <1>6. job.dist[Manifest] = ManifestOf(PayloadOf(w))
    BY <1>1, <1>4, <1>5 DEF Coherent
  <1>7. s = StatementOf(PayloadOf(w), Ours, remote.commit, s.attempt)
    <2>1. job.dist[Manifest].entries = PayloadOf(w)
      BY <1>6 DEF ManifestOf
    <2>2. s.attempt = job.attempt
      BY DEF s, StatementAbout, StatementOf
    <2> QED
      BY <1>5, <2>1, <2>2 DEF s, StatementAbout
  <1>8. Coherent(w, Ours, remote.commit)
    BY <1>3, <1>6, <1>7, NamesDiffer DEF Coherent
  <1>9. UNCHANGED <<remote, setup, index>>
    BY DEF WriteProvenance, KeepRest
  <1> HIDE DEF w
  <1>10. Coherent(job'.dist, Ours, remote'.commit)
    BY <1>2, <1>8, <1>9
  <1>11. CASE "sshsig" \in setup.signs
    BY <1>2, <1>3, <1>5, <1>9, <1>10, <1>11 DEF JobOK, At, Running, Attesting, AfterProvenance
  <1>12. CASE "sshsig" \notin setup.signs
    <2>1. "sigstore" \in setup.signs
      BY <1>12, SetupsAssumption DEF Mechanisms
    <2> QED
      BY <1>2, <1>3, <1>5, <1>9, <1>10, <1>12, <2>1
      DEF JobOK, At, Running, Attesting, AfterProvenance, Signatures
  <1> QED
    BY <1>11, <1>12

LEMMA ManifestSigWritten ==
  ASSUME JobOK, SignManifest
  PROVE  JobOK'
  <1> DEFINE c == SigOf(job.dist[Manifest])
             w == Written(job.dist, ManifestSig, c)
  <1>1. /\ At("sign-manifest") /\ DOMAIN job.dist = Payload \union {Manifest, Statement}
        /\ "sshsig" \in setup.signs
    BY DEF SignManifest, JobOK
  <1>2. /\ DOMAIN job' = {"pc", "attempt", "commit", "dist"}
        /\ job'.pc = "sign-statement" /\ job'.commit = job.commit /\ job'.dist = w
    BY WritesIs DEF SignManifest
  <1> HIDE DEF c
  <1>3. /\ DOMAIN w = Payload \union {Manifest, Statement, ManifestSig}
        /\ w[ManifestSig] = c
        /\ w[Manifest] = job.dist[Manifest] /\ w[Statement] = job.dist[Statement]
    BY <1>1, NamesDiffer DEF Written
  <1>4. PayloadOf(w) = PayloadOf(job.dist)
    BY <1>1, NamesDiffer, PayloadKept
  <1>5. /\ ValidTag(remote, TRUE) /\ job.commit = remote.commit /\ job.commit # NoCommit
        /\ Coherent(job.dist, Ours, remote.commit)
    BY <1>1 DEF JobOK, At, Running, Attesting
  <1> HIDE DEF w
  <1>6. Coherent(w, Ours, remote.commit)
    BY <1>1, <1>3, <1>4, <1>5, NamesDiffer DEF Coherent, c
  <1>7. UNCHANGED <<remote, setup, index>>
    BY DEF SignManifest, KeepRest
  <1>8. Coherent(job'.dist, Ours, remote'.commit)
    BY <1>2, <1>6, <1>7
  <1> QED
    BY <1>1, <1>2, <1>3, <1>5, <1>7, <1>8 DEF JobOK, At, Running, Attesting

LEMMA StatementSigWritten ==
  ASSUME JobOK, SignStatement
  PROVE  JobOK'
  <1> DEFINE c == SigOf(job.dist[Statement])
             w == Written(job.dist, StatementSig, c)
  <1>1. /\ At("sign-statement") /\ "sshsig" \in setup.signs
        /\ DOMAIN job.dist = Payload \union {Manifest, Statement, ManifestSig}
    BY DEF SignStatement, JobOK
  <1>2. /\ DOMAIN job' = {"pc", "attempt", "commit", "dist"}
        /\ job'.pc = AfterSignatures /\ job'.commit = job.commit /\ job'.dist = w
    BY WritesIs DEF SignStatement
  <1> HIDE DEF c
  <1>3. /\ DOMAIN w = Payload \union {Manifest, Statement, ManifestSig, StatementSig}
        /\ w[StatementSig] = c
        /\ w[Manifest] = job.dist[Manifest] /\ w[Statement] = job.dist[Statement]
        /\ w[ManifestSig] = job.dist[ManifestSig]
    BY <1>1, NamesDiffer DEF Written
  <1>4. PayloadOf(w) = PayloadOf(job.dist)
    BY <1>1, NamesDiffer, PayloadKept
  <1>5. /\ ValidTag(remote, TRUE) /\ job.commit = remote.commit /\ job.commit # NoCommit
        /\ Coherent(job.dist, Ours, remote.commit)
    BY <1>1 DEF JobOK, At, Running, Attesting
  <1> HIDE DEF w
  <1>6. Coherent(w, Ours, remote.commit)
    BY <1>1, <1>3, <1>4, <1>5, NamesDiffer DEF Coherent, c
  <1>7. UNCHANGED <<remote, setup, index>>
    BY DEF SignStatement, KeepRest
  <1>8. Coherent(job'.dist, Ours, remote'.commit)
    BY <1>2, <1>6, <1>7
  <1>9. CASE "sigstore" \in setup.signs
    BY <1>1, <1>2, <1>3, <1>5, <1>7, <1>8, <1>9 DEF JobOK, At, Running, Attesting, AfterSignatures, Signatures
  <1>10. CASE "sigstore" \notin setup.signs
    <2>1. DOMAIN w = Complete /\ Complete' = Complete
      BY <1>1, <1>3, <1>7, <1>10 DEF Complete, Signatures
    <2>2. Bundle \notin DOMAIN w
      BY <1>3, NamesDiffer
    <2> QED
      BY <1>2, <1>5, <1>7, <1>8, <1>10, <2>1, <2>2 DEF JobOK, At, Running, Attesting, AfterSignatures, Indexed
  <1> QED
    BY <1>9, <1>10

LEMMA BundleWritten ==
  ASSUME JobOK, WriteBundle
  PROVE  JobOK'
  <1> DEFINE c == BundleOf(Trimmed(job.dist[Statement]), Ours)
             w == Written(job.dist, Bundle, c)
  <1>1. /\ At("bundle") /\ "sigstore" \in setup.signs
        /\ DOMAIN job.dist = Payload \union {Manifest, Statement} \union Signatures
    BY DEF WriteBundle, JobOK
  <1>2. /\ DOMAIN job' = {"pc", "attempt", "commit", "dist"}
        /\ job'.pc = "store" /\ job'.commit = job.commit /\ job'.dist = w
    BY WritesIs DEF WriteBundle
  <1> HIDE DEF c
  <1>3. /\ DOMAIN w = DOMAIN job.dist \union {Bundle}
        /\ w[Bundle] = c
        /\ \A n \in DOMAIN job.dist \ {Bundle} : w[n] = job.dist[n]
    BY DEF Written
  <1>4. PayloadOf(w) = PayloadOf(job.dist)
    BY <1>1, NamesDiffer, PayloadKept
  <1>5. /\ ValidTag(remote, TRUE) /\ job.commit = remote.commit /\ job.commit # NoCommit
        /\ Coherent(job.dist, Ours, remote.commit)
    BY <1>1 DEF JobOK, At, Running, Attesting
  <1> HIDE DEF w
  <1>6. Coherent(w, Ours, remote.commit)
    BY <1>1, <1>3, <1>4, <1>5, NamesDiffer DEF Coherent, c, Signatures
  <1>7. UNCHANGED <<remote, setup, index>>
    BY DEF WriteBundle, KeepRest
  <1>8. Coherent(job'.dist, Ours, remote'.commit)
    BY <1>2, <1>6, <1>7
  <1>9. DOMAIN w = Complete
    BY <1>1, <1>3 DEF Complete
  <1> QED
    BY <1>1, <1>2, <1>5, <1>7, <1>8, <1>9 DEF JobOK, At, Running, Attesting, Complete, Signatures

(***************************************************************************)
(* A step of the job.                                                      *)
(***************************************************************************)
LEMMA JobStepInv ==
  ASSUME DeliveryInv, RunJob
  PROVE  DeliveryInv'
  <1>1. setup \in Setups /\ JobOK /\ BroughtOK /\ ForeignOK /\ ReleaseOK /\ RecOK
    BY DEF DeliveryInv
  <1>2. rec' = rec
    BY DEF RunJob
  <1>3. DOMAIN job = {"pc", "attempt", "commit", "dist"}
    BY <1>1 DEF JobOK
  <1>4. ASSUME KeepRest, JobOK'
        PROVE  DeliveryInv'
    BY <1>1, <1>2, <1>4, RecKept, BroughtKept, ReleaseKept, ForeignKept DEF DeliveryInv, KeepRest
  <1>4a. ASSUME KeepRest, JobTo("ended")
         PROVE  DeliveryInv'
    <2>1. JobOK'
      BY <1>1, <1>3, <1>4a DEF JobOK, JobTo, At, Running, Attesting, KeepRest
    <2> QED
      BY <1>4, <1>4a, <2>1
  <1>5. CASE StartAttempt
    <2>1. KeepRest /\ job' = [pc |-> "tag", attempt |-> job.attempt + 1, commit |-> NoCommit, dist |-> NoFiles]
      BY <1>5 DEF StartAttempt
    <2>2. JobOK'
      BY <2>1 DEF JobOK, At, Running, Attesting
    <2> QED
      BY <1>4, <2>1, <2>2
  <1>6. CASE VerifyPushedTag
    <2>1. KeepRest /\ DOMAIN job' = {"pc", "attempt", "commit", "dist"}
      BY <1>3, <1>6 DEF VerifyPushedTag, JobTo
    <2>2. /\ job'.pc = "build"
          /\ \/ job'.commit = remote.commit /\ ValidTag(remote, TRUE)
             \/ job'.commit = job.commit
      BY <1>3, <1>6 DEF VerifyPushedTag
    <2>3. JobOK'
      BY <1>1, <2>1, <2>2 DEF JobOK, At, Running, Attesting, KeepRest
    <2> QED
      BY <1>4, <2>1, <2>3
  <1>7. CASE Build
    <2>1. PICK o \in Outcomes :
            job' = [job EXCEPT !.pc = "manifest",
                               !.dist = [n \in Payload |-> ArchiveOf(n, remote.commit, o)]]
      BY <1>7 DEF Build
    <2>2. KeepRest /\ At("build")
      BY <1>7 DEF Build
    <2>3. /\ DOMAIN job' = {"pc", "attempt", "commit", "dist"} /\ job'.pc = "manifest"
          /\ job'.commit = job.commit /\ DOMAIN job'.dist = Payload
      BY <1>3, <2>1
    <2>4. job.commit # NoCommit => job.commit = remote.commit /\ ValidTag(remote, TRUE)
      BY <1>1, <2>2 DEF JobOK, At, Running, Attesting
    <2>5. Coherent(job'.dist, Ours, remote'.commit)
      BY <2>3, NamesDiffer DEF Coherent
    <2>6. JobOK'
      BY <2>2, <2>3, <2>4, <2>5 DEF JobOK, At, Running, Attesting, KeepRest
    <2> QED
      BY <1>4, <2>2, <2>6
  <1>7a. CASE RefuseVersion
    BY <1>4a, <1>7a DEF RefuseVersion
  <1>8. CASE WriteManifest
    BY <1>1, <1>4, <1>8, ManifestWritten DEF WriteManifest
  <1>9. CASE WriteProvenance
    <2>1. CASE job.commit = NoCommit
      BY <1>4a, <1>9, <2>1 DEF WriteProvenance
    <2>2. CASE job.commit # NoCommit
      BY <1>1, <1>4, <1>9, <2>2, ProvenanceWritten DEF WriteProvenance
    <2> QED
      BY <2>1, <2>2
  <1>10. CASE SignManifest
    BY <1>1, <1>4, <1>10, ManifestSigWritten DEF SignManifest
  <1>11. CASE SignStatement
    BY <1>1, <1>4, <1>11, StatementSigWritten DEF SignStatement
  <1>12. CASE WriteBundle
    BY <1>1, <1>4, <1>12, BundleWritten DEF WriteBundle
  <1>13. CASE StoreAttestation
    <2>1. At("store") /\ UNCHANGED <<remote, setup, brought, release>> /\ index \subseteq index'
      BY <1>13 DEF StoreAttestation
    <2>2. /\ DOMAIN job' = {"pc", "attempt", "commit", "dist"}
          /\ job'.commit = job.commit /\ job'.dist = job.dist
      BY <1>3, <1>13 DEF StoreAttestation, JobTo
    <2>3. \/ job'.pc = "ended"
          \/ job'.pc = "publish" /\ job.dist[Bundle].payload \in index'
      BY <1>3, <1>13 DEF StoreAttestation, JobTo
    <2>4. /\ DOMAIN job.dist = Complete /\ ValidTag(remote, TRUE) /\ job.commit = remote.commit
          /\ job.commit # NoCommit /\ Coherent(job.dist, Ours, remote.commit)
      BY <1>1, <2>1 DEF JobOK, At, Running, Attesting
    <2>5. Complete' = Complete
      BY <2>1 DEF Complete, Signatures
    <2>6. JobOK'
      BY <2>1, <2>2, <2>3, <2>4, <2>5 DEF JobOK, At, Running, Attesting, Indexed
    <2> QED
      BY <1>1, <1>2, <2>1, <2>6, RecKept, BroughtKept, ReleaseKept, ForeignKept DEF DeliveryInv
  <1>14. CASE Reveal
    <2>1. At("publish") /\ UNCHANGED <<remote, setup, job, index>> /\ release' = job.dist
          /\ brought' = brought \union {job.dist}
      BY <1>14 DEF Reveal
    <2>2. BroughtOK'
      BY <1>1, <2>1, BroughtMore
    <2>3. ReleaseOK'
      BY <2>1 DEF ReleaseOK
    <2>4. JobOK'
      BY <1>1, <2>1 DEF JobOK, At, Running, Attesting, Complete, Signatures, Indexed
    <2> QED
      BY <1>1, <1>2, <2>1, <2>2, <2>3, <2>4, RecKept, ForeignKept DEF DeliveryInv
  <1>15. CASE Conclude
    <2>1. /\ At("publish") /\ UNCHANGED <<remote, setup, release, index>>
          /\ brought' = brought \union {job.dist} /\ JobTo("ended")
      BY <1>15 DEF Conclude
    <2>2. JobOK'
      BY <1>1, <1>3, <2>1 DEF JobOK, JobTo, At, Running, Attesting
    <2> QED
      BY <1>1, <1>2, <2>1, <2>2, RecKept, BroughtMore, ReleaseKept, ForeignKept DEF DeliveryInv
  <1>16. CASE JobFails
    <2>1. /\ UNCHANGED <<remote, setup, release, index>>
          /\ JobTo("ended") \/ (At("tag") /\ JobTo("build"))
      BY <1>16 DEF JobFails
    <2>2. JobOK'
      BY <1>1, <1>3, <2>1 DEF JobOK, JobTo, At, Running, Attesting
    <2>3. /\ At("publish") => brought' = brought \union {job.dist}
          /\ ~At("publish") => brought' = brought
      BY <1>16 DEF JobFails
    <2>4. BroughtOK' /\ brought \subseteq brought'
      BY <1>1, <2>1, <2>3, BroughtKept, BroughtMore
    <2> QED
      BY <1>1, <1>2, <2>1, <2>2, <2>4, RecKept, ReleaseKept, ForeignKept DEF DeliveryInv
  <1> QED
    BY <1>5, <1>6, <1>7, <1>8, <1>9, <1>10, <1>11, <1>12, <1>13, <1>14, <1>15, <1>16, <1>7a
    DEF RunJob, JobStep, JobProgress

LEMMA EditInv ==
  ASSUME DeliveryInv, Edit
  PROVE  DeliveryInv'
  <1>1. setup \in Setups /\ JobOK /\ BroughtOK /\ ForeignOK /\ ReleaseOK /\ RecOK
    BY DEF DeliveryInv
  <1>2. UNCHANGED <<remote, setup, job, brought, index, rec>> /\ release # Nothing
    BY DEF Edit
  <1>3. JobOK'
    BY <1>1, <1>2 DEF JobOK, At, Running, Attesting, Complete, Signatures, Indexed
  <1>4. ReleaseOK'
    <2>1. CASE \E d \in brought \union Foreign : \E N \in SUBSET (DOMAIN d \intersect Complete) :
                 release' = [n \in DOMAIN release \union N |-> IF n \in N THEN d[n] ELSE release[n]]
      BY <1>1, <1>2, <2>1 DEF ReleaseOK
    <2>2. CASE \E n \in DOMAIN release : release' = [release EXCEPT ![n] = Corrupt]
      BY <1>1, <1>2, <2>2 DEF ReleaseOK
    <2>3. CASE \E n \in DOMAIN release : release' = [m \in DOMAIN release \ {n} |-> release[m]]
      BY <1>1, <1>2, <2>3 DEF ReleaseOK
    <2> QED
      BY <2>1, <2>2, <2>3 DEF Edit
  <1> QED
    BY <1>1, <1>2, <1>3, <1>4, RecKept, BroughtKept, ForeignKept DEF DeliveryInv

(***************************************************************************)
(* A step of verify.                                                       *)
(***************************************************************************)
Fields == {"pc", "listed", "got", "entries", "todo", "statement", "reproduce"}

LEMMA RecToIs ==
  ASSUME RecOK, NEW pc, RecTo(pc)
  PROVE  /\ DOMAIN rec' = Fields /\ rec'.pc = pc
         /\ rec'.listed = rec.listed /\ rec'.got = rec.got /\ rec'.entries = rec.entries
         /\ rec'.todo = rec.todo /\ rec'.statement = rec.statement
         /\ rec'.reproduce = rec.reproduce
  BY DEF RecOK, RecTo, Fields

\* Where nothing new is relied upon: the places before the manifest and the ends that
\* are not an acceptance.
LEMMA RecToEnd ==
  ASSUME RecOK, NEW pc \in {"rejected", "failed"}, RecTo(pc), brought' = brought
  PROVE  RecOK'
  <1>1. pc \notin Reading /\ pc \notin Comparing /\ pc \notin Judging
    BY DEF Reading, Comparing, Judging
  <1>2. StatementOK'
    BY <1>1, RecToIs DEF RecOK, StatementOK, OfJob
  <1> QED
    BY <1>1, <1>2, RecToIs DEF RecOK, Fields

\* A file beside the archives is downloaded.
LEMMA FetchedIs ==
  ASSUME RecOK, NEW n, n \notin Payload, rec.pc \in Reading,
         rec'.got = Written(rec.got, n, release[n]),
         rec'.entries = rec.entries, rec'.todo = rec.todo
  PROVE  /\ DOMAIN rec.entries = Payload
         /\ DOMAIN rec'.entries \ rec'.todo \subseteq DOMAIN rec'.got
         /\ rec.pc \in Comparing =>
              \A m \in DOMAIN rec'.entries : m \in DOMAIN rec'.got /\ rec'.got[m] = rec'.entries[m]
  <1>1. DOMAIN rec.entries = Payload
    BY DEF RecOK, PayloadOf
  <1>2. /\ DOMAIN rec'.got = DOMAIN rec.got \union {n}
        /\ \A m \in DOMAIN rec.got \ {n} : rec'.got[m] = rec.got[m]
    BY DEF Written
  <1>3. DOMAIN rec'.entries \ rec'.todo \subseteq DOMAIN rec'.got
    BY <1>2 DEF RecOK
  <1>4. ASSUME rec.pc \in Comparing, NEW m \in DOMAIN rec.entries
        PROVE  m \in DOMAIN rec'.got /\ rec'.got[m] = rec.entries[m]
    BY <1>1, <1>2, <1>4 DEF RecOK
  <1> QED
    BY <1>1, <1>3, <1>4

\* Going on to another place at which the assets have been compared.
LEMMA GoOnComparing ==
  ASSUME DeliveryInv, rec.pc \in Comparing, rec'.pc \in Comparing, KeepOthers,
         DOMAIN rec' = Fields, rec'.entries = rec.entries, rec'.todo = rec.todo,
         \/ rec'.got = rec.got
         \/ \E n : n \notin Payload /\ rec'.got = Written(rec.got, n, release[n]),
         StatementOK'
  PROVE  RecOK'
  <1>1. RecOK /\ rec.pc \in Reading /\ rec'.pc \in Reading
    BY DEF DeliveryInv, Reading
  <1>2. rec'.pc \in Verifying \union {"idle", "accepted", "rejected", "failed"}
    BY DEF Comparing, Judging, Verifying
  <1>3. /\ DOMAIN rec'.entries \ rec'.todo \subseteq DOMAIN rec'.got
        /\ \A m \in DOMAIN rec'.entries : m \in DOMAIN rec'.got /\ rec'.got[m] = rec'.entries[m]
    <2>1. CASE rec'.got = rec.got
      BY <1>1, <2>1 DEF RecOK
    <2>2. CASE \E n : n \notin Payload /\ rec'.got = Written(rec.got, n, release[n])
      BY <1>1, <2>2, FetchedIs
    <2> QED
      BY <2>1, <2>2
  <1>4. (\E d \in brought \union Foreign : rec.entries = PayloadOf(d)) /\ rec.todo \subseteq DOMAIN rec.entries
    BY <1>1 DEF RecOK
  <1>5. (\E d \in brought' \union Foreign : rec'.entries = PayloadOf(d)) /\ rec'.todo \subseteq DOMAIN rec'.entries
    BY <1>4 DEF KeepOthers
  <1> QED
    BY <1>2, <1>3, <1>5 DEF RecOK, Fields

\* A statement that is not touched, at a place where nothing more is known of it.
LEMMA StatementKept ==
  ASSUME RecOK, KeepOthers, rec'.statement = rec.statement,
         rec'.pc \notin {"statement-sig", "reproduce", "accepted"},
         rec'.pc \in Judging => rec.pc \in Judging \/ "sigstore" \notin setup.requires
  PROVE  StatementOK'
  BY DEF RecOK, StatementOK, OfJob, KeepOthers

LEMMA VerifyStepRec ==
  ASSUME DeliveryInv, VerifyStep
  PROVE  RecOK'
  <1>1. setup \in Setups /\ BroughtOK /\ ReleaseOK /\ RecOK
    BY DEF DeliveryInv
  <1>2. DOMAIN rec = Fields /\ StatementOK
    BY <1>1 DEF RecOK, Fields
  <1>3. ASSUME Reject
        PROVE  RecOK'
    <2>1. brought' = brought
      BY DEF VerifyStep, VerifyProgress, KeepOthers, StartVerify, ListRelease, FetchManifest,
             FetchAsset, CheckAssets, CheckManifestSig, FetchStatement, CheckStatementSig,
             CheckBundle, CheckContents, Reproduce, VerifyFails
    <2> QED
      BY <1>1, <1>3, <2>1, RecToEnd DEF Reject
  <1>4. CASE StartVerify
    <2>1. PICK r \in BOOLEAN : rec' = [rec EXCEPT !.pc = "list", !.reproduce = r]
      BY <1>4 DEF StartVerify
    <2>2. /\ DOMAIN rec' = Fields /\ rec'.pc = "list" /\ rec'.statement = rec.statement
          /\ rec'.todo = rec.todo /\ rec'.entries = rec.entries
      BY <1>2, <2>1 DEF Fields
    <2>3. StatementOK'
      BY <1>1, <1>4, <2>2, StatementKept DEF StartVerify, Judging
    <2> QED
      BY <1>1, <2>2, <2>3 DEF RecOK, Fields, Reading, Comparing, Judging, Verifying
  <1>5. CASE ListRelease /\ release # Nothing
    <2>1. /\ DOMAIN rec' = Fields /\ rec'.pc = "manifest" /\ rec'.statement = rec.statement
          /\ rec'.todo = rec.todo /\ rec'.entries = rec.entries
      BY <1>2, <1>5 DEF ListRelease, Fields
    <2>2. StatementOK'
      BY <1>1, <1>5, <2>1, StatementKept DEF ListRelease, Judging
    <2> QED
      BY <1>1, <2>1, <2>2 DEF RecOK, Fields, Reading, Comparing, Judging, Verifying
  <1>6. CASE FetchManifest /\ ~Reject
    <2> DEFINE e == release[Manifest].entries
    <2>1. /\ Serves(Manifest) /\ release[Manifest].kind = "manifest" /\ KeepOthers
          /\ rec' = [With(Manifest, "assets") EXCEPT !.entries = e, !.todo = DOMAIN e]
      BY <1>6 DEF FetchManifest
    <2>2. PICK d \in brought \union Foreign : Manifest \in DOMAIN d /\ release[Manifest] = d[Manifest]
      <3>1. release # Nothing /\ Manifest \in DOMAIN release /\ release[Manifest] # Corrupt
        BY <2>1 DEF Serves, Corrupt
      <3> QED
        BY <1>1, <3>1 DEF ReleaseOK
    <2>3. release[Manifest] = ManifestOf(PayloadOf(d))
      BY <1>1, <2>2, SetsAgree
    <2>4. e = PayloadOf(d)
      BY <2>3 DEF ManifestOf
    <2> HIDE DEF e
    <2>5. /\ DOMAIN rec' = Fields /\ rec'.pc = "assets" /\ rec'.statement = rec.statement
          /\ rec'.entries = e /\ rec'.todo = DOMAIN e
      BY <1>2, <2>1 DEF With, Fields
    <2>6. brought' = brought
      BY <2>1 DEF KeepOthers
    <2>7. StatementOK'
      BY <1>1, <2>1, <2>5, StatementKept DEF Judging
    <2> QED
      BY <2>4, <2>5, <2>6, <2>7 DEF RecOK, Fields, Comparing, Judging, Verifying
  <1>7. CASE FetchAsset /\ ~Reject
    <2>1. PICK n \in rec.todo : rec' = [With(n, "assets") EXCEPT !.todo = @ \ {n}]
      BY <1>7 DEF FetchAsset
    <2>2. /\ DOMAIN rec' = Fields /\ rec'.pc = "assets" /\ rec'.entries = rec.entries
          /\ rec'.todo = rec.todo \ {n} /\ rec'.got = Written(rec.got, n, release[n])
          /\ rec'.statement = rec.statement
      BY <1>2, <2>1 DEF With, Fields
    <2>3. DOMAIN rec'.got = DOMAIN rec.got \union {n}
      BY <2>2 DEF Written
    <2>4. rec.pc = "assets" /\ brought' = brought
      BY <1>7 DEF FetchAsset, KeepOthers
    <2>5. StatementOK'
      BY <1>1, <1>7, <2>2, StatementKept DEF FetchAsset, Judging
    <2> QED
      BY <1>1, <2>2, <2>3, <2>4, <2>5 DEF RecOK, Fields, Reading, Comparing, Judging, Verifying
  <1>8. CASE CheckAssets /\ ~Reject
    <2>1. /\ rec.pc = "assets" /\ rec.todo = {} /\ RecTo(AfterAssets) /\ KeepOthers
          /\ \A n \in DOMAIN rec.entries : rec.got[n] = rec.entries[n]
      BY <1>8 DEF CheckAssets, AssetOK
    <2>2. /\ AfterAssets \in Comparing /\ (AfterAssets \in Judging => "sigstore" \notin setup.requires)
          /\ AfterAssets \notin {"statement-sig", "reproduce", "accepted"}
      BY DEF AfterAssets, AfterSig, Comparing, Judging
    <2>3. /\ DOMAIN rec' = Fields /\ rec'.pc = AfterAssets
          /\ rec'.entries = rec.entries /\ rec'.todo = rec.todo /\ rec'.got = rec.got
          /\ rec'.statement = rec.statement
      BY <1>1, <2>1, RecToIs
    <2>4. AfterAssets \in Verifying
      BY DEF AfterAssets, AfterSig, Verifying
    <2>5. setup' = setup /\ brought' = brought
      BY <2>1 DEF KeepOthers
    <2> HIDE DEF AfterAssets
    <2>6. StatementOK'
      BY <1>1, <2>1, <2>2, <2>3, StatementKept
    <2> QED
      BY <1>1, <2>1, <2>2, <2>3, <2>4, <2>5, <2>6 DEF RecOK, Fields, Reading
  <1>9. ASSUME rec.pc \in Comparing, RecTo(AfterSig), KeepOthers
        PROVE  RecOK'
    <2>1. /\ AfterSig \in Comparing /\ (AfterSig \in Judging => "sigstore" \notin setup.requires)
          /\ AfterSig \notin {"statement-sig", "reproduce", "accepted"}
      BY DEF AfterSig, Comparing, Judging
    <2>2. StatementOK'
      BY <1>1, <1>9, <2>1, RecToIs, StatementKept
    <2> QED
      BY <1>1, <1>9, <2>1, <2>2, RecToIs, GoOnComparing
  <1>10. CASE CheckManifestSig /\ ~Reject
    <2>1. rec.pc = "sig" /\ rec' = With(ManifestSig, "statement") /\ KeepOthers
      BY <1>10 DEF CheckManifestSig
    <2>2. /\ DOMAIN rec' = Fields /\ rec'.pc = "statement" /\ rec'.entries = rec.entries
          /\ rec'.statement = rec.statement
          /\ rec'.todo = rec.todo /\ rec'.got = Written(rec.got, ManifestSig, release[ManifestSig])
      BY <1>2, <2>1 DEF With, Fields
    <2>3. rec.pc \in Comparing /\ rec'.pc \in Comparing /\ rec'.pc \notin Judging
      BY <2>1, <2>2 DEF Comparing, Judging
    <2>4. StatementOK'
      BY <1>1, <2>1, <2>2, <2>3, StatementKept
    <2> QED
      BY <2>1, <2>2, <2>3, <2>4, NamesDiffer, GoOnComparing
  <1>11. CASE FetchStatement /\ ~Reject
    <2>1. rec.pc = "statement" /\ KeepOthers /\ rec.pc \in Comparing
      BY <1>11 DEF FetchStatement, Comparing
    <2>2. CASE RecTo(AfterSig)
      BY <1>9, <2>1, <2>2
    <2>3. CASE Serves(Statement) /\ rec' = With(Statement, "statement-sig")
      <3>1. /\ DOMAIN rec' = Fields /\ rec'.pc = "statement-sig" /\ rec'.entries = rec.entries
            /\ rec'.statement = rec.statement
            /\ rec'.todo = rec.todo /\ rec'.got = Written(rec.got, Statement, release[Statement])
        BY <1>2, <2>3 DEF With, Fields
      <3>2. rec'.pc \in Comparing /\ rec'.pc \notin Judging
        BY <3>1 DEF Comparing, Judging
      <3>3. rec'.got[Statement] = Corrupt \/ OfJob(rec'.got[Statement])
        <4>1. rec'.got[Statement] = release[Statement]
          BY <3>1 DEF Written
        <4> QED
          BY <1>1, <2>3, <4>1 DEF ReleaseOK, Serves, OfJob
      <3>4. StatementOK'
        BY <1>2, <2>1, <3>1, <3>2, <3>3 DEF StatementOK, OfJob, KeepOthers
      <3> QED
        BY <2>1, <3>1, <3>2, <3>4, NamesDiffer, GoOnComparing
    <2> QED
      BY <1>11, <2>2, <2>3 DEF FetchStatement
  <1>12. CASE CheckStatementSig /\ ~Reject
    <2>1. /\ rec.pc = "statement-sig" /\ KeepOthers /\ rec.got[Statement].kind = "statement"
          /\ rec' = [With(StatementSig, AfterSig) EXCEPT !.statement = rec.got[Statement]]
      BY <1>12 DEF CheckStatementSig
    <2>2. /\ DOMAIN rec' = Fields /\ rec'.pc = AfterSig /\ rec'.entries = rec.entries
          /\ rec'.todo = rec.todo /\ rec'.got = Written(rec.got, StatementSig, release[StatementSig])
          /\ rec'.statement = rec.got[Statement]
      BY <1>2, <2>1 DEF With, Fields
    <2>3. /\ AfterSig \in Comparing /\ (AfterSig \in Judging => "sigstore" \notin setup.requires)
          /\ AfterSig \notin {"statement-sig", "reproduce", "accepted"}
      BY DEF AfterSig, Comparing, Judging
    <2>4. rec.pc \in Comparing
      BY <2>1 DEF Comparing
    <2>5. OfJob(rec.got[Statement])
      BY <1>2, <2>1 DEF StatementOK, Corrupt
    <2>6. StatementOK'
      BY <2>1, <2>2, <2>3, <2>5 DEF StatementOK, OfJob, KeepOthers
    <2> QED
      BY <2>1, <2>2, <2>3, <2>4, <2>6, NamesDiffer, GoOnComparing
  <1>13. CASE CheckBundle /\ ~Reject
    <2> DEFINE p == release[Bundle].payload
    <2>1. /\ rec.pc = "bundle" /\ KeepOthers /\ Serves(Bundle) /\ release[Bundle].kind = "bundle"
          /\ rec' = [With(Bundle, "contents") EXCEPT !.statement = p]
      BY <1>13 DEF CheckBundle
    <2>2. p \in index /\ OfJob(p)
      <3>1. release # Nothing /\ Bundle \in DOMAIN release /\ release[Bundle] # Corrupt
        BY <2>1 DEF Serves, Corrupt
      <3>2. PICK d \in brought \union Foreign : Bundle \in DOMAIN d /\ release[Bundle] = d[Bundle]
        BY <1>1, <3>1 DEF ReleaseOK
      <3>3. Indexed(d)
        BY <1>1, <3>2 DEF BroughtOK, ForeignOK, DeliveryInv
      <3>4. p = Trimmed(d[Statement])
        BY <1>1, <3>2, SetsAgree
      <3> QED
        BY <3>2, <3>3, <3>4 DEF Indexed, OfJob
    <2>3. /\ DOMAIN rec' = Fields /\ rec'.pc = "contents" /\ rec'.entries = rec.entries
          /\ rec'.todo = rec.todo /\ rec'.got = Written(rec.got, Bundle, release[Bundle])
          /\ rec'.statement = p
      BY <1>2, <2>1 DEF With, Fields
    <2>4. rec.pc \in Comparing /\ rec'.pc \in Comparing
      BY <2>1, <2>3 DEF Comparing, Judging
    <2> HIDE DEF p
    <2>5. StatementOK'
      BY <2>1, <2>2, <2>3 DEF StatementOK, OfJob, KeepOthers
    <2> QED
      BY <2>1, <2>2, <2>3, <2>4, <2>5, NamesDiffer, GoOnComparing
  <1>14. ASSUME rec.pc \in Judging, NEW pc \in {"reproduce", "accepted"}, RecTo(pc), KeepOthers,
                rec.statement = NoFile \/ Fits(rec.statement)
         PROVE  RecOK'
    <2>1. rec.pc \in Comparing /\ pc \in Comparing /\ pc \in Judging
      BY <1>14 DEF Comparing, Judging
    <2>2. "sigstore" \in setup.requires => rec.statement \in index
      BY <1>2, <1>14 DEF StatementOK
    <2>3. /\ DOMAIN rec' = Fields /\ rec'.pc = pc /\ rec'.entries = rec.entries
          /\ rec'.got = rec.got /\ rec'.todo = rec.todo /\ rec'.statement = rec.statement
      BY <1>1, <1>14, RecToIs
    <2>4. StatementOK'
      BY <1>2, <1>14, <2>2, <2>3 DEF StatementOK, OfJob, Fits, KeepOthers
    <2> QED
      BY <1>14, <2>1, <2>3, <2>4, GoOnComparing
  <1>15. CASE (CheckContents \/ Reproduce) /\ ~Reject
    <2>1. /\ rec.pc \in Judging /\ KeepOthers
          /\ RecTo("reproduce") \/ RecTo("accepted")
      BY <1>15 DEF CheckContents, Reproduce, Finish, Judging
    <2>2. rec.statement = NoFile \/ Fits(rec.statement)
      BY <1>2, <1>15 DEF CheckContents, Reproduce, StatementOK, Fits
    <2> QED
      BY <1>14, <2>1, <2>2
  <1>16. CASE VerifyFails
    BY <1>1, <1>16, RecToEnd DEF VerifyFails
  <1> QED
    BY <1>3, <1>4, <1>5, <1>6, <1>7, <1>8, <1>10, <1>11, <1>12, <1>13, <1>15, <1>16
    DEF VerifyStep, VerifyProgress, ListRelease

LEMMA VerifyStepInv ==
  ASSUME DeliveryInv, VerifyStep
  PROVE  DeliveryInv'
  <1>1. setup \in Setups /\ JobOK /\ BroughtOK /\ ForeignOK /\ ReleaseOK
    BY DEF DeliveryInv
  <1>2. UNCHANGED <<remote, setup, job, brought, release, index>>
    BY DEF VerifyStep, VerifyProgress, KeepOthers, StartVerify, ListRelease, FetchManifest,
           FetchAsset, CheckAssets, CheckManifestSig, FetchStatement, CheckStatementSig,
           CheckBundle, CheckContents, Reproduce, VerifyFails
  <1>3. JobOK'
    BY <1>1, <1>2 DEF JobOK, At, Running, Attesting, Complete, Signatures, Indexed
  <1> QED
    BY <1>1, <1>2, <1>3, VerifyStepRec, BroughtKept, ReleaseKept, ForeignKept DEF DeliveryInv

(***************************************************************************)
(* The theorems.                                                           *)
(***************************************************************************)
LEMMA InitInv == Init => DeliveryInv
  BY SetupsAssumption
  DEF StatementOK, ForeignOK, Indexed, Attesting, Init, JobInit, RecInit, NoRecord, NoFiles, DeliveryInv, JobOK, BroughtOK, ReleaseOK, RecOK,
      At, Running, Reading, Comparing, Judging, Verifying

LEMMA StepInv == DeliveryInv /\ [Next]_vars => DeliveryInv'
  <1> SUFFICES ASSUME DeliveryInv, [Next]_vars
               PROVE  DeliveryInv'
    OBVIOUS
  <1>1. CASE RunJob
    BY <1>1, JobStepInv
  <1>2. CASE Verify
    BY <1>2, VerifyStepInv DEF Verify
  <1>3. CASE Edit
    BY <1>3, EditInv
  <1>4. CASE UNCHANGED vars
    <2>1. JobOK'
      BY <1>4 DEF vars, DeliveryInv, JobOK, At, Running, Attesting, Complete, Signatures, Indexed
    <2> QED
      BY <1>4, <2>1, RecKept, BroughtKept, ReleaseKept, ForeignKept DEF vars, DeliveryInv
  <1> QED
    BY <1>1, <1>2, <1>3, <1>4 DEF Next

\* Every file there is in the directory of the job, in the release and at the
\* recipient is accounted for, at every place of the job and of verify.
THEOREM Accounted == Spec => []DeliveryInv
  BY InitInv, StepInv, PTL DEF Spec

\* What was downloaded is what the manifest lists, and a manifest lists the archives of
\* one set of files.
LEMMA AcceptedAre ==
  ASSUME DeliveryInv, rec.pc = "accepted"
  PROVE  Accepted = rec.entries /\ \E d \in brought \union Foreign : Accepted = PayloadOf(d)
  <1>1. rec.pc \in Reading /\ rec.pc \in Comparing
    BY DEF Reading, Comparing, Judging
  <1>2. PICK d \in brought \union Foreign : rec.entries = PayloadOf(d)
    BY <1>1 DEF DeliveryInv, RecOK
  <1>3. \A n \in DOMAIN rec.entries : rec.got[n] = rec.entries[n]
    BY <1>1 DEF DeliveryInv, RecOK
  <1>4. Accepted = PayloadOf(d)
    BY <1>2, <1>3 DEF Accepted, PayloadOf
  <1> QED
    BY <1>2, <1>4

\* An accepted release is the archives of one build of one job, of this tag or another,
\* whatever was put in place of what during the downloads.
THEOREM AcceptedFromOneBuildHolds == Spec => []AcceptedFromOneBuild
  <1>1. DeliveryInv => AcceptedFromOneBuild
    BY AcceptedAre DEF AcceptedFromOneBuild
  <1> QED
    BY <1>1, Accounted, PTL

\* Where a statement was compared, they are archives of an attempt of this job, and the
\* tag is on the release branch: if the policy names the source, or nobody else
\* releases under that tag.
THEOREM AcceptedIsOfTagHolds == Spec => []AcceptedIsOfTag
  <1>1. DeliveryInv => AcceptedIsOfTag
    <2> SUFFICES ASSUME DeliveryInv, rec.pc = "accepted", rec.statement # NoFile,
                        \/ setup.source
                        \/ \A o \in Others : o.origin.type \in KnownTypes => o.origin.tag # Ours.tag
                 PROVE  (\E d \in brought : Accepted = PayloadOf(d)) /\ ValidTag(remote, TRUE)
      BY DEF AcceptedIsOfTag
    <2>1. BroughtOK /\ Fits(rec.statement) /\ OfJob(rec.statement)
      BY DEF DeliveryInv, RecOK, StatementOK
    <2>2. PICK d \in brought \union Foreign :
            rec.statement = d[Statement] \/ rec.statement = Trimmed(d[Statement])
      BY <2>1 DEF OfJob
    <2>3. d \notin Foreign
      <3> SUFFICES ASSUME d \in Foreign
                   PROVE  FALSE
        OBVIOUS
      <3>1. PICK o \in Others : d = FilesOf(o)
        BY DEF Foreign
      <3>2. rec.statement.origin = o.origin
        BY <2>2, <3>1, ForeignIs, StatementIs
      <3> QED
        BY <2>1, <3>2, OriginsAssumption DEF Fits
    <2>4. rec.statement.subjects = PayloadOf(d)
      BY <2>1, <2>2, SetsAgree
    <2>5. Accepted = PayloadOf(d)
      BY <2>1, <2>4, AcceptedAre DEF Fits
    <2> QED
      BY <2>1, <2>3, <2>5 DEF BroughtOK
  <1> QED
    BY <1>1, Accounted, PTL

\* Whoever accepts a release by its bundle finds its statement in the attestation
\* index, whatever became of the answers to the POST that stored it.
THEOREM AcceptedIsAttestedHolds == Spec => []AcceptedIsAttested
  <1>1. DeliveryInv => AcceptedIsAttested
    BY DEF DeliveryInv, RecOK, StatementOK, AcceptedIsAttested, Judging
  <1> QED
    BY <1>1, Accounted, PTL
-----------------------------------------------------------------------------
(***************************************************************************)
(* A release that nobody touches is accepted, for any archives, attempts   *)
(* and faults, where the policy requires one mechanism that the job signs  *)
(* with.                                                                   *)
(***************************************************************************)
\* The release of an attempt holds everything, and all of it is about each other.
LEMMA WholeRelease ==
  ASSUME DeliveryInv, UntouchedInv, edits = 0, release # Nothing
  PROVE  /\ DOMAIN release = Complete /\ Payload \subseteq DOMAIN release
         /\ Coherent(release, Ours, remote.commit)
         /\ release[Manifest] = ManifestOf(PayloadOf(release))
  <1>1. release \in brought
    BY DEF UntouchedInv
  <1>2. DOMAIN release = Complete /\ Coherent(release, Ours, remote.commit)
    BY <1>1 DEF DeliveryInv, BroughtOK
  <1> QED
    BY <1>2 DEF Complete, Coherent

LEMMA JobUntouched ==
  ASSUME DeliveryInv, UntouchedInv, RunJob
  PROVE  UntouchedInv'
  <1>1. rec' = rec /\ edits' = edits /\ remote' = remote /\ setup' = setup
    BY DEF RunJob, JobStep, JobProgress, KeepRest, StartAttempt, VerifyPushedTag, Build, RefuseVersion,
           WriteManifest, WriteProvenance, SignManifest, SignStatement, WriteBundle,
           StoreAttestation, Reveal, Conclude, JobFails
  <1>2. CASE Reveal
    <2>1. release = Nothing /\ release' \in brought'
      BY <1>2 DEF Reveal
    <2>2. edits = 0 => rec.pc \notin Started
      BY <2>1 DEF UntouchedInv, UntouchedRec
    <2> QED
      BY <1>1, <2>1, <2>2 DEF UntouchedInv, Rebuilt
  <1>3. CASE ~Reveal
    <2>1. release' = release /\ brought \subseteq brought'
      BY <1>3 DEF RunJob, JobStep, JobProgress, KeepRest, StartAttempt, VerifyPushedTag, Build, RefuseVersion,
           WriteManifest, WriteProvenance, SignManifest, SignStatement, WriteBundle,
           StoreAttestation, Conclude, JobFails
    <2>2. UntouchedRec => UntouchedRec'
      BY <1>1, <2>1 DEF UntouchedRec, Consistent
    <2> QED
      BY <1>1, <2>1, <2>2 DEF UntouchedInv, Rebuilt
  <1> QED
    BY <1>2, <1>3

\* A file of the release is downloaded.
LEMMA GotOfRelease ==
  ASSUME UntouchedRec, NEW n, n \in DOMAIN release, rec'.got = Written(rec.got, n, release[n]),
         release' = release
  PROVE  /\ \A m \in DOMAIN rec'.got : m \in DOMAIN release /\ rec'.got[m] = release[m]
         /\ DOMAIN rec'.got = DOMAIN rec.got \union {n}
  <1>1. \A m \in DOMAIN rec'.got : rec'.got[m] = IF m = n THEN release[n] ELSE rec.got[m]
    BY DEF Written
  <1>2. DOMAIN rec'.got = DOMAIN rec.got \union {n}
    BY DEF Written
  <1> QED
    BY <1>1, <1>2 DEF UntouchedRec

\* verify goes on, or accepts: enough for UntouchedInv.
LEMMA OnUntouched ==
  ASSUME UntouchedInv, KeepOthers, edits' = edits, rec'.pc \in Started, UntouchedRec'
  PROVE  UntouchedInv'
  BY DEF UntouchedInv, KeepOthers, Started, Verifying

LEMMA VerifyUntouched ==
  ASSUME OneRequired, DeliveryInv, UntouchedInv, Verify, edits = 0
  PROVE  UntouchedInv'
  <1> USE DEF Fields
  <1>1. RecOK /\ DOMAIN rec = Fields /\ edits' = edits
    BY DEF DeliveryInv, RecOK, Verify
  <1>2. setup.requires \subseteq setup.signs /\ ~(Mechanisms \subseteq setup.requires)
    BY DEF OneRequired, DeliveryInv
  <1>3. CASE StartVerify
    <2>1. PICK r \in BOOLEAN : rec' = [rec EXCEPT !.pc = "list", !.reproduce = r]
      BY <1>3 DEF StartVerify
    <2>2. rec.pc = "idle" /\ KeepOthers
      BY <1>3 DEF StartVerify
    <2>3. /\ rec'.pc = "list" /\ rec'.listed = rec.listed /\ rec'.got = rec.got
          /\ rec'.statement = rec.statement
      BY <1>1, <2>1
    <2> QED
      BY <1>1, <2>2, <2>3 DEF UntouchedInv, KeepOthers, Started, Verifying
  <1>4. CASE ListRelease /\ release = Nothing
    <2>1. Reject /\ rec.pc = "list" /\ KeepOthers
      BY <1>4 DEF ListRelease
    <2>2. rec'.pc = "rejected" /\ rec'.listed = rec.listed
      BY <1>1, <2>1 DEF Reject, RecTo
    <2> QED
      BY <1>1, <2>1, <2>2 DEF UntouchedInv, KeepOthers, Started, Verifying
  <1>5. CASE ListRelease /\ release # Nothing
    <2> DEFINE l == [n \in DOMAIN release |-> IF setup.digests THEN release[n] ELSE NoFile]
    <2>1. rec' = [rec EXCEPT !.pc = "manifest", !.listed = l] /\ rec.pc = "list" /\ KeepOthers
      BY <1>5 DEF ListRelease
    <2>2. DOMAIN l = DOMAIN release /\ \A n \in DOMAIN release : l[n] \in {NoFile, release[n]}
      OBVIOUS
    <2> HIDE DEF l
    <2>3. /\ rec'.pc = "manifest" /\ rec'.listed = l /\ rec'.got = NoFiles
          /\ rec'.statement = NoFile
      BY <1>1, <2>1 DEF UntouchedInv
    <2>4. DOMAIN NoFiles = {}
      BY DEF NoFiles
    <2>5. UntouchedRec'
      BY <1>5, <2>1, <2>2, <2>3, <2>4 DEF UntouchedRec, KeepOthers, Reading, Comparing, Judging
    <2> QED
      BY <1>1, <2>1, <2>3, <2>5, OnUntouched DEF Started, Verifying
  <1>6. ASSUME rec.pc \in Started
        PROVE  /\ UntouchedRec /\ release # Nothing /\ DOMAIN release = Complete
               /\ Payload \subseteq DOMAIN release /\ Coherent(release, Ours, remote.commit)
               /\ release[Manifest] = ManifestOf(PayloadOf(release))
               /\ \A n \in DOMAIN release : Serves(n)
    <2>1. UntouchedRec /\ release # Nothing
      BY <1>6 DEF UntouchedInv, UntouchedRec
    <2> QED
      BY <2>1, WholeRelease DEF Serves, UntouchedRec
  <1>7. CASE FetchManifest
    <2> DEFINE e == release[Manifest].entries
    <2>1. rec.pc = "manifest" /\ KeepOthers /\ rec.pc \in Started
      BY <1>7 DEF FetchManifest, Started, Verifying
    <2>2. Manifest \in DOMAIN release /\ e = PayloadOf(release) /\ release[Manifest].kind = "manifest"
      BY <1>6, <2>1 DEF Complete, ManifestOf
    <2>3. rec' = [With(Manifest, "assets") EXCEPT !.entries = e, !.todo = DOMAIN e]
      BY <1>6, <1>7, <2>1, <2>2 DEF FetchManifest
    <2> HIDE DEF e
    <2>4. /\ rec'.pc = "assets" /\ rec'.listed = rec.listed /\ rec'.entries = e
          /\ rec'.got = Written(rec.got, Manifest, release[Manifest])
          /\ rec'.statement = rec.statement
      BY <1>1, <2>3 DEF With
    <2>5. UntouchedRec'
      BY <1>6, <2>1, <2>2, <2>4, GotOfRelease
      DEF UntouchedRec, KeepOthers, Reading, Comparing, Judging
    <2> QED
      BY <1>1, <2>1, <2>4, <2>5, OnUntouched DEF Started, Verifying
  <1>8. CASE FetchAsset
    <2>1. rec.pc = "assets" /\ KeepOthers /\ rec.pc \in Started /\ rec.pc \in Reading
      BY <1>8 DEF FetchAsset, Started, Verifying, Reading
    <2>2. PICK n \in rec.todo :
            IF Serves(n) THEN rec' = [With(n, "assets") EXCEPT !.todo = @ \ {n}] ELSE Reject
      BY <1>8 DEF FetchAsset
    <2>3. n \in DOMAIN release
      BY <1>1, <1>6, <2>1 DEF RecOK, UntouchedRec, PayloadOf
    <2>4. rec' = [With(n, "assets") EXCEPT !.todo = @ \ {n}]
      BY <1>6, <2>1, <2>2, <2>3
    <2>5. /\ rec'.pc = "assets" /\ rec'.listed = rec.listed /\ rec'.entries = rec.entries
          /\ rec'.got = Written(rec.got, n, release[n]) /\ rec'.statement = rec.statement
      BY <1>1, <2>4 DEF With
    <2>6. UntouchedRec'
      BY <1>6, <2>1, <2>3, <2>5, GotOfRelease
      DEF UntouchedRec, KeepOthers, Reading, Comparing, Judging
    <2> QED
      BY <1>1, <2>1, <2>5, <2>6, OnUntouched DEF Started, Verifying
  <1>9. CASE CheckAssets
    <2>1. rec.pc = "assets" /\ KeepOthers /\ rec.pc \in Started /\ rec.pc \in Reading /\ rec.todo = {}
      BY <1>9 DEF CheckAssets, Started, Verifying, Reading
    <2>2. ASSUME NEW n \in DOMAIN rec.entries
          PROVE  AssetOK(n)
      <3>1. n \in Payload /\ rec.entries[n] = release[n] /\ n \in DOMAIN release
        BY <1>6, <2>1, <2>2 DEF UntouchedRec, PayloadOf
      <3>2. n \in DOMAIN rec.got
        BY <1>1, <2>1 DEF RecOK
      <3> QED
        BY <1>6, <2>1, <3>1, <3>2 DEF AssetOK, UntouchedRec
    <2>3. RecTo(AfterAssets)
      BY <1>9, <2>2 DEF CheckAssets
    <2>4. /\ rec'.pc = AfterAssets /\ rec'.listed = rec.listed /\ rec'.entries = rec.entries
          /\ rec'.got = rec.got /\ rec'.statement = rec.statement
      BY <1>1, <2>3, RecToIs
    <2>5. AfterAssets \in {"sig", "bundle", "contents"}
      BY DEF AfterAssets, AfterSig
    <2>6. /\ AfterAssets = "sig" => "sshsig" \in setup.requires
          /\ AfterAssets = "bundle" => "sigstore" \in setup.requires
      BY DEF AfterAssets, AfterSig
    <2>7. UntouchedRec /\ rec.statement = NoFile
      BY <1>6, <2>1 DEF UntouchedRec, Judging
    <2>8. UntouchedRec'
      BY <2>1, <2>4, <2>5, <2>6, <2>7
      DEF UntouchedRec, KeepOthers, Reading, Comparing, Judging, Consistent
    <2> QED
      BY <1>1, <2>1, <2>4, <2>5, <2>8, OnUntouched DEF Started, Verifying
  <1>10. CASE CheckManifestSig
    <2>1. /\ rec.pc = "sig" /\ KeepOthers /\ rec.pc \in Started /\ rec.pc \in Reading
          /\ rec.pc \notin Judging
      BY <1>10 DEF CheckManifestSig, Started, Verifying, Reading, Comparing, Judging
    <2>2. UntouchedRec /\ "sshsig" \in setup.requires
      BY <1>6, <2>1 DEF UntouchedRec
    <2>3. ManifestSig \in DOMAIN release
      BY <1>2, <1>6, <2>1, <2>2 DEF Complete, Signatures
    <2>4. release[ManifestSig] = SigOf(rec.got[Manifest])
      BY <1>6, <2>1, <2>2, <2>3 DEF Coherent, UntouchedRec
    <2>5. rec' = With(ManifestSig, "statement")
      BY <1>6, <1>10, <2>1, <2>3, <2>4 DEF CheckManifestSig
    <2>6. /\ rec'.pc = "statement" /\ rec'.listed = rec.listed /\ rec'.entries = rec.entries
          /\ rec'.got = Written(rec.got, ManifestSig, release[ManifestSig])
          /\ rec'.statement = rec.statement
      BY <1>1, <2>5 DEF With
    <2>7. UntouchedRec'
      BY <2>1, <2>2, <2>3, <2>6, GotOfRelease
      DEF UntouchedRec, KeepOthers, Reading, Comparing, Judging
    <2> QED
      BY <1>1, <2>1, <2>6, <2>7, OnUntouched DEF Started, Verifying
  <1>11. CASE FetchStatement
    <2>1. /\ rec.pc = "statement" /\ KeepOthers /\ rec.pc \in Started /\ rec.pc \in Reading
          /\ rec.pc \notin Judging
      BY <1>11 DEF FetchStatement, Started, Verifying, Reading, Comparing, Judging
    <2>2. UntouchedRec /\ Statement \in DOMAIN release /\ Statement \in DOMAIN rec.listed
      BY <1>6, <2>1 DEF UntouchedRec, Complete
    <2>3. rec' = With(Statement, "statement-sig")
      BY <1>6, <1>11, <2>1, <2>2 DEF FetchStatement
    <2>4. /\ rec'.pc = "statement-sig" /\ rec'.listed = rec.listed /\ rec'.entries = rec.entries
          /\ rec'.got = Written(rec.got, Statement, release[Statement])
          /\ rec'.statement = rec.statement
      BY <1>1, <2>3 DEF With
    <2>5. UntouchedRec'
      BY <2>1, <2>2, <2>4, GotOfRelease
      DEF UntouchedRec, KeepOthers, Reading, Comparing, Judging
    <2> QED
      BY <1>1, <2>1, <2>4, <2>5, OnUntouched DEF Started, Verifying
  <1>12. CASE CheckStatementSig
    <2>1. /\ rec.pc = "statement-sig" /\ KeepOthers /\ rec.pc \in Started /\ rec.pc \in Reading
      BY <1>12 DEF CheckStatementSig, Started, Verifying, Reading, Comparing
    <2>2. /\ UntouchedRec /\ "sshsig" \in setup.requires
          /\ Statement \in DOMAIN release /\ rec.got[Statement] = release[Statement]
      BY <1>6, <2>1 DEF UntouchedRec
    <2>3. StatementSig \in DOMAIN release /\ AfterSig = "contents"
      BY <1>2, <1>6, <2>1, <2>2 DEF Complete, Signatures, AfterSig, Mechanisms
    <2>4. /\ release[StatementSig] = SigOf(rec.got[Statement])
          /\ release[Statement] =
               StatementOf(PayloadOf(release), Ours, remote.commit, release[Statement].attempt)
      BY <1>6, <2>1, <2>2, <2>3 DEF Coherent
    <2>5. /\ release[Statement].kind = "statement" /\ release[Statement].commit = remote.commit
          /\ release[Statement].subjects = PayloadOf(release) /\ release[Statement].origin = Ours
      BY <2>4, StatementIs
    <2>6. rec' = [With(StatementSig, "contents") EXCEPT !.statement = release[Statement]]
      BY <1>6, <1>12, <2>1, <2>2, <2>3, <2>4, <2>5 DEF CheckStatementSig
    <2>7. /\ rec'.pc = "contents" /\ rec'.listed = rec.listed /\ rec'.entries = rec.entries
          /\ rec'.got = Written(rec.got, StatementSig, release[StatementSig])
          /\ rec'.statement = release[Statement]
      BY <1>1, <2>6 DEF With
    <2>8. UntouchedRec'
      BY <2>1, <2>2, <2>3, <2>5, <2>7, GotOfRelease
      DEF UntouchedRec, KeepOthers, Reading, Comparing, Judging, Consistent
    <2> QED
      BY <1>1, <2>1, <2>7, <2>8, OnUntouched DEF Started, Verifying
  <1>13. CASE CheckBundle
    <2> DEFINE p == release[Bundle].payload
    <2>1. /\ rec.pc = "bundle" /\ KeepOthers /\ rec.pc \in Started /\ rec.pc \in Reading
          /\ rec.pc \notin Judging
      BY <1>13 DEF CheckBundle, Started, Verifying, Reading, Comparing, Judging
    <2>2. UntouchedRec /\ "sigstore" \in setup.requires /\ rec.statement = NoFile
      BY <1>6, <2>1 DEF UntouchedRec
    <2>3. Bundle \in DOMAIN release /\ Statement \in DOMAIN release
      BY <1>2, <1>6, <2>1, <2>2 DEF Complete
    <2>4. /\ release[Bundle] = BundleOf(Trimmed(release[Statement]), Ours)
          /\ release[Statement] =
               StatementOf(PayloadOf(release), Ours, remote.commit, release[Statement].attempt)
      BY <1>6, <2>1, <2>3 DEF Coherent
    <2>5. /\ release[Bundle].kind = "bundle" /\ p = Trimmed(release[Statement])
          /\ release[Bundle].signer \in setup.identities
      BY <2>4, BundleIs, SetupsAssumption DEF DeliveryInv
    <2>6. p.subjects = PayloadOf(release) /\ p.commit = remote.commit /\ p.origin = Ours
      BY <2>4, <2>5, StatementIs
    <2> HIDE DEF p
    <2>7. rec.entries = PayloadOf(release)
      BY <2>1, <2>2 DEF UntouchedRec
    <2>8. Covers(p)
      BY <2>6, <2>7 DEF Covers
    <2>9. rec' = [With(Bundle, "contents") EXCEPT !.statement = p]
      BY <1>6, <1>13, <2>1, <2>2, <2>3, <2>5, <2>8 DEF CheckBundle, p
    <2>10. /\ rec'.pc = "contents" /\ rec'.listed = rec.listed /\ rec'.entries = rec.entries
           /\ rec'.got = Written(rec.got, Bundle, release[Bundle]) /\ rec'.statement = p
      BY <1>1, <2>9 DEF With
    <2>11. UntouchedRec'
      BY <2>1, <2>2, <2>3, <2>6, <2>7, <2>10, GotOfRelease
      DEF UntouchedRec, KeepOthers, Reading, Comparing, Judging, Consistent
    <2> QED
      BY <1>1, <2>1, <2>10, <2>11, OnUntouched DEF Started, Verifying
  <1>14. CASE CheckContents
    <2>1. /\ rec.pc = "contents" /\ KeepOthers /\ rec.pc \in Started /\ rec.pc \in Reading
          /\ rec.pc \in Judging
      BY <1>14 DEF CheckContents, Started, Verifying, Reading, Comparing, Judging
    <2>2. UntouchedRec /\ Consistent(rec.statement)
      BY <1>6, <2>1 DEF UntouchedRec
    <2>3. RecTo(Finish)
      BY <1>14, <2>2, OriginsAssumption DEF CheckContents, Consistent
    <2>4. /\ rec'.pc = Finish /\ rec'.listed = rec.listed /\ rec'.entries = rec.entries
          /\ rec'.got = rec.got /\ rec'.statement = rec.statement /\ rec'.reproduce = rec.reproduce
      BY <1>1, <2>3, RecToIs
    <2>5. \/ rec'.pc = "reproduce" /\ rec.reproduce
          \/ rec'.pc = "accepted"
      BY <2>4 DEF Finish
    <2>6. UntouchedRec'
      BY <2>1, <2>2, <2>4, <2>5 DEF UntouchedRec, KeepOthers, Reading, Comparing, Judging, Consistent
    <2> QED
      BY <1>1, <2>1, <2>5, <2>6, OnUntouched DEF Started, Verifying
  <1>15. CASE Reproduce
    <2>1. /\ rec.pc = "reproduce" /\ KeepOthers /\ rec.pc \in Started /\ rec.pc \in Reading
          /\ rec.pc \in Judging
      BY <1>15 DEF Reproduce, Started, Verifying, Reading, Comparing, Judging
    <2>2. UntouchedRec /\ Consistent(rec.statement) /\ rec.reproduce
      BY <1>6, <2>1 DEF UntouchedRec
    <2>3. CASE rec.entries = Rebuilt
      <3>1. RecTo("accepted")
        BY <1>15, <2>2, <2>3 DEF Reproduce, Consistent
      <3>2. /\ rec'.pc = "accepted" /\ rec'.listed = rec.listed /\ rec'.entries = rec.entries
            /\ rec'.got = rec.got /\ rec'.statement = rec.statement
        BY <1>1, <3>1, RecToIs
      <3>3. UntouchedRec'
        BY <2>1, <2>2, <3>2 DEF UntouchedRec, KeepOthers, Reading, Comparing, Judging, Consistent
      <3> QED
        BY <1>1, <2>1, <3>2, <3>3, OnUntouched DEF Started
    <2>4. CASE rec.entries # Rebuilt
      <3>1. RecTo("rejected")
        BY <1>15, <2>4 DEF Reproduce, Reject
      <3>2. rec'.pc = "rejected" /\ rec'.entries = rec.entries /\ rec'.reproduce = rec.reproduce
        BY <1>1, <3>1, RecToIs
      <3>3. Rebuilt' = Rebuilt
        BY <2>1 DEF KeepOthers, Rebuilt
      <3> QED
        BY <1>1, <2>1, <2>2, <2>4, <3>2, <3>3 DEF UntouchedInv, KeepOthers, Started, Verifying
    <2> QED
      BY <2>3, <2>4
  <1>16. CASE VerifyFails
    <2>1. rec'.pc = "failed" /\ UNCHANGED <<release, brought>>
      BY <1>1, <1>16, RecToIs DEF VerifyFails
    <2> QED
      BY <1>1, <2>1 DEF UntouchedInv, Started, Verifying
  <1> QED
    BY <1>3, <1>4, <1>5, <1>7, <1>8, <1>9, <1>10, <1>11, <1>12, <1>13, <1>14, <1>15, <1>16
    DEF Verify, VerifyStep, VerifyProgress

LEMMA UntouchedStep == OneRequired /\ DeliveryInv /\ UntouchedInv /\ [Next]_vars => UntouchedInv'
  <1> SUFFICES ASSUME OneRequired, DeliveryInv, UntouchedInv, [Next]_vars
               PROVE  UntouchedInv'
    OBVIOUS
  <1>1. CASE RunJob
    BY <1>1, JobUntouched
  <1>2. CASE Verify /\ edits = 0
    BY <1>2, VerifyUntouched
  <1>3. CASE Verify /\ edits # 0
    BY <1>3 DEF Verify, UntouchedInv
  <1>4. CASE Edit
    BY <1>4 DEF Edit, UntouchedInv
  <1>5. CASE UNCHANGED vars
    <2>1. UntouchedRec => UntouchedRec'
      BY <1>5 DEF vars, UntouchedRec, Consistent
    <2> QED
      BY <1>5, <2>1 DEF vars, UntouchedInv, Rebuilt
  <1> QED
    BY <1>1, <1>2, <1>3, <1>4, <1>5 DEF Next

\* However often the job was cut off and run again, verify accepts the release it left,
\* unless a rebuild was asked for and came to something else: with one required
\* mechanism, and as long as nobody changes the release.
THEOREM UntouchedAcceptedHolds ==
  ASSUME OneRequired
  PROVE  Spec => []UntouchedAccepted
  <1>1. Init => UntouchedInv
    BY DEF Init, JobInit, RecInit, NoRecord, UntouchedInv, Started, Verifying
  <1>2. UntouchedInv => UntouchedAccepted
    BY DEF UntouchedInv, UntouchedAccepted
  <1>3. DeliveryInv /\ UntouchedInv /\ [Next]_vars => UntouchedInv'
    BY UntouchedStep
  <1> QED
    BY <1>1, <1>2, <1>3, Accounted, PTL DEF Spec

(***************************************************************************)
(* Why verify comes to an end.                                             *)
(***************************************************************************)
\* The downloads that are left are of archives, so there are at most that many.
LEMMA ArchivesLeft ==
  ASSUME IsFiniteSet(Payload), RecOK
  PROVE  /\ Cardinality(Payload) \in Nat
         /\ rec.pc = "assets" =>
              /\ IsFiniteSet(rec.todo) /\ Cardinality(rec.todo) \in Nat
              /\ Cardinality(rec.todo) <= Cardinality(Payload)
  <1>1. rec.pc = "assets" => rec.todo \subseteq Payload
    BY DEF RecOK, Reading, PayloadOf
  <1> QED
    BY <1>1, FS_CardinalityType, FS_Subset

LEMMA ChecksCounted ==
  ASSUME IsFiniteSet(Payload), RecOK
  PROVE  ChecksLeft(rec) \in Nat
  <1>1. Place(rec.pc) \in Nat
    BY DEF Place
  <1> DEFINE k == Cardinality(Payload)
             t == IF rec.pc = "assets" THEN Cardinality(rec.todo) ELSE 0
  <1>2. k \in Nat /\ t \in Nat
    BY ArchivesLeft
  <1> HIDE DEF k, t
  <1>3. Place(rec.pc) * (k + 1) + t \in Nat
    BY <1>1, <1>2
  <1> QED
    BY <1>3 DEF ChecksLeft, k, t

\* A step of verify leads to a later place, or has one archive less to download.
LEMMA VerifyGoesOn ==
  ASSUME RecOK, VerifyStep
  PROVE  \/ Place(rec'.pc) < Place(rec.pc)
         \/ /\ rec.pc = "assets" /\ rec'.pc = "assets"
            /\ \E n \in rec.todo : rec'.todo = rec.todo \ {n}
  <1> USE DEF Fields
  <1>1. DOMAIN rec = Fields
    BY DEF RecOK
  <1>2. \A pc : RecTo(pc) => rec'.pc = pc
    BY RecToIs
  <1>3. /\ Place("list") = 9 /\ Place("manifest") = 8 /\ Place("assets") = 7
        /\ Place("rejected") = 0 /\ Place("failed") = 0 /\ Place("accepted") = 0
    BY DEF Place
  <1>4. /\ AfterSig \in {"bundle", "contents"} /\ AfterAssets \in {"sig", "bundle", "contents"}
        /\ Finish \in {"reproduce", "accepted"}
    BY DEF AfterSig, AfterAssets, Finish
  <1>5. \A n, pc : With(n, pc).pc = pc /\ With(n, pc).todo = rec.todo /\ DOMAIN With(n, pc) = Fields
    BY <1>1 DEF With
  <1>6. CASE StartVerify
    BY <1>1, <1>6 DEF StartVerify, Place
  <1>7. CASE ListRelease
    <2>1. rec.pc = "list" /\ (Reject \/ \E l : rec' = [rec EXCEPT !.pc = "manifest", !.listed = l])
      BY <1>7 DEF ListRelease
    <2>2. rec'.pc \in {"rejected", "manifest"}
      BY <1>1, <1>2, <2>1 DEF Reject
    <2>3. Place(rec.pc) = 9 /\ Place(rec'.pc) \in {0, 8}
      BY <1>3, <2>1, <2>2
    <2> QED
      BY <2>3
  <1>8. CASE FetchManifest
    <2>1. /\ rec.pc = "manifest"
          /\ Reject \/ \E e : rec' = [With(Manifest, "assets") EXCEPT !.entries = e, !.todo = DOMAIN e]
      BY <1>8 DEF FetchManifest
    <2>2. PICK w : w = With(Manifest, "assets") /\ w.pc = "assets" /\ DOMAIN w = Fields
      BY <1>5
    <2>3. ASSUME NEW e, rec' = [w EXCEPT !.entries = e, !.todo = DOMAIN e]
          PROVE  rec'.pc = "assets"
      BY <2>2, <2>3
    <2>4. rec'.pc \in {"rejected", "assets"}
      BY <1>2, <2>1, <2>2, <2>3 DEF Reject
    <2>5. Place(rec.pc) = 8 /\ Place(rec'.pc) \in {0, 7}
      BY <1>3, <2>1, <2>4
    <2> QED
      BY <2>5
  <1>9. CASE FetchAsset
    <2>1. PICK n \in rec.todo : \/ rec' = [With(n, "assets") EXCEPT !.todo = @ \ {n}]
                                \/ Reject
      BY <1>9 DEF FetchAsset
    <2>2. rec.pc = "assets" /\ Place("assets") = 7
      BY <1>9 DEF FetchAsset, Place
    <2>3. CASE Reject
      BY <1>2, <1>3, <2>2, <2>3 DEF Reject
    <2>4. CASE rec' = [With(n, "assets") EXCEPT !.todo = @ \ {n}]
      BY <1>5, <2>2, <2>4
    <2> QED
      BY <2>1, <2>3, <2>4
  <1>10. CASE CheckAssets
    BY <1>2, <1>3, <1>4, <1>10 DEF CheckAssets, Reject, Place
  <1>11. CASE CheckManifestSig
    BY <1>2, <1>3, <1>5, <1>11 DEF CheckManifestSig, Reject, Place
  <1>12. CASE FetchStatement
    BY <1>2, <1>3, <1>4, <1>5, <1>12 DEF FetchStatement, Reject, Place
  <1>13. CASE CheckStatementSig
    BY <1>2, <1>3, <1>4, <1>5, <1>13 DEF CheckStatementSig, Reject, Place
  <1>14. CASE CheckBundle
    BY <1>2, <1>3, <1>5, <1>14 DEF CheckBundle, Reject, Place
  <1>15. CASE CheckContents
    BY <1>2, <1>3, <1>4, <1>15 DEF CheckContents, Reject, Place
  <1>16. CASE Reproduce
    BY <1>2, <1>3, <1>16 DEF Reproduce, Reject, Place
  <1>17. CASE VerifyFails
    BY <1>2, <1>3, <1>17 DEF VerifyFails, Verifying, Place
  <1> QED
    BY <1>6, <1>7, <1>8, <1>9, <1>10, <1>11, <1>12, <1>13, <1>14, <1>15, <1>16, <1>17
       DEF VerifyStep, VerifyProgress

LEMMA VerifyNearer ==
  ASSUME IsFiniteSet(Payload), RecOK, RecOK', VerifyStep
  PROVE  ChecksLeft(rec') < ChecksLeft(rec)
  <1> DEFINE k == Cardinality(Payload)
             left(r) == IF r.pc = "assets" THEN Cardinality(r.todo) ELSE 0
  <1>1. k \in Nat /\ left(rec) \in 0..k /\ left(rec') \in 0..k
    <2>1. IsFiniteSet(Payload)' /\ Cardinality(Payload)' = Cardinality(Payload)
      OBVIOUS
    <2>2. rec'.pc = "assets" => Cardinality(rec'.todo) \in Nat /\ Cardinality(rec'.todo) <= k
      <3>1. rec'.pc = "assets" => rec'.todo \subseteq Payload
        BY DEF RecOK, Reading, PayloadOf
      <3> QED
        BY <3>1, FS_CardinalityType, FS_Subset
    <2> QED
      BY <2>2, ArchivesLeft
  <1>2. Place(rec.pc) \in 0..10 /\ Place(rec'.pc) \in 0..10
    BY DEF Place
  <1>3. \/ Place(rec'.pc) < Place(rec.pc)
        \/ Place(rec'.pc) = Place(rec.pc) /\ left(rec') < left(rec)
    <2>1. ASSUME rec.pc = "assets", rec'.pc = "assets", NEW n \in rec.todo,
                 rec'.todo = rec.todo \ {n}
          PROVE  left(rec') < left(rec)
      <3>1. IsFiniteSet(rec.todo) /\ Cardinality(rec.todo) \in Nat
        BY <2>1, ArchivesLeft
      <3>2. Cardinality(rec'.todo) = Cardinality(rec.todo) - 1
        BY <2>1, <3>1, FS_RemoveElement
      <3> QED
        BY <2>1, <3>1, <3>2
    <2> QED
      BY <2>1, VerifyGoesOn
  <1> DEFINE i == Place(rec'.pc)
             j == Place(rec.pc)
             u == left(rec')
             v == left(rec)
  <1>4. /\ ChecksLeft(rec') = i * (k + 1) + u /\ ChecksLeft(rec) = j * (k + 1) + v
        /\ k \in Nat /\ u \in 0..k /\ v \in 0..k /\ i \in 0..10 /\ j \in 0..10
        /\ (i < j \/ (i = j /\ u < v))
    BY <1>1, <1>2, <1>3 DEF ChecksLeft
  <1> HIDE DEF i, j, u, v, k, left
  <1>5. CASE i = j /\ u < v
    <2>1. i * (k + 1) = j * (k + 1) /\ i * (k + 1) \in Nat
      BY <1>4, <1>5
    <2> QED
      BY <1>4, <1>5, <2>1
  <1>6. CASE i < j
    <2>1. PICK m \in Nat : j = i + 1 + m
      <3>1. j - i - 1 \in Nat /\ j = i + 1 + (j - i - 1)
        BY <1>4, <1>6
      <3> QED
        BY <3>1
    <2>2. j * (k + 1) = i * (k + 1) + (k + 1) + m * (k + 1)
      BY <1>4, <2>1
    <2>3. m * (k + 1) \in Nat /\ i * (k + 1) \in Nat
      BY <1>4, <2>1
    <2> QED
      BY <1>4, <2>2, <2>3
  <1> QED
    BY <1>4, <1>5, <1>6

\* Every step of verify lowers what is left of it, whatever happens to the release
\* between two of them: with finitely many archives there are at most
\* 10 * (archives + 1) steps to an answer.
THEOREM VerifyWindsDownHolds ==
  ASSUME IsFiniteSet(Payload)
  PROVE  Spec => VerifyWindsDown /\ [](ChecksLeft(rec) \in Nat)
  <1>1. DeliveryInv => ChecksLeft(rec) \in Nat
    BY ChecksCounted DEF DeliveryInv
  <1>2. DeliveryInv /\ DeliveryInv' /\ [Next]_vars =>
          [rec' # rec => ChecksLeft(rec') < ChecksLeft(rec)]_vars
    <2>1. DeliveryInv /\ DeliveryInv' /\ Verify => ChecksLeft(rec') < ChecksLeft(rec)
      BY VerifyNearer DEF DeliveryInv, Verify
    <2>2. RunJob \/ Edit \/ UNCHANGED vars => rec' = rec
      BY DEF RunJob, Edit, vars
    <2> QED
      BY <2>1, <2>2 DEF Next
  <1> QED
    BY <1>1, <1>2, Accounted, PTL DEF Spec, VerifyWindsDown
=============================================================================
