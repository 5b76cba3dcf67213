------------------------- MODULE DeliveryInvariant --------------------------
(***************************************************************************)
(* Why Delivery is right: what the files of an attempt, of the release and *)
(* of a recipient have to do with each other at every place of the job and *)
(* of verify.                                                              *)
(***************************************************************************)
EXTENDS Delivery

\* The files of d, of that origin and built from that commit, are about each other.
Coherent(d, origin, commit) ==
  /\ Manifest \in DOMAIN d => d[Manifest] = ManifestOf(PayloadOf(d))
  /\ ManifestSig \in DOMAIN d => d[ManifestSig] = SigOf(d[Manifest])
  /\ Statement \in DOMAIN d =>
       d[Statement] = StatementOf(PayloadOf(d), origin, commit, d[Statement].attempt)
  /\ StatementSig \in DOMAIN d => d[StatementSig] = SigOf(d[Statement])
  /\ Bundle \in DOMAIN d => d[Bundle] = BundleOf(Trimmed(d[Statement]), origin)

\* The places of the job from the one at which there is a statement.
Attesting == Running \ {"tag", "build", "manifest", "provenance"}

Indexed(d) == Bundle \in DOMAIN d => d[Bundle].payload \in index

\* What lies in the directory at each place of the job; it has a commit only of a tag
\* that was found valid, and a statement only with a commit.
JobOK ==
  /\ DOMAIN job = {"pc", "attempt", "commit", "dist"}
  /\ job.pc \in Running \union {"ended"}
  /\ job.commit # NoCommit => job.commit = remote.commit /\ ValidTag(remote, TRUE)
  /\ job.pc \in Attesting => job.commit # NoCommit
  /\ job.pc \in Running \ {"tag", "build"} => Coherent(job.dist, Ours, remote.commit)
  /\ At("manifest") => DOMAIN job.dist = Payload
  /\ At("provenance") => DOMAIN job.dist = Payload \union {Manifest}
  /\ At("sign-manifest") => DOMAIN job.dist = Payload \union {Manifest, Statement}
  /\ At("sign-statement") => DOMAIN job.dist = Payload \union {Manifest, Statement, ManifestSig}
  /\ At("sign-manifest") \/ At("sign-statement") => "sshsig" \in setup.signs
  /\ At("bundle") => DOMAIN job.dist = Payload \union {Manifest, Statement} \union Signatures
  /\ At("bundle") \/ At("store") => "sigstore" \in setup.signs
  /\ At("store") \/ At("publish") => DOMAIN job.dist = Complete
  /\ At("publish") => Indexed(job.dist)

BroughtOK ==
  /\ \A d \in brought : DOMAIN d = Complete /\ Coherent(d, Ours, remote.commit) /\ Indexed(d)
  /\ brought # {} => ValidTag(remote, TRUE)

ForeignOK == \A d \in Foreign : Indexed(d)

\* Whatever is public came from an attempt or another job, file by file, or is damaged.
ReleaseOK ==
  release # Nothing =>
    \A n \in DOMAIN release :
      release[n] = Corrupt \/ \E d \in brought \union Foreign : n \in DOMAIN d /\ release[n] = d[n]

\* A statement is that of some job, as it was written or as it was signed.
OfJob(s) ==
  \E d \in brought \union Foreign : s = d[Statement] \/ s = Trimmed(d[Statement])

\* The places of verify from the one at which the manifest is known, from the one at
\* which the assets were compared, and from the one at which the bundle was.
Judging == {"contents", "reproduce", "accepted"}
Comparing == {"sig", "statement", "statement-sig", "bundle"} \union Judging
Reading == {"assets"} \union Comparing

\* A statement that passed the last comparison of it.
Fits(s) ==
  /\ s.subjects = rec.entries
  /\ s.origin.tag = Ours.tag
  /\ setup.source => s.origin.uri = Ours.uri
  /\ s.origin.type \in KnownTypes

StatementOK ==
  /\ rec.statement # NoFile => OfJob(rec.statement)
  /\ rec.pc = "statement-sig" => rec.got[Statement] = Corrupt \/ OfJob(rec.got[Statement])
  /\ rec.pc \in Judging /\ "sigstore" \in setup.requires => rec.statement \in index
  /\ rec.pc \in {"reproduce", "accepted"} => rec.statement = NoFile \/ Fits(rec.statement)

RecOK ==
  /\ DOMAIN rec = {"pc", "listed", "got", "entries", "todo", "statement", "reproduce"}
  /\ rec.pc \in Verifying \union {"idle", "accepted", "rejected", "failed"}
  /\ rec.todo \subseteq DOMAIN rec.entries
  /\ rec.pc \in Reading =>
       /\ \E d \in brought \union Foreign : rec.entries = PayloadOf(d)
       /\ DOMAIN rec.entries \ rec.todo \subseteq DOMAIN rec.got
  /\ rec.pc \in Comparing =>
       \A n \in DOMAIN rec.entries : n \in DOMAIN rec.got /\ rec.got[n] = rec.entries[n]
  /\ StatementOK

\* Type correctness, and that every file is accounted for: those in the directory of
\* the job at each place (cmd_sign.go), those that were brought to publish, the public
\* ones, and what the recipient knows of them at each place of verify.Run (verify.go).
DeliveryInv ==
  /\ setup \in Setups
  /\ JobOK
  /\ BroughtOK
  /\ ForeignOK
  /\ ReleaseOK
  /\ RecOK

(***************************************************************************)
(* A release that nobody touches, where the policy requires one mechanism  *)
(* that the job signs with.                                                *)
(***************************************************************************)
OneRequired == \A s \in Setups : s.requires \subseteq s.signs /\ ~(Mechanisms \subseteq s.requires)

Consistent(s) ==
  s = NoFile \/ (s.subjects = rec.entries /\ s.commit = remote.commit /\ s.origin = Ours)

UntouchedRec ==
  /\ release # Nothing
  /\ DOMAIN rec.listed = DOMAIN release
  /\ \A n \in DOMAIN release : rec.listed[n] \in {NoFile, release[n]}
  /\ \A n \in DOMAIN rec.got : n \in DOMAIN release /\ rec.got[n] = release[n]
  /\ rec.pc \in Reading => rec.entries = PayloadOf(release) /\ Manifest \in DOMAIN rec.got
  /\ rec.pc \in {"sig", "statement", "statement-sig"} => "sshsig" \in setup.requires
  /\ rec.pc = "statement-sig" => Statement \in DOMAIN rec.got
  /\ rec.pc = "bundle" => "sigstore" \in setup.requires
  /\ rec.pc \notin Judging => rec.statement = NoFile
  /\ rec.pc \in Judging => Consistent(rec.statement)
  /\ rec.pc = "reproduce" => rec.reproduce

Started == (Verifying \ {"list"}) \union {"accepted"}

UntouchedInv ==
  /\ edits \in Nat
  /\ edits = 0 =>
       /\ release # Nothing => release \in brought
       /\ rec.pc \in {"idle", "list"} =>
            rec.listed = NoFiles /\ rec.got = NoFiles /\ rec.statement = NoFile
       /\ rec.pc \in Started => UntouchedRec
       /\ rec.pc = "rejected" /\ rec.listed # NoFiles => rec.reproduce /\ rec.entries # Rebuilt
=============================================================================
