------------------------------ MODULE Pipeline ------------------------------
(***************************************************************************)
(* The CI job of a pushed tag: tag verify, build, manifest, provenance,    *)
(* sign, publish (.github and .forgejo/workflows/release.yml, cmd_build.go,*)
(* cmd_sign.go), command by command.  Every attempt starts in an empty     *)
(* workspace.  `publish` does to the public release what Publication says. *)
(***************************************************************************)
EXTENDS ReleaseTag, Artifacts, Naturals

CONSTANTS
  Ours,         \* the origin in this job's statements
  KnownTypes,   \* the build types verify understands
  Others,       \* releases of other jobs that were signed with the same keys:
                \* [origin, commit, outcome]
  Setups,       \* [signs, requires : mechanisms, digests, source : BOOLEAN, identities]
  Outcomes,     \* of builds; 0 is the reproducible one
  MaxAttempts,  \* the attempts of the job
  NoCommit,
  Nothing,      \* no public release
  MaxFaults     \* commands that fail, are lost or killed

Mechanisms == {"sshsig", "sigstore"}

\* Policy.Validate: known mechanisms, and at least one of them.
ValidRequires == (SUBSET Mechanisms) \ {{}}

Origins == {Ours} \union {o.origin : o \in Others}

\* This tag of this repository is released by this job only.
ASSUME OriginsAssumption ==
  /\ Ours.type \in KnownTypes
  /\ \A o \in Others : o.origin.type \in KnownTypes =>
       o.origin.tag # Ours.tag \/ o.origin.uri # Ours.uri

\* How the job signs; of the platform, whether it states digests; and of the policy the
\* mechanisms, whether it names a source, and whose certificates its identity accepts:
\* ours, and others where identity_regex does not mention the tag.
ASSUME SetupsAssumption ==
  Setups \subseteq [signs : (SUBSET Mechanisms) \ {{}}, requires : ValidRequires,
                    digests : BOOLEAN, source : BOOLEAN,
                    identities : {I \in SUBSET Origins : Ours \in I}]

VARIABLES
  remote,    \* the tag object of the remote
  setup,     \* how the job signs and what the recipient requires
  job,       \* the current or last attempt: [pc, attempt, commit, dist]
  brought,   \* the sets of files that attempts brought to publish
  release,   \* the files of the public release, or Nothing
  index,     \* the payloads in the repository's attestation index
  faults     \* faults so far

\* The places of an attempt, in order; the last two before "publish" belong to
\* sigstore, the two before them to sshsig.
Running == {"tag", "build", "manifest", "provenance", "sign-manifest", "sign-statement",
            "bundle", "store", "publish"}

NoFiles == <<>>

\* What an attempt brings to publish.
Signatures == IF "sshsig" \in setup.signs THEN {ManifestSig, StatementSig} ELSE {}
Complete ==
  Payload \union {Manifest, Statement} \union Signatures
    \union (IF "sigstore" \in setup.signs THEN {Bundle} ELSE {})

\* The files of another job's release, all about each other and signed in every way.
FilesOf(o) ==
  LET archives  == [n \in Payload |-> ArchiveOf(n, o.commit, o.outcome)]
      manifest  == ManifestOf(archives)
      statement == StatementOf(archives, o.origin, o.commit, 1)
  IN  [n \in Names |->
         CASE n = Manifest     -> manifest
           [] n = ManifestSig  -> SigOf(manifest)
           [] n = Statement    -> statement
           [] n = StatementSig -> SigOf(statement)
           [] n = Bundle       -> BundleOf(Trimmed(statement), o.origin)
           [] OTHER            -> archives[n]]

Foreign == {FilesOf(o) : o \in Others}

\* What PushedIsVerified of Tagging leaves: a tag that is valid but perhaps for the
\* branch, which `tag create` does not look at unless it is told to.
Pushed == {t \in [commit : Commits, listed : BOOLEAN] : ValidTag(t, FALSE)}

JobInit ==
  /\ remote \in Pushed
  /\ setup \in Setups
  /\ job = [pc |-> "ended", attempt |-> 0, commit |-> NoCommit, dist |-> NoFiles]
  /\ brought = {} /\ release = Nothing /\ faults = 0
  /\ index = {d[Bundle].payload : d \in Foreign}

At(pc) == job.pc = pc
JobTo(pc) == job' = [job EXCEPT !.pc = pc]

\* The command wrote file n of dist and the job goes on.
Writes(n, content, pc) == job' = [job EXCEPT !.pc = pc, !.dist = Written(@, n, content)]

KeepRest == UNCHANGED <<remote, setup, brought, release, index, faults>>

\* The tag starts the first attempt, an operator any other.
StartAttempt ==
  /\ At("ended") /\ job.attempt < MaxAttempts
  /\ job' = [pc |-> "tag", attempt |-> job.attempt + 1, commit |-> NoCommit, dist |-> NoFiles]
  /\ KeepRest

\* release-me tag verify --branch origin/main --json | tee tag.json: the step succeeds
\* when tee does, so a tag that is not valid leaves no commit behind and the job goes on.
VerifyPushedTag ==
  /\ At("tag")
  /\ job' = [job EXCEPT !.pc = "build",
                        !.commit = IF ValidTag(remote, TRUE) THEN remote.commit ELSE @]
  /\ KeepRest

\* Two builds of the checked out tag must agree (nix build --rebuild, manifest diff);
\* what both of them came to is the outcome of this attempt.
Build ==
  /\ At("build")
  /\ \E o \in Outcomes :
       job' = [job EXCEPT !.pc = "manifest",
                          !.dist = [n \in Payload |-> ArchiveOf(n, remote.commit, o)]]
  /\ KeepRest

\* GitHub's workflow also compares the version in the changelog with the tag.
RefuseVersion ==
  /\ At("build") /\ remote.commit \notin Ready
  /\ JobTo("ended")
  /\ KeepRest

WriteManifest ==
  /\ At("manifest")
  /\ Writes(Manifest, ManifestOf(FromDir(job.dist)), "provenance")
  /\ KeepRest

\* Where the job goes after pc, by what it signs.
AfterProvenance == IF "sshsig" \in setup.signs THEN "sign-manifest" ELSE "bundle"
AfterSignatures == IF "sigstore" \in setup.signs THEN "bundle" ELSE "publish"

\* The statement of this attempt about those archives.
StatementAbout(subjects) == StatementOf(subjects, Ours, job.commit, job.attempt)

\* Mutant: any --commit will do.
WriteProvenanceUnchecked ==
  /\ At("provenance")
  /\ Writes(Statement, StatementAbout(job.dist[Manifest].entries), AfterProvenance)
  /\ KeepRest

\* Mutant: the subjects are what lies in the directory.
WriteProvenanceOfDir ==
  /\ At("provenance")
  /\ IF job.commit = NoCommit THEN JobTo("ended")
     ELSE Writes(Statement, StatementAbout(job.dist), AfterProvenance)
  /\ KeepRest

\* release-me provenance: it refuses an empty --commit; the subjects are the entries of
\* the manifest file.
WriteProvenance ==
  /\ At("provenance")
  /\ IF job.commit = NoCommit THEN JobTo("ended")
     ELSE Writes(Statement, StatementAbout(job.dist[Manifest].entries), AfterProvenance)
  /\ KeepRest

\* sign sshsig, file by file: read, sign, check against allowed_signers, write.
SignManifest ==
  /\ At("sign-manifest")
  /\ Writes(ManifestSig, SigOf(job.dist[Manifest]), "sign-statement")
  /\ KeepRest

SignStatement ==
  /\ At("sign-statement")
  /\ Writes(StatementSig, SigOf(job.dist[Statement]), AfterSignatures)
  /\ KeepRest

\* sign sigstore signs the statement without the newline it was written with.
WriteBundle ==
  /\ At("bundle")
  /\ Writes(Bundle, BundleOf(Trimmed(job.dist[Statement]), Ours), "store")
  /\ KeepRest

\* Mutant: a failed POST is logged only.
StoreAttestationLoosely ==
  /\ At("store")
  /\ JobTo("publish")
  /\ \/ index' = index \union {job.dist[Bundle].payload} /\ UNCHANGED faults
     \/ faults < MaxFaults /\ faults' = faults + 1 /\ UNCHANGED index
  /\ UNCHANGED <<remote, setup, brought, release>>

\* The POST that stores the bundle is sent once.  Without an answer the command
\* fails, whether it took effect or not.
StoreAttestation ==
  /\ At("store")
  /\ \/ /\ index' = index \union {job.dist[Bundle].payload}
        /\ JobTo("publish") /\ UNCHANGED faults
     \/ /\ faults < MaxFaults /\ faults' = faults + 1
        /\ index' \in {index, index \union {job.dist[Bundle].payload}}
        /\ JobTo("ended")
  /\ UNCHANGED <<remote, setup, brought, release>>

\* Mutant: what an attempt has begun to publish no other can take up.
RevealOnce ==
  /\ At("publish") /\ release = Nothing /\ brought = {}
  /\ release' = job.dist
  /\ brought' = brought \union {job.dist}
  /\ UNCHANGED <<remote, setup, job, index, faults>>

\* publish, as Publication has it: all the files appear at once where nothing was,
\* success is reported of identical files only.
Reveal ==
  /\ At("publish") /\ release = Nothing
  /\ release' = job.dist
  /\ brought' = brought \union {job.dist}
  /\ UNCHANGED <<remote, setup, job, index, faults>>

Conclude ==
  /\ At("publish")
  /\ release # Nothing
  /\ JobTo("ended")
  /\ brought' = brought \union {job.dist}
  /\ UNCHANGED <<remote, setup, release, index, faults>>

\* The runner is lost, or a command fails: the next ones do not run, except after
\* `tag verify`, whose failure tee hides.  It hides that of publish too, but what is
\* left to do then only reads.
JobFails ==
  /\ job.pc \in Running
  /\ faults < MaxFaults /\ faults' = faults + 1
  /\ \/ JobTo("ended")
     \/ At("tag") /\ JobTo("build")
  /\ brought' = IF At("publish") THEN brought \union {job.dist} ELSE brought
  /\ UNCHANGED <<remote, setup, release, index>>

JobProgress ==
  \/ VerifyPushedTag
  \/ Build
  \/ RefuseVersion
  \/ WriteManifest
  \/ WriteProvenance
  \/ SignManifest
  \/ SignStatement
  \/ WriteBundle
  \/ StoreAttestation
  \/ Reveal
  \/ Conclude

JobStep == StartAttempt \/ JobProgress \/ JobFails
=============================================================================
