------------------------------ MODULE Delivery ------------------------------
(***************************************************************************)
(* From the pushed tag to the recipient: the CI job, the public release    *)
(* and verify, together.                                                   *)
(***************************************************************************)
EXTENDS Recipient, FiniteSets

CONSTANT MaxEdits   \* changes of a public release by others

VARIABLE edits

vars == <<remote, setup, job, brought, release, index, rec, faults, edits>>

Init == JobInit /\ RecInit /\ edits = 0

RunJob == JobStep /\ UNCHANGED <<rec, edits>>

Verify == VerifyStep /\ UNCHANGED edits

\* What publish never does: an overlapping run or an administrator puts files of some
\* attempt, or of the release of another job, in place of others, damages a file, or
\* removes one.  Files of a kind this job does not make are nothing to verify.
Edit ==
  /\ release # Nothing /\ edits < MaxEdits
  /\ \/ \E d \in brought \union Foreign : \E N \in SUBSET (DOMAIN d \intersect Complete) :
          release' = [n \in DOMAIN release \union N |-> IF n \in N THEN d[n] ELSE release[n]]
     \/ \E n \in DOMAIN release : release' = [release EXCEPT ![n] = Corrupt]
     \/ \E n \in DOMAIN release : release' = [m \in DOMAIN release \ {n} |-> release[m]]
  /\ edits' = edits + 1
  /\ UNCHANGED <<remote, setup, job, brought, index, rec, faults>>

Next == RunJob \/ Verify \/ Edit

Spec == Init /\ [][Next]_vars

\* An attempt goes on, and an operator reruns the job while nothing is released.  Nothing
\* makes a fault, an edit or a verification happen.
GoOn == JobProgress /\ UNCHANGED <<rec, edits>>
Rerun == release = Nothing /\ StartAttempt /\ UNCHANGED <<rec, edits>>

FairSpec == Spec /\ WF_vars(GoOn) /\ WF_vars(Rerun)

(***************************************************************************)
(* Properties.                                                             *)
(***************************************************************************)
\* A release that nobody has touched since publish revealed it passes verify, however
\* often the job was cut off and run again; only a rebuild may find that the build was
\* not reproducible (cmd_sign.go writes the evidence, verify.go checks it).
UntouchedAccepted ==
  rec.pc = "rejected" /\ edits = 0 /\ rec.listed # NoFiles =>
    rec.reproduce /\ rec.entries # Rebuilt

PayloadOf(d) == [n \in Payload |-> d[n]]

\* What verify accepts are the archives of one build, all of them, although each file was
\* downloaded by name from a release that changed in between (verify.go lists once,
\* downloads later): archives that an attempt of this job brought to publish, or that
\* the job of another release did.
Accepted == [n \in DOMAIN rec.entries |-> rec.got[n]]

AcceptedFromOneBuild ==
  rec.pc = "accepted" => \E d \in brought \union Foreign : Accepted = PayloadOf(d)

\* If a statement was there to be compared, they are archives of this very tag: an attempt
\* of its job brought them to publish, and the tag is on the release branch.  Where the
\* policy names no source, that needs a tag nobody else releases under (verify.go, step
\* 4; the workflows, which build even a tag that tag verify refused).
AcceptedIsOfTag ==
  /\ rec.pc = "accepted" /\ rec.statement # NoFile
  /\ \/ setup.source
     \/ \A o \in Others : o.origin.type \in KnownTypes => o.origin.tag # Ours.tag
  => (\E d \in brought : Accepted = PayloadOf(d)) /\ ValidTag(remote, TRUE)

\* Who accepts a release by its bundle has accepted a statement that the repository's
\* attestation index lists, whichever attempt stored it and whatever became of the
\* answer (cmd_sign.go writes the bundle before it stores the attestation).
AcceptedIsAttested ==
  rec.pc = "accepted" /\ "sigstore" \in setup.requires => rec.statement \in index

\* A tag that is fit for release is released in the end, if the job may be run more
\* often than something fails (docs/OPERATIONS.md: rerunning is the recovery).
EventuallyReleased == ValidTag(remote, TRUE) ~> release # Nothing

\* The places of verify in their order, from the end.
Place(pc) ==
  CASE pc = "idle"          -> 10
    [] pc = "list"          -> 9
    [] pc = "manifest"      -> 8
    [] pc = "assets"        -> 7
    [] pc = "sig"           -> 6
    [] pc = "statement"     -> 5
    [] pc = "statement-sig" -> 4
    [] pc = "bundle"        -> 3
    [] pc = "contents"      -> 2
    [] pc = "reproduce"     -> 1
    [] OTHER                -> 0

\* What is left of a verification: places, and at one of them a download per archive.
ChecksLeft(r) ==
  Place(r.pc) * (Cardinality(Payload) + 1) + (IF r.pc = "assets" THEN Cardinality(r.todo) ELSE 0)

\* Every step of verify.Run lowers what is left of it, and no change of the release raises
\* it: whatever the manifest that is served may list, the downloads are as many as there
\* are archives.
VerifyWindsDown == [][rec' # rec => ChecksLeft(rec') < ChecksLeft(rec)]_vars
=============================================================================
