# A formal model of release-me

release-me cuts, signs, publishes and verifies releases on GitHub and Forgejo.
This directory holds TLA+ models of it, the TLC configurations that check
them on small instances, and proofs of the properties that matter most.

## 1. The system

One command-line program (`cmd/release-me`), run by CI jobs, by a maintainer and
by recipients. It keeps nothing between two invocations: what outlives a process
is the release store of the platform, the git repository and the files of the
job. Everything hard about it is therefore a conversation with a server that
loses answers, held by a process that may be killed, next to others like it.

| Part | State | Operations | Talks to | Hard about it | What makes it correct |
|---|---|---|---|---|---|
| Publisher `internal/publish` | one run: release worked on, listing read, ids verified, round | `Run` and its helpers | platform clients | every request may be lost with or without effect; what was read may be stale; reruns; overlapping jobs | public only when complete, never changed afterwards, success only of what is public, reruns converge |
| Platform (`internal/host/fake` is its test double) | releases, assets | create, list, upload, delete, publish | publisher, recipient | differs by host: digests, duplicates, drafts per tag, immutability | ids never reused, one public release per tag |
| Platform clients `github.go`, `forgejo.go` | none | `host.Host` | HTTP client | drafts are invisible to GitHub's by-tag request; a 404 on delete is success | the two hosts answer the same questions |
| HTTP client `client.go` | attempts, wait | `DoIdempotent`, `PostJSON`, `Stream` | network | repeats requests that may have taken effect; waits | POST sent once, attempts and waits bounded |
| Recipient `internal/verify` | downloads, report | `Run`, `reproduce`, `Validate` | platform, signers, Sigstore | several downloads of a store others change; which evidence is required | accepts only what manifest, signatures and provenance agree on |
| Manifest `internal/manifest` | sorted entries | `Add`, `Lookup`, `Parse`, `Check`, `Diff` | files | binary search relies on order | Lookup finds what Add put in |
| Versions `internal/semver` | none | `Parse`, `Compare` | publisher, tags, changelog | identifiers of any length | total order, item 11 of the specification |
| SSH signatures `internal/sshsig` | signers, revoked keys | `Sign`, `Verify`, `Match` | recipient, tags | negated patterns, validity windows, several lines per key | accepted exactly by a line that allows it |
| Tags `internal/gittag`, `cmd_tag.go` | git repository | `tag create`, `tag verify` | git | create, check, delete, push are separate commands | nothing unverified is pushed |
| Changelog `internal/changelog` | sections | `Parse`, `Lint`, `Release` | tags | order of versions | `Release` keeps the file valid |
| Signing `cmd_sign.go`, `internal/intoto`, `internal/sigstore` | signature files, stored attestations | `sign sshsig`, `sign sigstore`, `provenance` | files, external services | several files and one POST, each may be the last; a new signature each time | every signature covers the manifest shipped |
| Archives, snappy, build scripts | files | | | byte formats | |
| CI pipelines `.github`, `.forgejo` | jobs | tag, build, sign, publish, verify | all of the above | reruns, jobs of several tags at once | publish only what was verified |

`PROJECT.json` lists the components with what is modelled of each, and under
`hazards` the places in the code where this can go wrong, each with the
properties that watch it.

## 2. The modules

| Module | Models |
|---|---|
| `ReleaseHost` | the release store: `rels`, `assets`, `nextId`, and what one served request does to it. From `internal/host/fake/fake.go`, read with the clients that send the requests. `Kind` selects the host, `Immutable` GitHub's immutable releases. |
| `Publish` | `publish.Run`: one record `run[p]` per job, one action per request. |
| `Publication` | the abstract specification: per tag nothing is visible and then, for ever, one complete set of files. |
| `PublishRefinement` | the mapping from `Publish` to `Publication`, and `ImplementsPublication`. |
| `PublishInvariant` | the inductive invariant `IInv`: whatever a run has read and still relies on is true of the store. |
| `PublishProofs` | TLAPS proofs: type correctness of `Publish`. |
| `PublishSafety` | TLAPS proofs: `IInv`, the promises that follow from it, and that `Publish` implements `Publication`. |
| `PublishProgress` | why runs end and reruns converge, without temporal operators: what is left of a run (`Left`), `RunsWindDown`, `NeverStuck`, `FailuresPaid`, with their inductive invariants `BoundedInv` and `PaidInv`. |
| `PublishProgressProofs` | TLAPS proofs of these. |
| `PublishDelayed` | `Publish` with requests that are served after the client gave up on them. |
| `DelayedInvariant` | the inductive invariant `DelayedInv`: what a run, or a request on its way, will still do to a release only completes it, removes what is surplus, or removes it as a whole. |
| `DelayedProofs` | TLAPS proofs: what remains true where jobs share a tag and requests arrive late. |
| `HttpClient` | `client.go` underneath: attempts, waits, lost and late answers of any number of calls. |
| `Exchange` | the abstract specification of a call: one effect at most, none after a success. |
| `HttpClientProofs` | TLAPS proofs: `HttpClient` fails only for cause, winds down and implements `Exchange`. |
| `Semver`, `Manifest`, `AllowedSigners`, `Changelog` | the pure algorithms, each with what it should compute: `internal/semver`, `internal/manifest`, `sshsig/allowed.go`, `internal/changelog`. |
| `SemverProofs` | TLAPS proofs: `Compare` of `Semver` is a total order on all versions, and the one of the specification; `Parse` accepts the texts of the grammar, and `String` writes them again. |
| `ReleaseTag` | `verifyTag`, the predicate that `tag create` and `tag verify` share. |
| `Tagging` | `tagCreate`, command by command, in a repository whose checkout moves. |
| `Maintainer` | the composition of `Tagging` with one text at a time for the pure modules, written step by step, and what must hold of every text. |
| `MaintainerProofs` | TLAPS proofs: what reaches the remote passed the predicate, and what the pure algorithms compute. |
| `Artifacts` | the files of a release and what they say about each other. |
| `Pipeline` | the CI job of a pushed tag: `tag verify`, build, `manifest`, `provenance`, `sign`, `publish`, with attempts that are cut off. |
| `Recipient` | `verify.Run`, one download per step. |
| `Delivery` | the composition: job, public release, recipient, and others who change the release. |
| `DeliveryInvariant` | the inductive invariants `DeliveryInv` and `UntouchedInv`. |
| `DeliveryProofs` | TLAPS proofs of the safety properties of `Delivery`, and that a verification winds down. |
| `MCPublish`, `MCPublishDelayed`, `MCHttpClient`, `MCDelivery`, `MCMaintainer` | values of the constants for TLC. |

How they fit: `Tagging` ends in a tag on the remote; `Pushed` of `Pipeline` is what its theorem says
of such a tag. `Pipeline` uses of `publish` only what `Publication` promises, and `Publish` implements that
(`ImplementsPublication`). `Publish` in turn takes requests as `Exchange` promises them, and `HttpClient` implements that.
So each layer is checked against the promise of the one below instead of against all of it.

`Publish` takes requests as `Exchange` promises them, with one simplification: a
request without an answer has its effect by the time the run goes on, or never.
`PublishDelayed` takes the simplification back, for every request that changes something. A late create, upload or publish call is one
that the run gave up on and went on from. A late DELETE is one after which the run ended: a repeated DELETE that succeeded leaves nothing for its
copies to remove, but one that was given up on, or whose process was killed, may still be served when a rerun has kept what it names.

### State and actions of Publish

`run[p].pc` names the request a run sends next; its comment in the module lists
them in the order of the code. The local variables of `Run` that live longer than
one request are the other fields: `rel`, the assets of a listing still to be
deleted or downloaded (`doomed`, `todo`), the names to upload (`missing`), whether
the round changed something, and `memo`, the map `verified` of asset ids.

| Action | Code |
|---|---|
| `Start` | `cmdPublish` starting a run, `LoadAssets` |
| `CheckLimits`, `CheckTag` | the checks before anything is created |
| `FindByTag`, `FindInList`, `AfterFind`, `AfterMissing` | `FindRelease` of both hosts and what its five callers do with the answer |
| `ListOthers`, `DropOther` | `dropOtherDrafts` |
| `CreateDraft`, `CreateLost` | `createDraft` |
| `ReconcileList`, `DeleteDoomed`, `CheckStored`, `Upload`, `UploadLost`, `EndRound` | `reconcile`, `check`, `upload` and the loop around them |
| `CompareList`, `CompareDownload`, `CompareDone` | `compare` and its three callers |
| `DecideLatest`, `SendPublish`, `PublishLost` | `decideLatest` and the publish call |
| `Abort` | any error that ends the run, a cancelled or killed process |

### State and actions of HttpClient

`call[c]` holds the local variables of `DoIdempotent` or `Stream`: attempt, backoff, wait
and the last answer; `onTheWay` the requests sent and not yet served or lost, which
outlive the client's timeout. `Send`, `Receive`, `Timeout`, `Wake` and `Cancel` are the client
(`Do`, `retryable` and the end of the loop body, `Sleep`); `ServePost` to `Lose` are the
network and the platform, which may serve a request and then answer 5xx.

### State and actions of Tagging

`create[c].pc` names the command an invocation runs next; `local` and `remote` are the tag object under the
name, which remembers who made it. `head` and `dirty` change at any moment (`Work`).

| Action | Code |
|---|---|
| `Begin`, `ReadChangelog`, `CheckClean` | options, changelog of the working copy, `git status` |
| `GitTag`, `VerifyTag` | `git tag --sign` at HEAD; `Repo.Read` and `verifyTag` |
| `DeleteTag`, `PushTag` | `git tag --delete`, whose result is ignored; `git push` by name |
| `Killed` | any other failing command, or the end of the process |

A git command that fails inside `verifyTag` is one of the outcomes of `VerifyTag`: it leads to the delete like a tag that is
not valid. `ValidTag` reads the tag object, the commit and the changelog in it, which do not change under a name; `allowed_signers` is
read from the working copy and the branch is a ref, both taken to say the same throughout a command. `--changelog none` is left out.

### State and actions of Delivery

`job` is one attempt of the CI job with its directory `dist`; `brought` what attempts came to publish with; `release` and `index`
what the platform keeps; `rec` the local variables of `verify.Run`: the listing, the downloads, the manifest's entries and
the statement in force.

| Action | Code |
|---|---|
| `StartAttempt`, `VerifyPushedTag`, `Build` | the tag's push or a rerun; `tag verify --branch origin/main`; the builds of the checked out tag that must agree |
| `RefuseVersion` | GitHub's workflow compares the version in the changelog with the tag |
| `WriteManifest`, `WriteProvenance` | `release-me manifest`; `provenance`, which refuses an empty `--commit` |
| `SignManifest`, `SignStatement` | the loop of `signSSH` |
| `WriteBundle`, `StoreAttestation` | `signSigstore`: the file first, then the POST |
| `Reveal`, `Conclude` | `publish`, in the two steps of `Publication` |
| `JobFails` | a failing command or a lost runner; after `tag verify` the job may go on all the same |
| `ListRelease`, `FetchManifest`, `FetchAsset`, `CheckAssets` | part 1 of `verify.Run` |
| `CheckManifestSig`, `FetchStatement`, `CheckStatementSig` | part 2 |
| `CheckBundle`, `CheckContents`, `Reproduce` | parts 3, 4 and 5 |
| `VerifyFails` | any error that is not a verdict |
| `Edit` | others who change the public release: an overlapping run (`overlap_forgejo`), an administrator, a fault of the platform. They have the files of every attempt and those of the releases of other jobs, validly signed (`Foreign`) |

The workflows pipe `tag verify` and `publish` into `tee`, and the shell of a step reports the status of the last command of a pipe: a tag that
is not valid leaves no commit in `tag.json` and the job goes on building. So `VerifyPushedTag` goes on in either case, with the commit or with
`NoCommit`, and it is `WriteProvenance` that ends such a job.

A statement has an origin: its tag, the URI of its source and its build type, which `CheckContents` compares as `verify.Run` does
(step 4); a bundle has the identity in its certificate, which the policy accepts or not. `Others` lists what other jobs released with the same
keys: another tag of the repository, and another tool's statement about this tag.

### The pure modules

A text of `Semver` is a sequence of character codes; a file of `Changelog` a sequence of lines, each one of the kinds its
parser tells apart; names of `Manifest` are numbers, since only their order is used. Every loop of the code is a recursive function. Beside each
stands what the code should compute, in other terms: the grammar and the precedence of Semantic Versioning, a set of entries,
the language of a pattern, the checks a released file must pass next.

### What is abstract

A file is its content and a digest is the content (SHA-256
without collisions); a version is its rank (`SemverProofs` shows that there is one); a listing is one answer, though the
clients read it page by page; walking a Go map is a choice of any order, and so
is uploading by name. A GET that was repeated is one action. Remote tags do not
move: `docs/OPERATIONS.md` makes them immutable by ruleset. A signature or a bundle is a record of what it
signs, which stands for unforgeable; a build is its commit and its outcome. Forgejo's
`--trust-server-digest` has nothing to trust and changes nothing.

## 3. What TLC checks

Runs of the publisher use `MCPublish` or `MCPublishDelayed`. Files `a`, `b`, `c`; contents `a1` and `x` of equal size
and `b1`, `c1` of another, so that sizes alone cannot tell them apart; limits of
two assets and two bytes, so that the set of three files is refused; tags
`tag`, `later` and `rc`, each newer than the one before, the last a pre-release. The initial stores hold what earlier
attempts may have left: nothing; on GitHub two drafts with a wrong, a stale and
a half-stored file; on Forgejo a draft with a duplicated, a wrong and a stale
file; a newer public release; a public pre-release of a still newer version (GitHub); the tag itself public with a draft of another.

| Run | Question | Bounds |
|---|---|---|
| `publish_github` | do the promises about what becomes visible hold of one job? | 3 file sets, 3 runs, 3 faults, 2 rounds |
| `publish_forgejo` | does a job on Forgejo implement `Publication`, wind down, fail only for a fault, and converge? | 1 file set, 4 runs, 3 faults |
| `delayed_github` | is what is public complete, and does it stay, also when a request arrives late, DELETEs included? does every run end, and does a rerun job succeed? | 1 file set, 5 runs, 3 faults, 1 of them late |
| `delayed_forgejo` | (violated) is what is public complete when an upload arrives late? | 1 run, 1 late request, 3 rounds |
| `http_calls` | what does a call make of lost, late, refused and limited answers? | 2 calls, 3 attempts, `MaxWait` 1 |
| `overlap_immutable` | what survives two jobs with different files under one tag, when the platform freezes public releases? | 2 jobs, 2 runs each, 1 fault |
| `maintainer` | is what reaches the remote verified? do the pure algorithms compute what they should? | 2 invocations, 2 faults; texts of 4 characters after 3 beginnings, 3 identifiers, 4 manifest lines, 2 signer lines, patterns of 4 letters, 2 edits of 3 changelogs |
| `delivery` | does what the job makes pass `verify`, and what does a recipient accept of a release that changes? | 2 attempts, 1 fault, 1 change, 2 archives, 2 outcomes of a build, both hosts' ways to sign, 2 releases of other jobs |
| `both_mechanisms` | (violated) does a release signed both ways pass a policy that requires both? | 1 attempt, no fault |
| `overlap_forgejo` | (violated) the same overlap where nothing freezes a public release | 2 jobs, no fault |
| `latest_race` | (violated) is `latest` right when two tags are published at once? | 2 jobs, no fault |
| `rerun_resigned` | (violated) does a rerun converge when the job signs anew? | 2 file sets, 3 runs, 1 fault |

The bounds are large enough for the cases that matter: two faults in one
conversation let a lost request be followed by a lost repair; two rounds are the
least in which an upload can be checked (round one uploads, round two finds
nothing to do), so an off-by-one in the bound shows; two runs let the second find
what the first left; two jobs are enough for every race, since a race has two
parties. Nothing depends on the number of files beyond: a right one, a wrong one
and one to upload.

The properties, by what would break them:

- `AllOrNothing`, `SuccessIsPublished`, `PublishedFrozen`, `PublishedAlone`: the
  promises of docs/CONTRACT.md section 4 about what becomes visible.
- `NoSecondDraft`: a lost POST is found again, not repeated.
- `MemoSound`: an asset id that was verified stays verified.
- `MatchingBytesKept`: a rerun deletes nothing that is right.
- `OnlyVerifiedRunsWrite`: nothing is created before the checks passed. The limits are stated with numbers of their own, so that an
  off-by-one in the check shows.
- `LatestOrdered`: single job, against public releases and a public pre-release, which does not count; with two jobs it is violated, see below.
- `PublicComplete`: what `AllOrNothing` says of the publish call, said of the state, so that
  late requests count.
- `ReportedStays`: what a run reported as published is complete and public for as long as the release exists, which is
  what is left of `SuccessIsPublished` where another job may delete the release.
- `SeenPublicStays`: a release that a run has seen to be public or has reported stays public with the same assets, unless the DELETE of that
  very release is on its way: what is left of `PublishedFrozen` and `SuccessIsPublished` where DELETEs arrive late.
- `DelayedInv`: what makes `PublicComplete` and `ReportedStays` true (section 4).
- `RunsWindDown`: every step of a run lowers what is left of it and no other job raises it, so that neither the rounds nor the
  requests sent again after a fault can go on for ever. `VerifyWindsDown` says so of a verification, and `CallsWindDown`, which is proved only, of a call.
- `FailuresPaid`: before a tag is public, a run of its job fails only if a fault happened, whatever earlier runs left behind. This is what
  "interrupted runs converge" (docs/CONTRACT.md 4.4) asks of each single run.
- `Terminates`, `Converges`: liveness, of the publisher in `delayed_github` (also with a late request) and `publish_forgejo`, of a call in `http_calls`.
- `FailsForCause`: the retry loop neither gives up early nor takes the "not found" of a
  repeated delete for a failure.
- `ImplementsExchange`: no repetition and no late copy of a request has a second effect.
- `ImplementsPublication`: all of it at once, against the abstract specification.
- `IInv`: what a run has read and still relies on is true of the store (section 4).
- `TagInv`, `PushedIsVerified`: who holds the tag name, so that checks and commands that go by name
  are about one object.
- `VersionsParse`, `VersionsCompare`, `ManifestFaithful`, `SignersSound`, `WildcardsSound`, `ReleaseKeepsLint`: each
  algorithm against its reference.
- `DeliveryInv`: every file is accounted for. `UntouchedAccepted`: the evidence the commands write is the evidence `verify`
  wants. `AcceptedFromOneBuild`: what is accepted was never mixed, it is one build's, of this job or another. `AcceptedIsOfTag`: if a statement was
  there to be compared, it is this job's, and the tag is valid. Without the hypothesis this is false, see below. `AcceptedIsAttested`: a bundle that is accepted is in the index.
- `EventuallyReleased`: liveness of the job.

Deadlock is not checked: when every job has used its runs the system stops.

For the client, three attempts with a `MaxWait` of one second let the second backoff, and
the default of 30 seconds, exceed it; a reset in the past gives a negative wait. Two
calls of all pairs of methods about one release are enough for one to change what
the other is asked about.

For `maintainer`: two invocations are enough for one to act between two commands of the other, and two faults let a rejected
tag survive its deletion and its successor fail too. Texts grow from beginnings such as `0.1.`, so that the characters
that follow are spent on the core, the pre-release and the build; three identifiers give every pair of lists of at most two and three.
A changelog that is edited twice can be wrong in two places at once. The texts and the repository share one
run, and share nothing else: `kind` is chosen at the start and decides which of them moves.

For `delivery`: the second attempt is what the first may be confused with, one change, of any set of files at once, is what a recipient may meet between two downloads, and a
second outcome of the build is what only a rebuild notices. One of the two policies names no source and accepts the identity of another tag, as an `identity_regex` may. The run takes one mechanism at a time; the instance that signs with both and requires one is covered by
the theorems.

### Fairness

`FairSpec` assumes that a process that can go on does (`WF` of `Progress`, one
process of one job) and that a job that has not succeeded is started again (`WF` of
`Start` while not succeeded: docs/CONTRACT.md calls the rerun the recovery
procedure). No fairness is assumed of faults. `MaxRuns` exceeds `MaxFaults`, so that
one run goes undisturbed; that is the assumption "failures end". Nothing makes a late
request arrive. In `HttpClient` a process that can go on does (`WF` of `Progress`): every
client sets `http.Client.Timeout`, so an attempt that waits ends.

`FairSpec` of `Delivery`: a command that can run does (`GoOn`), and an operator reruns the job while nothing is released
(`Rerun`: docs/OPERATIONS.md, "Rerun the job"). `MaxAttempts`
exceeds `MaxFaults`. No fairness for faults, changes, or a verification.

### Where code and documents disagree

- `overlap_forgejo`: on Forgejo a second run of the same tag, working on the draft
  it saw, deletes or adds assets after the first run has published it.
  The GitHub workflow has a concurrency group per tag, the Forgejo workflow has
  none. The contract says published releases are never modified.
- `delayed_forgejo`: reading the state again does not settle a request that is still on its
  way. An upload that is repeated and then arrives after all leaves a name twice in
  a public release, because Forgejo accepts the second. On GitHub no number of late requests
  makes a public release incomplete (`PublicCompleteHolds`).
- `latest_race`: the listing that decides "latest" is two requests older than the
  publish call; two tags released at once can both become latest, the older one
  last. The contract states the order without this exception.
- `rerun_resigned`: the job that publishes also signs, so its rerun brings other
  files. If the first run was cut off after its publish call, every rerun fails
  with "already published", although rerunning is documented as the recovery.
- `both_mechanisms`: `sign sigstore` signs the statement without the newline that `provenance` ends the file with, and `verify` compares the two byte
  for byte. A policy that requires both mechanisms, which docs/VERIFY.md allows, accepts nothing the commands make. The project's own
  policies require one each, and no test requires both of a release that has both.

Seven more, which no run is about:

- A late DELETE undoes a reported success. A run is cut off while `dropOtherDrafts` deletes a leftover draft; the rerun
  finds that draft, completes and publishes it; then the DELETE is served. One such request is enough, and `SeenPublicStays` says that
  nothing else undoes what was seen to be public. With two, a late create and a late publish call let `dropOtherDrafts` of
  the rerun itself delete the release that has just become public. On Forgejo a late DELETE of one of two copies of an asset
  (`publish.go:357`), when the rerun has kept that one, leaves a public release incomplete. docs/OPERATIONS.md:64 says that published releases are
  never modified or deleted by the tool.
- The deletion by the rerun itself, with a second job in place of the late requests: `PublishedFrozen` fails in the instance of
  `overlap_immutable`. `dropOtherDrafts` lists the releases once and deletes by id what the list calls drafts of the tag; one of
  them may have been published since, and no host refuses to delete it. The comment at `publish.go:287` takes them for leftovers of earlier attempts,
  docs/OPERATIONS.md says public releases are never deleted. The concurrency group of the GitHub workflow keeps two jobs
  of a tag apart, so this takes a run outside of it.
- `tag create` looks at the release branch only if `--branch` is given (`cmd_tag.go:148`), `tag verify` in CI always is
  given it. docs/OPERATIONS.md step 3, without the option, speaks of "the same predicate CI uses". A tag of a commit outside
  `main` is therefore pushed, rejected by CI, and may not be moved: `Pushed` of `Pipeline` contains such tags.
- A failing `tag verify` does not fail its step: `release.yml:100` pipes it into `tee` (`.forgejo/workflows/release.yml:40`
  too), and no `pipefail` is set. The job builds what the tag names, makes the manifest, and stops at `provenance`, which refuses an empty
  commit (`cmd_sign.go:39`). docs/OPERATIONS.md:34 has "`tag verify` fails in CI" for it. Nothing is published
  (`DeliveryInv`: a job that signs or publishes has verified its tag). The same pipe behind `publish` leaves a failed publication's step green.
- docs/CONTRACT.md:134 says of a change to a published release that the signatures make it detectable. With a policy that
  requires sshsig only and without `--reproduce`, the manifest, its signature and the archives of another tag are accepted in place of the
  release's, if the statement is taken away: its absence is not missed (`verify.go:197`), and the manifest itself names no tag. Two changes of the release do this in the
  instance of `delivery`; `AcceptedIsOfTag` therefore speaks of a recipient that had a statement to compare, which
  a policy with sigstore always has.
- docs/VERIFY.md, "Offline verification", says to download the assets beforehand and pass `--dir`. `Run` lists the
  release and downloads every file in any case.
- `cmd_tag.go:199` reports that the rejected tag "was deleted", whatever `git tag --delete` answered. The next invocation then stops at `git tag`; nothing unverified
  is pushed (`PushedIsVerified`).

## 4. What is proved

`PublishProofs`, for every number of jobs, tags, names, contents, rounds, runs and
faults, and for both hosts:

- `TypeCorrect`: `Spec => []TypeOK`. The store stays one the platform can hold: ids
  below the next id, no asset without its release, one public release per tag on
  GitHub, one release per tag on Forgejo, no two assets of one name on GitHub.
  The inductive invariant is `TypeOK` with `MissingOK`: what is left to upload is among
  the local files, which an upload needs to store a content at all. The proof has
  one lemma per request for the store, one step per action for the record.

`PublishSafety`, for jobs that each have a tag of their own (`OneJobPerTag`: the
concurrency group of `.github/workflows/release.yml` provides it on GitHub; the
run `overlap_forgejo` shows what happens without it):

- `KnowledgeInvariant`: `Spec => []IInv`. None of the promises is inductive by itself: at the
  moment of the publish call the run relies on a comparison that was made requests
  ago. `IInv` says of every run that all it has read and will still use is true of
  the store: the release exists and is as visible as the run believes, no other
  release of the tag is left, the assets of a listing are still as listed,
  remembered ids still hold the bytes that were hashed, and what was compared is
  still equal.
- The argument has four parts. `UntouchedKeeps`: knowledge about a tag survives every
  step that leaves the releases of the tag alone. `StepTouchesOwnTag`: a step of a job
  leaves all other tags alone, because the release it writes to is of its own tag;
  this is where the invariant of one job protects the others. `ReadsKnow`: an answer of the
  platform turns true knowledge into true knowledge, one lemma per request.
  `DropKnows` to `PublishKnows`: so do the run's own writes, served, lost or repeated.
- `SuccessSafe`, `AllOrNothingHolds`, `PublishedAloneHolds`, `PublishedFrozenHolds`, `NoSecondDraftHolds`: the
  properties of the same names, from `IInv` and from `WritesOfStep`, which lists what
  a step may do to the store and when.
- `OnlyVerifiedRunsWriteHolds`, `MatchingBytesKeptHolds`: the same for any jobs, several of one tag included. The first follows
  from what the checks leave in the record of the run, the second from how a listing is sorted into what to delete, download and upload;
  neither needs to know that the listing is still true.
- `LatestOrderedHolds`, for a single job that is not told what is latest: what it decided
  (`LatestKnown`) stays true because its own steps touch only its own tag. With two jobs it is
  false, which is the run `latest_race`.

- `PublicationImplemented`, under `OneJobPerTag` too: `Spec => ImplementsPublication`, step by step. Starting a run is
  `Begin`. `VisibleKept`: in a step in which no release of a tag goes public, what is visible of
  the tag stays. So a request that makes a release public is `Reveal` (`RevealPromise`: it was compared, it is
  alone, nothing of the tag was visible), and every other request is invisible or ends its run
  as `Succeed` or `GiveUp` (`QuietPromise`).

`DelayedProofs`, for jobs that share a tag and for requests that arrive during any later step or run, which is where `IInv` is false:

- What remains is what no request takes back (`Gentle`): ids are given out once, assets never change, what is public stays public
  while it exists. `Basic` is what a run knows on these grounds: its release is of its tag and public if it has seen that, a
  remembered id holds the bytes that were hashed. `MemoHolds`, on both hosts, follows, and `DelayedTyped`.
- Nothing further is true without knowing more of the files: another job may delete what was compared. On GitHub one thing
  helps: a release that has every name takes no further asset, so what is equal to the files of a run can only lose some. A
  public release loses none where releases are immutable: `ReportedStaysHolds` and `ReportedStaysLate`, with any files.
- Without immutable releases it loses none where the jobs of a tag bring the same files (`OneFileSet`): then nobody takes a right asset for a
  wrong one. `DelayedInv` says so of every run (`RunOK`: what is set aside for deletion is wrong, what was compared is
  equal if it is still there) and of every request on its way (`LateOK`: an upload brings a file of the set, a publish call is
  about a complete release, what a DELETE of an asset names is surplus); `DelayedHolds` proves it inductive. `PublicCompleteHolds`, `ReportedStaysOneSet` and `AllOrNothingOneSet` follow. Their hypothesis
  `PublicComplete` is about the start: what is public then is complete.
- `SeenPublicStaysHolds`: with one job per tag no run deletes a release that was seen to be public (`HeldInv`), so a reported
  release exists and keeps its assets, whatever of the job's own requests is late, unless one of them is the DELETE of that release.

`PublishProgressProofs`, for jobs whose sets of files are finite (`FiniteFiles`), several of one tag included:

- `RunsWindDownHolds`: what is left of a run is five numbers, compared from the first on: the faults that may still happen, the place in
  the code, the rounds left, whether the first of two requests is still to come, and what is in hand. A request sent again costs a fault,
  a new round costs a round, and an asset that turns out wrong moves from the downloads to the deletions, which weigh less.
  Such numbers cannot be lowered for ever (the lemma `NoEndlessDescent`). `RunsWindDownLate` says the same where requests arrive late.
- `NeverStuckHolds` and `NeverStuckLate`: at the two places where a request is about an element of a set, there is one. What this needs is
  `BoundedInv`: sets are finite, rounds stay within their bound, and an asset whose name is being cleared is still in the set.
  With fairness the two results are the reason for `Terminates`.
- `FailuresPaidHolds`, under `OneJobPerTag`: before the tag is public, at most as many runs failed as faults happened. `PaidInv` strengthens this to
  the run at work: while it has not been paid for, it is on its course (`OnCourse`). In the first round what is kept is right and everything else
  is deleted or uploaded (`FillOK`), so the round ends with exactly the files of the run; the second round finds them
  and changes nothing (`SecondRound`); every later comparison passes because by `IInv` it is made of the same release. Hence the two rounds
  in its statement, `Rounds > 1`: one would fail without any fault. As there are boundedly many faults, this is the reason for `Converges`
  up to the moment the tag is public; from then on another set of files is refused, which is the run `rerun_resigned`.

`HttpClientProofs`, for any calls, attempts and waits:

- `ClientInvariant`: `Spec => []CInv`. What a call has heard is true of the platform and stays
  so (`Truthful`), a POST has one attempt and once it is served none is on its way
  (`PostedOnce`), who sleeps has an attempt left. Neither promise is inductive without
  these: success of a delete is "not found", which must be stable, and a success
  must exclude copies still on their way.
- `FailsForCauseHolds`, and `ClientImplements`: `Spec => ImplementsExchange`, the refinement,
  step by step: a step of a process ends its exchange or is invisible
  (`ProcessImplements`), a step of the platform is the effect or invisible (`DeliverImplements`).
- `CallsWindDownHolds`: a call takes at most three steps per attempt, whatever the answers are, and nobody gives it one back.
- `ClientTypeOK`: `Spec => []TypeOK`, which is part of `CInv`.

`SemverProofs`, for all versions, with numbers and identifiers of any length:

- `PrecedenceIsTotalOrder`: `TotalOrderOn(Version)`. The three comparisons of the code stop at the first difference, so each is the
  lexicographic order of a strict order of elements (`TextOrder`, `IdentifierAnswers`, `PreAnswers`); that such an order is total and
  transitive again is proved once (`LexTotal`, `LexTransitive`) and used for characters, identifiers and numbers. This is what makes a
  `Rank` stand for a version in `Publish`.
- `ComparesVersions`: it is the order of the specification, which compares numbers by value. The code never makes a number of
  them: a longer one is larger if it has no leading zero (`LongerIsLarger`, digit by digit from the left, with the shorter one shifted to
  the end of the longer), and of two equally long ones the first difference decides (`FirstIsSmaller`). `Parse` refuses leading zeros, so
  this holds for whatever it lets through (`Proper`).
- `ParsesTexts`: `ParsesGrammar` for any set of texts. The grammar says that *some* cut of the text makes a well-formed core, pre-release and
  build; the code cuts at the first '+' and then the first '-'. No number contains a '-' and no identifier a '+', so there is no
  other cut (`CutIsUnique`). What the grammar says of every part between dots is what the code asks of the pieces of `Split`
  (`PiecesIn`): these are cut at an increasing row of places, `CutAt`, which every round of the loop keeps (`CutGoesOn`, `SplitCuts`), and every part
  between dots stands between two of them (`PieceFound`). For the way back, `Joined` undoes `Split` (`JoinedBack`), and
  `Decimal` undoes `Value` on numbers without a leading zero (`DecimalBack`), because `Decimal(n)` is such a text for n
  (`DecimalOfNumber`) and there is no other (`OneText`, from the two lemmas above).

`MaintainerProofs`, for any number of invocations, commits and faults:

- `TagHeld`: `TagSpec => []TagInv`. `PushedIsVerified` alone is not inductive: the push goes by name. What makes it
  right is that `git tag` refuses an existing name, so that from then on the name belongs to the invocation that made the
  object, and nobody else's commands can reach their delete or push. `PushedIsVerifiedHolds` follows.

and for texts of any length over any constants, where `Written` says what texts there are:

- `SignersSoundHolds`: the first line that does not refuse a key decides, so a key is accepted where some line allows it
  (`VerifyIsAuthorized`); a pattern list is a loop with three answers, of which a negated match is final (`MatchIsAllows`).
- `WildcardsSoundHolds`: what is left of the pattern accepts what is left of the text if the rest can be cut (`WildcardIsLanguage`, from the end of
  the pattern to its start).
- `ManifestFaithfulHolds`: the binary search ends at the first name that is not smaller (`PlaceFound`: the interval shrinks and
  keeps the place in it), so `Lookup` finds what is there (`LookupFound`), `Add` keeps the list sorted and exchanges one entry
  (`EntryAdded`), `Parse` ends with the content of the lines or with nothing (`ParseAdds`), and two sorted lists are `Same` if they
  have the same content (`SameContent`).
- `VersionsCompareHolds` and `VersionsParseHolds`: from `ComparesVersions` and `ParsesTexts`.
- `ReleaseKeepsLintHolds`: the row of places where each old line ends in the new file (`MovesTo`, `ReleaseMoves`) rises (`PlacesFollow`), and every
  new line lies between two of them (`PlacesCover`), so it comes from one old line (`Origin`) and all keep their order. Sections end where
  they ended (`NewEnds`), and what lies between stays the same but for links, which a body does not contain (`StretchKept`, `BodyKept`).
  `LintsKept` then goes through the conditions of `Lints` one by one. That the new version is above all others needs that the old file
  lints: its first release is its largest (`LatestIsLargest`).

The induction theorems of the library take an operator as a parameter, which the provers cannot instantiate. What stands in for
them is a *set* of rounds: `Rounds` says that a set that contains 0 and with every i - 1 also i contains all of 0 .. n, because the least
number outside would have a predecessor inside (`LeastOf`). `LoopDefined` gives in the same way the function that a recursive
definition over 1 .. n chooses. What an algorithm is compared with is not recursive, `Decimal` apart, whose recursion is shown to
be a function by the same means (`DigitsDefined`).

`DeliveryProofs`, for any archives, builds, attempts, faults and changes of the release, and any policies:

- `Accounted`: `Spec => []DeliveryInv`. Its parts carry a file along its way: what lies in `dist` at each place of the job
  (`JobOK`, one lemma per command that writes), that what was brought to publish is complete and coherent (`BroughtOK`), that every
  public file came from there, or from the release of another job, or is damaged (`ReleaseOK`, also after any change), and what the recipient knows at each place (`RecOK`).
  `JobOK` also says that who has a commit has verified it, and that whoever signs or publishes has one.
- `AcceptedFromOneBuildHolds`: the manifest is one file of one build, every archive is compared with it by its content, so whatever was mixed
  into the release between two downloads, the accepted archives are that build's. `AcceptedIsAttestedHolds`: no attempt reaches publish before its bundle is stored.
- `AcceptedIsOfTagHolds`: a statement that is accepted has the subjects of the manifest and the origin of this job (from
  `OriginsAssumption`: nobody else states this tag of this repository), so some attempt of this job wrote it, about archives it then
  brought to publish; and that attempt had verified the tag.
- `UntouchedAcceptedHolds`, where the policy requires one mechanism that the job signs with (`OneRequired`; `both_mechanisms` shows
  why): while nobody touches the release, everything downloaded is the release (`UntouchedInv`), which is one coherent set of
  files, so no comparison can fail except that of a rebuild.

- `VerifyWindsDownHolds`, where a release has finitely many archives: every step of `verify.Run` lowers what is left of it, places and at one of them
  downloads. The manifest decides what is downloaded, but no more than the archives of the release, however it was changed.

Assumed are only `HostAssumption`, `PublishAssumption`, `ClientAssumption`, `TagAssumption`, `TaggingAssumption`, `MaintainerAssumption`, `NamesAssumption`, `OriginsAssumption` and `SetupsAssumption`,
which type the constants, say that the initial stores are well formed, that the files of a release have different names and that no other job releases this tag of this repository, and `OneJobPerTag`, `OneFileSet`, `OneRequired`, `FiniteFiles`, `IsFiniteSet(Payload)`, the kind of host and the single job of `LatestOrderedHolds` where stated. `OneFileSet` is what a build that is
reproduced by two builders before it is published (docs/CONTRACT.md) gives to jobs that do not sign, or sign deterministically; `rerun_resigned` and `overlap_immutable` are about those that do not.

## 5. What is only checked, what is left out

Liveness under fairness (`Terminates`, `Converges`, `EventuallyReleased`) and anything with ENABLED are checked by TLC only: the prover
does not handle them. What they rest on is proved: measures that every step lowers (`RunsWindDown`, `CallsWindDown`, `VerifyWindsDown`), that a working run has a next
request (`NeverStuck`), and that failures are paid for by faults (`FailuresPaid`). The step from there to the temporal formulas, fairness of the steps, is TLC's.
`NeverStuck` and the invariants `BoundedInv` and `PaidInv` are proved and no run lists them. Every safety invariant of a passing run has a
theorem, in some cases under the hypotheses section 4 names. `VerifyWindsDown` stands for the end of a verification: the fairness it would take is that of
client timeouts, and TLC's check of it on this graph costs more than it shows beyond the measure.

Not modelled, and why (`PROJECT.json` has it per component and hazard):

- cryptography, Fulcio, Rekor, TUF and git: external. The models take a signature for what it signs.
- byte formats: archives, the snappy decoder, JSON documents, the text of allowed-signers files. They have no state and
  no interleaving; tests with fixed inputs reach them well.
- pages of a listing: what a page shows while releases come and go is decided by the platform, not by this code.
- a remote tag that moves under a running publish: the code looks once and relies on the ruleset.
- a `publish` whose failure the pipe into `tee` hides: what the job still does then only reads.
- command-line parsing, reports, Nix.

## 6. What could follow

1. `Pipeline` over `Publish` itself instead of its promise, which would need a smaller instance of either.
2. Two recipients and a release that is replaced as a whole between two listings.
