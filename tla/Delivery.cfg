CONSTANTS
  main = main  side = side  early = early
  Commits = {main, side, early}
  OnBranch = {main, early}
  Ready = {main, side}
  NoCommit = NoCommit
  MaxFaults = 1
  Payload = {"linux", "darwin"}
  Manifest = "SHA256SUMS"
  ManifestSig = "SHA256SUMS.sig"
  Statement = "provenance"
  StatementSig = "provenance.sig"
  Bundle = "bundle"
  NoFile = NoFile
  Ours <- ThisTag
  KnownTypes = {"release-me", "github"}
  Others <- OtherReleases
  Setups <- OneMechanism
  Outcomes = {0, 1}
  MaxAttempts = 2
  Nothing = Nothing
  MaxEdits = 1
SPECIFICATION FairSpec
INVARIANTS DeliveryInv UntouchedAccepted AcceptedFromOneBuild AcceptedIsOfTag AcceptedIsAttested
PROPERTIES VerifyWindsDown EventuallyReleased
CHECK_DEADLOCK FALSE
