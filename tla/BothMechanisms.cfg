CONSTANTS
  main = main  side = side  early = early
  Commits = {main, side, early}
  OnBranch = {main, early}
  Ready = {main, side}
  NoCommit = NoCommit
  MaxFaults = 0
  Payload = {"linux", "darwin"}
  Manifest = "SHA256SUMS"
  ManifestSig = "SHA256SUMS.sig"
  Statement = "provenance"
  StatementSig = "provenance.sig"
  Bundle = "bundle"
  NoFile = NoFile
  Ours <- ThisTag
  KnownTypes = {"release-me", "github"}
  Others <- NoOthers
  Setups <- BothMechanisms
  Outcomes = {0}
  MaxAttempts = 1
  Nothing = Nothing
  MaxEdits = 0
SPECIFICATION Spec
INVARIANTS UntouchedAccepted
CHECK_DEADLOCK FALSE
