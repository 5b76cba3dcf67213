CONSTANTS
  job = job  job2 = job2  tag = tag  later = later  rc = rc
  a = a  b = b  c = c
  a1 = a1  b1 = b1  c1 = c1  x = x
  commit = commit  other = other
  Kind = "github"
  Immutable = TRUE
  Tags = {tag, later, rc}
  Names = {a, b, c}
  Contents = {a1, b1, c1, x}
  Partial = Partial
  NoDigest = NoDigest
  Size <- MCSize
  Publishers = {job, job2}
  TagOf <- MCTagOf
  LocalSets <- TwoLocalSets
  Commits = {commit}
  NoCommit = NoCommit
  RemoteTag <- MCRemoteTag
  TrustServerDigest = FALSE
  LatestOption <- MCLatest
  Rank <- MCRank
  PreTags = {rc}
  AssetLimit = 2
  SizeLimit = 2
  Rounds = 2
  NoName = NoName
  InitStores <- OnlyEmpty
  MaxRuns = 2
  MaxFaults = 1
  Nothing = Nothing
  Corrupt = Corrupt
SPECIFICATION Spec
INVARIANTS ReportedStays
CHECK_DEADLOCK FALSE
