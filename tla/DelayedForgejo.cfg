CONSTANTS
  job = job  job2 = job2  tag = tag  later = later  rc = rc
  a = a  b = b  c = c
  a1 = a1  b1 = b1  c1 = c1  x = x
  commit = commit  other = other
  Kind = "forgejo"
  Immutable = FALSE
  Tags = {tag, later, rc}
  Names = {a, b, c}
  Contents = {a1, b1, c1, x}
  Partial = Partial
  NoDigest = NoDigest
  Size <- MCSize
  Publishers = {job}
  TagOf <- MCTagOf
  LocalSets <- OneLocalSet
  Commits = {commit}
  NoCommit = NoCommit
  RemoteTag <- MCRemoteTag
  TrustServerDigest = FALSE
  LatestOption <- MCLatest
  Rank <- MCRank
  PreTags = {rc}
  AssetLimit = 2
  SizeLimit = 2
  Rounds = 3
  NoName = NoName
  InitStores <- ForgejoStores
  MaxRuns = 1
  MaxLate = 1
  MaxFaults = 1
  Nothing = Nothing
  Corrupt = Corrupt
SPECIFICATION DSpec
INVARIANTS PublicComplete
CHECK_DEADLOCK FALSE
