CONSTANTS
  job = job  job2 = job2  tag = tag  later = later  rc = rc
  a = a  b = b  c = c
  a1 = a1  b1 = b1  c1 = c1  x = x
  commit = commit  other = other
  Kind = "forgejo"
  Immutable = FALSE
  Tags = {tag, later, rc}
  Names = {a, b, c}
  Contents = {a1, b1, c1, x}
  Partial = Partial
  NoDigest = NoDigest
  Size <- MCSize
  Publishers = {job, job2}
  TagOf <- MCTagOf
  LocalSets <- OneLocalSet
  Commits = {commit}
  NoCommit = NoCommit
  RemoteTag <- MCRemoteTag
  TrustServerDigest = FALSE
  LatestOption <- MCLatest
  Rank <- MCRank
  PreTags = {rc}
  AssetLimit = 2
  SizeLimit = 2
  Rounds = 2
  NoName = NoName
  InitStores <- OnlyEmpty
  MaxRuns = 1
  MaxFaults = 0
  Nothing = Nothing
  Corrupt = Corrupt
SPECIFICATION Spec
PROPERTIES PublishedFrozen
CHECK_DEADLOCK FALSE
