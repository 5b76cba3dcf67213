CONSTANTS
  main = main  side = side  early = early  create1 = create1  create2 = create2
  Commits = {main, side, early}
  OnBranch = {main, early}
  Ready = {main, side}
  Creates = {create1, create2}
  NoTag = NoTag
  MaxFaults = 2
  MaxNumber = 15
  Starts <- MCStarts
  Chars <- MCChars
  MaxChars = 4
  Cores <- MCCores
  Identifiers <- MCIdentifiers
  MaxIdentifiers = 3
  FileNames <- MCFileNames
  BadNames = {0}
  Sums = {1, 2}
  MaxEntries = 4
  OtherLists <- MCOtherLists
  Star = Star  Any = Any  None = None
  SignerLines <- MCSignerLines
  MaxLines = 2
  Requests <- MCRequests
  Letters = {1, 2}
  MaxPattern = 4
  MaxName = 3
  Files <- MCFiles
  Lines <- MCLines
  MaxEdits = 2
  Releases <- MCReleases
SPECIFICATION Spec
INVARIANTS TagInv PushedIsVerified VersionsParse VersionsCompare ManifestFaithful SignersSound WildcardsSound ReleaseKeepsLint
CHECK_DEADLOCK FALSE
