SPECIFICATION Spec
CONSTANTS
  Paths <- MCPaths
  Surface <- MCSurface
  Diffs <- MCMovedDiffs
  LinkTo <- MCLinkTo
  NoPath = "nowhere"
  ProbeRuns = 3
  RetryFailed = 2
  MaxRetries = 2
INVARIANT
  NothingElseTravels
