SPECIFICATION Spec
CONSTANTS
  Paths <- MCPaths
  Surface <- MCSurface
  Diffs <- MCDiffs
  LinkTo <- MCLinkTo
  NoPath = "nowhere"
  ProbeRuns = 3
  RetryFailed = 2
  MaxRetries = 2
INVARIANTS
  ReadsItsTree
  SharedAnswers
PROPERTIES
  BaseBeforeHead
