SPECIFICATION JudgeSpec
CONSTANTS
  Registry <- MCRegistry
  Configs <- MCConfigs
  Paths <- MCPaths
  Surface <- MCSurface
  Diffs <- MCDiffs
  LinkTo <- MCLinkTo
  NoPath = "nowhere"
  ProbeRuns = 2
  RetryFailed = 1
  MaxRetries = 2
INVARIANTS
  NoVerdictWithoutAnswers
  AcquittalIsEarned
  RefusalOutlivesTeardown
  CutIffRefused
  ImmutabilityJudges
  PassRestsOnBothProbes
PROPERTIES
  RunsAsVerify
  LazyEnvironment
  BaseSuiteIsLast
  JudgementEnds
