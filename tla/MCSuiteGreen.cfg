SPECIFICATION Spec
CONSTANTS
  Files <- MCFiles
  CaseNames <- MCCaseNames
  RetryFailed = 2
  KnownFlaky <- MCKnownFlaky
  Runs <- MCRuns
  Reruns <- MCReruns
INVARIANTS
  PassIsExcused
  AgentAnswersForNoOther
  BlameIsProven
PROPERTIES
  KeepsProtocol
