SPECIFICATION Spec
CONSTANTS
  Files <- MCFiles
  CaseNames <- MCCaseNames
  ProbeRuns = 2
  Inventories <- MCInventories
  Runs <- MCRuns
INVARIANT
  SharedNamesAreRefused
