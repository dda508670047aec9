SPECIFICATION Spec
CONSTANTS
  Commits <- MCCommits
  Missing = Missing
  Unreadable = Unreadable
  ConfigAt <- MCConfigAt
  HooksAt <- MCHooksAt
  Flags <- MCFlags
  WorkflowAt <- MCWorkflowAt
  WorkTrees <- MCWorkTrees
  Markers <- MCMarkers
  Orders <- MCOrders
  Released = TRUE
  Suites <- MCSuites
  Shape <- MCShape
  SampleSize = 3
  Trips <- MCTrips
  Invocations <- MCInvocations
INVARIANT OneRuleSet
CHECK_DEADLOCK FALSE
