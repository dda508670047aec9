SPECIFICATION Spec
CONSTANTS
  Phases = {base, suite}
  Trees = {mergeBase, head}
  NoTree = NoTree
  MaxCalls = 4
INVARIANTS
  TypeOK
  TeardownAttempted
  LeakReported
  KilledNeverAnswers
  ResultsAreOwn
PROPERTIES
  CleanStart
  KeepsContract
