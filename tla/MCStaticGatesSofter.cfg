CONSTANTS
  PathOrder <- MCPathOrder
  Lines <- MCLines
  TreePairs <- MCTreePairs
  Attributes <- MCAttributes
  Files = {"snap", "src", "test"}
  CaseNames = {"case"}
  Configs <- MCConfigs
  RunSets <- MCRunSets
SPECIFICATION Spec
INVARIANTS RemovalAnswersToAll
