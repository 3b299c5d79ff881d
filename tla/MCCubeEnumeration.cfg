SPECIFICATION EnumerationSpec
CONSTANTS
  InputCount = 2
  Limits <- MCLimits
  DensityCaps <- MCDensityCaps
  Failures <- MCFailures
INVARIANTS
  CompleteIsExact
  IncompleteIsLowerBound
  EachCubeIsNew
  SavedCubesMatchRow
PROPERTIES
  Terminates
