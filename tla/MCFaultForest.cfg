SPECIFICATION ForestSpec
CONSTANTS
  FaultCount = 5
  Pairs <- MCPairs
INVARIANTS
  ForestRepresentsGroups
  FindRootIsRight
  DepthIsLogarithmic
PROPERTIES
  MergesOnly
  Returns
