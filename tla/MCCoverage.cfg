SPECIFICATION MainSpec
CONSTANTS
  Commands <- SomeCommands
  MaxCounts = 3
  TotalPatterns = 4
  Scale = 7
  Results <- SomeResults
  Circuits <- AllCircuits
INVARIANTS
  ReportIsTrue
  SuccessKeepsOutputs
