CONSTANT Cases <- MCCases
SPECIFICATION Spec
INVARIANTS
  CubeDetects
  SimulationFindsDetection
  RequiredAgreesWithModel
