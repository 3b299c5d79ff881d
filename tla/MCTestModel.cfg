SPECIFICATION Spec
CONSTANTS
  Circuits <- MCCircuits
  MaxFaults = 2
INVARIANTS
  EveryModelDetects
  EveryTestIsModel
  SimulationAgrees
