SPECIFICATION Spec
CONSTANTS
  Designs <- MCDesigns
INVARIANTS
  ArraysSuffice
  BuildsWellFormed
  ObservesDesign
