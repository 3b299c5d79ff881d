SPECIFICATION FairSpec
CONSTANTS
  Cases <- MCCases
INVARIANTS
  EssentialHolds
  ImplicationsClosed
PROPERTIES
  Terminates
