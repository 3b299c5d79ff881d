SPECIFICATION Spec
CONSTANTS
  FaultCount = 4
  Jobs = 3
  SocketParts = 2
  Saved <- SaveFirstTwo
  Failures = {}
PROPERTIES
  CleanRunSucceeds
