SPECIFICATION Spec
CONSTANTS
  FaultCount = 3
  Jobs = 2
  SocketParts = 1
  Saved <- SaveSecond
  Failures <- AllFailures
PROPERTIES
  ImplementsReport
  Returns
  OrphansExit
