SPECIFICATION Spec
CONSTANTS
  FaultCount = 4
  Jobs = 3
  SocketParts = 2
  Saved <- SaveSecond
  Failures <- AllFailures
INVARIANTS
  OutputInOrder
  AnalysedOnce
  ReplyMatchesTask
  SuccessIsComplete
  PidsAreOurs
  AllReaped
