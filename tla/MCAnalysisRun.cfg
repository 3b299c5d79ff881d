SPECIFICATION Spec
CONSTANTS
  FaultCount = 2
  old = old
  note = note
  OtherCubes <- OneOldCube
  UserFiles <- OneUserFile
  MaxRuns = 3
INVARIANTS
  FilesMatchMarker
  SuccessIsWhole
PROPERTIES
  UserFilesKept
  ImplementsReport
