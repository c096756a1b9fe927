SPECIFICATION Spec
CONSTANTS
  p1 = p1
  p2 = p2
  r1 = r1
  r2 = r2
  NoRun = NoRun
  Process <- TwoProcesses
  Run <- TwoRuns
  NumFiles = 1
  Edits = {}
  EditPoints = {}
  MaxEdits = 0
  MaxCrashes = 0
SYMMETRY Symmetric
CHECK_DEADLOCK FALSE
PROPERTIES
  ChangesAreAuthorized
