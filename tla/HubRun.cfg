SPECIFICATION FairSpec
CONSTANTS
  p1 = p1
  p2 = p2
  r1 = r1
  r2 = r2
  NoRun = NoRun
  Process <- OneProcess
  Run <- TwoRuns
  NumFiles = 2
  Edits <- AnyEdit
  EditPoints <- Point
  MaxEdits = 1
  MaxCrashes = 2
CHECK_DEADLOCK FALSE
INVARIANTS
  TypeOK
  StoreIsUsable
  MutationOnRecord
  ClosedRunsTellTheTruth
PROPERTIES
  AmbiguousIsLeftOpen
  ImplementsRunLifecycle
  AbandonedRunsClose
