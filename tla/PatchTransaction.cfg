SPECIFICATION Spec
CONSTANTS
  d = d
  df = df
  a = a
  b = b
  c = c
  old = old
  new = new
  mine = mine
  Root = Root
  Absent = Absent
  Directory = Directory
  NoHash = NoHash
  Path <- MCPath
  Content <- MCContent
  Parent <- MCParent
  Trees <- MCTrees
  Plans <- MCPlans
  EditorWindows <- QuietWindows
  MaxEdits = 2
  MaxCrashes = 2
  MaxFaults = 2
  MaxRollbacks = 2
CHECK_DEADLOCK FALSE
INVARIANTS
  TypeOK
  RolledBackRestores
  RollbackConverges
PROPERTIES
  EngineLosesNothing
  RollbackOnlyRestores
  ImplementsReversiblePatch
