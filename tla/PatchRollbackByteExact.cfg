SPECIFICATION Spec
CONSTANTS
  d = d
  df = df
  a = a
  b = b
  c = c
  old = old
  new = new
  mine = mine
  Root = Root
  Absent = Absent
  Directory = Directory
  NoHash = NoHash
  Path <- MCPath
  Content <- MCContent
  Parent <- MCParent
  Trees <- MCTrees
  Plans <- NestedPlans
  EditorWindows <- NoWindows
  MaxEdits = 0
  MaxCrashes = 1
  MaxFaults = 0
  MaxRollbacks = 1
CHECK_DEADLOCK FALSE
INVARIANTS
  RollbackByteExact
