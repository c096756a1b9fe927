SPECIFICATION FairSpec
CONSTANTS
  d = d
  df = df
  a = a
  b = b
  c = c
  old = old
  new = new
  mine = mine
  Root = Root
  Absent = Absent
  Directory = Directory
  NoHash = NoHash
  Path <- MCPath
  Content <- MCContent
  Parent <- MCParent
  Trees <- MCTrees
  Plans <- MCPlans
  EditorWindows <- Phase
  MaxEdits = 2
  MaxCrashes = 1
  MaxFaults = 1
  MaxRollbacks = 1
CHECK_DEADLOCK FALSE
INVARIANTS
  WriteAhead
  JournalTruthful
  RecoverySound
PROPERTIES
  CallsReturn
