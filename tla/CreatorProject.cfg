\* Both templates at their size, two commands, one edit or crash.
CONSTANTS
  Manifests <- SomeManifests
  Starts <- SomeStarts
  Strays <- SomeStrays
  EditorPaths <- Edited
  Modes = {"full", "import"}
  EngineRuns <- SomeRuns
  MaxCopyFiles = 43
  MaxCommands = 2
  MaxDisturbed = 1

SPECIFICATION Spec

CHECK_DEADLOCK FALSE

INVARIANTS
  ApplyIsWhole
  CopyIsTheProject
  VerdictIsSound

PROPERTIES
  NothingIsOverwritten
