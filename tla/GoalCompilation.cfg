\* Four goals and every document three edits make of them.
CONSTANTS
  Precision = 4
  MaxSignificant = 3
  Goals <- Start
  Edits <- OneEdit
  MaxEdits = 3

SPECIFICATION Spec

CHECK_DEADLOCK FALSE

INVARIANTS
  OneManifest
  ReadRoleDefaultsAreTold
  SameNumberSameHash
