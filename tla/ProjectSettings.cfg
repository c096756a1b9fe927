\* Every file of three more lines, and one save by the editor.
CONSTANTS
  Texts <- Strings
  Files <- AllFiles
  Saves <- EditorSaves
  Requests <- AllRequests
  NameKey = 1
  ReadTwice = {3}
  MaxSaves = 1
  MaxTail = 3

SPECIFICATION Spec

CHECK_DEADLOCK FALSE

INVARIANTS
  EditMeansRequest
  StaysReadable
  RepeatIsIdempotent

PROPERTIES
  RestIsPreserved
