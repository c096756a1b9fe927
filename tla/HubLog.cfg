\* Two processes, four appends to either store, two faults.
CONSTANTS
  w1 = w1
  w2 = w2
  Writer <- Writers
  MaxAppends = 4
  MaxFaults = 2

SPECIFICATION Spec

SYMMETRY Symmetric

CHECK_DEADLOCK FALSE

INVARIANTS
  TypeOK
  ChainVerifies
  ReturnedIsStored
  AuditAgrees
  AcceptedAtRest
