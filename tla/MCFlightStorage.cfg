SPECIFICATION Spec
CONSTANTS
  Names = {n1, n2}
  Tables = {a, b}
  MaxCalls = 3
  None = None
  Ok = Ok
  Error = Error
  Garbage = Garbage
INVARIANTS
  WholeUnlessMixed
  AcknowledgedIsStored
PROPERTIES
  StoreRefinement
CHECK_DEADLOCK FALSE
