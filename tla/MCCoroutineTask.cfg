SPECIFICATION Spec
CONSTANTS
  Frames = {f1, f2, f3}
  Tasks = {t1, t2, t3}
  Threads = {h1, h2}
  None = None
  Dead = Dead
SYMMETRY Symmetry
INVARIANTS
  FaultNeedsMisuse
  OneOwner
  OnlyAssignmentLeaks
CHECK_DEADLOCK FALSE
