SPECIFICATION Spec
CONSTANTS
    Procs = {p1, p2}
    MaxRuns = 3
    TableRows = 4
    Half = 2
    Bound = 1
SYMMETRY Symmetry
INVARIANTS
    ReadsExactly
    PlainRunsRecover
CHECK_DEADLOCK FALSE
