\* Three jobs, one named folder, two seconds.
CONSTANTS
    Jobs = {j1, j2, j3}
    Named = {latest}
    MaxClock = 1
    None = None
SPECIFICATION Spec
SYMMETRY JobSymmetry
CHECK_DEADLOCK FALSE
INVARIANTS
    ReportsAreOfOneRun
