\* Two jobs started within one second.
CONSTANTS
    Jobs = {j1, j2}
    Named = {latest}
    MaxClock = 1
    None = None
SPECIFICATION Spec
SYMMETRY JobSymmetry
CHECK_DEADLOCK FALSE
INVARIANTS
    AutoIsFresh
