\* Two requests at a time: the later reading may take the mutex first.
CONSTANTS
    Clients = {c1, c2}
    Tasks = {t1, t2}
    Burst = 2
    Cost = 2
    MaxTracked = 2
    MaxClock = 3
    None = None
SPECIFICATION Spec
SYMMETRY RequestSymmetry
INVARIANTS
    WithinAllowance
