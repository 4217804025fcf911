\* Two requests at a time from two clients; eviction starts when both are
\* tracked.
CONSTANTS
    Clients = {c1, c2}
    Tasks = {t1, t2}
    Burst = 2
    Cost = 2
    MaxTracked = 2
    MaxClock = 3
    None = None
SPECIFICATION Spec
SYMMETRY RequestSymmetry
INVARIANTS
    TypeOK
    WithinAllowanceInOrder
    NoUndueRefusal
PROPERTIES
    OthersUnaffected
