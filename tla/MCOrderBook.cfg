\* What commands do to the book and its linked structures.  The event log is off, so that the state space
\* is finite without a bound on the number of commands.
CONSTANTS
    OrderIds = {o1, o2, o3}
    Prices = {1, 2, 3}
    QtySpace = 4
    SlotSpace = 3
    None = None
    EventMode = "Disabled"
    MaxEvents = 1
SPECIFICATION Spec
SYMMETRY IdSymmetry
INVARIANTS
    TypeOK
    IndexMatchesArena
    CachedDepth
    Uncrossed
    FreeListWellFormed
    QueuesWellFormed
    SnapshotIsArrivalOrder
PROPERTIES
    FillsRespectPriority
    FillsConserveQuantity
    IdsAreSingleUse
