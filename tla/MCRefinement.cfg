\* The engine implements its two abstract specifications.
CONSTANTS
    OrderIds = {o1, o2, o3}
    Prices = {1, 2}
    QtySpace = 3
    SlotSpace = 3
    None = None
    EventMode = "Disabled"
    MaxEvents = 1
SPECIFICATION HistorySpec
SYMMETRY IdSymmetry
PROPERTIES
    ImplementsPriceTimePriority
    ImplementsAtomicBook
