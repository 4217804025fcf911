\* Logs of up to MaxEvents events, plus those the last command adds.  The
\* replay stops when the book is rebuilt.
CONSTANTS
    OrderIds = {o1, o2, o3}
    Prices = {1, 2}
    QtySpace = 3
    SlotSpace = 3
    None = None
    EventMode = "Full"
    MaxEvents = 4
SPECIFICATION ReplaySpec
SYMMETRY IdSymmetry
CHECK_DEADLOCK FALSE
INVARIANTS
    LogAccountsForBook
    ReplayRebuildsBook
