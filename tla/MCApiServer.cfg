\* Three requests share two connections and two rows; clients may stall.
CONSTANTS
    x = x
    y = y
    MaxRequests = 3
    Rows = {x, y}
    Plans <- MCPlans
    PoolSize = 2
    None = None
SPECIFICATION Spec
CHECK_DEADLOCK FALSE
INVARIANTS
    NothingCutOff
    StalledHoldsNothing
PROPERTIES
    ServerStops
    RequestsAnswered
