\* Three requests over two symbols; no symmetry, because liveness is checked.
CONSTANTS
    Symbols = {s1, s2}
    Malformed = Malformed
    Requests = {r1, r2, r3}
    MaxBatch = 2
    None = None
SPECIFICATION FairSpec
CHECK_DEADLOCK FALSE
INVARIANTS
    BatchesAreAtomic
    ConflictsAreReal
PROPERTIES
    DelistedIsFinal
    RequestsEnd
