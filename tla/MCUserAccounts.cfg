\* Three attempts over two emails; no symmetry, because liveness is checked.
CONSTANTS
    Emails = {e1, e2}
    Attempts = {a1, a2, a3}
    None = None
SPECIFICATION FairSpec
CHECK_DEADLOCK FALSE
INVARIANTS
    UsersHaveCredentials
PROPERTIES
    BootstrapIsFirst
    FailuresLeaveNothing
    AttemptsEnd
