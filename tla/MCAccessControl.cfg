\* Two requests at a time; an administrator and a trader share two tokens.
CONSTANTS
    Users = {admin, trader}
    Admins = {admin}
    Tokens = {k1, k2}
    Names = {main}
    Statuses = {"Active", "Suspended"}
    Tasks = {t1, t2}
    Lifetime = 1
    MaxClock = 1
    None = None
SPECIFICATION Spec
SYMMETRY RequestSymmetry
INVARIANTS
    TypeOK
    HandledOnlyIfEntitled
PROPERTIES
    RefusedOnlyIfNotEntitled
    SessionsOnlyEnd
    AccountsOfCallers
