SPECIFICATION SignInSpec
CONSTANTS
    Accounts = {a1, a2}
    Identities = {i1, i2}
    Emails = {e1}
    Attempts = {q1, q2}
    MaxFailures = 2
    AutoLink = TRUE
SYMMETRY Symmetry
INVARIANTS TokensGoToTheOwner StrandedOnlyByCut LockIsEarned
PROPERTIES LockLasts
CHECK_DEADLOCK FALSE
