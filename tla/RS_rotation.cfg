SPECIFICATION Spec
CONSTANTS
    Tokens = {t1, t2, t3, t4}
    Requests = {r1, r2}
    None = None
SYMMETRY Symmetry
INVARIANTS
    HolderIsSafe
    FirstReplayIsSeen
PROPERTIES
    RevokedIsFinal
CHECK_DEADLOCK FALSE
