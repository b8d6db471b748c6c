SPECIFICATION Spec
CONSTANTS
    Calls = {c1, c2, c3}
    FailureThreshold = 2
    ResetTimeout = 2
    Deadline = 2
    MaxTime = 7
INVARIANTS
    StateIsEarned
    OpenIsBounded
PROPERTIES
    HalfOpenResolves
CHECK_DEADLOCK FALSE
