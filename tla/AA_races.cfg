SPECIFICATION Spec
CONSTANTS
    Phones = {p1, p2}
    NoPhone = NoPhone
    Email = Email
    Requests = {r1, r2}
    Jobs = {j1}
SYMMETRY Symmetry
INVARIANTS
    StatusIsSound
    DeletionIsDue
PROPERTIES
    VerifiedIsFinal
CHECK_DEADLOCK FALSE
