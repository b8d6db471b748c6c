SPECIFICATION Spec
CONSTANTS
    Menus = {m1, m2}
    NoMenu = NoMenu
    Requests = {r1, r2}
    RequireVerification = TRUE
SYMMETRY Symmetry
INVARIANTS
    PublicIsVetted
    StatusIsCoherent
    FreshUnlessOverlap
