SPECIFICATION FaceSpec
CONSTANTS
    Persons = {p1, p2}
    Faces = {f1, f2}
    Alike <- Recognized
    Nobody = Nobody
    Calls = {c1, c2}
    Vectors = {v1, v2}
    Registered = {"NORMAL"}
SYMMETRY Symmetry
INVARIANTS DebtorIsEnrolled DebtorStaysListed BlockedUnlessRaced
           ListsAgree
