SPECIFICATION Safe
CONSTANTS
    Orders = {o1}
    Users = {u1}
    Handlers = {h1, h2}
    Jobs = {j1, j2}
    Events = {e1, e2}
    Types = {"DELIVERY", "PREORDER"}
    NoOrder = NoOrder
    Nobody = Nobody
    BatchSize = 1
    MaxFaults = 1
SYMMETRY Symmetry
INVARIANTS
    DebtIsSound
    ScannedIsPaid
    AnnouncementsHold
PROPERTIES
    ImplementsSettlement
