SPECIFICATION Spec
CONSTANTS
    Orders = {o1, o2}
    Users = {u1}
    Handlers = {h1}
    Jobs = {j1, j2}
    Events = {}
    Types = {"PREORDER"}
    NoOrder = NoOrder
    Nobody = Nobody
    BatchSize = 1
    MaxFaults = 1
INVARIANTS
    BlacklistSound
PROPERTIES
    ExpiryProgress
