SPECIFICATION Safe
CONSTANTS
    Orders = {o1}
    Users = {u1}
    Handlers = {h1, h2}
    Jobs = {j1}
    Events = {e1}
    Types = {"PREORDER"}
    NoOrder = NoOrder
    Nobody = Nobody
    BatchSize = 1
    MaxFaults = 0
INVARIANTS
    ScannedNoDebtor
