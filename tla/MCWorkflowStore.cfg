SPECIFICATION StoreSpec
CONSTANTS
    WebhookDefs = {w1}
    OtherDefs = {s1}
    NoDef = none
    Clients = {c1, c2}
    MaxVersion = 3
    MaxToken = 3
    MaxSnapshots = 4
SYMMETRY Symmetry
INVARIANTS
    HistoryContiguous
    RevokedStaysRevoked
CHECK_DEADLOCK FALSE
