SPECIFICATION OutboxSpec
CONSTANTS
    Msgs = {m1}
    Clients = {c1, c2}
    Sweeper = sweeper
    NoMsg = nomsg
    MaxAttempts = 3
    Lease = 2
    SendLimit = 1
    MaxBackoff = 4
    MaxRetries = 2
    MaxFaults = 3
INVARIANTS
    DeliveredOnce
    SentTruthfully
PROPERTIES
    OutboxDrains
