SPECIFICATION Spec
CONSTANTS
    Servers = {s1, s2}
    MaxRuns = 2
    Ttl = 3
    Beat = 1
    Late = 1
    MaxTurns = 2
    CallCounts = {2}
    HistoryMax = 5
    MaxTitles = 1
INVARIANTS
    OneWriter
    PromptFollowsRead
    RequestsWhole
PROPERTIES
    LeaseFreed
CHECK_DEADLOCK FALSE
