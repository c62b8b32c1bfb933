SPECIFICATION RunsSpec
CONSTANTS
    RunIds = {r1, r2}
    MaxMinute = 2
    MaxNodes = 2
INVARIANTS
    OncePerMinute
    CancelStopsWalk
PROPERTIES
    VerdictIsFinal
    AsyncRunsEnd
