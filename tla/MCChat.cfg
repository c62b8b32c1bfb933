SPECIFICATION ChatSpec
CONSTANTS
    Users = {a, b}
    Rooms = {r1, r2}
    Watcher = b
    MaxMsgs = 2
    MaxReqs = 2
    MaxTime = 1
    MaxBreaks = 2
    BufSize = 1
    PageSize = 1
    ReplayMax = 1
INVARIANTS
    CursorHidesNothing
    DirectRoomsPaired

    
CONSTRAINT OneBusyRoom
SYMMETRY Alike
CHECK_DEADLOCK FALSE
