SPECIFICATION SyncSpec
CONSTANTS
    ItemIds = {i1}
    FolderIds = {f1}
    NoFolder = none
    Blobs = {}
    MaxRev = 4
    KeepPerItem = 1
    SameRevHardCeiling = 2
    Limit = 1
    LockDuringSync = TRUE
CONSTRAINT SomethingClaimed
INVARIANTS
    ViewMirrors
    CacheMirrors
