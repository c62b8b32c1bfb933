SPECIFICATION Spec
CONSTANTS
    ItemIds = {i1, i2}
    FolderIds = {f1, f2}
    NoFolder = none
    Blobs = {b1, b2}
    MaxRev = 6
    KeepPerItem = 1
    SameRevHardCeiling = 2
SYMMETRY Symmetry
INVARIANTS
    SyncPageComplete
PROPERTIES
    NoNewDangling
    NoStrayAttachment
    NoContentLost
    ServerIsStream
