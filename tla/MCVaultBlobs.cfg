SPECIFICATION BlobsSpec
CONSTANTS
    ItemIds = {i1}
    FolderIds = {}
    NoFolder = none
    Blobs = {b1, b2}
    MaxRev = 4
    KeepPerItem = 1
    SameRevHardCeiling = 2
    MaxCrashes = 1
INVARIANTS
    RowKeepsFile
PROPERTIES
    OrphansCollected
