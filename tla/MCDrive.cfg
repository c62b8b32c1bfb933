SPECIFICATION Spec
CONSTANTS
    N = 4
    DefaultQuota = 2
    Quotas = {1}
    Pairs = {{"move"}, {"upload", "restore"}, {"upload", "copy"}}
    MaxTime = 1
    MaxEvents = 2
INVARIANTS
    NoFolderBelowItself
    ListingsComplete
    QuotaHeld
    RowKeepsBlob
PROPERTIES
    FailedCopyIsUndone
CONSTRAINTS BeforeRaces TimeTells MovesFirst LastIdCopied LastEventUndoes
CHECK_DEADLOCK FALSE
