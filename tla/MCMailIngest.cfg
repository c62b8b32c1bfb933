SPECIFICATION Spec
CONSTANTS
    Polled = {m1, m2}
    Posted = {m1}
    Configs = {"push", "pop3del", "imap"}
    Slots = {p1, p2}
    Keys = {1, 2, 3}
    PageSize = 1
    MaxEvents = 2
INVARIANTS
    KeptBeforeDeleted
    FilesAccounted
PROPERTIES
    MailArrives
CHECK_DEADLOCK FALSE
