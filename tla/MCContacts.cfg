SPECIFICATION Spec
CONSTANTS
    Fields = {name, phone}
    Names = {work, home}
    Uids = {u1}
    MaxContacts = 2
    MaxGroups = 2
    MaxFiles = 3
    Slots = {q1, q2}
    MaxRequests = 3
SYMMETRY Alike
INVARIANTS
    RowKeepsAvatar
    NoBlankContact
PROPERTIES
    CategoriesKept
CHECK_DEADLOCK FALSE
