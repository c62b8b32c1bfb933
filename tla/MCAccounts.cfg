SPECIFICATION Spec
CONSTANTS
    Emails = {boss, ann}
    Boss = boss
    Passwords = {p1, p2, p3}
    Counts = {0, 1}
    Slots = {q1, q2}
    MaxSessions = 3
    MaxRequests = 3
    MaxCrashes = 1
SYMMETRY Alike
CONSTRAINT ShortRuns
INVARIANTS
    AdminRemains
    InactiveSignedOut
    NoQuickReuse
    PolicyInForce
CHECK_DEADLOCK FALSE
