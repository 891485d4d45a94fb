SPECIFICATION Spec
CONSTANTS
    Runs = {r1, r2, r3}
    Values = {1, 3, 4}
    LastTime = 3
    WindowDays = 2
    r1 = r1
    r2 = r2
    r3 = r3
INVARIANTS
    NoLookAhead
    NewestIsLastSeen
    EvidenceNotOlder
PROPERTIES
    PastIsKept
CHECK_DEADLOCK FALSE
