SPECIFICATION Spec
CONSTANTS
    Limit = 1
    Window <- MCWindow
    YearEnd = 2
    UpstreamLimit = 1
    Cases <- MCCases
    Published <- MCPublished
    Faults <- MCFaults
    Dates = {1, 2}
    Workers = {w1, w2}
    w1 = w1
    w2 = w2
INVARIANTS
    StoredUpToCursor
    AssembledWhole
    PagesLeadOn
    RejectionsAreKept
PROPERTIES
    QuietSourceCompletes
CHECK_DEADLOCK FALSE
