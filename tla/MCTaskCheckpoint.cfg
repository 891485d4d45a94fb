SPECIFICATION Spec
CONSTANTS
    Calls = {c1, c2, c3}
    LastPage = 3
    c1 = c1
    c2 = c2
    c3 = c3
INVARIANTS
    PagesInOrder
    CountsMatch
    OneRunPerPage
PROPERTIES
    ProgressIsKept
    CallEnds
CHECK_DEADLOCK FALSE
