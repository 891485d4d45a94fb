SPECIFICATION Spec
CONSTANTS
    Workers = {w1, w2}
    Monitors = {m1}
    Days = {"ingesting", "unready", "draft", "validated"}
    Evidence = {e1, e2}
    Readings = {7012, 8500, Unreadable}
    Unreadable = Unreadable
    WarningAt = 7000
    CriticalAt = 8500
    MaxAttempts = 3
    MaxCalls = 2
    w1 = w1
    w2 = w2
    m1 = m1
    e1 = e1
    e2 = e2
SYMMETRY Symmetric
INVARIANTS
    OneCardPerCondition
    AnswersAreBacked
    BlockedDateShows
CHECK_DEADLOCK FALSE
