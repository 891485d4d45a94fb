SPECIFICATION Spec
CONSTANTS
    Workers = {w1}
    Monitors = {m1}
    Days = {"validated"}
    Evidence = {e1}
    Readings = {7012, 7013, 8500, Unreadable}
    Unreadable = Unreadable
    WarningAt = 7000
    CriticalAt = 8500
    MaxAttempts = 2
    MaxCalls = 3
    w1 = w1
    m1 = m1
    e1 = e1
INVARIANT
    WarnedOnceIsGreen
CHECK_DEADLOCK FALSE
