SPECIFICATION Spec
CONSTANTS
    Workers = {w1, w2}
    MaxReportAttempts = 2
    MaxMishaps = 2
    w1 = w1
    w2 = w2
INVARIANTS
    OneWriterOneSender
    OnlyVettedReports
    AttemptMatchesReport
    NoSilentDay
PROPERTIES
    VerdictsAreFinal
    WorkersFinish
CHECK_DEADLOCK FALSE
