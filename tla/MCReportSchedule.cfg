SPECIFICATION Spec
CONSTANTS
    Bars <- MCBars
    News <- MCNews
    Calendars <- MCCalendars
    Equities <- MCEquities
    Names <- MCNames
    Sessions <- MCSessions
    Bundle <- MCBundle
    Listing <- MCListing
    Fickle <- MCFickle
    Covered = {3, 4}
    Weekend = {5}
    Ticks = 2
    CutoffTick = 1
    ScheduleTick = 0
    MarketAge = 3
    NewsAge = 2
    Lookback = 3
    MaxReportAttempts = 2
    FirstTick = 4
    LastTick = 7
    MaxEvents = 2
    Residents = {r1}
    Operators = {o1}
    Asked = {1, 3, 4}
    r1 = r1
    o1 = o1
INVARIANTS
    ReportIsGrounded
    ClosedMarketsDoNotBlock
    NoSilentGiveUp
CHECK_DEADLOCK FALSE
