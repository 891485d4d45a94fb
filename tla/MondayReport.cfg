SPECIFICATION Spec
CONSTANTS
    Bars <- MCBars
    News <- MCNews
    Calendars <- MCCalendars
    Equities <- MCEquities
    Names <- MCNames
    Sessions <- WeekSessions
    Bundle <- MCBundle
    Listing <- WeekListing
    Fickle <- MCFickle
    Covered = {3, 4, 5}
    Weekend = {3, 4}
    Ticks = 2
    CutoffTick = 1
    ScheduleTick = 0
    MarketAge = 3
    NewsAge = 2
    Lookback = 3
    MaxReportAttempts = 2
    FirstTick = 4
    LastTick = 9
    MaxEvents = 0
    Residents = {r1}
    Operators = {o1}
    Asked = {3, 4, 5}
    r1 = r1
    o1 = o1
INVARIANTS
    EveryDayIsReported
CHECK_DEADLOCK FALSE
