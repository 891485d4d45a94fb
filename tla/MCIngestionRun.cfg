SPECIFICATION Spec
CONSTANTS
    Calls = {c1, c2, c3}
    Versions = {v1}
    LeaseTicks = 2
    WaitTicks = 1
    c1 = c1
    c2 = c2
    c3 = c3
    v1 = v1
INVARIANTS
    OneOwnerPerAttempt
    ResultIsBacked
PROPERTIES
    WaitEnds
    OrphanIsFreed
    RunsOnce
CHECK_DEADLOCK FALSE
