SPECIFICATION Spec
CONSTANTS
    Senders = {s1, s2}
    Operators = {o1}
    MaxAttempts = 2
    MaxTotalAttempts = 3
    s1 = s1
    s2 = s2
    o1 = o1
INVARIANTS
    OneSendInFlight
    NoDuplicateCard
    AuditTellsTheTruth
PROPERTIES
    OutcomeIsFinal
    CallReturns
    KeepsPromise
