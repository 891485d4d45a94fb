SPECIFICATION RSpec
CONSTANTS
    Senders = {s1}
    Operators = {o1, o2}
    Requests = {r1, r2}
    MaxAttempts = 1
    MaxTotalAttempts = 3
    s1 = s1
    o1 = o1
    o2 = o2
    r1 = r1
    r2 = r2
    Nobody = Nobody
INVARIANTS
    OneSendPerRequest
    ActionTellsTheTruth
PROPERTIES
    ActionOutcomeIsFinal
SYMMETRY Symmetry
