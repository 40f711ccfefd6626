SPECIFICATION MCSpec
CONSTANTS
    Pids = {p1, p2}
    MaxExports = 3
    MaxCancels = 3
    MaxRequests = 2
    MaxFaults = 2
    None = None
CHECK_DEADLOCK FALSE
INVARIANTS
    NeverRefused
    CancelledAfterRequest
    OutcomeTrue
PROPERTIES
    CancelEnds
    RequestsEnd
