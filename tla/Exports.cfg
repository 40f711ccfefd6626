CONSTANTS
    NoToken = "none"
    MaxRequests = 2
    MaxFailures = 2
    Plans <- MCPlans
    Sessions <- MCSessions
    MaxStops = 2
    Bodies <- MCBodies
    Extra <- MCExtra
    Listings <- MCListings
    NObjects = 3
    PageSize = 2
    Minute = 3
    MaxClock = 4
    MaxFaults = 1
SPECIFICATION MCSpec
CHECK_DEADLOCK FALSE
INVARIANTS
    SessionsSettled
    StartedRight
    AnswersTrue
PROPERTIES
    PlanReturns
    ExportRequestsEnd
