CONSTANTS
    Clients <- AllClients
    Calls = {"c1", "c2"}
    Slots = 1
    MaxExpiries = 1
    Writers = {"w1", "w2"}
    NoWriter = "none"
    Capacity = 2
    MaxLines = 6
    MaxFaults = 2
SPECIFICATION MCSpec
CHECK_DEADLOCK FALSE
INVARIANTS
    EndsForAReason
    Resumed
    LinesKept
PROPERTIES
    CallsEnd
    WritersGoOn
