CONSTANTS
    Versions = {"v1", "v2"}
    NoVersion = "none"
    Files = {"f1", "f2", "f3"}
    NoFile = "none"
    MaxFaults = 2
    MaxRequests = 2
SPECIFICATION Spec
CHECK_DEADLOCK FALSE
INVARIANTS
    BinariesKept
PROPERTIES
    UpdatesKept
    CrashesDelivered
    ComesBack
