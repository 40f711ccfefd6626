SPECIFICATION FairSpec
CONSTANTS
    Requests = {r1, r2, r3}
    Capacity = 1
    MaxBoots = 3
    MaxSaveErrors = 1
    NoEntry = NoEntry
    NoRequest = NoRequest
INVARIANTS
    EveryEntryTracked
    AtMostOncePerBoot
PROPERTIES
    ServedInOrder
    ImplementsDurableQueue
    AcceptedIsExported
