CONSTANTS
    Channels = 3
    Capacity = 2
    Pages = 4
    NoPage = NoPage
    Feeder = Feeder
SPECIFICATION FairSpec
CHECK_DEADLOCK FALSE
PROPERTIES
    Returns
