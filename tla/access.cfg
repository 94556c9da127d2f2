CONSTANTS
    Entry = {1, 2, 3}
    Undated = {3}
    PageSize = 2
    NoCursor = NoCursor
    MaxNow = 2
    MaxRequests = 3
    MaxFailures = 1
SPECIFICATION Spec
INVARIANTS
    TypeOK
    NoEntryLost
    ChainsExplained
    RepeatsExplained
PROPERTIES
    StopTakesHold
    EventuallyPublished
CHECK_DEADLOCK FALSE
