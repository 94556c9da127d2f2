CONSTANTS
    Camera = {k1, k2}
    NoRow = NoRow
    NoId = NoId
    FirstSettings <- MCSettings
    NewSettings <- MCNewSettings
    MaxEdits = 1
    MaxSyncs = 2
    MaxDrops = 1
    MaxIds = 2
    MaxOutages = 1
    MaxTroubles = 1
SPECIFICATION Spec
INVARIANTS
    TypeOK
    LinkAlive
    CloudAlive
    QuietAfterClose
PROPERTIES
    SourceKeepsIdentity
    LinksRecover
    HubReturns
CHECK_DEADLOCK FALSE
