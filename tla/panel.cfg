SPECIFICATION FairSpec
CONSTANTS
    Zone = {1, 2}
    Seeded = {1}
    MaxConnections = 3
    MaxRequests = 3
INVARIANTS TypeOK ClientAgrees OneClient
PROPERTY MirrorsZones
CHECK_DEADLOCK FALSE
