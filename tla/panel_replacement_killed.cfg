SPECIFICATION Spec
CONSTANTS
    Zone = {1, 2}
    Seeded = {1}
    MaxConnections = 3
    MaxRequests = 3
PROPERTY OnlyOwnFailure
CHECK_DEADLOCK FALSE
