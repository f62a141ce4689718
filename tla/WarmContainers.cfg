SPECIFICATION FairSpec
CONSTANTS
    journals = journals
    users = users
    testCentre = testCentre
    Containers = {journals, users, testCentre}
    Poller <- PollerOf
    Unset = Unset
    TokenLife = 3
    IdleTimeout = 2
    MinGap = 2
    PoolSize = 2
    Limit = 7
    MaxFaults = 1
INVARIANTS
    TypeOK
    PoolsAccountedFor
PROPERTIES
    DegradedOnlyByFault
    Recovers
