\* Three collections and one restart of the server.
CONSTANTS
    r1 = r1
    r2 = r2
    Requests <- MCRequests
    MaxSignatures = 3
    MaxCrashes = 1
SPECIFICATION FairSpec
INVARIANTS
    TypeOK
    OneUnsettled
PROPERTIES
    LandedIsCollected
CHECK_DEADLOCK FALSE
