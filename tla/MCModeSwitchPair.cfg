CONSTANTS
    s1 = s1
    s2 = s2
    s3 = s3
    None = None
    Servers <- TwoServers
    MaxWrites = 2
    MaxPings = 1
    BacklogSize = 2
    MaxDisruptions = 3
SPECIFICATION FairSpec
CHECK_DEADLOCK FALSE
INVARIANTS
    GtidNamesOneWrite
PROPERTIES
    FollowersContinue
    Converges
