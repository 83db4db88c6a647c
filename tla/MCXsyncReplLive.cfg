CONSTANTS
    s1 = s1
    s2 = s2
    s3 = s3
    None = None
    Servers <- ThreeServers
    MaxGno = 1
    MaxGap = 1
    LogSize = 2
    MaxDisruptions = 2
SPECIFICATION FairSpec
CHECK_DEADLOCK FALSE
PROPERTIES
    Converges
