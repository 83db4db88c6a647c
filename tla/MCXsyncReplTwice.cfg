CONSTANTS
    s1 = s1
    s2 = s2
    s3 = s3
    None = None
    Servers <- ThreeServers
    MaxGno = 2
    MaxGap = 1
    LogSize = 2
    MaxDisruptions = 2
SPECIFICATION LaterSpec
SYMMETRY Symmetry
CHECK_DEADLOCK FALSE
INVARIANTS
    Unheard
