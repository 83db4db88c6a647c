CONSTANTS
    s1 = s1
    s2 = s2
    s3 = s3
    None = None
    Servers <- ThreeServers
    MaxWrites = 1
    MaxPings = 1
    BacklogSize = 2
    MaxDisruptions = 2
SPECIFICATION Spec
CHECK_DEADLOCK FALSE
INVARIANTS
    TypeOK
    SameData
    OffsetsAligned
    MasterUuidKnown
