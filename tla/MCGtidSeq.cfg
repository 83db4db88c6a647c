CONSTANTS
    A = A
    B = B
    Uuids <- MCUuids
    MaxGno = 4
    MaxOffset = 5
    SegmentSize = 3
    SegoffMax = 2
    NgnoDefault = 1
SPECIFICATION Spec
SYMMETRY MCSymmetry
INVARIANTS
    TypeOK
    SegmentsOK
    SegmentsOrdered
    PoolExact
    XsyncAgrees
    PsyncAgrees
PROPERTIES
    CacheBounded
    ImplementsGtidIndex
