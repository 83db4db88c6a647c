CONSTANTS
    self = self
    other = other
    Uuids <- MCUuids
    Self = self
    MaxGno = 3
    Snapshots <- MCSnapshots
SPECIFICATION Spec
INVARIANTS
    TypeOK
    AbortsOnReturn
    NextIsFresh
    RunsOnce
PROPERTIES
    LostNeverRuns
CHECK_DEADLOCK FALSE
CONSTRAINT OtherBound
