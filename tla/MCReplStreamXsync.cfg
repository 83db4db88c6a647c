CONSTANTS
    self = self
    other = other
    Uuids <- MCUuids
    Self = self
    MaxGno = 2
    Gtids <- MCGtids
    MaxOffset = 6
    BacklogSize = 3
    MaxSize = 2
    Snapshots <- MCSnapshots
    Reploffs = {0, 2}
    Gaps = {0, 1}
SPECIFICATION Spec
INVARIANTS
    XsyncInBacklog
