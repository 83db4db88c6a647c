CONSTANTS
    self = self
    other = other
    Uuids <- MCUuids
    Self = self
    MaxGno = 3
    Snapshots <- MCSnapshots
SPECIFICATION Spec
INVARIANTS
    NeverAborts
