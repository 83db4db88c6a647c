CONSTANTS
    self = self
    other = other
    Uuids <- MCUuids
    Self = self
    MaxGno = 2
    Gtids <- MCGtids
    MaxOffset = 5
    BacklogSize = 3
    MaxSize = 2
    Snapshots <- MCSnapshots
    Reploffs = {1}
    Gaps = {0, 1}
SPECIFICATION Spec
INVARIANTS
    TypeOK
    IndexFaithful
    ContinueExact
    ModePure
    GapBounded
