CONSTANTS
    a = a
    b = b
    u = u
    v = v
    NoUuid = NoUuid
    Lists <- MCLists
    MaxGno = 6
SPECIFICATION Spec
INVARIANTS
    TypeOK
    Separated
    TailIsLast
    ContainsAgrees
    LoopHalfDone
    SetsAgree
    CodecExact
    RdbRestores
PROPERTIES
    ImplementsGnoSet
