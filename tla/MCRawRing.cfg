SPECIFICATION Spec
CONSTANTS
    Reqs = {r1, r2, r3}
    Blank = Blank
    SqEntries = 2
    CqEntries = 4
    W = 8
    MaxLive = 3
SYMMETRY ReqSymmetry
INVARIANTS
    TypeOK
    WithinCapacity
    OncePerRequest
    CopyIsFaithful
PROPERTIES
    ImplementsChannels
