SPECIFICATION Spec
CONSTANTS
    Writers = {w1, w2}
    Subscribers = {s1, s2}
    BufferSize = 1
    Unknown = unknown
    Resync = resync
    MaxId = 2
    MaxLosses = 1
    MaxFailures = 1
SYMMETRY Symmetry
INVARIANTS TypeOK NothingLost
