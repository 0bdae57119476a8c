SPECIFICATION FairSpec
CONSTANTS
    Writers = {w1, w2}
    Subscribers = {s}
    BufferSize = 2
    Unknown = unknown
    Resync = resync
    MaxId = 3
    MaxLosses = 1
    MaxFailures = 0
PROPERTY EveryoneLearns
