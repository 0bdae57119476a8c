CONSTANTS
    w1 = w1
    w2 = w2
    i1 = i1
    i2 = i2
    i3 = i3
    NoKey = NoKey
    None = None
    Workers = {w1, w2}
    Ids = {i1, i2, i3}
    Chains = {}
    Rooms = {}
    BatchSize = 20
    Lease = 5
    JobTimeout = 2
    MaxAttempts = 5
    BackoffCap = 60
    Delays = {0}
    MaxRetries = 0
SPECIFICATION Spec
SYMMETRY Symmetry
INVARIANTS NoDoubleRun
