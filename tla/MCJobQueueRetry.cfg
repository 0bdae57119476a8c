CONSTANTS
    w1 = w1
    w2 = w2
    i1 = i1
    i2 = i2
    NoKey = NoKey
    None = None
    Workers = {w1, w2}
    Ids = {i1, i2}
    Chains = {}
    Rooms = {}
    BatchSize = 20
    Lease = 5
    JobTimeout = 2
    MaxAttempts = 2
    BackoffCap = 60
    Delays = {0}
    MaxRetries = 1
SPECIFICATION Spec
SYMMETRY Symmetry
PROPERTIES RetrySparesRunning
