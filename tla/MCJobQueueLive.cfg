CONSTANTS
    w1 = w1
    w2 = w2
    i1 = i1
    i2 = i2
    c = c
    r = r
    NoKey = NoKey
    None = None
    Workers = {w1, w2}
    Ids = {i1, i2}
    Chains = {c}
    Rooms = {r}
    BatchSize = 2
    Lease = 2
    JobTimeout = 1
    MaxAttempts = 2
    BackoffCap = 1
    Delays = {0}
    MaxRetries = 0
SPECIFICATION FairSpec
PROPERTIES JobsSettle ChainsKeepRunning
