\* Two committed events, one worker with batches of two, fair: nothing is forgotten.
SPECIFICATION FairSpecFromBacklog
CONSTANTS
    b1 = b1
    b1x = b1x
    b2 = b2
    bad = bad
    Requests = {r1, r2}
    Identities = {i1, i2}
    Bodies = {b1}
    ValidBodies <- MCValid
    Canonical <- MCCanonical
    NoId = NoId
    Tokens <- MCTokens
    NoToken = NoToken
    Workers = {w1}
    BatchSize = 2
    Lease = 1
    MaxAttempts = 2
    BaseDelay = 1
    MaxDelay = 1
    RetryDelay <- MCRetryDelay
    MaxTime = 2
    MaxFaults = 2
PROPERTY EventsAreHandled
