\* Two events behind one that is not due, one worker with batches of two, fair: nothing is forgotten.
SPECIFICATION FairSpecFromBacklog
CONSTANTS
    b1 = b1
    b1x = b1x
    b2 = b2
    bad = bad
    Requests = {1, 2, 3}
    Identities = {i1, i2, i3}
    Bodies = {b1}
    ValidBodies <- MCValid
    Canonical <- MCCanonical
    NoId = NoId
    Tokens <- MCTokens
    NoToken = NoToken
    Keys = {i1, i2, i3}
    Key <- MCKey
    Rank <- MCRank
    Precision = 0
    Workers = {w1}
    BatchSize = 2
    Lease = 1
    MaxAttempts = 3
    BaseDelay = 1
    MaxDelay = 2
    RetryDelay <- MCRetryDelay
    MaxTime = 2
    MaxFaults = 1
PROPERTY EventsAreHandled
