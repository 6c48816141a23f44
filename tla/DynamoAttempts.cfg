\* One event, two workers that may outlive their lease: attempts from a stale page.
SPECIFICATION Spec
CONSTANTS
    b1 = b1
    b1x = b1x
    b2 = b2
    bad = bad
    Requests = {1}
    Identities = {i1}
    Bodies = {b1}
    ValidBodies <- MCValid
    Canonical <- MCCanonical
    NoId = NoId
    Tokens <- MCTokens
    NoToken = NoToken
    Keys = {i1}
    Key <- MCKey
    Rank <- MCRank
    Precision = 0
    Workers = {w1, w2}
    BatchSize = 1
    Lease = 1
    MaxAttempts = 3
    BaseDelay = 1
    MaxDelay = 1
    RetryDelay <- MCRetryDelay
    MaxTime = 3
    MaxFaults = 0
PROPERTY FailuresCount
