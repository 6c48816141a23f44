\* NDJSON: an append that is cut off.
SPECIFICATION Spec
CONSTANTS
    b1 = b1
    b1x = b1x
    b2 = b2
    bad = bad
    Requests = {1, 2}
    Identities = {i1, i2}
    Bodies = {b1}
    ValidBodies <- MCValid
    Canonical <- MCCanonical
    NoId = NoId
    Tokens <- MCTokens
    NoToken = NoToken
    Keys = {i1, i2}
    Key <- MCKey
    Rank <- MCRank
    Drivers = {"ndjson"}
    AppendFaults = {"torn"}
    Workers = {w1}
    BatchSize = 1
    Lease = 1
    MaxAttempts = 2
    BaseDelay = 1
    MaxDelay = 3
    RetryDelay <- MCRetryDelay
    MaxTime = 0
    MaxFaults = 1
INVARIANT RepliesSurvive
CHECK_DEADLOCK FALSE
