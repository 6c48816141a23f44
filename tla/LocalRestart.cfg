\* Two events in either store; NDJSON with appends that fail without a trace and restarts.
SPECIFICATION Spec
CONSTANTS
    b1 = b1
    b1x = b1x
    b2 = b2
    bad = bad
    Requests = {1, 2}
    Identities = {i1, i2}
    Bodies = {b1}
    ValidBodies <- MCValid
    Canonical <- MCCanonical
    NoId = NoId
    Tokens <- MCTokens
    NoToken = NoToken
    Keys = {i1, i2}
    Key <- MCKey
    Rank <- MCRank
    Drivers = {"memory", "ndjson"}
    AppendFaults = {"nothing"}
    Workers = {w1}
    BatchSize = 2
    Lease = 1
    MaxAttempts = 2
    BaseDelay = 1
    MaxDelay = 3
    RetryDelay <- MCRetryDelay
    MaxTime = 1
    MaxFaults = 2
INVARIANTS LogIsState SoleClaimant
PROPERTY ImplementsContract
