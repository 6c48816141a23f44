\* NDJSON: three requests for one identity, appends that fail without a trace or unsynced, restarts.
SPECIFICATION Spec
CONSTANTS
    b1 = b1
    b1x = b1x
    b2 = b2
    bad = bad
    Requests = {1, 2, 3}
    Identities = {i1}
    Bodies = {b1, b1x, b2, bad}
    ValidBodies <- MCValid
    Canonical <- MCCanonical
    NoId = NoId
    Tokens <- MCTokens
    NoToken = NoToken
    Keys = {i1}
    Key <- MCKey
    Rank <- MCRank
    Drivers = {"ndjson"}
    AppendFaults = {"nothing", "unsynced"}
    Workers = {w1}
    BatchSize = 1
    Lease = 1
    MaxAttempts = 1
    BaseDelay = 1
    MaxDelay = 3
    RetryDelay <- MCRetryDelay
    MaxTime = 0
    MaxFaults = 3
INVARIANTS TypeOK RepliesSurvive
