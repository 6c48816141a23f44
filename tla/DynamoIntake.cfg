\* Three requests for two identities, no workers: concurrent acceptance.
SPECIFICATION Spec
CONSTANTS
    b1 = b1
    b1x = b1x
    b2 = b2
    bad = bad
    Requests = {1, 2, 3}
    Identities = {i1, i2}
    Bodies = {b1, b1x, b2, bad}
    ValidBodies <- MCValid
    Canonical <- MCCanonical
    NoId = NoId
    Tokens <- MCTokens
    NoToken = NoToken
    Keys = {i1, i2}
    Key <- MCKey
    Rank <- MCRank
    Precision = 0
    Workers = {}
    BatchSize = 1
    Lease = 1
    MaxAttempts = 1
    BaseDelay = 1
    MaxDelay = 1
    RetryDelay <- MCRetryDelay
    MaxTime = 0
    MaxFaults = 2
SYMMETRY IdentitySymmetry
INVARIANTS TypeOK RepliesAgree OneEventPerIdentity
PROPERTY ImplementsContract
\* Without workers the system stops when every request is answered.
CHECK_DEADLOCK FALSE
