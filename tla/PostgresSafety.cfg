\* Two requests, two workers with batches of two: races, lapsing leases, retries, crashes, lost answers.
SPECIFICATION SpecUpToRenaming
CONSTANTS
    b1 = b1
    b1x = b1x
    b2 = b2
    bad = bad
    Requests = {r1, r2}
    Identities = {i1, i2}
    Bodies = {b1, b2, bad}
    ValidBodies <- MCValid
    Canonical <- MCCanonical
    NoId = NoId
    Tokens <- MCTokens
    NoToken = NoToken
    Workers = {w1, w2}
    BatchSize = 2
    Lease = 1
    MaxAttempts = 2
    BaseDelay = 1
    MaxDelay = 1
    RetryDelay <- MCRetryDelay
    MaxTime = 1
    MaxFaults = 1
SYMMETRY ServiceSymmetry
INVARIANTS TypeOK RepliesAgree OneEventPerIdentity LeaseProtects FailedAfterMaxAttempts PublishedWasDelivered
PROPERTIES TakeoverAfterLease ImplementsContract
