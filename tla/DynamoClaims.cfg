\* One event from its submission, two workers, crashes, lost answers and a lagging index.
SPECIFICATION SpecFromSubmitted
CONSTANTS
    b1 = b1
    b1x = b1x
    b2 = b2
    bad = bad
    Requests = {1}
    Identities = {i1}
    Bodies = {b1}
    ValidBodies <- MCValid
    Canonical <- MCCanonical
    NoId = NoId
    Tokens <- MCTokens
    NoToken = NoToken
    Keys = {i1}
    Key <- MCKey
    Rank <- MCRank
    Precision = 0
    Workers = {w1, w2}
    BatchSize = 1
    Lease = 2
    MaxAttempts = 2
    BaseDelay = 1
    MaxDelay = 3
    RetryDelay <- MCRetryDelay
    MaxTime = 3
    MaxFaults = 1
SYMMETRY WorkerSymmetry
INVARIANTS LeaseProtects PublishedWasDelivered
PROPERTIES SettledStays ImplementsContract
