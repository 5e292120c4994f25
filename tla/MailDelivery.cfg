SPECIFICATION FairSpec
CONSTANTS
    Items = {m1, m2}
    Passes = {p1, p2}
    None = None
    MaxAttempts = 2
    Batch = 2
    Lease = 1
    Backoff = 1
    MaxPassTicks = 2
INVARIANTS
    TypeOK
    EachAttemptOnce
    SentCarriesNoError
PROPERTIES
    EveryMessageSettles
