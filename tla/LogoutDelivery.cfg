SPECIFICATION FairSpec
CONSTANTS
    Items = {d1, d2}
    Passes = {p1, p2}
    MaxFailures = 1
    MaxAttempts = 2
    Batch = 2
    Lease = 1
    Backoff = 1
    MaxPassTicks = 1
INVARIANTS
    TypeOK
    OnePassPerDelivery
    FailuresBoundPosts
PROPERTIES
    AnsweredIsFinal
    EveryDeliverySettles
