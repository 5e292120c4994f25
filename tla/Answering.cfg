SPECIFICATION FairSpec
CONSTANTS
    Requests = {p1, p2}
    Clients = {owner}
    Unvetted = {}
    Sessions = {s1}
    Codes = {k1}
    Grants = {1, 2}
    Tokens = {1, 2}
    None = None
    CodeKinds <- SessionOnly
    AskedScopes <- WholeGrant
    AskedResources <- NoResource
    CodeTtl = 2
    RefreshTtl = 1
    SessionMax = 1
    SessionIdle = 2
    GrantWindow = 0
    OfflineWindow = 0
    CodeGrace = 0
    SessionGrace = 0
    Disruptions <- Nothing
    MaxNow = 3
    MaxRequestTicks = 2
    MaxReaps = 1
CHECK_DEADLOCK FALSE
PROPERTIES
    EveryRequestAnswered
