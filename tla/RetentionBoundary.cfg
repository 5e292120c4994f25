SPECIFICATION Spec
CONSTANTS
    Requests = {p1}
    Clients = {owner}
    Unvetted = {}
    Sessions = {s1}
    Codes = {k1}
    Grants = {1, 2}
    Tokens = {1, 2, 3}
    None = None
    CodeKinds <- OfflineOnly
    AskedScopes <- WholeGrant
    AskedResources <- NoResource
    CodeTtl = 1
    RefreshTtl = 2
    SessionMax = 1
    SessionIdle = 1
    GrantWindow = 0
    OfflineWindow = 0
    CodeGrace = 1
    SessionGrace = 1
    Disruptions <- Nothing
    MaxNow = 2
    MaxRequestTicks = 1
    MaxReaps = 1
CHECK_DEADLOCK FALSE
PROPERTIES
    EvidenceLeavesWithFamily
