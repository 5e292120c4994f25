SPECIFICATION Spec
CONSTANTS
    Requests = {p1}
    Clients = {owner}
    Unvetted = {}
    Sessions = {s1}
    Codes = {k1}
    Grants = {1, 2}
    Tokens = {1, 2, 3}
    None = None
    CodeKinds <- McpKinds
    AskedScopes <- WholeGrant
    AskedResources <- IssuerResource
    CodeTtl = 1
    RefreshTtl = 2
    SessionMax = 2
    SessionIdle = 1
    GrantWindow = 1
    OfflineWindow = 1
    CodeGrace = 1
    SessionGrace = 1
    Disruptions <- Nothing
    MaxNow = 0
    MaxRequestTicks = 1
    MaxReaps = 0
INVARIANTS
    OnlyDisablingBurns
