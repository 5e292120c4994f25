SPECIFICATION Spec
CONSTANTS
    Requests = {p1}
    Clients = {owner}
    Unvetted = {owner}
    Sessions = {s1}
    Codes = {k1}
    Grants = {1, 2}
    Tokens = {1, 2, 3}
    None = None
    CodeKinds <- PolicyKinds
    AskedScopes <- NarrowedScopes
    AskedResources <- NoResource
    CodeTtl = 1
    RefreshTtl = 2
    SessionMax = 1
    SessionIdle = 1
    GrantWindow = 0
    OfflineWindow = 0
    CodeGrace = 0
    SessionGrace = 0
    Disruptions <- OneOfEachEnding
    MaxNow = 3
    MaxRequestTicks = 0
    MaxReaps = 1
SYMMETRY Interchangeable
INVARIANTS
    ReuseEndsFamily
    ReplayEndsGrant
    OnlyDisablingBurns
PROPERTIES
    EvidenceLeavesWithFamily
    ReapSparesUsable
    SessionBindingKept
