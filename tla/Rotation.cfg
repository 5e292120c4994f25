SPECIFICATION Spec
CONSTANTS
    Requests = {p1, p2}
    Clients = {owner, other}
    Unvetted = {owner}
    Sessions = {s1}
    Codes = {k1}
    Grants = {1, 2}
    Tokens = {1, 2, 3}
    None = None
    CodeKinds <- MixedKinds
    AskedScopes <- WholeGrant
    AskedResources <- NoResource
    CodeTtl = 1
    RefreshTtl = 2
    SessionMax = 2
    SessionIdle = 1
    GrantWindow = 1
    OfflineWindow = 1
    CodeGrace = 1
    SessionGrace = 1
    Disruptions <- AllDisruptions
    MaxNow = 1
    MaxRequestTicks = 1
    MaxReaps = 0
SYMMETRY Interchangeable
INVARIANTS
    TypeOK
    OneUsableToken
    OneGrantPerCode
    ReuseEndsFamily
    ReplayEndsGrant
    OnlyDisablingBurns
    EndedFamilyYieldsNothing
PROPERTIES
    ForeignClientSpendsNothing
    RevocationIsFinal
