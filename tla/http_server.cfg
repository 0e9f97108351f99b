SPECIFICATION FairSpec
CONSTANTS
    secret = secret
    issuer = issuer
    resource = resource
    alice = alice
    scope = scope
    loop = loop
    public = public
    friend = friend
    None = None
    Unset = unset
    AnyOrigin = any
    LoopbackHosts <- MCLoopback
    LoopbackOrigins <- MCOrigins
    SettingsPool <- MCSettings
    Requests <- MCRequests
    Slots = {q1, q2}
    Https = {h1, h2}
    Streams = {s1, s2}
    Clients = {k1}
    MaxPerStream = 2
    MaxEvents = 3
INVARIANTS
    TypeOK
    IndexMatches
    ReplayExact
    CallersTrusted
    SurfacesLead
    ReadyMeansTokens
    CallsHaveClients
PROPERTY StopsWhenLeft
CHECK_DEADLOCK FALSE
