SPECIFICATION Spec
CONSTANTS
    c1 = c1  c2 = c2  c3 = c3  k1 = k1  s1 = s1
    Flights = {c1, c2, c3}
    Scopes = {s1}
    Lanes = {"interactive-read", "background-read", "write"}
    Services = {"chat"}
    Routes = {"list"}
    Priority <- MCPriority
    Req <- StoredReq
    NoRoute = NoRoute
    MaxConcurrent <- OneRoute
    MaxQueued <- Generous
    Burst <- Generous
    RatedNames = {}
    MaxGen = 1
    Keys = {k1}
    KeyScope <- MCKeyScope
    NoKey = NoKey
    None = None
    Prefixes <- KeyPrefixes
    MaxEpoch = 1
    MaxDisposals = 1
INVARIANTS StoresCurrent SingleFlight
CHECK_DEADLOCK FALSE
