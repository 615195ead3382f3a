SPECIFICATION FairSpec
CONSTANTS
    c1 = c1  c2 = c2  c3 = c3  k1 = k1  s1 = s1
    Flights = {c1, c2, c3}
    Scopes = {s1}
    Lanes = {"interactive-read", "background-read", "write"}
    Services = {"chat"}
    Routes = {}
    Priority <- MCPriority
    Req <- WaitingReq
    NoRoute = NoRoute
    MaxConcurrent <- OneTransport
    MaxQueued <- WaitingQueued
    Burst <- WaitingBurst
    RatedNames = {"chat"}
    MaxGen = 0
    Keys = {k1}
    KeyScope <- MCKeyScope
    NoKey = NoKey
    None = None
    Prefixes = {}
    MaxEpoch = 0
    MaxDisposals = 0
INVARIANTS TypeOK BudgetKept NoStrandedWaiter QueueBounded SharedReadSurvives PriorityFollowsSubscribers
PROPERTY EveryCallReturns
CHECK_DEADLOCK FALSE
