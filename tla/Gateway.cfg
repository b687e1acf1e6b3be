CONSTANTS
    c1 = c1
    c2 = c2
    c3 = c3
    p1 = p1
    p2 = p2
    hackingly = hackingly
    other = other
    None = None
    Idle = Idle
    Calls <- AllCalls
    Keys = {"platform", "reviewer"}
    KeyOf <- MCKeyOf
    Principal <- MCPrincipal
    PerMinute = 1
    Parts = 2
    Delays <- MCDelays
    MaxClock = 120
    Events = {"event"}
    Tenants = {hackingly, other}
    FirstTenant = hackingly
    Processes = {p1, p2}
    MaxVersion = 2
SYMMETRY Symmetry
SPECIFICATION GatewaySpec
INVARIANTS
    RateHolds
    RetryAfterSuffices
    PolicyHistory
    DecidedByRulesInForce
CHECK_DEADLOCK FALSE
