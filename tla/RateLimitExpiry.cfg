SPECIFICATION Spec
CONSTANTS
    w1 = w1  w2 = w2
    acme = acme  home = home
    free = free  team = team
    Workers = {w1, w2}
    Orgs = {acme}
    Ips = {home}
    Tiers = {free, team}
    Free = free
    Requests <- MCRequests
    ApiLimit <- MCApiLimit
    GatewayLimit <- MCGatewayLimit
    AuthLimit = 1
    Window = 2
    CleanupEvery = 2
INVARIANTS
    RetryAfterHonoured
CHECK_DEADLOCK FALSE
