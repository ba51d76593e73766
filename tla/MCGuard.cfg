CONSTANTS
    t1 = t1
    r1 = r1
    r2 = r2
    d1 = d1
    d2 = d2
    Routes = {r1, r2}
    Amounts = {1}
    LimitChoices <- MCLimitChoices
    HOUR = 1
    DAY = 2
    MaxUint = 8
    MaxTime = 1
    Tokens = {t1}
    Domains = {d1, d2}
    Callers = {hook}
    RouteChoices <- MCRouteChoices
    Unregistered = Unregistered
SYMMETRY Interchangeable
SPECIFICATION GuardSpec
INVARIANT CapacityIsHonest
PROPERTY ImplementsLimiter
PROPERTY ImplementsGate
