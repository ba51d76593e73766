CONSTANTS
    Routes = {r1}
    Amounts = {0, 1, 2, 3}
    LimitChoices <- MCLimitChoices
    HOUR = 2
    DAY = 5
    MaxUint = 20
    MaxTime = 7
SPECIFICATION LimiterSpec
INVARIANT AggregateLimitHolds
INVARIANT SmallLimitsAlwaysSettable
PROPERTY ReconfiguringDoesNotRefill
