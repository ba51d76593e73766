\* The indexer may stop: once every transfer is terminal no pass does anything.
CHECK_DEADLOCK FALSE
CONSTANTS
    ethereum = ethereum
    ark = ark
    None = None
    Chains = {ethereum, ark}
    CollateralChains = {ethereum}
    Routes <- BothWays
    MaxAmount = 2
    MaxDrifts = 1
    MaxTransactions = 2
    t1 = t1
    t2 = t2
    Order <- InLine
    Reachable = {t2}
    Stated = {t2}
    Sent = {t2}
    Passes = {p1, p2}
SPECIFICATION FollowersSpec
INVARIANT SignsOnlyWhatPasses
INVARIANT ActivityIsFaithful
INVARIANT StatusIsEarned
PROPERTY CallsEnd
PROPERTY FollowedToDelivery
PROPERTY OnlyOvertakenRegress
PROPERTY DeliveriesAreShown
