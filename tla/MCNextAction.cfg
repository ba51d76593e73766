CONSTANTS
    ethereum = ethereum
    ark = ark
    None = None
    Chains = {ethereum, ark}
    CollateralChains = {ethereum}
    Routes <- BothWays
    MaxAmount = 2
    MaxDrifts = 0
    MaxTransactions = 2
SPECIFICATION CardSpec
INVARIANT NextActionIsNamed
