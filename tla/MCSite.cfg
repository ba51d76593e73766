CONSTANTS
    ark = ark
    base = base
    sepolia = sepolia
    usd = usd
    eth = eth
    out = out
    back = back
    collateral = collateral
    synthetic = synthetic
    indivisible = indivisible
    Letter = Letter
    devnet = devnet
    testnet = testnet
    first = first
    second = second
    third = third
    relayer = relayer
    validator = validator
    Nowhere = Nowhere
    Hovers = TRUE
    Offered <- MCOffered
    Assets <- MCAssets
    Matching <- MCMatching
    Reduced = FALSE
    Chains = {ark, base}
    Routes = {out, back}
    Source <- MCSource
    Destination <- MCDestination
    Usable = {out, back}
    Guarded = {out}
    Unsteady = {ark}
    Fees = {1, 2}
    NoAnswer = NoAnswer
    Checked <- MCChecked
    ChainsOf <- MCChainsOf
    Endpoints <- MCEndpoints
    Registered <- MCRegistered
    Reported <- MCReported
    Mailboxed = {sepolia, ark}
    Unconfigured = Unconfigured
    Monitored <- MCMonitored
    Agents <- MCAgents
    Limits <- MCLimits
    Balances = {0, 1, 3, 8}
    Prices = {0, 1, 2}
    Nobody = Nobody
    Decimals <- MCDecimals
    Balance <- MCBalance
    Keys <- MCKeys
    MaxLength = 4
    Point = Point
    Comma = Comma
    Malformed = Malformed
SPECIFICATION SiteSpec
INVARIANT VerdictsAreFounded
INVARIANT AmountsAreExact
PROPERTY HoverHolds
PROPERTY PageIsFreed
PROPERTY PickedResolves
PROPERTY OutageIsShown
PROPERTY NoDeadEnd
CHECK_DEADLOCK FALSE
