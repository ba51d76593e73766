CONSTANTS
    ark = ark
    sepolia = sepolia
    base = base
    usdc = usdc
    friend = friend
    watch1 = watch1
    watch2 = watch2
    Hub = ark
    ExternalChains <- MCExternalChains
    Gated = {}
    Symbols <- MCSymbols
    Zero = Zero
    Undefined = Undefined
    Malformed = Malformed
    Unconfigured = Unconfigured
    None = None
    Sites <- MCSites
    Addresses <- MCAddresses
    LimitIds <- MCLimitIds
    Cap = 1
SPECIFICATION PageSpec
INVARIANTS
    SendsWhereItSays
    NoStrayWatch
