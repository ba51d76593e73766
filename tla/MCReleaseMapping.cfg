CONSTANTS
    ark = ark
    sepolia = sepolia
    bsc = bsc
    usdc = usdc
    Hub = ark
    ExternalChains <- MCExternalChains
    Gated <- MCGated
    Symbols <- MCSymbols
    EnabledSymbols <- MCSymbols
    Environments <- MCEnvironments
    Zero = Zero
    Undefined = Undefined
    Malformed = Malformed
    Unconfigured = Unconfigured
    MaxVersions = 2
    MaxEdits = 1
SPECIFICATION ReleaseSpec
INVARIANT WrittenAddressesAreKept
CHECK_DEADLOCK FALSE
