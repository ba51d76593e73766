CONSTANTS
    Collateral = collateral
    Synthetic = synthetic
    Amounts = {1}
    MaxTransfers <- MCMaxTransfers
    MaxAllowance = 1
    MaxMoved = 2
    Bindable <- MCBindable
    Recoverers = {synthetic}
SPECIFICATION BridgeSpec
INVARIANT BridgeTypeOK
INVARIANT Backed
PROPERTY DeliveredWithCause
PROPERTY TrafficIsGated
PROPERTY ImplementsLedger
