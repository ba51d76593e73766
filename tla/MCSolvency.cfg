CONSTANTS
    Collateral = collateral
    Synthetic = synthetic
    Amounts = {1}
    MaxTransfers <- MCMaxTransfers
    MaxAllowance = 1
    MaxMoved = 1
    Bindable = {}
    Recoverers = {synthetic}
SPECIFICATION FairSolvencySpec
INVARIANT AlarmOnlyAfterArrival
PROPERTY EventuallyDelivered
PROPERTY ClearedIsRecovered
