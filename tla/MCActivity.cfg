CONSTANTS
    here = here
    there = there
    None = None
    Wallets = {a1, a2}
    Transfers = {t1, t2}
    Chains = {here, there}
    Destination <- ToHere
    Thrown <- UpToTwo
    Cap = 1
SPECIFICATION FairActivitySpec
INVARIANT ArrivedIsTrue
INVARIANT SaysNothingMoved
INVARIANT OwnHistoryOnly
PROPERTY HistoryIsKept
PROPERTY DeliveryIsShown
CHECK_DEADLOCK FALSE
