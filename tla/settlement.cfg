SPECIFICATION Spec
CONSTANTS
    o1 = o1
    r1 = r1
    r2 = r2
    j1 = j1
    NoOrder = NoOrder
    Orders <- OneOrder
    Requests <- TwoRequests
    Jobs <- OneJob
    Modes <- OnlyOnline
    PayoutNames = TRUE
    SellerShare = 2
    RiderShare = 1
    Nets <- SmallNet
    Refund = 2
    Commission = 1
    HandAmounts <- SmallHand
    MaxByHand = 0
    MaxFaults = 0
SYMMETRY Symmetry
INVARIANTS
    WalletsAddUp
    SettledOnce
    
    
PROPERTIES
    PaidOutOnce
CHECK_DEADLOCK FALSE
