SPECIFICATION FairSpec
CONSTANTS
    o1 = o1
    r1 = r1
    r2 = r2
    j1 = j1
    NoOrder = NoOrder
    Orders <- OneOrder
    Requests <- OneRequest
    Jobs <- OneJob
    Modes <- BothModes
    PayoutNames = FALSE
    SellerShare = 2
    RiderShare = 1
    Nets <- SmallNet
    Refund = 2
    Commission = 1
    HandAmounts <- SmallHand
    MaxByHand = 0
    MaxFaults = 0
PROPERTIES
    DeliveredIsSettled
CHECK_DEADLOCK FALSE
