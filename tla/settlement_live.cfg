SPECIFICATION FairSpec
CONSTANTS
    o1 = o1
    r1 = r1
    r2 = r2
    j1 = j1
    NoOrder = NoOrder
    Orders <- OneOrder
    Requests <- OneRequest
    Jobs <- OneJob
    Modes <- BothModes
    PayoutNames = TRUE
    SellerShare = 2
    RiderShare = 1
    Nets <- SmallNet
    Refund = 2
    Commission = 1
    HandAmounts <- SmallHand
    MaxByHand = 1
    MaxFaults = 1
INVARIANTS
    CashAddsUp
    CollectedOnce
    StatementBacked
PROPERTIES
    
    DeliveredIsSettled
CHECK_DEADLOCK FALSE
