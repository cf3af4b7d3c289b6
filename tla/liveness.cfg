SPECIFICATION FairSpec
CONSTANTS
    Orders = {o1}
    Items = {i1, i2}
    Riders = {r1, r2}
    NoRider = NoRider
    NoOrder = NoOrder
    JobThreads = {j1}
    RequestThreads = {q1}
    Modes = {"COD", "ONLINE"}
    Edits <- NoEdits
    MaxAttempts = 2
    AttemptBound = 3
    MaxCrashes = 1
    MaxEdits = 0
PROPERTIES
    Answered
    SearchGoesOn
    PaidOrderReachesSeller
    StockReturned
CHECK_DEADLOCK FALSE
