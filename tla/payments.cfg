SPECIFICATION LiveSpec
CONSTANTS
    p1 = p1
    p2 = p2
    o1 = o1
    o2 = o2
    k1 = k1
    t1 = t1
    t2 = t2
    Payments = {p1}
    Orders = {o1, o2}
    Keys = {k1}
    NoKey = NoKey
    NoPayment = NoPayment
    NoOrder = NoOrder
    Threads = {t1, t2}
    RawWebhook = TRUE
    MaxCrashes = 1
PROPERTIES
    PromiseKept
    VerifiedIsPaid
CHECK_DEADLOCK FALSE
