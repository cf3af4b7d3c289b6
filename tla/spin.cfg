SPECIFICATION FairSpec
CONSTANTS
    k1 = k1
    k2 = k2
    c1 = c1
    p1 = p1
    p2 = p2
    Clicks = {k1, k2}
    Customers = {c1}
    Owner <- Owners
    Prizes = {p1, p2}
    NoPrize = NoPrize
    None = None
    Unlimited = Unlimited
    Totals = {1}
    Quantity <- OneOfTheFirst
    PerCustomer <- OneEach
    Blank = TRUE
    MaxSpins = 1
    LastDay = 2
    Threads = {t1, t2}
    MaxFaults = 1
    MaxEdits = 1
INVARIANTS
    PrizesLimited
PROPERTIES
    PromiseKept
    PlayedIsTold
CHECK_DEADLOCK FALSE
