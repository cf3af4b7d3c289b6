SPECIFICATION Spec
CONSTANTS
    t1 = t1
    t2 = t2
    a = a
    Threads = {t1, t2}
    Riders = {a}
    NoRider = NoRider
    MaxAttempts = 1
    MaxCodes = 3
    MaxOverlaps = 1
    MaxEdits = 1
    MaxFaults = 1
SYMMETRY Alike
INVARIANTS
    DeliveredOnce
    CodeUsedOnce
    RefundOnce
    PassedIsRefunded
CHECK_DEADLOCK FALSE
