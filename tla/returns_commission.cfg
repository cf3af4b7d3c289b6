SPECIFICATION Spec
CONSTANTS
    t1 = t1
    t2 = t2
    a = a
    Threads = {t1, t2}
    Riders = {a}
    NoRider = NoRider
    MaxAttempts = 1
    MaxCodes = 3
    MaxOverlaps = 0
    MaxEdits = 0
    MaxFaults = 0
SYMMETRY Alike
INVARIANTS
    CommissionOnce
CHECK_DEADLOCK FALSE
