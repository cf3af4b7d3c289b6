SPECIFICATION Spec
CONSTANTS
    c1 = c1
    c2 = c2
    t1 = t1
    t2 = t2
    i1 = i1
    i2 = i2
    s = s
    None = None
    Checkouts <- TwoCheckouts
    Shared <- FirstCheckout
    Threads <- TwoThreads
    Referrals <- TwoReferrals
    Spins <- OneSpin
    MaxUnits = 2
    Limit = 1
    MaxReferrals = 1
    RestoreOnCancel = TRUE
    RestoreOnRefund = TRUE
    MaxTroubles = 1
SYMMETRY Symmetry
INVARIANTS
    UnitsHonest
    RewardBacked
    RewardComesBack
    ReferralLimit
CHECK_DEADLOCK FALSE
