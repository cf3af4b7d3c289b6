SPECIFICATION Spec
CONSTANTS
    r1 = r1
    r2 = r2
    r3 = r3
    ann = ann
    bob = bob
    a = a
    b = b
    k1 = k1
    k2 = k2
    Requests = {r1, r2, r3}
    Customers = {ann, bob}
    Caller <- Calls
    Keys = {k1, k2}
    NoKey = NoKey
    Items = {a, b}
    Wants <- OverlappingItems
    Supply = 2
    PromptKeys = {k2}
    MaxCrashes = 1
SYMMETRY CallSymmetry
INVARIANTS
    AnswerHasOrder
    RetryOpensNothing
PROPERTIES
    PromiseKept
CHECK_DEADLOCK FALSE
