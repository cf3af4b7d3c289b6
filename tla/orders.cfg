SPECIFICATION Spec
CONSTANTS
    Orders = {o1, o2}
    Items = {i1}
    Riders = {r1, r2}
    NoRider = NoRider
    NoOrder = NoOrder
    JobThreads = {j1, j2}
    RequestThreads = {q1}
    Modes = {"COD", "ONLINE"}
    Edits <- NoRiderEdits
    MaxAttempts = 1
    AttemptBound = 1
    MaxCrashes = 1
    MaxEdits = 1
SYMMETRY RiderSymmetry
INVARIANTS
    PaymentInv
    ReservationHonest
    GroupCancelledOnlyWhenDead
PROPERTIES
    FirstRiderKeeps
    PromiseKept
CHECK_DEADLOCK FALSE
