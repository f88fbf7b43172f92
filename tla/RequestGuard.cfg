SPECIFICATION Spec
CONSTANTS
    Message = {m1}
    Delivery = {d1, d2}
    MaxPast = 2
    MaxFuture = 1
    NonceTTL = 5
    MaxDelay = 1
    MaxRetries = 1
    Fault = {"unsent", "unacked"}
    Horizon = 8
    None = None
INVARIANTS TypeOK HandledAtMostOnce ReplayIsReal OnlyFreshClaims
CHECK_DEADLOCK FALSE
