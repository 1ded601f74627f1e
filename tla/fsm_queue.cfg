SPECIFICATION ThreadsSpec
CONSTANTS
    Customers = {c1, c2, c3, c4}
    MAX_FREESEATS = 2
    c1 = c1
    c2 = c2
    c3 = c3
    c4 = c4
    alpha = alpha
    num = num
    Producers = {alpha, num}
    nqueues = 2
    MaxEvents = 4
    Serial = FALSE
    NOBODY = NOBODY
    Sizes <- MCSizes
INVARIANT NoLostEvent
CHECK_DEADLOCK FALSE
