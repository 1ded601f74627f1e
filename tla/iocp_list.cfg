SPECIFICATION Spec
CONSTANTS
    c1 = c1
    c2 = c2
    Ctxts = {c1, c2}
    NULL = NULL
    ThreadCount = 1
    MAX_BUFF_SIZE = 1
    MaxBytes = 1
    MaxCtrl = 1
    Failures = {}
    Timeouts = FALSE
    OneAtATime = FALSE
INVARIANT AllOnList
CHECK_DEADLOCK FALSE
