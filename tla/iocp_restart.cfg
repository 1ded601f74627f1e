SPECIFICATION Spec
CONSTANTS
    c1 = c1
    c2 = c2
    Ctxts = {c1, c2}
    NULL = NULL
    ThreadCount = 2
    MAX_BUFF_SIZE = 1
    MaxBytes = 0
    MaxCtrl = 1
    Failures = {"thread", "socket", "bind", "accept", "ctxt"}
    Timeouts = FALSE
    OneAtATime = TRUE
SYMMETRY Symmetry
INVARIANTS CleanShutdown 
CHECK_DEADLOCK FALSE
