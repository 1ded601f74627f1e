SPECIFICATION FairSpec
CONSTANTS
    c1 = c1
    c2 = c2
    Ctxts = {c1}
    NULL = NULL
    ThreadCount = 2
    MAX_BUFF_SIZE = 1
    MaxBytes = 1
    MaxCtrl = 1
    Failures = {"post"}
    Timeouts = FALSE
    OneAtATime = TRUE
PROPERTIES EchoServed ShutdownCompletes CtrlEndsService
CHECK_DEADLOCK FALSE
