SPECIFICATION FairSpec
CONSTANTS
    c1 = c1
    c2 = c2
    l0 = l0
    Ctxts = {c1, l0}
    Listen = l0
    NULL = NULL
    ThreadCount = 2
    MAX_BUFF_SIZE = 1
    AddrSize = 0
    ZeroBytes = {}
    MaxBytes = 1
    MaxCtrl = 1
    Failures = {"post", "socket", "option"}
    OneAtATime = TRUE
PROPERTIES EchoServed EventEndsPass
CHECK_DEADLOCK FALSE
