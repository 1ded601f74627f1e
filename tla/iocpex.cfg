SPECIFICATION Spec
CONSTANTS
    c1 = c1
    c2 = c2
    l0 = l0
    Ctxts = {c1, l0}
    Listen = l0
    NULL = NULL
    ThreadCount = 2
    MAX_BUFF_SIZE = 2
    AddrSize = 1
    ZeroBytes = {}
    MaxBytes = 3
    MaxCtrl = 1
    Failures = {"port", "thread", "socket", "bind", "ioctl", "option", "ctxt", "assoc"}
    OneAtATime = TRUE
INVARIANTS OneOperation AcceptGoesOn 
PROPERTIES ImplementsEchoService
CHECK_DEADLOCK FALSE
