SPECIFICATION Spec
CONSTANTS
    c1 = c1
    c2 = c2
    Ctxts = {c1}
    NULL = NULL
    ThreadCount = 1
    MAX_BUFF_SIZE = 3
    MaxBytes = 3
    MaxCtrl = 1
    Failures = {"port", "thread", "ioctxt", "assoc", "post"}
    Timeouts = TRUE
    OneAtATime = TRUE
INVARIANTS EchoIsPrefix IInv
PROPERTIES NoFreeInFlight ImplementsEchoService
CHECK_DEADLOCK FALSE
