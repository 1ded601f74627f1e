SPECIFICATION Spec
CONSTANTS
    Conns = {c1, c2}
    Listener = lst
    NONE = none
    MAXEVENTS = 2
    MaxReq = 2
    ReadSize = 1
    Addresses = 2
    Failures = {"bind", "accept", "full"}
    THREAD_MAX = 2
    MAX_CLIENT_SIZE = 1
INVARIANT ReadableIsClient
CHECK_DEADLOCK FALSE
