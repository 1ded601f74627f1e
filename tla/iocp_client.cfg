SPECIFICATION FairSpec
CONSTANTS
    nTotalThreads = 2
    nBufSize = 3
    ToServer = 1
    ServerBuf = 1
    ToClient = 1
    MaxCtrl = 1
    Failures = {"connect", "thread", "server"}
INVARIANTS RoundsApart
PROPERTIES  RoundCompletes 
CHECK_DEADLOCK FALSE
