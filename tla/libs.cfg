SPECIFICATION LibrariesSpec
CONSTANTS
    maxlogsize = 4
    minlogsize = 1
    HdrSize = 1
    Size <- MCSize
    Requests = {0, 1, 3, 7, 15}
    MaxSplits = 8
    Keys = {0, 1, 2, 3, 5}
    Data = {"a", "b"}
    NULL = NULL
    Hash <- MCHash
    InitSize = 1
    ht_factor = 1
    MaxSize = 4
    MaxGrows = 4
    s1 = s1
    s2 = s2
    s3 = s3
    States = {s1, s2, s3}
    Evts = {1}
    StKeys <- MCStKeys
    MaxKey = 3
    NoState = NoState
    BufSize = 5
    MaxText = 6
    ArgsFromRight = TRUE
INVARIANTS TypesOK Tiled FlagsTrue Coalesced  CountersAgree  MarksAreTrue StripsComments
PROPERTIES CallsReturn ImplementsDictionary
CHECK_DEADLOCK FALSE
