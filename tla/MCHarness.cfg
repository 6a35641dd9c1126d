CONSTANTS
    Memories = {1, 2}
    Versions = {1, 2}
    MaxAttempts = 1
    BackoffBase = 1
    ActAttempts = 1
    MaxRows = 3
    Convs = {"A", "B"}
    ConvOf <- MCConvOf
    Requested = {0, 2, 65537, 65536}
SPECIFICATION MCSpec
INVARIANTS HTypeOK CorpusCoversPoll
CHECK_DEADLOCK FALSE
