CONSTANTS
    Memories = {1, 2}
    Versions = {1, 2}
    MaxAttempts = 2
    BackoffBase = 1
    ActAttempts = 1
    MaxRows = 2
    Convs = {"A", "B"}
    ConvOf <- MCConvOf
    Requested = {2}
SPECIFICATION MCSpec
PROPERTY DeadEndsTheWait
CHECK_DEADLOCK FALSE
