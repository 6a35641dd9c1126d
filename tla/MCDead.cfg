CONSTANTS
    Memories = {1, 2}
    Versions = {1}
    MaxAttempts = 2
    BackoffBase = 1
    ActAttempts = 2
    BatchSize = 2
    FanOut = 1
    EmbedConcurrency = 2
    MaxWaves = 1
    MaxFaults = 0
SPECIFICATION Spec
INVARIANT DeadLetteredNeverRetried
