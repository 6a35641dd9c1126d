CONSTANTS
    Memories = {1, 2, 3}
    Versions = {1}
    MaxAttempts = 1
    BackoffBase = 1
    ActAttempts = 2
    BatchSize = 2
    FanOut = 2
    EmbedConcurrency = 2
    MaxWaves = 2
    MaxFaults = 1
SPECIFICATION BatchSpec
INVARIANTS STypeOK ResumePointSafe NoSilentDrop NoLimbo SiblingsDisjoint
PROPERTY LedgerSpec
