CONSTANTS
    UnitSq = 25
    Window = 3
    NoTime <- MCNoTime
    MaxBM25 = 2
    Cut = 2
    SkipDenom = 3
    Files <- MCFiles
    Flags <- MCFlags
    Lex <- MCLex
    Vec <- MCVec
SPECIFICATION ESpec
INVARIANTS RoundsPartitionTurns GoldIsIndexed EveryTurnCreditable
    FusionRespectsBothLists BoostCrossesWindowOnly ResultsAreMaximal
    CreditAtBestRank EveryQuestionCounted GateMeansAllGold
CHECK_DEADLOCK FALSE
