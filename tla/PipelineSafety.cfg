CONSTANTS
    q1 = q1
    q2 = q2
    Pool = Pool
    Queries <- TwoQueries
    TranslatorCount = 2
    MaxPages = 2
    PipeCapacity = 2
    MaxTroubles = 1
    MayDie <- NoneDies
SYMMETRY QuerySymmetry
SPECIFICATION SafetySpec
INVARIANTS StopsAfterData AtMostOnce OkMeansComplete NothingLeftToJoin
CHECK_DEADLOCK FALSE
