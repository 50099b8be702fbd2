CONSTANTS
    q1 = q1
    q2 = q2
    Pool = Pool
    Queries <- OneQuery
    TranslatorCount = 2
    MaxPages = 2
    PipeCapacity = 1
    MaxTroubles = 2
    MayDie <- OneOfEachDies
SPECIFICATION Spec
PROPERTIES ImplementsStream Returns WorkersEnd
CHECK_DEADLOCK FALSE
