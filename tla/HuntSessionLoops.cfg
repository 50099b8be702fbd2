CONSTANTS
    DataSources <- TwoSources
    Cache = "cache"
    StatementCount = 2
    DisplayCount = 1
    UndefinedNames = FALSE
    Explains = {FALSE}
SPECIFICATION Spec
PROPERTY EveryDisplayEnds
CHECK_DEADLOCK FALSE
