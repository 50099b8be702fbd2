CONSTANTS
    DataSources <- TwoSources
    Cache = "cache"
    StatementCount = 3
    DisplayCount = 2
    UndefinedNames = FALSE
    Explains = {TRUE, FALSE}
SPECIFICATION Spec
INVARIANTS FirstSubgraphsEvaluable OneLossPerFailure
PROPERTY DisplaysOfGetsEnd
CHECK_DEADLOCK FALSE
