CONSTANTS
    Backend = "opensearch"
    Sources <- OneIndex
    Comparisons <- EventComparisons
    TimeRanges <- OneRange
    ExpOps = {}
    Limits = {1, 2}
    Offsets = {0}
    MaxVariables = 1
    MaxClauses = 2
SPECIFICATION Spec
INVARIANT QueryMeansProgram
CHECK_DEADLOCK FALSE
