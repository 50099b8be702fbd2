CONSTANTS
    Backend = "sqlite"
    Sources <- OneSource
    Comparisons <- ProcessComparisons
    TimeRanges = {}
    ExpOps = {"AND", "OR"}
    Limits = {1, 2}
    Offsets = {0, 1}
    MaxVariables = 2
    MaxClauses = 2
SPECIFICATION Spec
INVARIANT QueryMeansProgram
CHECK_DEADLOCK FALSE
