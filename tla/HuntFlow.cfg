CONSTANTS
    Names = {x, y}
    x = x
    y = y
    DataSources = {d}
    d = d
    MaxStatements = 4
SYMMETRY NameSymmetry
SPECIFICATION Spec
INVARIANTS ReadsLikeSequential NewestIsLastDefined OneCopyOfEachSource ShownInOrder
CHECK_DEADLOCK FALSE
