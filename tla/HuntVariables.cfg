CONSTANTS
    x = x
    y = y
    Names <- TwoNames
    Types = {"process", "file"}
    DataSources = {"edr"}
    DebugMode = FALSE
    MaxStatements = 4
SYMMETRY NameSymmetry
SPECIFICATION Spec
INVARIANTS VariablesKeepTheirValues StructsMatchViews FindReadsItsVariable
CHECK_DEADLOCK FALSE
