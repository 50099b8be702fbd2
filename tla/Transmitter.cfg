CONSTANTS
    MaxMatched = 4
    RetrievalBatch = 2
    Limits = {0, 1, 3}
SPECIFICATION Spec
INVARIANTS TypeOK EachRecordOnce WithinLimit SilentMeansComplete OnlyFailedStatusAbandonsSearch
PROPERTIES ImplementsSource Terminates
CHECK_DEADLOCK FALSE
