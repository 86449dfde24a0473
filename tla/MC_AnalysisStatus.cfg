CONSTANTS
    MaxVersion = 3
    MaxReconnects = 1
SPECIFICATION FairSpec
INVARIANTS
    TypeOK
    SettledStatusCurrent
PROPERTIES
    AnalysisEnds
CHECK_DEADLOCK FALSE
