CONSTANTS
    u1 = u1
    u2 = u2
    u3 = u3
    None = None
    Uuids <- MCUuids

SPECIFICATION FairSpec

INVARIANT TypeOK
INVARIANT SelectionValid
INVARIANT RunningTracked
PROPERTY CancelTakesEffect
PROPERTY ImplementsModelRegistry
